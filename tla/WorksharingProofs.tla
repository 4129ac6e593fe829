--------------------------- MODULE WorksharingProofs ---------------------------
(***************************************************************************)
(* Every iteration of a dispatched or doacross loop is executed once, for  *)
(* any number of threads, iterations, buffers and loops that follow each   *)
(* other without a barrier, and every schedule that gives chunks out by a  *)
(* shared counter or by the thread's number.  Two invariants: RingRight,   *)
(* which loop each shared buffer serves and how many threads are through   *)
(* with it, and PartRight, which iterations of a loop have been given out  *)
(* and which of these are still to be run, by whom.                        *)
(***************************************************************************)
EXTENDS Worksharing, FiniteSetTheorems, TLAPS

-----------------------------------------------------------------------------
(* The programs.  Stealing and analytical schedules are not among them.     *)

ByCounter == {"dynamic", "trapezoid", "guided", "guided_simd"}
ByThread == {"balanced", "static_chunked"}
Regular(p) ==
    /\ Len(p.does) \in Nat
    /\ \A q \in 1..Len(p.does) :
         /\ p.does[q].kind = "loop" =>
              /\ p.does[q].sched \in ByCounter \cup ByThread \cup {"greedy"}
              /\ p.does[q].tc \in Nat /\ p.does[q].chunk \in Nat \ {0}
         /\ p.does[q].kind = "doacross" => p.does[q].tc \in Nat

(* Places in a dispatched loop, and in a doacross loop once it has flags.   *)
Drawing == {"next", "guided_add", "guided_swap"}
Running == {"body", "deo", "region", "end", "chunk_end"}
Closing == {"reset", "publish"}
Entered == Drawing \cup Running \cup Closing \cup {"done", "leave"}
InLoop == Entered \cup {"buffer"}
Posting == {"allocate_flags", "await_flags", "doacross_wait", "doacross_body", "free_flags"}
InOther == {"claim", "not_single", "copy", "barrier", "make_lock", "set_lock", "critical"}
Places == {"idle", "doacross_buffer"} \cup InLoop \cup Posting \cup InOther

Last == Len(program.does)
LoopNumbers == {p \in 1..Last : program.does[p].kind = "loop"}
Doacrosses == {p \in 1..Last : program.does[p].kind = "doacross"}
L(p) == program.does[p]

(* The name of the buffer of a loop, and the buffer.                        *)
Number(p) == Cardinality({q \in 1..p : q \in LoopNumbers})
Index(p) == Number(p) - 1
BufferOf(p) == Slot(Index(p))
NameNow(p) == buf[BufferOf(p)].index

EnteredLoop(t, p) == at[t] > p \/ (at[t] = p /\ pc[t] \in Entered)
Through(t, p) == at[t] > p \/ (at[t] = p /\ pc[t] \in Closing \cup {"leave"})
Closes(t, p) == at[t] = p /\ pc[t] \in Closing
Publishes(t, p) == at[t] = p /\ pc[t] = "publish"
Finished(t, p) == Through(t, p) \/ (at[t] = p /\ pc[t] = "done")
AllThrough(p) == \A t \in Thread : Through(t, p)
Published(p) == \E t \in Thread : Publishes(t, p)

-----------------------------------------------------------------------------
(* The invariant.                                                           *)

IsLocal(r) ==
    /\ r = [lo |-> r.lo, hi |-> r.hi, i |-> r.i, k |-> r.k, victim |-> r.victim, tries |-> r.tries]
    /\ r.hi \in Int /\ r.i \in Int /\ r.k \in Int
IsPrivate(r) ==
    /\ r = [loop |-> r.loop, count |-> r.count, ub |-> r.ub, victim |-> r.victim, steal |-> r.steal,
            lower |-> r.lower, upper |-> r.upper, bumped |-> r.bumped]
    /\ r.count \in Nat
IsBuffer(r) ==
    /\ r = [index |-> r.index, iteration |-> r.iteration, done |-> r.done, ordered |-> r.ordered,
            daIndex |-> r.daIndex, flags |-> r.flags, posted |-> r.posted, daDone |-> r.daDone]
    /\ r.index \in Nat /\ r.iteration \in Nat /\ r.done \in Nat
Types ==
    /\ program \in Programs /\ Regular(program)
    /\ at \in [Thread -> 1..(Last + 1)] /\ pc \in [Thread -> Places] /\ dispIndex \in [Thread -> Nat]
    /\ local = [t \in Thread |-> local[t]] /\ \A t \in Thread : IsLocal(local[t])
    /\ priv = [t \in Thread |-> [b \in Slots |-> priv[t][b]]]
    /\ \A t \in Thread : \A b \in Slots : IsPrivate(priv[t][b])
    /\ buf = [b \in Slots |-> buf[b]] /\ \A b \in Slots : IsBuffer(buf[b]) /\ buf[b].index % Buffers = b
    /\ cur = [t \in Thread |-> cur[t]]
    /\ ran = [p \in 1..Last |-> ran[p]]

(* Where a thread is.                                                       *)
PlaceRight(t) ==
    /\ pc[t] # "idle" => at[t] <= Last
    /\ pc[t] \in InLoop <=> at[t] \in LoopNumbers /\ pc[t] # "idle"
    /\ pc[t] \in Posting \cup {"doacross_buffer"} <=> at[t] \in Doacrosses /\ pc[t] # "idle"
    /\ dispIndex[t] = Number(at[t] - 1) + (IF pc[t] \in InLoop THEN 1 ELSE 0)
    /\ pc[t] \in Entered \ {"leave"} => cur[t] = BufferOf(at[t])
    /\ pc[t] \in {"guided_add", "guided_swap"} =>
         Schedule(L(at[t])) \in {"guided", "guided_simd"} /\ L(at[t]).tc > 0
    /\ pc[t] = "guided_swap" =>
         local[t].k \in Nat /\ L(at[t]).tc - local[t].k >= GuidedThreshold(L(at[t]).chunk, n)
    /\ pc[t] = "body" => local[t].i <= local[t].hi
    /\ pc[t] = "buffer" => priv[t][BufferOf(at[t])].count = 0
    /\ pc[t] \in Entered /\ Schedule(L(at[t])) = "static_chunked" =>
         priv[t][BufferOf(at[t])].count % n = 0

(* Which loop a buffer serves, and how many threads are through with it.    *)
RingRight(p) ==
    /\ Index(p) < NameNow(p) => \A t \in Thread : Through(t, p) /\ ~Closes(t, p)
    /\ Index(p) > NameNow(p) => \A t \in Thread : ~EnteredLoop(t, p)
    /\ (\E t \in Thread : Closes(t, p)) => AllThrough(p)
    /\ \A t, u \in Thread : Closes(t, p) /\ Closes(u, p) => t = u
    /\ Published(p) => buf[BufferOf(p)].done = 0 /\ buf[BufferOf(p)].iteration = 0
    /\ Index(p) = NameNow(p) /\ ~Published(p) =>
         buf[BufferOf(p)].done = Cardinality({t \in Thread : Through(t, p)})

(* The iterations that have been given out: by a counter up to Reach, by a  *)
(* thread's number those whose turn it was.                                 *)
TrapezoidStart(l, k) ==
    LET p == Trapezoid(l.tc, l.chunk, n) IN (k * (2 * p.first - (k - 1) * p.less)) \div 2
Reach(l, k) ==
    CASE Schedule(l) = "dynamic" -> Least(l.tc, l.chunk * k)
      [] Schedule(l) = "trapezoid" ->
           IF k < Trapezoid(l.tc, l.chunk, n).cycles THEN Least(l.tc, TrapezoidStart(l, k)) ELSE l.tc
      [] OTHER -> Least(l.tc, k)
Frontier(p) ==
    IF Index(p) < NameNow(p) \/ Published(p) THEN L(p).tc
    ELSE IF Index(p) = NameNow(p) THEN Reach(L(p), buf[BufferOf(p)].iteration) ELSE 0

Turn(l, i, t, m) ==
    IF Schedule(l) = "balanced"
    THEN LET c == DispatchBalanced(l.tc, n, t) IN i \in c.init..c.limit /\ m = 0
    ELSE t = (i \div Chunk(l)) % n /\ m = (i \div Chunk(l)) - t
Had(t, p, m) ==
    at[t] > p \/ (at[t] = p /\ pc[t] \in Entered /\ m < priv[t][BufferOf(p)].count)

Gone(p, i) ==
    IF Schedule(L(p)) \in ByCounter THEN i < Frontier(p)
    ELSE \E t \in Thread : \E m \in Nat : Turn(L(p), i, t, m) /\ Had(t, p, m)

Served(t, p, i) ==
    IF Schedule(L(p)) \in ByCounter THEN Gone(p, i)
    ELSE \A m \in Nat : Turn(L(p), i, t, m) => Had(t, p, m)

Pending(t, p) ==
    CASE at[t] = p /\ pc[t] = "body" -> local[t].i..local[t].hi
      [] at[t] = p /\ pc[t] \in {"deo", "region", "end"} -> (local[t].i + 1)..local[t].hi
      [] OTHER -> {}

Iterations(p) == 0..(L(p).tc - 1)
PartRight(p) ==
    /\ ran[p] \in [Iterations(p) -> {0, 1}]
    /\ \A t \in Thread : \A i \in Pending(t, p) : i \in Iterations(p) /\ Gone(p, i) /\ ran[p][i] = 0
    /\ \A t, u \in Thread : t # u => Pending(t, p) \cap Pending(u, p) = {}
    /\ \A i \in Iterations(p) : Gone(p, i) => ran[p][i] = 1 \/ \E t \in Thread : i \in Pending(t, p)
    /\ \A i \in Iterations(p) : ran[p][i] = 1 => Gone(p, i)
    /\ \A t \in Thread : Finished(t, p) => \A i \in Iterations(p) : Served(t, p, i)

(* Doacross loops: thread t runs the iterations t, t + n, ...               *)
PostRight(t) ==
    /\ pc[t] \in Posting => local[t].i \in Nat /\ local[t].i % n = t
    /\ pc[t] = "doacross_body" => local[t].i < L(at[t]).tc
    /\ pc[t] = "free_flags" => local[t].i >= L(at[t]).tc
HasRun(t, p, i) == at[t] > p \/ (at[t] = p /\ pc[t] \in Posting /\ i < local[t].i)
DoacrossRight(p) ==
    ran[p] = [i \in Iterations(p) |-> IF HasRun(i % n, p, i) THEN 1 ELSE 0]

Inv ==
    /\ Types
    /\ \A t \in Thread : PlaceRight(t) /\ PostRight(t)
    /\ \A p \in LoopNumbers : RingRight(p) /\ PartRight(p)
    /\ \A p \in Doacrosses : DoacrossRight(p)

-----------------------------------------------------------------------------
(* Arithmetic.                                                              *)

LEMMA DivMod ==
    ASSUME NEW d \in Nat \ {0}, NEW a \in Nat
    PROVE  /\ a \div d \in Nat /\ a % d \in 0..(d - 1) /\ a = d * (a \div d) + (a % d)
<1>1. a \div d \in Nat
  OBVIOUS
<1>2. a % d \in 0..(d - 1)
  OBVIOUS
<1>3. a = d * (a \div d) + (a % d)
  OBVIOUS
<1> QED
  BY <1>1, <1>2, <1>3

LEMMA Divide ==
    ASSUME NEW d \in Nat \ {0}, NEW a \in Nat
    PROVE  \E q, r \in Nat : q = a \div d /\ r = a % d /\ r < d /\ a = d * q + r
<1>1. a \div d \in Nat /\ a % d \in Nat /\ a % d < d /\ a = d * (a \div d) + (a % d)
  BY DivMod
<1> QED
  BY <1>1

LEMMA Times ==
    ASSUME NEW a \in Nat, NEW b \in Nat, NEW c \in Nat, a >= b
    PROVE  a * c >= b * c /\ c * a >= c * b /\ a * c \in Nat /\ b * c \in Nat /\ c * b = b * c /\ c * a = a * c
<1>1. PICK d \in Nat : a = b + d
  OBVIOUS
<1>2. a * c = b * c + d * c /\ d * c \in Nat /\ b * c \in Nat /\ c * b = b * c /\ c * a = a * c
  BY <1>1
<1> QED
  BY <1>2

(* Numbers with the same remainder are at least the divisor apart.          *)
LEMMA ModGap ==
    ASSUME NEW d \in Nat \ {0}, NEW a \in Nat, NEW b \in Nat, a % d = b % d, a < b
    PROVE  b >= a + d
<1>1. PICK q \in Nat : q = a \div d /\ a = d * q + (a % d)
  BY DivMod
<1>2. PICK r \in Nat : r = b \div d /\ b = d * r + (b % d)
  BY DivMod
<1>3. a % d \in 0..(d - 1)
  BY DivMod
<1>4. PICK x \in Int, y \in Int : x = d * q /\ y = d * r
  OBVIOUS
<1>5. x < y /\ b - a = y - x
  BY <1>1, <1>2, <1>3, <1>4
<1>6. q < r
  <2>1. q >= r => d * q >= d * r
    OBVIOUS
  <2> QED
    BY <2>1, <1>4, <1>5
<1>7. PICK s \in Nat : r = q + 1 + s
  BY <1>6
<1>8. d * r = d * q + d + d * s /\ d * s \in Nat
  BY <1>7
<1> QED
  BY <1>4, <1>5, <1>8

(* Trapezoidal chunks: the k-th one starts where the one before ended, has  *)
(* an iteration, and the last of them reaches the end of the loop.          *)
LEMMA Trapezoids ==
    ASSUME NEW tc \in Nat, NEW chunk \in Nat \ {0}, n \in Nat, n >= 2
    PROVE  LET p == Trapezoid(tc, chunk, n) IN
           /\ p.first \in Nat /\ p.first >= 1 /\ p.cycles \in Nat /\ p.cycles >= 2 /\ p.less \in Nat
           /\ p.first - (p.cycles - 1) * p.less >= 1
           /\ p.cycles * (p.first + (p.first - (p.cycles - 1) * p.less)) >= 2 * tc
<1> DEFINE first  == Most(tc \div (2 * n), 1)
           final  == Least(Most(chunk, 1), first)
           cycles == Most(CeilDiv(2 * tc, first + final), 2)
           less == (first - final) \div (cycles - 1)
<1>1. first \in Nat /\ first >= 1
  <2>1. 2 * n \in Nat \ {0}
    OBVIOUS
  <2>2. tc \div (2 * n) \in Nat
    BY <2>1, DivMod
  <2> HIDE DEF first
  <2> QED
    BY <2>2 DEF Most, first
<1>2. final \in Nat /\ final >= 1 /\ final <= first
  BY <1>1 DEF Most, Least
<1> HIDE DEF first, final
<1> DEFINE sum == first + final
           up  == 2 * tc + sum - 1
<1>3. sum \in Nat \ {0} /\ up \in Nat
  BY <1>1, <1>2
<1>4. PICK c \in Nat : c = up \div sum /\ up = sum * c + (up % sum) /\ up % sum \in 0..(sum - 1)
  BY <1>3, DivMod
<1>5. CeilDiv(2 * tc, first + final) = c
  BY <1>4 DEF CeilDiv
<1>6. sum * c >= 2 * tc
  <2>1. PICK x \in Int : x = sum * c
    BY <1>3
  <2> QED
    BY <2>1, <1>3, <1>4
<1>7. cycles \in Nat /\ cycles >= 2 /\ cycles >= c
  BY <1>5 DEF Most
<1> HIDE DEF cycles
<1>8. cycles * sum >= 2 * tc
  <2>1. cycles * sum >= c * sum
    BY <1>3, <1>7, Times
  <2>2. c * sum = sum * c
    BY <1>3
  <2> QED
    BY <1>3, <1>6, <1>7, <2>1, <2>2
<1>9. PICK d \in Nat \ {0} : d = cycles - 1
  BY <1>7
<1>10. first - final \in Nat
  BY <1>1, <1>2
<1>11. PICK q \in Nat : q = (first - final) \div d /\ first - final = d * q + ((first - final) % d)
                       /\ (first - final) % d \in 0..(d - 1)
  BY <1>9, <1>10, DivMod
<1>12. less = q
  BY <1>9, <1>11
<1>13. PICK x \in Int : x = d * q
  BY <1>9
<1>14. first - x >= final
  BY <1>1, <1>2, <1>10, <1>11, <1>13
<1>15. (cycles - 1) * less = x
  BY <1>9, <1>12, <1>13
<1> HIDE DEF less
<1>16. first + (first - x) >= sum
  BY <1>1, <1>2, <1>14
<1>17. cycles * (first + (first - x)) >= cycles * sum
  BY <1>1, <1>3, <1>7, <1>16
<1>18. Trapezoid(tc, chunk, n) = [first |-> first, cycles |-> cycles, less |-> less]
  BY DEF Trapezoid, first, final, cycles, less
<1>19. first - (cycles - 1) * less >= 1
  BY <1>2, <1>14, <1>15, <1>1
<1>20. cycles * (first + (first - (cycles - 1) * less)) >= 2 * tc
  <2>1. PICK y \in Int : y = cycles * (first + (first - x))
    BY <1>1, <1>7
  <2>2. PICK z \in Int : z = cycles * sum
    BY <1>3, <1>7
  <2>3. y >= 2 * tc
    BY <2>1, <2>2, <1>8, <1>17
  <2> QED
    BY <2>1, <2>3, <1>15
<1> QED
  BY <1>1, <1>7, <1>12, <1>18, <1>19, <1>20

LEMMA Remainder ==
    ASSUME NEW d \in Nat \ {0}, NEW q \in Int, NEW r \in 0..(d - 1), NEW a \in Int, a = d * q + r
    PROVE  a % d = r /\ a \div d = q
OBVIOUS

LEMMA OneTurn ==
    ASSUME NEW d \in Nat \ {0}, NEW a \in Nat
    PROVE  (a + d) % d = a % d
<1>1. PICK q \in Nat : q = a \div d /\ a = d * q + (a % d)
  BY DivMod
<1>2. PICK p \in Int : p = q + 1
  OBVIOUS
<1>3. PICK r \in 0..(d - 1) : r = a % d
  BY DivMod
<1>4. d * p = d * q + d
  BY <1>2
<1>5. PICK b \in Int : b = a + d
  OBVIOUS
<1>6. b = d * p + r
  BY <1>1, <1>3, <1>4, <1>5
<1>7. b % d = r
  BY <1>6, Remainder
<1> QED
  BY <1>3, <1>5, <1>7

LEMMA Shifted ==
    ASSUME NEW d \in Nat \ {0}, NEW a \in Nat, a % d = 0, NEW t \in 0..(d - 1)
    PROVE  (a + t) % d = t
<1>1. PICK q \in Nat : a = d * q
  <2>1. PICK q \in Nat, r \in Nat : q = a \div d /\ r = a % d /\ r < d /\ a = d * q + r
    BY Divide
  <2> QED
    BY <2>1
<1>2. PICK p \in Int : p = q
  OBVIOUS
<1>3. PICK b \in Int : b = a + t
  OBVIOUS
<1>4. PICK r \in 0..(d - 1) : r = t
  OBVIOUS
<1>5. b = d * p + r
  BY <1>1, <1>2, <1>3, <1>4
<1>6. b % d = r
  BY <1>5, Remainder
<1> QED
  BY <1>3, <1>4, <1>6

-----------------------------------------------------------------------------
(* Chunks that follow one another.                                          *)

Follows(l, a, b, c) ==
    /\ a \in 0..l.tc /\ b \in 0..l.tc /\ c.init \in Int /\ c.limit \in Int
    /\ IF c.init <= c.limit THEN a = c.init /\ b = c.limit + 1 ELSE a = l.tc /\ b = l.tc

LEMMA NextChunk ==
    ASSUME NEW l, l.tc \in Nat, NEW init \in Nat, NEW size \in Nat \ {0}
    PROVE  Follows(l, Least(l.tc, init), Least(l.tc, init + size), ChunkFrom(l.tc, init, size))
<1>1. CASE init <= l.tc - 1
  <2>1. ChunkFrom(l.tc, init, size) =
          [init |-> init, limit |-> Least(init + size - 1, l.tc - 1), last |-> init + size - 1 >= l.tc - 1]
    BY <1>1 DEF ChunkFrom
  <2> QED
    BY <1>1, <2>1 DEF Follows, Least
<1>2. CASE ~(init <= l.tc - 1)
  <2>1. ChunkFrom(l.tc, init, size) = NoChunk
    BY <1>2 DEF ChunkFrom
  <2> QED
    BY <1>2, <2>1 DEF Follows, Least, NoChunk
<1> QED
  BY <1>1, <1>2

LEMMA NextDynamic ==
    ASSUME NEW l, l.tc \in Nat, l.chunk \in Nat \ {0}, NEW k \in Nat, Schedule(l) = "dynamic"
    PROVE  Follows(l, Reach(l, k), Reach(l, k + 1), CounterChunk(l, k))
<1>1. l.chunk * k \in Nat /\ l.chunk * (k + 1) = l.chunk * k + l.chunk
  OBVIOUS
<1>2. CounterChunk(l, k) = ChunkFrom(l.tc, l.chunk * k, l.chunk)
  BY DEF CounterChunk, DynamicChunk
<1>3. Reach(l, k) = Least(l.tc, l.chunk * k) /\ Reach(l, k + 1) = Least(l.tc, l.chunk * k + l.chunk)
  BY <1>1 DEF Reach
<1> QED
  BY <1>1, <1>2, <1>3, NextChunk

LEMMA Halves ==
    ASSUME NEW a \in Int, NEW b \in Int
    PROVE  /\ a >= 0 => a \div 2 \in Nat
           /\ b >= a + 2 => b \div 2 >= a \div 2 + 1
           /\ b >= 2 * a => b \div 2 >= a
           /\ a \div 2 \in Int /\ b \div 2 \in Int
OBVIOUS

LEMMA NextTrapezoid ==
    ASSUME NEW l, l.tc \in Nat, l.chunk \in Nat \ {0}, NEW k \in Nat, Schedule(l) = "trapezoid",
           n \in Nat, n >= 2
    PROVE  Follows(l, Reach(l, k), Reach(l, k + 1), CounterChunk(l, k))
<1> DEFINE p == Trapezoid(l.tc, l.chunk, n)
<1>1. PICK first \in Nat, cycles \in Nat, less \in Nat :
        /\ first = p.first /\ cycles = p.cycles /\ less = p.less /\ first >= 1 /\ cycles >= 2
        /\ first - (cycles - 1) * less >= 1
        /\ cycles * (first + (first - (cycles - 1) * less)) >= 2 * l.tc
  BY Trapezoids
<1> DEFINE Sum(j) == j * (2 * first - (j - 1) * less)
<1>2. \A j : TrapezoidStart(l, j) = Sum(j) \div 2
  BY <1>1 DEF TrapezoidStart
<1>3. CounterChunk(l, k) = TrapezoidChunk(l.tc, l.chunk, n, k)
  BY DEF CounterChunk
<1>4. CASE k < cycles
  <2>1. k * less <= (cycles - 1) * less /\ k * less \in Nat /\ (cycles - 1) * less \in Nat
    BY <1>1, <1>4, Times
  <2>2. PICK x \in Int : x = k * less
    OBVIOUS
  <2>3. PICK z \in Int : z = (cycles - 1) * less
    OBVIOUS
  <2>4. first - x >= 1 /\ x >= 0
    BY <1>1, <2>1, <2>2, <2>3
  <2>5. (k - 1) * less = x - less
    BY <2>2
  <2>6. Sum(k) = k * (2 * first - x + less)
    BY <2>2, <2>5
  <2>7. Sum(k + 1) = (k + 1) * (2 * first - x)
    BY <2>2
  <2>0. 2 * first - x \in Int
    OBVIOUS
  <2>8. PICK g \in Int : g = 2 * first - x
    <3> HIDE <1>1, <2>2
    <3> QED
      BY <2>0
  <2>9. Sum(k) = k * g + x /\ Sum(k + 1) = k * g + g
    <3>1. Sum(k) = k * (g + less)
      BY <2>6, <2>8
    <3>2. k * (g + less) = k * g + k * less
      BY <2>8
    <3>3. Sum(k + 1) = (k + 1) * g
      BY <2>7, <2>8
    <3> HIDE DEF Sum
    <3> QED
      BY <2>2, <2>8, <3>1, <3>2, <3>3
  <2>10. g >= 2 /\ g - x >= 2
    BY <2>4, <2>8
  <2>11. PICK h \in Int : h = k * g
    OBVIOUS
  <2>12. h >= 0
    BY <2>10, <2>11, Times
  <2>13. Sum(k) >= 0 /\ Sum(k + 1) >= Sum(k) + 2 /\ Sum(k) \in Int /\ Sum(k + 1) \in Int
    BY <2>4, <2>9, <2>10, <2>11, <2>12
  <2> DEFINE init == TrapezoidStart(l, k)
             next == TrapezoidStart(l, k + 1)
  <2> HIDE DEF Sum
  <2>14. init \in Nat /\ next \in Int /\ next >= init + 1
    BY <1>2, <2>13, Halves
  <2>15. CounterChunk(l, k) = ChunkFrom(l.tc, init, next - init)
    <3>1. next = ((k + 1) * (2 * p.first - k * p.less)) \div 2
      BY DEF TrapezoidStart
    <3> HIDE DEF p, next
    <3> QED
      BY <1>1, <1>3, <1>4, <3>1 DEF TrapezoidChunk, TrapezoidStart, p
  <2> HIDE DEF init, next
  <2>16. Follows(l, Least(l.tc, init), Least(l.tc, next), CounterChunk(l, k))
    <3>1. next - init \in Nat \ {0} /\ init + (next - init) = next
      BY <2>14
    <3> QED
      BY <2>14, <2>15, <3>1, NextChunk
  <2>17. Reach(l, k) = Least(l.tc, init)
    BY <1>1, <1>4 DEF Reach, init
  <2>18. Reach(l, k + 1) = Least(l.tc, next)
    <3>1. CASE k + 1 < cycles
      BY <1>1, <3>1 DEF Reach, next
    <3>2. CASE ~(k + 1 < cycles)
      <4>1. k + 1 = cycles
        BY <1>4, <3>2
      <4>2. Sum(cycles) >= 2 * l.tc /\ Sum(cycles) \in Int
        <5>1. Sum(cycles) = cycles * (first + (first - (cycles - 1) * less))
          BY DEF Sum
        <5> QED
          BY <1>1, <5>1
      <4>3. next >= l.tc
        BY <1>2, <4>1, <4>2, Halves DEF next
      <4> QED
        BY <1>1, <2>14, <3>2, <4>3 DEF Reach, Least
    <3> QED
      BY <3>1, <3>2
  <2> QED
    BY <2>16, <2>17, <2>18
<1>5. CASE ~(k < cycles)
  <2>1. CounterChunk(l, k) = NoChunk
    BY <1>1, <1>3, <1>5 DEF TrapezoidChunk
  <2>2. Reach(l, k) = l.tc /\ Reach(l, k + 1) = l.tc
    BY <1>1, <1>5 DEF Reach
  <2> QED
    BY <2>1, <2>2 DEF Follows, NoChunk
<1> QED
  BY <1>4, <1>5

LEMMA RoundedUp ==
    ASSUME NEW q \in Nat, NEW c \in Nat \ {0}
    PROVE  RoundUp(q, c) \in Nat /\ RoundUp(q, c) >= q /\ RoundUp(q, c) <= q + c
<1> DEFINE u == q + c - 1
<1>1. u \in Nat
  OBVIOUS
<1>2. PICK k \in Nat : k = u \div c /\ u = c * k + (u % c) /\ u % c \in 0..(c - 1)
  BY <1>1, DivMod
<1>3. PICK x \in Nat : x = c * k
  OBVIOUS
<1>4. RoundUp(q, c) = x
  BY <1>2, <1>3 DEF RoundUp
<1> QED
  BY <1>2, <1>3, <1>4

(* Guided schedules count iterations.                                       *)
LEMMA NextGuided ==
    ASSUME NEW l, l.tc \in Nat, l.chunk \in Nat \ {0}, NEW k \in Nat,
           Schedule(l) \in {"guided", "guided_simd"}, n \in Nat, n >= 2
    PROVE  /\ Follows(l, Reach(l, k), Reach(l, k + l.chunk), ChunkFrom(l.tc, k, l.chunk))
           /\ l.tc - k >= GuidedThreshold(l.chunk, n) =>
                \A size \in {GuidedSize(l.tc - k, n), GuidedSimdSize(l.tc - k, n, l.chunk)} :
                  /\ size \in Nat \ {0}
                  /\ Follows(l, Reach(l, k), Reach(l, k + size), [init |-> k, limit |-> k + size - 1])
<1>1. \A j : Reach(l, j) = Least(l.tc, j)
  BY DEF Reach
<1>2. Follows(l, Reach(l, k), Reach(l, k + l.chunk), ChunkFrom(l.tc, k, l.chunk))
  BY <1>1, NextChunk
<1>3. ASSUME l.tc - k >= GuidedThreshold(l.chunk, n)
      PROVE  \A size \in {GuidedSize(l.tc - k, n), GuidedSimdSize(l.tc - k, n, l.chunk)} :
               /\ size \in Nat \ {0}
               /\ Follows(l, Reach(l, k), Reach(l, k + size), [init |-> k, limit |-> k + size - 1])
  <2> DEFINE rest == l.tc - k
             d == 2 * n
             g == GuidedSize(rest, n)
             c == l.chunk
  <2>1. d \in Nat \ {0} /\ d >= 4 /\ rest \in Int /\ c \in Nat \ {0}
    OBVIOUS
  <2>2. rest >= d * (c + 1)
    BY <1>3 DEF GuidedThreshold
  <2> HIDE DEF rest, d, c
  <2>3. PICK y \in Int : y = d * (c + 1)
    BY <2>1
  <2>4. y >= d + d * c /\ d * c >= 4 * c /\ d * c \in Int
    BY <2>1, <2>3, Times
  <2>5. rest >= 4 * c + 4 /\ rest \in Nat
    BY <2>1, <2>2, <2>3, <2>4
  <2>6. PICK q \in Nat : q = rest \div d /\ rest = d * q + (rest % d) /\ rest % d \in 0..(d - 1)
    BY <2>1, <2>5, DivMod
  <2>7. g = q
    BY <2>6 DEF GuidedSize, d
  <2>8. q >= 1 /\ 4 * q <= rest
    <3>1. q = 0 => FALSE
      BY <2>1, <2>2, <2>3, <2>4, <2>6
    <3>2. d * q >= 4 * q /\ d * q \in Int
      BY <2>1, Times
    <3>3. PICK z \in Int : z = d * q
      BY <3>2
    <3> QED
      BY <2>1, <2>6, <3>1, <3>2, <3>3
  <2>9. PICK r \in Nat : GuidedSimdSize(rest, n, c) = r /\ r >= q /\ r <= q + c
    <3>1. GuidedSimdSize(rest, n, c) = RoundUp(q, c)
      BY <2>7 DEF GuidedSimdSize
    <3> QED
      BY <3>1, <2>1, RoundedUp
  <2>10. ASSUME NEW size \in {q, r}
         PROVE  /\ size \in Nat \ {0} /\ k + size <= l.tc
    BY <2>5, <2>8, <2>9, <2>1 DEF rest
  <2> QED
    BY <1>1, <2>7, <2>9, <2>10 DEF Follows, Least, rest, c
<1> QED
  BY <1>2, <1>3

-----------------------------------------------------------------------------
(* Shares by the thread's number.                                           *)

ShareStart(tc, k, id) == id * (tc \div k) + Least(id, tc % k)

LEMMA Shares ==
    ASSUME NEW tc \in Nat, NEW k \in Nat \ {0}, NEW id \in 0..(k - 1)
    PROVE  /\ ShareStart(tc, k, id) \in Nat /\ ShareStart(tc, k, id + 1) \in Nat
           /\ ShareStart(tc, k, id + 1) <= tc
           /\ DispatchBalanced(tc, k, id).init \in Int /\ DispatchBalanced(tc, k, id).limit \in Int
           /\ \A i \in Int : DispatchBalanced(tc, k, id).init <= i /\ i <= DispatchBalanced(tc, k, id).limit
                               <=> ShareStart(tc, k, id) <= i /\ i < ShareStart(tc, k, id + 1)
<1>1. PICK s \in Nat, e \in Nat : s = tc \div k /\ e = tc % k /\ e < k /\ tc = k * s + e
  BY DivMod
<1>2. PICK x \in Nat : x = id * s
  OBVIOUS
<1>3. (id + 1) * s = x + s
  BY <1>2
<1>4. ShareStart(tc, k, id) = x + Least(id, e)
  BY <1>1, <1>2 DEF ShareStart
<1>5. ShareStart(tc, k, id + 1) = x + s + Least(id + 1, e)
  BY <1>1, <1>3 DEF ShareStart
<1>6. PICK y \in Nat : y = k * s
  OBVIOUS
<1>7. x + s <= y
  <2>1. k >= id + 1 /\ id + 1 \in Nat
    OBVIOUS
  <2>2. k * s >= (id + 1) * s
    BY <2>1, Times
  <2> QED
    BY <1>3, <1>6, <2>2
<1>8. CASE tc < k
  <2>1. s = 0 /\ e = tc
    <3>1. s >= 1 => k * s >= k
      BY Times
    <3> QED
      BY <1>1, <1>6, <1>8, <3>1
  <2>2. x = 0
    BY <1>2, <2>1
  <2>3. DispatchBalanced(tc, k, id) =
          IF id < tc THEN [init |-> id, limit |-> id, last |-> id = tc - 1] ELSE NoChunk
    BY <1>8 DEF DispatchBalanced
  <2> QED
    BY <1>4, <1>5, <2>1, <2>2, <2>3 DEF Least, NoChunk
<1>9. CASE ~(tc < k)
  <2>1. DispatchBalanced(tc, k, id) =
          [init |-> x + Least(id, e), limit |-> x + Least(id, e) + s - (IF id < e THEN 0 ELSE 1),
           last |-> id = k - 1]
    BY <1>1, <1>2, <1>9 DEF DispatchBalanced
  <2>2. Least(id + 1, e) = Least(id, e) + (IF id < e THEN 1 ELSE 0) /\ Least(id, e) \in Nat
        /\ Least(id + 1, e) <= e
    BY DEF Least
  <2> QED
    BY <1>1, <1>4, <1>5, <1>6, <1>7, <2>1, <2>2
<1> QED
  BY <1>8, <1>9

LEMMA SharesApart ==
    ASSUME NEW tc \in Nat, NEW k \in Nat \ {0}, NEW id \in 0..(k - 1), NEW jd \in 0..(k - 1), id < jd
    PROVE  ShareStart(tc, k, id + 1) <= ShareStart(tc, k, jd)
<1>1. PICK s \in Nat, e \in Nat : s = tc \div k /\ e = tc % k /\ e < k /\ tc = k * s + e
  BY DivMod
<1>2. (id + 1) * s <= jd * s /\ (id + 1) * s \in Nat /\ jd * s \in Nat
  BY Times
<1>3. PICK x \in Nat, y \in Nat : x = (id + 1) * s /\ y = jd * s
  BY <1>2
<1> QED
  BY <1>1, <1>2, <1>3 DEF ShareStart, Least

LEMMA SharesCover ==
    ASSUME NEW tc \in Nat, NEW k \in Nat \ {0}, NEW i \in 0..(tc - 1)
    PROVE  \E id \in 0..(k - 1) : ShareStart(tc, k, id) <= i /\ i < ShareStart(tc, k, id + 1)
<1>1. PICK s \in Nat, e \in Nat : s = tc \div k /\ e = tc % k /\ e < k /\ tc = k * s + e
  BY DivMod
<1>2. PICK b \in Nat : b = e * (s + 1)
  OBVIOUS
<1>3. CASE i < b
  <2>1. PICK d \in Nat \ {0} : d = s + 1
    OBVIOUS
  <2>2. PICK id \in Nat, r \in Nat : id = i \div d /\ r = i % d /\ r < d /\ i = d * id + r
    BY DivMod
  <2>8. PICK x \in Nat : x = id * s
    OBVIOUS
  <2>3. d * id = x + id
    BY <2>1, <2>8
  <2>4. id < e
    <3>1. id >= e => id * d >= e * d
      BY Times
    <3>2. id * d = x + id /\ e * d = b
      BY <1>2, <2>1, <2>8
    <3> QED
      BY <1>3, <2>2, <2>3, <3>1, <3>2
  <2>5. (id + 1) * s = x + s
    BY <2>8
  <2>6. ShareStart(tc, k, id) = x + id /\ ShareStart(tc, k, id + 1) = x + s + id + 1
    <3>1. ShareStart(tc, k, id) = id * s + Least(id, e)
      BY <1>1 DEF ShareStart
    <3>2. ShareStart(tc, k, id + 1) = (id + 1) * s + Least(id + 1, e)
      BY <1>1 DEF ShareStart
    <3>3. Least(id, e) = id /\ Least(id + 1, e) = id + 1
      BY <2>4 DEF Least
    <3> QED
      BY <2>5, <2>8, <3>1, <3>2, <3>3
  <2>7. i = x + id + r /\ r <= s
    BY <2>1, <2>2, <2>3
  <2> QED
    BY <1>1, <2>4, <2>6, <2>7
<1>4. CASE ~(i < b)
  <2>1. PICK y \in Nat, z \in Nat : y = k * s /\ z = e * s
    OBVIOUS
  <2>2. b = z + e
    BY <1>2, <2>1
  <2>3. s # 0
    BY <1>1, <1>4, <2>1, <2>2
  <2>4. PICK q \in Nat : i - b = s * q + ((i - b) % s) /\ (i - b) % s \in 0..(s - 1)
    <3>1. i - b \in Nat /\ s \in Nat \ {0}
      BY <1>4, <2>3
    <3> QED
      BY <3>1, DivMod
  <2>0. PICK r \in Nat : r = (i - b) % s /\ r < s
    BY <2>4
  <2>5. PICK w \in Nat : w = s * q
    OBVIOUS
  <2>6. (e + q) * s = z + w /\ (e + q + 1) * s = z + w + s
    BY <2>1, <2>5
  <2>7. e + q < k
    <3>1. e + q >= k => (e + q) * s >= k * s
      BY Times
    <3> QED
      BY <1>1, <1>4, <2>1, <2>2, <2>4, <2>0, <2>5, <2>6, <3>1
  <2>8. ShareStart(tc, k, e + q) = z + w + e /\ ShareStart(tc, k, e + q + 1) = z + w + s + e
    BY <1>1, <2>6 DEF ShareStart, Least
  <2> QED
    BY <1>4, <2>2, <2>4, <2>0, <2>5, <2>7, <2>8
<1> QED
  BY <1>3, <1>4

(* Facts about regular programs.                                            *)
LEMMA Schedules ==
    ASSUME program \in Programs, Regular(program), NEW p \in LoopNumbers
    PROVE  /\ n \in Nat \ {0, 1} /\ Last \in Nat /\ p \in 1..Last /\ L(p).kind = "loop"
           /\ L(p).tc \in Nat /\ L(p).chunk \in Nat \ {0}
           /\ Schedule(L(p)) \in ByCounter \cup ByThread
           /\ Schedule(L(p)) \in {"guided", "guided_simd"} => L(p).sched = Schedule(L(p))
           /\ L(p).sched # "static_steal"
           /\ L(p).tc > 0 => Chunk(L(p)) \in Nat \ {0}
<1>1. n \in Nat \ {0, 1} /\ Last \in Nat /\ p \in 1..Last /\ L(p).kind = "loop"
  BY ProgramsAssumption DEF n, Last, LoopNumbers, L, Regular
<1>2. /\ L(p).sched \in ByCounter \cup ByThread \cup {"greedy"}
      /\ L(p).tc \in Nat /\ L(p).chunk \in Nat \ {0}
  BY <1>1 DEF Regular, L, Last
<1>3. Schedule(L(p)) \in ByCounter \cup ByThread
  BY <1>2 DEF Schedule, ByCounter, ByThread
<1>4. Schedule(L(p)) \in {"guided", "guided_simd"} => L(p).sched = Schedule(L(p))
  BY <1>2 DEF Schedule, ByCounter, ByThread
<1>5. L(p).tc > 0 => Chunk(L(p)) \in Nat \ {0}
  <2> SUFFICES ASSUME L(p).tc > 0, L(p).sched = "greedy"
               PROVE  Chunk(L(p)) \in Nat \ {0}
    BY <1>2 DEF Chunk
  <2>0. PICK u \in Nat : u = L(p).tc + n - 1 /\ u >= n
    BY <1>1, <1>2
  <2>1. PICK q \in Nat, r \in Nat : q = u \div n /\ r = u % n /\ r < n /\ u = n * q + r
    <3>1. n \in Nat \ {0}
      BY <1>1
    <3> QED
      BY <3>1, Divide
  <2>2. q # 0
    BY <1>1, <2>0, <2>1
  <2>3. Chunk(L(p)) = q
    BY <1>1, <2>0, <2>1 DEF Chunk, GreedyChunk, CeilDiv
  <2> QED
    BY <2>2, <2>3
<1> QED
  BY <1>1, <1>2, <1>3, <1>4, <1>5 DEF ByCounter, ByThread

LEMMA TurnBalanced ==
    ASSUME NEW l, l.tc \in Nat, n \in Nat \ {0, 1}, Schedule(l) = "balanced", NEW t \in Thread, NEW i \in Int, NEW m
    PROVE  Turn(l, i, t, m) <=> m = 0 /\ ShareStart(l.tc, n, t) <= i /\ i < ShareStart(l.tc, n, t + 1)
<1>1. t \in 0..(n - 1)
  BY DEF Thread
<1> DEFINE c == DispatchBalanced(l.tc, n, t)
<1>2. Turn(l, i, t, m) <=> i \in c.init..c.limit /\ m = 0
  BY DEF Turn
<1>3. /\ c.init \in Int /\ c.limit \in Int
      /\ c.init <= i /\ i <= c.limit <=> ShareStart(l.tc, n, t) <= i /\ i < ShareStart(l.tc, n, t + 1)
  BY <1>1, Shares
<1> HIDE DEF c
<1> QED
  BY <1>2, <1>3

(* Every iteration is one thread's, in one of its turns.                    *)
LEMMA Turns ==
    ASSUME NEW l, l.tc \in Nat, n \in Nat \ {0, 1}, Schedule(l) \in ByThread,
           l.tc > 0 => Chunk(l) \in Nat \ {0}, NEW i \in 0..(l.tc - 1)
    PROVE  /\ \E t \in Thread : \E m \in Nat : Turn(l, i, t, m)
           /\ \A t, u \in Thread : \A m, k : Turn(l, i, t, m) /\ Turn(l, i, u, k) => t = u /\ m = k
<1>1. CASE Schedule(l) = "balanced"
  <2>1. \A t \in Thread : \A m :
          Turn(l, i, t, m) <=> m = 0 /\ ShareStart(l.tc, n, t) <= i /\ i < ShareStart(l.tc, n, t + 1)
    BY <1>1, TurnBalanced
  <2>2. \E t \in Thread : \E m \in Nat : Turn(l, i, t, m)
    BY <2>1, SharesCover DEF Thread
  <2>3. ASSUME NEW t \in Thread, NEW u \in Thread, NEW m, NEW k, Turn(l, i, t, m), Turn(l, i, u, k), t < u
        PROVE  FALSE
    <3>1. t \in 0..(n - 1) /\ u \in 0..(n - 1)
      BY DEF Thread
    <3>2. /\ ShareStart(l.tc, n, t + 1) <= ShareStart(l.tc, n, u)
          /\ ShareStart(l.tc, n, t + 1) \in Nat /\ ShareStart(l.tc, n, u) \in Nat
      BY <2>3, <3>1, SharesApart, Shares
    <3> QED
      BY <2>1, <2>3, <3>2
  <2>4. \A t, u \in Thread : t < u \/ u < t \/ t = u
    BY DEF Thread
  <2> QED
    BY <2>1, <2>2, <2>3, <2>4
<1>2. CASE Schedule(l) = "static_chunked"
  <2>0. Chunk(l) \in Nat \ {0}
    OBVIOUS
  <2>1. PICK q \in Nat : q = i \div Chunk(l)
    <3>1. i \in Nat
      OBVIOUS
    <3> QED
      BY <2>0, <3>1, Divide
  <2>2. PICK r \in 0..(n - 1), x \in Nat : r = q % n /\ q = x + r
    <3>1. n \in Nat \ {0}
      OBVIOUS
    <3>2. PICK y \in Nat, r \in Nat : y = q \div n /\ r = q % n /\ r < n /\ q = n * y + r
      BY <3>1, Divide
    <3>3. PICK x \in Nat : x = n * y
      OBVIOUS
    <3> QED
      BY <3>2, <3>3
  <2>3. \A t, m : Turn(l, i, t, m) <=> t = r /\ m = q - t
    BY <1>2, <2>1, <2>2 DEF Turn
  <2>4. r \in Thread /\ q - r = x
    BY <2>2 DEF Thread
  <2>5. Turn(l, i, r, x)
    BY <2>3, <2>4
  <2> QED
    BY <2>2, <2>3, <2>4, <2>5
<1> QED
  BY <1>1, <1>2 DEF ByThread

(* The chunk that a thread gives itself, and its count after it.            *)
OwnChunk(l, t, count) ==
    IF Schedule(l) = "balanced" THEN IF count = 0 THEN DispatchBalanced(l.tc, n, t) ELSE NoChunk
    ELSE ChunkFrom(l.tc, Chunk(l) * (count + t), Chunk(l))
OwnCount(l, t, count) ==
    IF Schedule(l) = "balanced" THEN 1
    ELSE IF OwnChunk(l, t, count).init <= OwnChunk(l, t, count).limit THEN count + n ELSE count

LEMMA OwnTurns ==
    ASSUME NEW l, l.tc \in Nat \ {0}, n \in Nat \ {0, 1}, Schedule(l) \in ByThread, Chunk(l) \in Nat \ {0},
           NEW t \in Thread, NEW count \in Nat, Schedule(l) = "static_chunked" => count % n = 0
    PROVE  LET c == OwnChunk(l, t, count)
               next == OwnCount(l, t, count)
           IN  /\ c.init \in Int /\ c.limit \in Int /\ c.init..c.limit \subseteq 0..(l.tc - 1) /\ next \in Nat
               /\ Schedule(l) = "static_chunked" => next % n = 0
               /\ \A i \in 0..(l.tc - 1) : \A m \in Nat : Turn(l, i, t, m) =>
                    (m < next <=> m < count \/ i \in c.init..c.limit)
               /\ \A i \in c.init..c.limit : \E m \in Nat : Turn(l, i, t, m) /\ ~(m < count)
               /\ c.init > c.limit => \A i \in 0..(l.tc - 1) : \A m \in Nat : Turn(l, i, t, m) => m < next
<1> DEFINE c == OwnChunk(l, t, count)
           next == OwnCount(l, t, count)
<1>0. t \in 0..(n - 1) /\ n \in Nat \ {0}
  BY DEF Thread
<1>1. CASE Schedule(l) = "balanced"
  <2>1. next = 1
    BY <1>1 DEF OwnCount
  <2>2. \A i \in Int : \A m : Turn(l, i, t, m) <=>
          m = 0 /\ ShareStart(l.tc, n, t) <= i /\ i < ShareStart(l.tc, n, t + 1)
    BY <1>1, TurnBalanced
  <2>3. CASE count = 0
    <3>1. c = DispatchBalanced(l.tc, n, t)
      BY <1>1, <2>3 DEF OwnChunk
    <3>2. /\ c.init \in Int /\ c.limit \in Int
          /\ ShareStart(l.tc, n, t) \in Nat /\ ShareStart(l.tc, n, t + 1) <= l.tc
          /\ ShareStart(l.tc, n, t + 1) \in Nat
          /\ \A i \in Int : c.init <= i /\ i <= c.limit <=>
               ShareStart(l.tc, n, t) <= i /\ i < ShareStart(l.tc, n, t + 1)
      BY <1>0, <3>1, Shares
    <3> HIDE DEF c, next
    <3>3. c.init..c.limit \subseteq 0..(l.tc - 1)
      BY <3>2
    <3>4. \A i \in c.init..c.limit : Turn(l, i, t, 0)
      BY <2>2, <3>2
    <3>5. \A i \in 0..(l.tc - 1) : \A m \in Nat : Turn(l, i, t, m) => m = 0 /\ i \in c.init..c.limit
      BY <2>2, <3>2
    <3> QED
      BY <1>1, <2>1, <2>3, <3>2, <3>3, <3>4, <3>5 DEF c, next
  <2>4. CASE count # 0
    <3>1. c = NoChunk
      BY <1>1, <2>4 DEF OwnChunk
    <3> HIDE DEF c, next
    <3>2. c.init = 0 /\ c.limit = -1 /\ c.init..c.limit = {}
      BY <3>1 DEF NoChunk
    <3>3. \A i \in 0..(l.tc - 1) : \A m \in Nat : Turn(l, i, t, m) => m < next /\ m < count
      BY <2>1, <2>2, <2>4
    <3> QED
      BY <1>1, <2>1, <3>2, <3>3 DEF c, next
  <2> QED
    BY <2>3, <2>4
<1>2. CASE Schedule(l) = "static_chunked"
  <2> DEFINE C == Chunk(l)
  <2>1. PICK first \in Nat : first = C * (count + t)
    BY <1>0
  <2>2. c = ChunkFrom(l.tc, first, C)
    BY <1>2, <2>1 DEF OwnChunk
  <2>3. next = IF c.init <= c.limit THEN count + n ELSE count
    BY <1>2 DEF OwnCount
  <2>4. \A i, m : Turn(l, i, t, m) <=> t = (i \div C) % n /\ m = (i \div C) - t
    BY <1>2 DEF Turn
  <2> HIDE DEF c, next
  <2>5. /\ c.init \in Int /\ c.limit \in Int /\ c.init..c.limit \subseteq 0..(l.tc - 1)
        /\ \A i \in 0..(l.tc - 1) : i \in c.init..c.limit <=> first <= i /\ i < first + C
        /\ c.init <= c.limit <=> first < l.tc
    <3>1. CASE first <= l.tc - 1
      <4>1. c.init = first /\ c.limit = Least(first + C - 1, l.tc - 1)
        BY <2>2, <3>1 DEF ChunkFrom
      <4> QED
        BY <3>1, <4>1 DEF Least
    <3>2. CASE ~(first <= l.tc - 1)
      <4>1. c.init = 0 /\ c.limit = -1
        BY <2>2, <3>2 DEF ChunkFrom, NoChunk
      <4> QED
        BY <3>2, <4>1
    <3> QED
      BY <3>1, <3>2
  <2>6. ASSUME NEW i \in 0..(l.tc - 1)
        PROVE  \E q \in Nat : /\ q = i \div C
                              /\ i < first <=> q < count + t
                              /\ first <= i /\ i < first + C <=> q = count + t
    <3>0. i \in Nat /\ C \in Nat \ {0}
      OBVIOUS
    <3>1. PICK q \in Nat, r \in Nat : q = i \div C /\ r = i % C /\ r < C /\ i = C * q + r
      <4> HIDE DEF C
      <4> QED
        BY <3>0, Divide
    <3>2. PICK d \in Nat : d = count + t
      BY <1>0
    <3>3. q < d => C * q + C <= C * d
      <4> SUFFICES ASSUME q < d PROVE C * q + C <= C * d
        OBVIOUS
      <4>1. C * (q + 1) <= C * d
        BY Times
      <4>2. C * (q + 1) = C * q + C
        OBVIOUS
      <4> QED
        BY <4>1, <4>2
    <3>4. q > d => C * d + C <= C * q
      <4> SUFFICES ASSUME q > d PROVE C * d + C <= C * q
        OBVIOUS
      <4>1. C * (d + 1) <= C * q
        BY Times
      <4>2. C * (d + 1) = C * d + C
        OBVIOUS
      <4> QED
        BY <4>1, <4>2
    <3>5. PICK x \in Nat : x = C * q
      OBVIOUS
    <3>6. first = C * d
      BY <2>1, <3>2
    <3>7. (i < first <=> q < d) /\ (first <= i /\ i < first + C <=> q = d)
      <4>1. q = d => x = first
        BY <3>5, <3>6
      <4>2. C \in Nat \ {0}
        OBVIOUS
      <4> HIDE DEF C
      <4> QED
        BY <3>1, <3>3, <3>4, <3>5, <3>6, <4>1, <4>2
    <3> QED
      BY <3>1, <3>2, <3>7
  <2>7. (count + t) % n = t
    BY <1>0, <1>2, Shifted
  <2>8. next \in Nat /\ next % n = 0
    <3>1. (count + n) % n = count % n
      BY <1>0, OneTurn
    <3>2. count + n \in Nat
      BY <1>0
    <3> QED
      BY <1>2, <2>3, <3>1, <3>2
  <2>9. ASSUME NEW i \in 0..(l.tc - 1), NEW m \in Nat, Turn(l, i, t, m)
        PROVE  /\ m < count <=> i < first
               /\ m < count + n <=> i < first + C
    <3>1. PICK q \in Nat : q = i \div C /\ (i < first <=> q < count + t) /\ (first <= i /\ i < first + C <=> q = count + t)
      BY <2>6
    <3>2. q = m + t /\ q % n = t
      BY <1>0, <2>4, <2>9, <3>1
    <3>3. ~(m < count) /\ m # count => m >= count + n
      <4> SUFFICES ASSUME ~(m < count), m # count PROVE m >= count + n
        OBVIOUS
      <4>1. count + t < q /\ count + t \in Nat
        BY <1>0, <3>2
      <4>2. q >= count + t + n
        BY <1>0, <2>7, <3>2, <4>1, ModGap
      <4> QED
        BY <1>0, <3>2, <4>2
    <3> QED
      BY <1>0, <3>1, <3>2, <3>3
  <2>10. ASSUME NEW i \in c.init..c.limit
         PROVE  Turn(l, i, t, count)
    <3>1. i \in 0..(l.tc - 1) /\ first <= i /\ i < first + C
      BY <2>5, <2>10
    <3>2. i \div C = count + t
      BY <2>6, <3>1
    <3> QED
      BY <1>0, <2>4, <2>7, <3>2
  <2> HIDE DEF C
  <2>11. \A i \in 0..(l.tc - 1) : \A m \in Nat : Turn(l, i, t, m) =>
           (m < next <=> m < count \/ i \in c.init..c.limit)
    BY <1>0, <2>3, <2>5, <2>9
  <2>12. c.init > c.limit => \A i \in 0..(l.tc - 1) : \A m \in Nat : Turn(l, i, t, m) => m < next
    BY <2>3, <2>5, <2>9
  <2> QED
    BY <2>5, <2>8, <2>10, <2>11, <2>12 DEF c, next
<1> QED
  BY <1>1, <1>2 DEF ByThread

-----------------------------------------------------------------------------
(* Loops and their numbers.                                                 *)

LEMMA Numbers ==
    ASSUME Last \in Nat
    PROVE  /\ Number(0) = 0 /\ \A p \in 0..Last : Number(p) \in Nat
           /\ \A p \in 1..Last : Number(p) = Number(p - 1) + (IF p \in LoopNumbers THEN 1 ELSE 0)
           /\ \A p \in LoopNumbers : Index(p) \in Nat /\ Index(p) = Number(p - 1)
           /\ \A p, q \in LoopNumbers : Index(p) = Index(q) => p = q
<1> DEFINE Upto(p) == {q \in 1..p : q \in LoopNumbers}
<1>1. \A p \in 0..Last : IsFiniteSet(Upto(p)) /\ Number(p) = Cardinality(Upto(p)) /\ Number(p) \in Nat
  <2> SUFFICES ASSUME NEW p \in 0..Last
               PROVE  IsFiniteSet(Upto(p)) /\ Number(p) = Cardinality(Upto(p)) /\ Number(p) \in Nat
    OBVIOUS
  <2>1. IsFiniteSet(1..p)
    BY FS_Interval
  <2>2. IsFiniteSet(Upto(p))
    BY <2>1, FS_Subset
  <2> QED
    BY <2>2, FS_CardinalityType DEF Number
<1>2. Number(0) = 0
  <2>1. Upto(0) = {}
    OBVIOUS
  <2> QED
    BY <1>1, <2>1, FS_EmptySet
<1>3. ASSUME NEW p \in 1..Last
      PROVE  Number(p) = Number(p - 1) + (IF p \in LoopNumbers THEN 1 ELSE 0)
  <2>1. p - 1 \in 0..Last /\ p \in 0..Last
    OBVIOUS
  <2>2. CASE p \in LoopNumbers
    <3>1. Upto(p) = Upto(p - 1) \cup {p} /\ p \notin Upto(p - 1)
      BY <2>2
    <3> HIDE DEF Upto
    <3> QED
      BY <1>1, <2>1, <2>2, <3>1, FS_AddElement
  <2>3. CASE p \notin LoopNumbers
    <3>1. Upto(p) = Upto(p - 1)
      BY <2>3
    <3> HIDE DEF Upto
    <3> QED
      BY <1>1, <2>1, <2>3, <3>1
  <2> QED
    BY <2>2, <2>3
<1>4. \A p \in LoopNumbers : p \in 1..Last /\ p - 1 \in 0..Last
  BY DEF LoopNumbers
<1>5. ASSUME NEW p \in LoopNumbers
      PROVE  Index(p) \in Nat /\ Index(p) = Number(p - 1)
  <2>1. Number(p) = Number(p - 1) + 1 /\ Number(p - 1) \in Nat
    BY <1>1, <1>3, <1>4
  <2> QED
    BY <2>1 DEF Index
<1>6. ASSUME NEW p \in LoopNumbers, NEW q \in LoopNumbers, p < q
      PROVE  Number(p) <= Number(q - 1)
  <2>1. p \in 0..Last /\ q - 1 \in 0..Last /\ Upto(p) \subseteq Upto(q - 1)
    BY <1>4, <1>6
  <2>2. IsFiniteSet(Upto(q - 1)) /\ Number(p) = Cardinality(Upto(p)) /\ Number(q - 1) = Cardinality(Upto(q - 1))
    BY <1>1, <2>1
  <2> HIDE DEF Upto
  <2>3. Cardinality(Upto(p)) <= Cardinality(Upto(q - 1))
    BY <2>1, <2>2, FS_Subset
  <2> QED
    BY <2>2, <2>3
<1>7. ASSUME NEW p \in LoopNumbers, NEW q \in LoopNumbers, p < q
      PROVE  Index(p) # Index(q)
  <2>1. Number(p) <= Number(q - 1) /\ Index(q) = Number(q - 1) /\ Index(q) \in Nat /\ Index(p) \in Nat
    BY <1>5, <1>6, <1>7
  <2>2. Index(p) = Number(p) - 1
    BY DEF Index
  <2>3. Number(p) \in Nat
    <3>1. p \in 0..Last
      BY <1>4
    <3> QED
      BY <1>1, <3>1
  <2> QED
    BY <2>1, <2>2, <2>3
<1>8. \A p, q \in LoopNumbers : p < q \/ q < p \/ p = q
  BY <1>4
<1> QED
  BY <1>1, <1>2, <1>3, <1>5, <1>7, <1>8

-----------------------------------------------------------------------------
(* What a step leaves alone.                                                *)

LEMMA Static ==
    ASSUME program' = program
    PROVE  /\ n' = n /\ Thread' = Thread /\ Last' = Last /\ LoopNumbers' = LoopNumbers /\ Doacrosses' = Doacrosses
           /\ \A p : /\ L(p)' = L(p) /\ Number(p)' = Number(p) /\ Index(p)' = Index(p)
                     /\ BufferOf(p)' = BufferOf(p) /\ Iterations(p)' = Iterations(p)
           /\ \A l : Schedule(l)' = Schedule(l) /\ Chunk(l)' = Chunk(l)
           /\ \A l, k : Reach(l, k)' = Reach(l, k)
           /\ \A l, i, t, m : Turn(l, i, t, m)' <=> Turn(l, i, t, m)
<1>1. n' = n /\ Thread' = Thread /\ Last' = Last /\ LoopNumbers' = LoopNumbers /\ Doacrosses' = Doacrosses
  BY DEF n, Thread, Last, LoopNumbers, Doacrosses
<1>2. \A p : L(p)' = L(p) /\ Number(p)' = Number(p)
  BY <1>1 DEF L, Number
<1>3. \A p : Index(p)' = Index(p) /\ BufferOf(p)' = BufferOf(p) /\ Iterations(p)' = Iterations(p)
  BY <1>2 DEF Index, BufferOf, Iterations, Slot
<1>4. \A l : Schedule(l)' = Schedule(l) /\ Chunk(l)' = Chunk(l)
  BY <1>1 DEF Schedule, Chunk
<1>5. \A l, k : Reach(l, k)' = Reach(l, k)
  BY <1>1, <1>4 DEF Reach, TrapezoidStart
<1>6. \A l, i, t, m : Turn(l, i, t, m)' <=> Turn(l, i, t, m)
  BY <1>1, <1>4 DEF Turn
<1> QED
  BY <1>1, <1>2, <1>3, <1>4, <1>5, <1>6

(* A step of thread t: it changes nothing of the other threads, stays in    *)
(* its construct or leaves it, and runs iterations of that construct only.  *)
Frame(t) ==
    /\ program' = program
    /\ \A u \in Thread \ {t} :
         /\ at'[u] = at[u] /\ pc'[u] = pc[u] /\ local'[u] = local[u] /\ priv'[u] = priv[u]
         /\ dispIndex'[u] = dispIndex[u] /\ cur'[u] = cur[u]
    /\ at'[t] = at[t] \/ (at'[t] = at[t] + 1 /\ pc'[t] = "idle")
    /\ \A p \in 1..Last : p # at[t] => ran'[p] = ran[p]

(* What a thread's state says of a loop.  It may enter it in its turn.      *)
Same(u, p) ==
    /\ Index(p) > NameNow(p) /\ EnteredLoop(u, p)' => EnteredLoop(u, p)
    /\ Through(u, p)' <=> Through(u, p)
    /\ Closes(u, p)' <=> Closes(u, p)
    /\ Publishes(u, p)' <=> Publishes(u, p)
SameWork(u, p) ==
    /\ Finished(u, p)' <=> Finished(u, p)
    /\ Pending(u, p)' = Pending(u, p)
    /\ \A m \in Nat : Had(u, p, m)' <=> Had(u, p, m)

LEMMA OthersSame ==
    ASSUME NEW t \in Thread, Frame(t), NEW u \in Thread \ {t}, NEW p
    PROVE  Same(u, p) /\ SameWork(u, p)
<1>1. at'[u] = at[u] /\ pc'[u] = pc[u] /\ local'[u] = local[u] /\ priv'[u] = priv[u] /\ BufferOf(p)' = BufferOf(p)
  BY Static DEF Frame
<1> QED
  BY <1>1 DEF Same, SameWork, EnteredLoop, Through, Closes, Publishes, Finished, Pending, Had

LEMMA ElsewhereSame ==
    ASSUME NEW t \in Thread, Frame(t), at[t] \in Nat, NEW p \in Nat, p # at[t]
    PROVE  Same(t, p) /\ SameWork(t, p)
<1>1. at'[t] = at[t] \/ (at'[t] = at[t] + 1 /\ pc'[t] = "idle")
  BY DEF Frame
<1>2. at'[t] > p <=> at[t] > p
  BY <1>1
<1>3. at'[t] = p => pc'[t] = "idle"
  BY <1>1
<1> QED
  BY <1>2, <1>3 DEF Same, SameWork, EnteredLoop, Through, Closes, Publishes, Finished, Pending, Had, Entered,
     Drawing, Running, Closing

(* The ring and the parts of a loop, from what has changed of it.           *)
LEMMA RingKept ==
    ASSUME program' = program, NEW p \in LoopNumbers, RingRight(p), \A u \in Thread : Same(u, p),
           NameNow(p)' = NameNow(p), Index(p) = NameNow(p) => buf'[BufferOf(p)].done = buf[BufferOf(p)].done,
           Published(p) => buf'[BufferOf(p)].done = 0 /\ buf'[BufferOf(p)].iteration = 0
    PROVE  RingRight(p)'
<1>1. /\ Thread' = Thread /\ Index(p)' = Index(p) /\ BufferOf(p)' = BufferOf(p)
  BY Static
<1>2. \A u \in Thread : /\ Index(p) > NameNow(p) /\ EnteredLoop(u, p)' => EnteredLoop(u, p)
                        /\ Through(u, p)' <=> Through(u, p)
                        /\ Closes(u, p)' <=> Closes(u, p)
                        /\ Publishes(u, p)' <=> Publishes(u, p)
  BY DEF Same
<1>3. (AllThrough(p)' <=> AllThrough(p)) /\ (Published(p)' <=> Published(p))
  BY <1>1, <1>2 DEF AllThrough, Published
<1>4. {u \in Thread : Through(u, p)}' = {u \in Thread : Through(u, p)}
  BY <1>1, <1>2
<1>5. Cardinality({u \in Thread : Through(u, p)})' = Cardinality({u \in Thread : Through(u, p)})
  BY <1>4
<1> QED
  BY <1>1, <1>2, <1>3, <1>5 DEF RingRight

(* The iterations "new" are given to thread t, those in "over" it has run.  *)
LEMMA PartKept ==
    ASSUME program' = program, NEW p \in LoopNumbers, PartRight(p), NEW t \in Thread,
           NEW new \in SUBSET Iterations(p), NEW over \in SUBSET Pending(t, p),
           \A u \in Thread \ {t} : SameWork(u, p),
           \A i \in new : ~Gone(p, i),
           Pending(t, p)' = (Pending(t, p) \cup new) \ over,
           \A i \in Iterations(p) : Gone(p, i)' <=> Gone(p, i) \/ i \in new,
           ran'[p] = [i \in Iterations(p) |-> IF i \in over THEN 1 ELSE ran[p][i]],
           \A u \in Thread : Finished(u, p)' => \A i \in Iterations(p) : Served(u, p, i)'
    PROVE  PartRight(p)'
<1>1. Thread' = Thread /\ Iterations(p)' = Iterations(p)
  BY Static
<1>2. \A u \in Thread \ {t} : Pending(u, p)' = Pending(u, p)
  BY DEF SameWork
<1>3. /\ ran[p] \in [Iterations(p) -> {0, 1}]
      /\ \A u \in Thread : \A i \in Pending(u, p) : i \in Iterations(p) /\ Gone(p, i) /\ ran[p][i] = 0
      /\ \A u, v \in Thread : u # v => Pending(u, p) \cap Pending(v, p) = {}
      /\ \A i \in Iterations(p) : Gone(p, i) => ran[p][i] = 1 \/ \E u \in Thread : i \in Pending(u, p)
      /\ \A i \in Iterations(p) : ran[p][i] = 1 => Gone(p, i)
  BY DEF PartRight
<1>4. ran'[p] \in [Iterations(p) -> {0, 1}]
  BY <1>3
<1>5. ASSUME NEW u \in Thread, NEW i \in Pending(u, p)'
      PROVE  i \in Iterations(p) /\ Gone(p, i)' /\ ran'[p][i] = 0
  <2>1. CASE u = t
    <3>1. i \notin over /\ i \in Iterations(p)
      BY <1>3, <1>5, <2>1
    <3>2. CASE i \in Pending(t, p)
      BY <1>3, <3>1, <3>2
    <3>3. CASE i \in new
      <4>1. ran[p][i] = 0
        BY <1>3, <3>1, <3>3
      <4> QED
        BY <3>1, <3>3, <4>1
    <3> QED
      BY <1>5, <2>1, <3>2, <3>3
  <2>2. CASE u # t
    <3>1. i \in Pending(u, p)
      BY <1>2, <1>5, <2>2
    <3>2. i \notin over
      BY <1>3, <2>2, <3>1
    <3> QED
      BY <1>3, <3>1, <3>2
  <2> QED
    BY <2>1, <2>2
<1>6. ASSUME NEW u \in Thread, NEW v \in Thread, u # v
      PROVE  Pending(u, p)' \cap Pending(v, p)' = {}
  BY <1>2, <1>3, <1>6
<1>7. ASSUME NEW i \in Iterations(p), Gone(p, i)'
      PROVE  ran'[p][i] = 1 \/ \E u \in Thread : i \in Pending(u, p)'
  <2>1. CASE i \in over
    BY <2>1
  <2>2. CASE i \in new \ over
    BY <2>2
  <2>3. CASE i \notin over /\ i \notin new
    <3>1. ran[p][i] = 1 \/ \E u \in Thread : i \in Pending(u, p)
      BY <1>3, <1>7, <2>3
    <3> QED
      BY <1>2, <2>3, <3>1
  <2> QED
    BY <2>1, <2>2, <2>3
<1>8. \A i \in Iterations(p) : ran'[p][i] = 1 => Gone(p, i)'
  BY <1>3
<1> QED
  BY <1>1, <1>4, <1>5, <1>6, <1>7, <1>8 DEF PartRight

(* Threads that were finished stay served.                                  *)
LEMMA ServedKept ==
    ASSUME program' = program, NEW p \in LoopNumbers, NEW u \in Thread, NEW i \in Iterations(p), Served(u, p, i),
           Gone(p, i) => Gone(p, i)', \A m \in Nat : Had(u, p, m) => Had(u, p, m)'
    PROVE  Served(u, p, i)'
<1>1. L(p)' = L(p) /\ (\A l : Schedule(l)' = Schedule(l)) /\ \A l, k, v, m : Turn(l, k, v, m)' <=> Turn(l, k, v, m)
  BY Static
<1> QED
  BY <1>1 DEF Served

(* What has gone, from what has changed of it.                              *)
LEMMA GoneKept ==
    ASSUME program' = program, NEW p \in LoopNumbers, \A u \in Thread : Same(u, p),
           \A u \in Thread : \A m \in Nat : Had(u, p, m)' <=> Had(u, p, m), NameNow(p)' = NameNow(p),
           Index(p) = NameNow(p) => buf'[BufferOf(p)].iteration = buf[BufferOf(p)].iteration,
           NEW i
    PROVE  Gone(p, i)' <=> Gone(p, i)
<1>1. /\ L(p)' = L(p) /\ Index(p)' = Index(p) /\ BufferOf(p)' = BufferOf(p) /\ Thread' = Thread
      /\ (\A l : Schedule(l)' = Schedule(l)) /\ (\A l, k : Reach(l, k)' = Reach(l, k))
      /\ \A l, k, v, m : Turn(l, k, v, m)' <=> Turn(l, k, v, m)
  BY Static
<1>2. Published(p)' <=> Published(p)
  BY <1>1 DEF Published, Same
<1>3. Frontier(p)' = Frontier(p)
  BY <1>1, <1>2 DEF Frontier
<1> QED
  BY <1>1, <1>3 DEF Gone

(* Nothing has changed of a loop.                                           *)
LEMMA LoopKept ==
    ASSUME program' = program, NEW p \in LoopNumbers, RingRight(p), PartRight(p), ran'[p] = ran[p],
           \A u \in Thread : Same(u, p) /\ SameWork(u, p), NameNow(p)' = NameNow(p),
           Index(p) = NameNow(p) => /\ buf'[BufferOf(p)].iteration = buf[BufferOf(p)].iteration
                                    /\ buf'[BufferOf(p)].done = buf[BufferOf(p)].done,
           Index(p) \in Int, NameNow(p) \in Int, NEW t \in Thread
    PROVE  RingRight(p)' /\ PartRight(p)'
<1>1. Published(p) => Index(p) = NameNow(p)
  <2> SUFFICES ASSUME NEW u \in Thread, Publishes(u, p)
               PROVE  Index(p) = NameNow(p)
    BY DEF Published
  <2>1. Closes(u, p) /\ EnteredLoop(u, p)
    BY DEF Publishes, Closes, EnteredLoop, Closing, Entered
  <2>2. ~(Index(p) < NameNow(p)) /\ ~(Index(p) > NameNow(p))
    BY <2>1 DEF RingRight
  <2> QED
    BY <2>2
<1>2. RingRight(p)'
  <2>1. Published(p) => buf[BufferOf(p)].done = 0 /\ buf[BufferOf(p)].iteration = 0
    BY DEF RingRight
  <2> QED
    BY <1>1, <2>1, RingKept
<1>3. \A i : Gone(p, i)' <=> Gone(p, i)
  BY GoneKept DEF SameWork
<1>4. \A u \in Thread : /\ Finished(u, p)' <=> Finished(u, p)
                        /\ Pending(u, p)' = Pending(u, p)
                        /\ \A m \in Nat : Had(u, p, m)' <=> Had(u, p, m)
  BY DEF SameWork
<1>5. \A u \in Thread : Finished(u, p)' => \A i \in Iterations(p) : Served(u, p, i)'
  BY <1>3, <1>4, ServedKept DEF PartRight
<1>6. /\ {} \in SUBSET Iterations(p) /\ {} \in SUBSET Pending(t, p)
      /\ Pending(t, p)' = (Pending(t, p) \cup {}) \ {}
      /\ \A i \in {} : ~Gone(p, i)
      /\ \A i \in Iterations(p) : Gone(p, i)' <=> Gone(p, i) \/ i \in {}
      /\ \A u \in Thread \ {t} : SameWork(u, p)
  BY <1>3, <1>4
<1>7. ran'[p] = [i \in Iterations(p) |-> IF i \in {} THEN 1 ELSE ran[p][i]]
  BY DEF PartRight
<1>8. PartRight(p)'
  BY <1>5, <1>6, <1>7, PartKept
<1> QED
  BY <1>2, <1>8

-----------------------------------------------------------------------------
(* The invariant after a step of thread t.                                  *)

LEMMA Basics ==
    ASSUME Types
    PROVE  /\ n \in Nat \ {0, 1} /\ Last \in Nat /\ Buffers \in Nat \ {0} /\ Thread = 0..(n - 1)
           /\ LoopNumbers \subseteq 1..Last /\ Doacrosses \subseteq 1..Last
           /\ LoopNumbers \cap Doacrosses = {}
           /\ \A p \in LoopNumbers : Index(p) \in Nat /\ BufferOf(p) \in Slots /\ NameNow(p) \in Nat
           /\ \A p, q \in LoopNumbers : Index(p) = Index(q) => p = q
           /\ \A t \in Thread : at[t] \in Nat
<1>1. n \in Nat \ {0, 1} /\ Last \in Nat /\ Buffers \in Nat \ {0} /\ Thread = 0..(n - 1)
  BY ProgramsAssumption, BuffersAssumption DEF Types, n, Regular, Last, Thread
<1>2. LoopNumbers \subseteq 1..Last /\ Doacrosses \subseteq 1..Last /\ LoopNumbers \cap Doacrosses = {}
  BY DEF LoopNumbers, Doacrosses
<1>3. ASSUME NEW p \in LoopNumbers
      PROVE  Index(p) \in Nat /\ BufferOf(p) \in Slots /\ NameNow(p) \in Nat
  <2>1. Index(p) \in Nat
    BY <1>1, Numbers
  <2>2. Index(p) % Buffers \in 0..(Buffers - 1)
    BY <1>1, <2>1, DivMod
  <2>3. BufferOf(p) \in Slots
    BY <2>2 DEF BufferOf, Slot, Slots
  <2>4. buf[BufferOf(p)].index \in Nat
    BY <2>3 DEF Types, IsBuffer
  <2> QED
    BY <2>1, <2>3, <2>4 DEF NameNow
<1>4. \A p, q \in LoopNumbers : Index(p) = Index(q) => p = q
  BY <1>1, Numbers
<1>5. \A t \in Thread : at[t] \in Nat
  BY <1>1 DEF Types
<1> QED
  BY <1>1, <1>2, <1>3, <1>4, <1>5

(* The counts of a buffer change only while it serves the loop of t.        *)
BuffersKept(t) ==
    \A b \in Slots :
        /\ buf'[b].index = buf[b].index
        /\ \/ buf'[b].iteration = buf[b].iteration /\ buf'[b].done = buf[b].done
           \/ at[t] \in LoopNumbers /\ b = BufferOf(at[t]) /\ Index(at[t]) = NameNow(at[t])

LEMMA OtherLoops ==
    ASSUME Inv, NEW t \in Thread, Frame(t), BuffersKept(t), NEW p \in LoopNumbers, p # at[t]
    PROVE  RingRight(p)' /\ PartRight(p)'
<1>1. Types /\ RingRight(p) /\ PartRight(p)
  BY DEF Inv
<1>2. /\ p \in 1..Last /\ p \in Nat /\ at[t] \in Nat /\ Index(p) \in Nat /\ NameNow(p) \in Nat /\ BufferOf(p) \in Slots
      /\ \A q \in LoopNumbers : Index(p) = Index(q) => p = q
  BY <1>1, Basics
<1>3. program' = program /\ ran'[p] = ran[p]
  BY <1>2 DEF Frame
<1>4. \A u \in Thread : Same(u, p) /\ SameWork(u, p)
  BY <1>2, OthersSame, ElsewhereSame
<1>5. BufferOf(p)' = BufferOf(p)
  BY <1>3, Static
<1>6. NameNow(p)' = NameNow(p)
  BY <1>2, <1>5 DEF NameNow, BuffersKept
<1>7. ASSUME Index(p) = NameNow(p)
      PROVE  /\ buf'[BufferOf(p)].iteration = buf[BufferOf(p)].iteration
             /\ buf'[BufferOf(p)].done = buf[BufferOf(p)].done
  <2>1. ~(at[t] \in LoopNumbers /\ BufferOf(p) = BufferOf(at[t]) /\ Index(at[t]) = NameNow(at[t]))
    BY <1>2, <1>7 DEF NameNow
  <2> QED
    BY <1>2, <2>1 DEF BuffersKept
<1> QED
  BY <1>1, <1>2, <1>3, <1>4, <1>6, <1>7, LoopKept

LEMMA OtherDoacrosses ==
    ASSUME Inv, NEW t \in Thread, Frame(t), NEW p \in Doacrosses, p # at[t]
    PROVE  DoacrossRight(p)'
<1>1. Types /\ DoacrossRight(p) /\ p \in 1..Last /\ at[t] \in Nat /\ Thread = 0..(n - 1) /\ n \in Nat \ {0}
  BY Basics DEF Inv
<1>2. program' = program /\ ran'[p] = ran[p]
  BY <1>1 DEF Frame
<1>3. Iterations(p)' = Iterations(p) /\ n' = n
  BY <1>2, Static
<1>4. \A u \in Thread : \A i : HasRun(u, p, i)' <=> HasRun(u, p, i)
  <2>1. \A u \in Thread \ {t} : at'[u] = at[u] /\ pc'[u] = pc[u] /\ local'[u] = local[u]
    BY DEF Frame
  <2>2. at'[t] = at[t] \/ (at'[t] = at[t] + 1 /\ pc'[t] = "idle")
    BY DEF Frame
  <2>3. at'[t] > p <=> at[t] > p
    BY <1>1, <2>2
  <2>4. at'[t] = p => pc'[t] = "idle"
    BY <2>2
  <2>5. "idle" \notin Posting
    BY DEF Posting
  <2> QED
    BY <2>1, <2>3, <2>4, <2>5 DEF HasRun
<1>5. \A i \in Iterations(p) : i % n \in Thread
  <2>1. \A i \in Iterations(p) : i \in Nat
    BY DEF Iterations
  <2> QED
    BY <1>1, <2>1, DivMod
<1>6. ran[p] = [i \in Iterations(p) |-> IF HasRun(i % n, p, i) THEN 1 ELSE 0]
  BY <1>1 DEF DoacrossRight
<1>7. ran'[p] = [i \in Iterations(p) |-> IF HasRun(i % n, p, i)' THEN 1 ELSE 0]
  BY <1>2, <1>3, <1>4, <1>5, <1>6
<1> QED
  BY <1>3, <1>7 DEF DoacrossRight

LEMMA OtherThreads ==
    ASSUME Inv, NEW t \in Thread, Frame(t), NEW u \in Thread \ {t}
    PROVE  PlaceRight(u)' /\ PostRight(u)'
<1>1. PlaceRight(u) /\ PostRight(u)
  BY DEF Inv
<1>2. /\ at'[u] = at[u] /\ pc'[u] = pc[u] /\ local'[u] = local[u] /\ priv'[u] = priv[u]
      /\ dispIndex'[u] = dispIndex[u] /\ cur'[u] = cur[u]
  BY DEF Frame
<1>3. /\ n' = n /\ Last' = Last /\ LoopNumbers' = LoopNumbers /\ Doacrosses' = Doacrosses
      /\ \A p : L(p)' = L(p) /\ Number(p)' = Number(p) /\ BufferOf(p)' = BufferOf(p)
      /\ \A l : Schedule(l)' = Schedule(l)
  BY Static DEF Frame
<1>4. PlaceRight(u)'
  BY <1>1, <1>2, <1>3 DEF PlaceRight
<1>5. PostRight(u)'
  BY <1>1, <1>2, <1>3 DEF PostRight
<1> QED
  BY <1>4, <1>5

LEMMA Assemble ==
    ASSUME Inv, NEW t \in Thread, Types', Frame(t), BuffersKept(t), PlaceRight(t)', PostRight(t)',
           NEW q, q = at[t], q \in LoopNumbers => RingRight(q)' /\ PartRight(q)',
           q \in Doacrosses => DoacrossRight(q)'
    PROVE  Inv'
<1>1. Thread' = Thread /\ LoopNumbers' = LoopNumbers /\ Doacrosses' = Doacrosses
  BY Static DEF Frame
<1>2. \A u \in Thread : PlaceRight(u)' /\ PostRight(u)'
  BY OtherThreads
<1>3. ASSUME NEW p \in LoopNumbers
      PROVE  RingRight(p)' /\ PartRight(p)'
  <2>1. CASE p # at[t]
    BY <2>1, OtherLoops
  <2>2. CASE p = at[t]
    <3>1. p = q
      BY <2>2
    <3> QED
      BY <3>1
  <2> QED
    BY <2>1, <2>2
<1>4. ASSUME NEW p \in Doacrosses
      PROVE  DoacrossRight(p)'
  <2>1. CASE p # at[t]
    BY <2>1, OtherDoacrosses
  <2>2. CASE p = at[t]
    <3>1. p = q
      BY <2>2
    <3> QED
      BY <3>1
  <2> QED
    BY <2>1, <2>2
<1> QED
  BY <1>1, <1>2, <1>3, <1>4 DEF Inv

-----------------------------------------------------------------------------
(* What steps look like.                                                    *)

Shape(t, place) ==
    /\ program' = program
    /\ at' = at \/ (at' = [at EXCEPT ![t] = @ + 1] /\ at[t] <= Last /\ place = "idle")
    /\ pc' = [pc EXCEPT ![t] = place]
    /\ local' = local \/ \E r : IsLocal(r) /\ local' = [local EXCEPT ![t] = r]
    /\ priv' = priv \/ \E b \in Slots : \E r : IsPrivate(r) /\ priv' = [priv EXCEPT ![t][b] = r]
    /\ buf' = buf \/ \E b \in Slots : \E r :
                       IsBuffer(r) /\ r.index % Buffers = b /\ buf' = [buf EXCEPT ![b] = r]
    /\ cur' = cur \/ \E c : cur' = [cur EXCEPT ![t] = c]
    /\ dispIndex' = dispIndex \/ dispIndex' = [dispIndex EXCEPT ![t] = @ + 1]
    /\ ran' = ran \/ \E f : ran' = [ran EXCEPT ![at[t]] = f]

LEMMA Shaped ==
    ASSUME Types, NEW t \in Thread, NEW place \in Places, Shape(t, place)
    PROVE  Types' /\ Frame(t) /\ pc'[t] = place
<1>1. n' = n /\ Thread' = Thread /\ Last' = Last /\ program' = program
  BY Static DEF Shape
<1>2. Last \in Nat
  BY Basics
<1>3. /\ at' \in [Thread -> 1..(Last + 1)] /\ \A u \in Thread \ {t} : at'[u] = at[u]
      /\ at'[t] = at[t] \/ (at'[t] = at[t] + 1 /\ place = "idle")
  <2>1. at \in [Thread -> 1..(Last + 1)]
    BY DEF Types
  <2>2. CASE at' = at
    BY <2>1, <2>2
  <2>3. CASE at' = [at EXCEPT ![t] = @ + 1] /\ at[t] <= Last /\ place = "idle"
    BY <1>2, <2>1, <2>3
  <2> QED
    BY <2>2, <2>3 DEF Shape
<1>4. pc' \in [Thread -> Places] /\ pc'[t] = place /\ \A u \in Thread \ {t} : pc'[u] = pc[u]
  BY DEF Types, Shape
<1>5. /\ local' = [u \in Thread |-> local'[u]] /\ \A u \in Thread : IsLocal(local'[u])
      /\ \A u \in Thread \ {t} : local'[u] = local[u]
  <2>1. local = [u \in Thread |-> local[u]] /\ \A u \in Thread : IsLocal(local[u])
    BY DEF Types
  <2>2. CASE local' = local
    BY <2>1, <2>2
  <2>3. ASSUME NEW r, IsLocal(r), local' = [local EXCEPT ![t] = r]
        PROVE  /\ local' = [u \in Thread |-> local'[u]] /\ \A u \in Thread : IsLocal(local'[u])
               /\ \A u \in Thread \ {t} : local'[u] = local[u]
    <3>1. local' = [u \in Thread |-> IF u = t THEN r ELSE local[u]]
      BY <2>1, <2>3
    <3> QED
      BY <2>1, <2>3, <3>1
  <2> QED
    BY <2>2, <2>3 DEF Shape
<1>6. /\ priv' = [u \in Thread |-> [b \in Slots |-> priv'[u][b]]]
      /\ \A u \in Thread : \A b \in Slots : IsPrivate(priv'[u][b])
      /\ \A u \in Thread \ {t} : priv'[u] = priv[u]
  <2>1. /\ priv = [u \in Thread |-> [b \in Slots |-> priv[u][b]]]
        /\ \A u \in Thread : \A b \in Slots : IsPrivate(priv[u][b])
    BY DEF Types
  <2>2. CASE priv' = priv
    BY <2>1, <2>2
  <2>3. ASSUME NEW c \in Slots, NEW r, IsPrivate(r), priv' = [priv EXCEPT ![t][c] = r]
        PROVE  /\ priv' = [u \in Thread |-> [b \in Slots |-> priv'[u][b]]]
               /\ \A u \in Thread : \A b \in Slots : IsPrivate(priv'[u][b])
               /\ \A u \in Thread \ {t} : priv'[u] = priv[u]
    <3>1. priv' = [u \in Thread |-> IF u = t THEN [priv[t] EXCEPT ![c] = r] ELSE priv[u]]
      BY <2>1, <2>3
    <3>2. priv[t] = [b \in Slots |-> priv[t][b]]
      BY <2>1
    <3>3. priv'[t] = [b \in Slots |-> IF b = c THEN r ELSE priv[t][b]]
      BY <3>1, <3>2
    <3>4. \A u \in Thread : priv'[u] = [b \in Slots |-> priv'[u][b]]
      BY <2>1, <3>1, <3>3
    <3>5. \A u \in Thread : \A b \in Slots : IsPrivate(priv'[u][b])
      <4>1. \A b \in Slots : IsPrivate(priv'[t][b])
        BY <2>1, <2>3, <3>3
      <4>2. \A u \in Thread \ {t} : priv'[u] = priv[u]
        BY <3>1
      <4> QED
        BY <2>1, <4>1, <4>2
    <3>6. \A u \in Thread \ {t} : priv'[u] = priv[u]
      BY <3>1
    <3>7. priv' = [u \in Thread |-> priv'[u]]
      BY <3>1
    <3>8. priv' = [u \in Thread |-> [b \in Slots |-> priv'[u][b]]]
      BY <3>4, <3>7
    <3> QED
      BY <3>5, <3>6, <3>8
  <2> QED
    BY <2>2, <2>3 DEF Shape
<1>7. buf' = [b \in Slots |-> buf'[b]] /\ \A b \in Slots : IsBuffer(buf'[b]) /\ buf'[b].index % Buffers = b
  <2>1. buf = [b \in Slots |-> buf[b]] /\ \A b \in Slots : IsBuffer(buf[b]) /\ buf[b].index % Buffers = b
    BY DEF Types
  <2>2. CASE buf' = buf
    BY <2>1, <2>2
  <2>3. ASSUME NEW c \in Slots, NEW r, IsBuffer(r), r.index % Buffers = c, buf' = [buf EXCEPT ![c] = r]
        PROVE  buf' = [b \in Slots |-> buf'[b]] /\ \A b \in Slots : IsBuffer(buf'[b]) /\ buf'[b].index % Buffers = b
    <3>1. buf' = [b \in Slots |-> IF b = c THEN r ELSE buf[b]]
      BY <2>1, <2>3
    <3> QED
      BY <2>1, <2>3, <3>1
  <2> QED
    BY <2>2, <2>3 DEF Shape
<1>8. cur' = [u \in Thread |-> cur'[u]] /\ \A u \in Thread \ {t} : cur'[u] = cur[u]
  <2>1. cur = [u \in Thread |-> cur[u]]
    BY DEF Types
  <2>2. ASSUME NEW c, cur' = [cur EXCEPT ![t] = c]
        PROVE  cur' = [u \in Thread |-> cur'[u]] /\ \A u \in Thread \ {t} : cur'[u] = cur[u]
    BY <2>1, <2>2
  <2> QED
    BY <2>1, <2>2 DEF Shape
<1>9. dispIndex' \in [Thread -> Nat] /\ \A u \in Thread \ {t} : dispIndex'[u] = dispIndex[u]
  <2>1. dispIndex \in [Thread -> Nat]
    BY DEF Types
  <2>2. CASE dispIndex' = [dispIndex EXCEPT ![t] = @ + 1]
    BY <2>1, <2>2
  <2> QED
    BY <2>1, <2>2 DEF Shape
<1>10. ran' = [p \in 1..Last |-> ran'[p]] /\ \A p \in 1..Last : p # at[t] => ran'[p] = ran[p]
  <2>1. ran = [p \in 1..Last |-> ran[p]]
    BY DEF Types
  <2>2. ASSUME NEW f, ran' = [ran EXCEPT ![at[t]] = f]
        PROVE  ran' = [p \in 1..Last |-> ran'[p]] /\ \A p \in 1..Last : p # at[t] => ran'[p] = ran[p]
    BY <2>1, <2>2
  <2> QED
    BY <2>1, <2>2 DEF Shape
<1>11. Types'
  <2>1. program' \in Programs /\ Regular(program)'
    BY <1>1 DEF Types, Regular
  <2> QED
    BY <1>1, <1>3, <1>4, <1>5, <1>6, <1>7, <1>8, <1>9, <1>10, <2>1 DEF Types
<1>12. Frame(t)
  BY <1>1, <1>3, <1>4, <1>5, <1>6, <1>8, <1>9, <1>10 DEF Frame
<1> QED
  BY <1>4, <1>11, <1>12

(* Records.                                                                 *)
Given(r, a, b) == [r EXCEPT !.lo = a, !.hi = b, !.i = a]

LEMMA GivenSet ==
    ASSUME NEW r, NEW a \in Int, NEW b \in Int, IsLocal(r)
    PROVE  IsLocal(Given(r, a, b)) /\ Given(r, a, b).i = a /\ Given(r, a, b).hi = b
<1> DEFINE x == [r EXCEPT !.lo = a]
             y == [x EXCEPT !.hi = b]
             s == [y EXCEPT !.i = a]
<1>1. r.k \in Int /\ r = [lo |-> r.lo, hi |-> r.hi, i |-> r.i, k |-> r.k, victim |-> r.victim, tries |-> r.tries]
  BY DEF IsLocal
<1>2. x = [lo |-> a, hi |-> r.hi, i |-> r.i, k |-> r.k, victim |-> r.victim, tries |-> r.tries]
  BY <1>1
<1> HIDE DEF x
<1>3. y = [lo |-> a, hi |-> b, i |-> r.i, k |-> r.k, victim |-> r.victim, tries |-> r.tries]
  BY <1>2
<1> HIDE DEF y
<1>4. s = [lo |-> a, hi |-> b, i |-> a, k |-> r.k, victim |-> r.victim, tries |-> r.tries]
  BY <1>3
<1> HIDE DEF s
<1>5. IsLocal(s) /\ s.i = a /\ s.hi = b
  BY <1>1, <1>4 DEF IsLocal
<1>6. s = Given(r, a, b)
  BY DEF x, y, s, Given
<1> QED
  BY <1>5, <1>6

LEMMA KSet ==
    ASSUME NEW r, IsLocal(r), NEW a \in Int
    PROVE  LET s == [r EXCEPT !.k = a] IN IsLocal(s) /\ s.k = a /\ s.i = r.i /\ s.hi = r.hi
BY DEF IsLocal

LEMMA ISet ==
    ASSUME NEW r, IsLocal(r), NEW a \in Int
    PROVE  LET s == [r EXCEPT !.i = a] IN IsLocal(s) /\ s.i = a /\ s.hi = r.hi
BY DEF IsLocal

LEMMA BoundsSet ==
    ASSUME NEW r, IsPrivate(r), NEW c
    PROVE  IsPrivate(Bounds(r, c)) /\ Bounds(r, c).count = r.count
BY DEF IsPrivate, Bounds

LEMMA LoopSet ==
    ASSUME NEW r, IsPrivate(r), NEW a
    PROVE  LET s == [r EXCEPT !.loop = a] IN IsPrivate(s) /\ s.count = r.count
BY DEF IsPrivate

LEMMA UbSet ==
    ASSUME NEW r, IsPrivate(r), NEW a
    PROVE  LET s == [r EXCEPT !.ub = a] IN IsPrivate(s) /\ s.count = r.count
BY DEF IsPrivate

LEMMA VictimSet ==
    ASSUME NEW r, IsPrivate(r), NEW a
    PROVE  LET s == [r EXCEPT !.victim = a] IN IsPrivate(s) /\ s.count = r.count
BY DEF IsPrivate

LEMMA LowerSet ==
    ASSUME NEW r, IsPrivate(r), NEW a
    PROVE  LET s == [r EXCEPT !.lower = a] IN IsPrivate(s) /\ s.count = r.count
BY DEF IsPrivate

LEMMA UpperSet ==
    ASSUME NEW r, IsPrivate(r), NEW a
    PROVE  LET s == [r EXCEPT !.upper = a] IN IsPrivate(s) /\ s.count = r.count
BY DEF IsPrivate

LEMMA CountSet ==
    ASSUME NEW r, IsPrivate(r), NEW a \in Nat
    PROVE  LET s == [r EXCEPT !.count = a] IN IsPrivate(s) /\ s.count = a
BY DEF IsPrivate

LEMMA BumpedSet ==
    ASSUME NEW r, IsPrivate(r), NEW a
    PROVE  LET s == [r EXCEPT !.bumped = a] IN IsPrivate(s) /\ s.count = r.count
BY DEF IsPrivate

LEMMA IterationSet ==
    ASSUME NEW r, IsBuffer(r), NEW a \in Nat
    PROVE  LET s == [r EXCEPT !.iteration = a] IN IsBuffer(s) /\ s.iteration = a /\ s.index = r.index /\ s.done = r.done
BY DEF IsBuffer

LEMMA DoneSet ==
    ASSUME NEW r, IsBuffer(r), NEW a \in Nat
    PROVE  LET s == [r EXCEPT !.done = a] IN IsBuffer(s) /\ s.done = a /\ s.index = r.index /\ s.iteration = r.iteration
BY DEF IsBuffer

LEMMA OrderedSet ==
    ASSUME NEW r, IsBuffer(r), NEW a
    PROVE  LET s == [r EXCEPT !.ordered = a] IN IsBuffer(s) /\ s.done = r.done /\ s.index = r.index /\ s.iteration = r.iteration
BY DEF IsBuffer

-----------------------------------------------------------------------------
(* Steps outside of loops.                                                  *)

LEMMA OtherPlace ==
    ASSUME Inv, NEW t \in Thread, NEW place \in InOther \cup {"idle"}, Shape(t, place),
           at[t] \notin LoopNumbers \cup Doacrosses, at[t] <= Last,
           pc[t] \in InOther \cup {"idle"}, buf' = buf, dispIndex' = dispIndex,
           IF place = "idle" THEN at' = [at EXCEPT ![t] = @ + 1] ELSE at' = at
    PROVE  Inv'
<1>1. place \in Places /\ place \notin InLoop \cup Posting \cup {"doacross_buffer", "body"}
  BY DEF Places, InOther, InLoop, Posting, Entered, Drawing, Running, Closing
<1>2. Types /\ PlaceRight(t)
  BY DEF Inv
<1>3. Types' /\ Frame(t) /\ pc'[t] = place
  BY <1>1, <1>2, Shaped
<1>4. /\ n' = n /\ Last' = Last /\ LoopNumbers' = LoopNumbers /\ Doacrosses' = Doacrosses
      /\ \A p : L(p)' = L(p) /\ Number(p)' = Number(p) /\ BufferOf(p)' = BufferOf(p)
      /\ \A l : Schedule(l)' = Schedule(l)
  BY Static DEF Shape
<1>5. BuffersKept(t)
  BY DEF BuffersKept
<1>6. /\ "guided_add" \in InLoop /\ "guided_swap" \in InLoop /\ "body" \in InLoop /\ "buffer" \in InLoop
      /\ Entered \subseteq InLoop /\ "free_flags" \in Posting /\ "doacross_body" \in Posting
  BY DEF InLoop, Posting, Entered, Drawing, Running, Closing
<1>7. at[t] \in 1..(Last + 1) /\ Last \in Nat /\ at \in [Thread -> 1..(Last + 1)]
  BY <1>2, Basics DEF Types
<1>8. pc[t] \notin InLoop
  BY <1>2 DEF InOther, InLoop, Entered, Drawing, Running, Closing
<1>9. dispIndex'[t] = Number(at'[t] - 1)
  <2>1. dispIndex[t] = Number(at[t] - 1)
    <3>1. dispIndex[t] = Number(at[t] - 1) + 0 /\ dispIndex[t] \in Nat
      BY <1>2, <1>8 DEF PlaceRight, Types
    <3>2. Number(at[t] - 1) \in Nat
      BY <1>7, Numbers
    <3> QED
      BY <3>1, <3>2
  <2>2. CASE place = "idle"
    <3>1. at'[t] = at[t] + 1
      BY <1>7, <2>2
    <3>2. Number(at[t]) = Number(at[t] - 1) + 0 /\ Number(at[t] - 1) \in Nat
      BY <1>7, Numbers
    <3> QED
      BY <1>7, <2>1, <3>1, <3>2
  <2>3. CASE place # "idle"
    BY <2>1, <2>3
  <2> QED
    BY <2>2, <2>3
<1>10. dispIndex'[t] \in Nat
  BY <1>3, Static DEF Types, Frame
<1>11. place # "idle" => at'[t] = at[t]
  OBVIOUS
<1>12. PlaceRight(t)'
  <2>1. dispIndex'[t] = Number(at[t] - 1)' + (IF pc[t] \in InLoop THEN 1 ELSE 0)'
    <3>1. Number(at[t] - 1)' = Number(at'[t] - 1)
      BY <1>4
    <3>2. pc'[t] \notin InLoop
      BY <1>1, <1>3
    <3> QED
      BY <1>9, <1>10, <3>1, <3>2
  <2>2. pc'[t] # "idle" => at'[t] <= Last
    BY <1>3, <1>11
  <2>3. pc'[t] # "idle" => at'[t] \notin LoopNumbers \cup Doacrosses
    BY <1>3, <1>11
  <2>4. pc'[t] \notin InLoop \cup Posting \cup {"doacross_buffer", "body"}
    BY <1>1, <1>3
  <2> QED
    BY <1>4, <1>6, <2>1, <2>2, <2>3, <2>4 DEF PlaceRight
<1>13. PostRight(t)'
  BY <1>1, <1>3, <1>6 DEF PostRight
<1> QED
  BY <1>3, <1>5, <1>12, <1>13, Assemble

OtherStep(t) ==
    \/ EnterSingle(t) \/ ClaimSingle(t) \/ EndSingle(t) \/ CopyPrivate(t) \/ CopyOut(t)
    \/ Arrive(t) \/ LeaveBarrier(t) \/ EnterCritical(t) \/ MakeLock(t) \/ SetLock(t) \/ EndCritical(t)

LEMMA OtherSteps ==
    ASSUME Inv, NEW t \in Thread, OtherStep(t)
    PROVE  Inv'
<1>1. Types /\ PlaceRight(t) /\ at[t] \in Nat /\ Last \in Nat
  BY Basics DEF Inv
<1>2. at[t] \notin LoopNumbers \cup Doacrosses /\ at[t] <= Last /\ pc[t] \in InOther \cup {"idle"}
  <2>1. CASE pc[t] = "idle"
    <3>1. at[t] <= Last /\ L(at[t]).kind \in {"single", "barrier", "critical"}
      BY <2>1 DEF OtherStep, EnterSingle, ClaimSingle, EndSingle, CopyPrivate, CopyOut, Arrive, LeaveBarrier,
         EnterCritical, MakeLock, SetLock, EndCritical, Comes, Construct, L, Last
    <3> QED
      BY <2>1, <3>1 DEF LoopNumbers, Doacrosses, L
  <2>2. CASE pc[t] # "idle"
    <3>1. pc[t] \in InOther
      BY <2>2 DEF OtherStep, EnterSingle, ClaimSingle, EndSingle, CopyPrivate, CopyOut, Arrive, LeaveBarrier,
         EnterCritical, MakeLock, SetLock, EndCritical, Comes, InOther
    <3>2. pc[t] \notin InLoop /\ pc[t] \notin Posting \cup {"doacross_buffer"}
      BY <3>1 DEF InOther, InLoop, Posting, Entered, Drawing, Running, Closing
    <3> QED
      BY <1>1, <2>2, <3>1, <3>2 DEF PlaceRight
  <2> QED
    BY <2>1, <2>2
<1>3. /\ program' = program /\ local' = local /\ priv' = priv /\ buf' = buf /\ cur' = cur /\ dispIndex' = dispIndex
      /\ ran' = ran \/ \E f : ran' = [ran EXCEPT ![at[t]] = f]
  <2>1. CASE ClaimSingle(t)
    BY <2>1 DEF ClaimSingle, loops
  <2>2. CASE ~ClaimSingle(t)
    BY <2>2 DEF OtherStep, EnterSingle, EndSingle, CopyPrivate, CopyOut, Arrive, LeaveBarrier,
       EnterCritical, MakeLock, SetLock, EndCritical, loops, others, history
  <2> QED
    BY <2>1, <2>2
<1>4. PICK place \in InOther \cup {"idle"} :
        /\ pc' = [pc EXCEPT ![t] = place]
        /\ IF place = "idle" THEN at' = [at EXCEPT ![t] = @ + 1] ELSE at' = at
  <2>1. CASE EndSingle(t) \/ LeaveBarrier(t) \/ EndCritical(t)
    BY <2>1 DEF EndSingle, LeaveBarrier, EndCritical, NextConstruct, Goto
  <2>2. CASE EnterSingle(t)
    <3>1. pc' = [pc EXCEPT ![t] = "claim"] \/ pc' = [pc EXCEPT ![t] = "not_single"]
      BY <2>2 DEF EnterSingle, Goto
    <3> QED
      BY <2>2, <3>1 DEF EnterSingle, InOther
  <2>3. CASE EnterCritical(t)
    <3>1. pc' = [pc EXCEPT ![t] = "make_lock"] \/ pc' = [pc EXCEPT ![t] = "set_lock"]
      BY <2>3 DEF EnterCritical, Goto
    <3> QED
      BY <2>3, <3>1 DEF EnterCritical, InOther
  <2>4. CASE ClaimSingle(t) \/ CopyPrivate(t) \/ CopyOut(t) \/ Arrive(t) \/ MakeLock(t) \/ SetLock(t)
    <3>1. at' = at
      BY <2>4 DEF ClaimSingle, CopyPrivate, CopyOut, Arrive, MakeLock, SetLock
    <3>2. \E place \in InOther : pc' = [pc EXCEPT ![t] = place]
      BY <2>4 DEF ClaimSingle, CopyPrivate, CopyOut, Arrive, MakeLock, SetLock, Goto, InOther
    <3>3. "idle" \notin InOther
      BY DEF InOther
    <3> QED
      BY <3>1, <3>2, <3>3
  <2> QED
    BY <2>1, <2>2, <2>3, <2>4 DEF OtherStep
<1>5. Shape(t, place)
  BY <1>2, <1>3, <1>4 DEF Shape
<1> QED
  BY <1>2, <1>3, <1>4, <1>5, OtherPlace

-----------------------------------------------------------------------------
(* A thread that is in a loop.                                              *)

LEMMA Inside ==
    ASSUME Inv, NEW t \in Thread, pc[t] \in InLoop, NEW q, q = at[t]
    PROVE  /\ Types /\ PlaceRight(t) /\ q \in LoopNumbers /\ q \in 1..Last /\ q \in Nat /\ Last \in Nat
           /\ RingRight(q) /\ PartRight(q)
           /\ dispIndex[t] = Index(q) + 1 /\ Index(q) \in Nat /\ NameNow(q) \in Nat
           /\ BufferOf(q) \in Slots /\ IsBuffer(buf[BufferOf(q)]) /\ buf[BufferOf(q)].index % Buffers = BufferOf(q)
           /\ IsPrivate(priv[t][BufferOf(q)]) /\ IsLocal(local[t])
           /\ pc[t] \in Entered \ {"leave"} => cur[t] = BufferOf(q) /\ Index(q) = NameNow(q)
<1>1. Types /\ PlaceRight(t) /\ q \in LoopNumbers /\ RingRight(q) /\ PartRight(q)
  BY DEF Inv, PlaceRight
<1>2. q \in 1..Last /\ q \in Nat /\ Last \in Nat /\ Index(q) \in Nat /\ NameNow(q) \in Nat /\ BufferOf(q) \in Slots
  BY <1>1, Basics
<1>3. dispIndex[t] = Index(q) + 1
  <2>1. Index(q) = Number(q - 1)
    BY <1>1, <1>2, Numbers
  <2> QED
    BY <1>1, <2>1 DEF PlaceRight
<1>4. /\ IsBuffer(buf[BufferOf(q)]) /\ buf[BufferOf(q)].index % Buffers = BufferOf(q)
      /\ IsPrivate(priv[t][BufferOf(q)]) /\ IsLocal(local[t])
  BY <1>1, <1>2 DEF Types
<1>5. ASSUME pc[t] \in Entered \ {"leave"}
      PROVE  cur[t] = BufferOf(q) /\ Index(q) = NameNow(q)
  <2>1. EnteredLoop(t, q) /\ (Through(t, q) => Closes(t, q))
    BY <1>2, <1>5 DEF EnteredLoop, Through, Closes
  <2>2. ~(Index(q) < NameNow(q)) /\ ~(Index(q) > NameNow(q))
    BY <1>1, <2>1 DEF RingRight
  <2> QED
    BY <1>1, <1>2, <1>5, <2>2 DEF PlaceRight
<1> QED
  BY <1>1, <1>2, <1>3, <1>4, <1>5

LEMMA InPlace ==
    ASSUME NEW t, NEW q \in Int, at[t] = q
    PROVE  /\ EnteredLoop(t, q) <=> pc[t] \in Entered
           /\ Through(t, q) <=> pc[t] \in Closing \cup {"leave"}
           /\ Closes(t, q) <=> pc[t] \in Closing
           /\ Publishes(t, q) <=> pc[t] = "publish"
           /\ Finished(t, q) <=> pc[t] \in Closing \cup {"leave", "done"}
           /\ pc[t] = "body" => Pending(t, q) = local[t].i..local[t].hi
           /\ pc[t] \in {"deo", "region", "end"} => Pending(t, q) = (local[t].i + 1)..local[t].hi
           /\ pc[t] \notin {"body", "deo", "region", "end"} => Pending(t, q) = {}
           /\ \A m : Had(t, q, m) <=> pc[t] \in Entered /\ m < priv[t][BufferOf(q)].count
BY DEF EnteredLoop, Through, Closes, Publishes, Finished, Pending, Had

(* A thread that is not at an iteration has none pending.                   *)
LEMMA Idle ==
    ASSUME NEW t, NEW q, pc[t] \notin {"body", "deo", "region", "end"}
    PROVE  Pending(t, q) = {}
BY DEF Pending

LEMMA IdleAfter ==
    ASSUME NEW t, NEW q, pc'[t] \notin {"body", "deo", "region", "end"}
    PROVE  Pending(t, q)' = {}
BY DEF Pending

LEMMA InPlaceAfter ==
    ASSUME NEW t, NEW q \in Int, at'[t] = q, program' = program
    PROVE  /\ EnteredLoop(t, q)' <=> pc'[t] \in Entered
           /\ Through(t, q)' <=> pc'[t] \in Closing \cup {"leave"}
           /\ Closes(t, q)' <=> pc'[t] \in Closing
           /\ Publishes(t, q)' <=> pc'[t] = "publish"
           /\ Finished(t, q)' <=> pc'[t] \in Closing \cup {"leave", "done"}
           /\ pc'[t] = "body" => Pending(t, q)' = local'[t].i..local'[t].hi
           /\ pc'[t] \in {"deo", "region", "end"} => Pending(t, q)' = (local'[t].i + 1)..local'[t].hi
           /\ pc'[t] \notin {"body", "deo", "region", "end"} => Pending(t, q)' = {}
           /\ \A m : Had(t, q, m)' <=> pc'[t] \in Entered /\ m < priv'[t][BufferOf(q)].count
<1>1. BufferOf(q)' = BufferOf(q)
  BY Static
<1> QED
  BY <1>1 DEF EnteredLoop, Through, Closes, Publishes, Finished, Pending, Had

(* A step within the loop.                                                  *)
LEMMA PlaceKept ==
    ASSUME Types, NEW t \in Thread, NEW place \in InLoop, Shape(t, place), NEW q \in LoopNumbers,
           at[t] = q, at' = at, dispIndex'[t] = Index(q) + 1,
           place \in Entered \ {"leave"} => cur'[t] = BufferOf(q),
           place \in {"guided_add", "guided_swap"} =>
             Schedule(L(q)) \in {"guided", "guided_simd"} /\ L(q).tc > 0,
           place = "guided_swap" =>
             local'[t].k \in Nat /\ L(q).tc - local'[t].k >= GuidedThreshold(L(q).chunk, n),
           place = "body" => local'[t].i <= local'[t].hi,
           place = "buffer" => priv'[t][BufferOf(q)].count = 0,
           place \in Entered /\ Schedule(L(q)) = "static_chunked" => priv'[t][BufferOf(q)].count % n = 0
    PROVE  PlaceRight(t)' /\ PostRight(t)'
<1>1. place \in Places /\ place \notin Posting \cup {"doacross_buffer", "idle"}
  BY DEF Places, InLoop, Posting, Entered, Drawing, Running, Closing
<1>2. Types' /\ Frame(t) /\ pc'[t] = place
  BY <1>1, Shaped
<1>3. /\ n' = n /\ Last' = Last /\ LoopNumbers' = LoopNumbers /\ Doacrosses' = Doacrosses
      /\ \A p : L(p)' = L(p) /\ Number(p)' = Number(p) /\ BufferOf(p)' = BufferOf(p)
      /\ \A l : Schedule(l)' = Schedule(l)
  BY Static DEF Shape
<1>4. q \in 1..Last /\ Last \in Nat /\ q \notin Doacrosses
  BY Basics
<1>5. Index(q) = Number(q - 1)
  BY <1>4, Numbers
<1>6. at'[t] = q
  OBVIOUS
<1>7. PostRight(t)'
  <2>1. pc'[t] \notin Posting /\ "doacross_body" \in Posting /\ "free_flags" \in Posting
    BY <1>1, <1>2 DEF Posting
  <2> QED
    BY <2>1 DEF PostRight
<1>8. (pc[t] # "idle" => at[t] <= Last)'
  BY <1>3, <1>4, <1>6
<1>9. (pc[t] \in InLoop <=> at[t] \in LoopNumbers /\ pc[t] # "idle")'
  BY <1>1, <1>2, <1>3, <1>6
<1>10. (pc[t] \in Posting \cup {"doacross_buffer"} <=> at[t] \in Doacrosses /\ pc[t] # "idle")'
  BY <1>1, <1>2, <1>3, <1>4, <1>6
<1>11. (dispIndex[t] = Number(at[t] - 1) + (IF pc[t] \in InLoop THEN 1 ELSE 0))'
  <2>1. Number(at[t] - 1)' = Number(q - 1)
    BY <1>3, <1>6
  <2> QED
    BY <1>2, <1>5, <2>1
<1>12. (pc[t] \in Entered \ {"leave"} => cur[t] = BufferOf(at[t]))'
  BY <1>2, <1>3, <1>6
<1>13. (pc[t] \in {"guided_add", "guided_swap"} =>
          Schedule(L(at[t])) \in {"guided", "guided_simd"} /\ L(at[t]).tc > 0)'
  BY <1>2, <1>3, <1>6
<1>14. (pc[t] = "guided_swap" =>
          local[t].k \in Nat /\ L(at[t]).tc - local[t].k >= GuidedThreshold(L(at[t]).chunk, n))'
  BY <1>2, <1>3, <1>6
<1>15. (pc[t] = "body" => local[t].i <= local[t].hi)'
  BY <1>2
<1>16. (pc[t] = "buffer" => priv[t][BufferOf(at[t])].count = 0)'
  BY <1>2, <1>3, <1>6
<1>17. (pc[t] \in Entered /\ Schedule(L(at[t])) = "static_chunked" =>
          priv[t][BufferOf(at[t])].count % n = 0)'
  BY <1>2, <1>3, <1>6
<1> QED
  BY <1>7, <1>8, <1>9, <1>10, <1>11, <1>12, <1>13, <1>14, <1>15, <1>16, <1>17 DEF PlaceRight

(* A step within a loop that does nothing for its ring and its parts.       *)
LEMMA QuietStep ==
    ASSUME Inv, NEW t \in Thread, NEW place \in InLoop, Shape(t, place), NEW q \in LoopNumbers,
           at[t] = q, at' = at, PlaceRight(t)', PostRight(t)', Same(t, q), SameWork(t, q), ran' = ran,
           \A b \in Slots : /\ buf'[b].index = buf[b].index
                            /\ buf'[b].iteration = buf[b].iteration /\ buf'[b].done = buf[b].done
    PROVE  Inv'
<1>1. Types /\ RingRight(q) /\ PartRight(q) /\ place \in Places
  BY DEF Inv, Places
<1>2. Types' /\ Frame(t) /\ program' = program
  BY <1>1, Shaped DEF Shape
<1>3. Index(q) \in Nat /\ NameNow(q) \in Nat /\ BufferOf(q) \in Slots /\ q \notin Doacrosses
  BY <1>1, Basics
<1>4. BuffersKept(t)
  BY DEF BuffersKept
<1>5. \A u \in Thread : Same(u, q) /\ SameWork(u, q)
  BY <1>2, OthersSame
<1>6. NameNow(q)' = NameNow(q)
  <2>1. BufferOf(q)' = BufferOf(q)
    BY <1>2, Static
  <2> QED
    BY <1>3, <2>1 DEF NameNow
<1>7. RingRight(q)' /\ PartRight(q)'
  BY <1>1, <1>2, <1>3, <1>5, <1>6, LoopKept
<1> QED
  BY <1>2, <1>3, <1>4, <1>7, Assemble


(* A step between the draws of a thread and its last for the loop.          *)
LEMMA DrawFrame ==
    ASSUME Inv, NEW t \in Thread, NEW place \in Drawing \cup Running \cup {"done"}, Shape(t, place),
           NEW q, q = at[t], at' = at, pc[t] \in Drawing \cup Running
    PROVE  /\ Types /\ RingRight(q) /\ PartRight(q) /\ q \in LoopNumbers /\ q \in Nat /\ PlaceRight(t)
           /\ Index(q) \in Nat /\ BufferOf(q) \in Slots /\ Index(q) = NameNow(q) /\ ~Published(q)
           /\ cur[t] = BufferOf(q) /\ dispIndex[t] = Index(q) + 1
           /\ Types' /\ Frame(t) /\ program' = program /\ pc'[t] = place /\ at'[t] = q
           /\ ~Published(q)' /\ BufferOf(q)' = BufferOf(q)
           /\ \A u \in Thread : Same(u, q)
           /\ \A u \in Thread \ {t} : SameWork(u, q)
           /\ \A m : Had(t, q, m) <=> m < priv[t][BufferOf(q)].count
           /\ \A m : Had(t, q, m)' <=> m < priv'[t][BufferOf(q)].count
           /\ Finished(t, q)' => place = "done"
<1>1. \A x \in Drawing \cup Running \cup {"done"} :
        x \in Places /\ x \in InLoop /\ x \in Entered \ {"leave"} /\ x \notin Closing \cup {"leave", "publish"}
  BY DEF Places, InLoop, Entered, Drawing, Running, Closing
<1>2. /\ Types /\ RingRight(q) /\ PartRight(q) /\ q \in Nat /\ Index(q) \in Nat /\ BufferOf(q) \in Slots
      /\ q \in LoopNumbers /\ PlaceRight(t) /\ dispIndex[t] = Index(q) + 1
  BY <1>1, Inside
<1>3. Index(q) = NameNow(q) /\ cur[t] = BufferOf(q)
  BY <1>1, Inside
<1>4. Types' /\ Frame(t) /\ program' = program /\ pc'[t] = place /\ at'[t] = q
  BY <1>1, <1>2, Shaped DEF Shape
<1>5. BufferOf(q)' = BufferOf(q) /\ Thread' = Thread
  BY <1>4, Static
<1>6. /\ ~Through(t, q) /\ ~Closes(t, q) /\ ~Publishes(t, q) /\ EnteredLoop(t, q)
      /\ \A m : Had(t, q, m) <=> m < priv[t][BufferOf(q)].count
  BY <1>1, <1>2, InPlace
<1>7. /\ ~Through(t, q)' /\ ~Closes(t, q)' /\ ~Publishes(t, q)' /\ (Finished(t, q)' => place = "done")
      /\ \A m : Had(t, q, m)' <=> m < priv'[t][BufferOf(q)].count
  <2>1. /\ Through(t, q)' <=> pc'[t] \in Closing \cup {"leave"}
        /\ Closes(t, q)' <=> pc'[t] \in Closing
        /\ Publishes(t, q)' <=> pc'[t] = "publish"
        /\ Finished(t, q)' <=> pc'[t] \in Closing \cup {"leave", "done"}
        /\ \A m : Had(t, q, m)' <=> pc'[t] \in Entered /\ m < priv'[t][BufferOf(q)].count
    BY <1>2, <1>4, InPlaceAfter
  <2> QED
    BY <1>1, <1>4, <2>1
<1>8. Same(t, q)
  BY <1>6, <1>7 DEF Same
<1>9. \A u \in Thread : Same(u, q)
  BY <1>4, <1>8, OthersSame
<1>10. \A u \in Thread \ {t} : SameWork(u, q)
  BY <1>4, OthersSame
<1>11. ~Published(q)
  <2> SUFFICES ASSUME Published(q) PROVE FALSE
    OBVIOUS
  <2>1. PICK u \in Thread : Closes(u, q)
    BY DEF Published, Publishes, Closes, Closing
  <2> QED
    BY <1>2, <1>6, <2>1 DEF RingRight, AllThrough
<1>12. ~Published(q)'
  BY <1>5, <1>9, <1>11 DEF Published, Same
<1> QED
  BY <1>2, <1>3, <1>4, <1>5, <1>6, <1>7, <1>9, <1>10, <1>11, <1>12

(* A step within a loop that hands out the iterations "new" to thread t, or *)
(* runs those in "over", or is its last for the loop.                       *)
Draws(t, place, q, new, over) ==
    /\ q = at[t] /\ pc[t] \in Drawing \cup Running
    /\ place \in {"body", "deo", "end", "done"} /\ Shape(t, place)
    /\ at' = at /\ cur' = cur /\ dispIndex' = dispIndex
    /\ \A b \in Slots : /\ buf'[b].index = buf[b].index /\ buf'[b].done = buf[b].done
                        /\ b # BufferOf(q) => buf'[b].iteration = buf[b].iteration
    /\ place = "body" => local'[t].i <= local'[t].hi
    /\ Schedule(L(q)) = "static_chunked" => priv'[t][BufferOf(q)].count % n = 0
    /\ new \in SUBSET Iterations(q) /\ over \in SUBSET Pending(t, q)
    /\ Pending(t, q)' = (Pending(t, q) \cup new) \ over
    /\ \A i \in new : ~Gone(q, i)
    /\ \A i \in Iterations(q) : Gone(q, i)' <=> Gone(q, i) \/ i \in new
    /\ ran'[q] = [i \in Iterations(q) |-> ran'[q][i]]
    /\ \A i \in Iterations(q) : ran'[q][i] = IF i \in over THEN 1 ELSE ran[q][i]
    /\ place = "done" => \A i \in Iterations(q) : Served(t, q, i)'

LEMMA DrawStep ==
    ASSUME Inv, NEW t \in Thread, NEW place, NEW q, NEW new, NEW over, Draws(t, place, q, new, over)
    PROVE  Inv'
<1>0. /\ q = at[t] /\ pc[t] \in Drawing \cup Running
      /\ place \in {"body", "deo", "end", "done"} /\ Shape(t, place)
      /\ at' = at /\ cur' = cur /\ dispIndex' = dispIndex
  BY DEF Draws
<1>1. place \in InLoop /\ place \in Drawing \cup Running \cup {"done"}
  BY <1>0 DEF InLoop, Entered, Drawing, Running
<1>2. /\ Types /\ RingRight(q) /\ PartRight(q) /\ q \in LoopNumbers /\ q \in Nat
      /\ Index(q) \in Nat /\ BufferOf(q) \in Slots /\ Index(q) = NameNow(q) /\ ~Published(q)
      /\ cur[t] = BufferOf(q) /\ dispIndex[t] = Index(q) + 1
      /\ Types' /\ Frame(t) /\ program' = program /\ pc'[t] = place /\ at'[t] = q
      /\ BufferOf(q)' = BufferOf(q)
      /\ \A u \in Thread : Same(u, q)
      /\ \A u \in Thread \ {t} : SameWork(u, q)
      /\ Finished(t, q)' => place = "done"
  BY <1>0, <1>1, DrawFrame
<1>3. PlaceRight(t)' /\ PostRight(t)'
  <2>1. /\ place = "body" => local'[t].i <= local'[t].hi
        /\ Schedule(L(q)) = "static_chunked" => priv'[t][BufferOf(q)].count % n = 0
    BY DEF Draws
  <2> QED
    BY <1>0, <1>1, <1>2, <2>1, PlaceKept
<1>4. BuffersKept(t)
  BY <1>0, <1>2 DEF BuffersKept, Draws
<1>5. NameNow(q)' = NameNow(q)
  BY <1>2 DEF NameNow, Draws
<1>6. RingRight(q)'
  <2>1. buf'[BufferOf(q)].done = buf[BufferOf(q)].done
    BY <1>2 DEF Draws
  <2> QED
    BY <1>2, <1>5, <2>1, RingKept
<1>7. ASSUME NEW u \in Thread, Finished(u, q)', NEW i \in Iterations(q)
      PROVE  Served(u, q, i)'
  <2>1. CASE u = t
    BY <1>2, <1>7, <2>1 DEF Draws
  <2>2. CASE u # t
    <3>1. SameWork(u, q)
      BY <1>2, <2>2
    <3>2. Finished(u, q) /\ \A m \in Nat : Had(u, q, m) => Had(u, q, m)'
      BY <1>7, <3>1 DEF SameWork
    <3>3. Served(u, q, i)
      BY <1>2, <3>2 DEF PartRight
    <3>4. Gone(q, i) => Gone(q, i)'
      BY DEF Draws
    <3> QED
      BY <1>2, <3>2, <3>3, <3>4, ServedKept
  <2> QED
    BY <2>1, <2>2
<1>8. PartRight(q)'
  <2>1. ran'[q] = [i \in Iterations(q) |-> IF i \in over THEN 1 ELSE ran[q][i]]
    <3>1. /\ ran'[q] = [i \in Iterations(q) |-> ran'[q][i]]
          /\ \A i \in Iterations(q) : ran'[q][i] = IF i \in over THEN 1 ELSE ran[q][i]
      BY DEF Draws
    <3> QED
      BY <3>1
  <2>2. /\ new \in SUBSET Iterations(q) /\ over \in SUBSET Pending(t, q)
        /\ Pending(t, q)' = (Pending(t, q) \cup new) \ over
        /\ \A i \in new : ~Gone(q, i)
        /\ \A i \in Iterations(q) : Gone(q, i)' <=> Gone(q, i) \/ i \in new
    BY DEF Draws
  <2> QED
    BY <1>2, <1>7, <2>1, <2>2, PartKept
<1>9. q \notin Doacrosses
  BY <1>2, Basics
<1> QED
  BY <1>0, <1>2, <1>3, <1>4, <1>6, <1>8, <1>9, Assemble

(* What has gone when neither the counter nor the thread's count moves.     *)
LEMMA NothingDrawn ==
    ASSUME Inv, NEW t \in Thread, NEW place \in Drawing \cup Running \cup {"done"}, Shape(t, place),
           NEW q, q = at[t], at' = at, pc[t] \in Drawing \cup Running, priv' = priv, buf' = buf
    PROVE  /\ \A m \in Nat : Had(t, q, m) <=> Had(t, q, m)'
           /\ \A i : Gone(q, i)' <=> Gone(q, i)
<1>1. /\ q \in LoopNumbers /\ program' = program /\ BufferOf(q)' = BufferOf(q)
      /\ \A u \in Thread : Same(u, q)
      /\ \A u \in Thread \ {t} : SameWork(u, q)
      /\ \A m : Had(t, q, m) <=> m < priv[t][BufferOf(q)].count
      /\ \A m : Had(t, q, m)' <=> m < priv'[t][BufferOf(q)].count
  BY DrawFrame
<1>2. \A u \in Thread : \A m \in Nat : Had(u, q, m)' <=> Had(u, q, m)
  BY <1>1 DEF SameWork
<1>3. NameNow(q)' = NameNow(q)
  BY <1>1 DEF NameNow
<1>4. \A i : Gone(q, i)' <=> Gone(q, i)
  BY <1>1, <1>2, <1>3, GoneKept
<1> QED
  BY <1>2, <1>4

(* The start of a loop.                                                     *)
LEMMA DispatchInitStep ==
    ASSUME Inv, NEW t \in Thread, DispatchInit(t)
    PROVE  Inv'
<1>0. PICK q : q = at[t]
  OBVIOUS
<1> DEFINE r == priv'[t][BufferOf(q)]
<1>1. Types /\ PlaceRight(t) /\ Last \in Nat /\ q \in Nat
  BY <1>0, Basics DEF Inv
<1>2. q \in LoopNumbers /\ q \in 1..Last /\ pc[t] = "idle"
  <2>1. q <= Last /\ L(q).kind = "loop" /\ pc[t] = "idle"
    BY <1>0 DEF DispatchInit, Comes, Construct, L, Last
  <2>2. q \in 1..Last
    BY <1>0, <1>1, <2>1 DEF Types
  <2> QED
    BY <2>1, <2>2 DEF LoopNumbers, L
<1>3. dispIndex[t] = Index(q) /\ BufferOf(q) \in Slots /\ Index(q) \in Nat
  <2>1. Index(q) = Number(q - 1) /\ Index(q) \in Nat /\ BufferOf(q) \in Slots
    BY <1>1, <1>2, Numbers, Basics
  <2>2. "idle" \notin InLoop
    BY DEF InLoop, Entered, Drawing, Running, Closing
  <2> QED
    BY <1>0, <1>1, <1>2, <2>1, <2>2 DEF PlaceRight
<1>4. Slot(dispIndex[t]) = BufferOf(q)
  BY <1>3 DEF BufferOf
<1>5. Schedule(L(q)) # "static_steal" /\ Construct(t) = L(q)
  BY <1>0, <1>1, <1>2, Schedules DEF Types, ByCounter, ByThread, Construct, L
<1>6. /\ IsPrivate(r) /\ r.count = 0 /\ priv' = [priv EXCEPT ![t][BufferOf(q)] = r]
  <2>1. PICK p : p = priv[t][BufferOf(q)] /\ IsPrivate(p)
    BY <1>1, <1>3 DEF Types
  <2>2. PICK a, b, c : priv' = [priv EXCEPT ![t][BufferOf(q)] =
            [p EXCEPT !.loop = a, !.count = 0, !.ub = b, !.victim = c, !.lower = 1, !.upper = 0, !.bumped = 0]]
    <3> DEFINE share == StealShare(Construct(t).tc, Construct(t).chunk, n, t)
               steal == Schedule(Construct(t)) = "static_steal"
    <3>1. priv' = [priv EXCEPT ![t][Slot(dispIndex[t])] =
                     [@ EXCEPT !.loop = at[t], !.count = IF steal THEN share.count ELSE 0,
                               !.ub = IF steal THEN share.ub ELSE Construct(t).tc, !.victim = (t + 1) % n,
                               !.lower = 1, !.upper = 0, !.bumped = 0]]
      BY DEF DispatchInit
    <3>2. ~steal
      BY <1>5
    <3> HIDE DEF share, steal
    <3>3. priv' = [priv EXCEPT ![t][Slot(dispIndex[t])] =
                     [@ EXCEPT !.loop = at[t], !.count = 0, !.ub = Construct(t).tc, !.victim = (t + 1) % n,
                               !.lower = 1, !.upper = 0, !.bumped = 0]]
      BY <3>1, <3>2
    <3> QED
      BY <1>4, <2>1, <3>3
  <2> DEFINE s1 == [p EXCEPT !.loop = a]
             s2 == [s1 EXCEPT !.count = 0]
             s3 == [s2 EXCEPT !.ub = b]
             s4 == [s3 EXCEPT !.victim = c]
             s5 == [s4 EXCEPT !.lower = 1]
             s6 == [s5 EXCEPT !.upper = 0]
             s == [s6 EXCEPT !.bumped = 0]
  <2>3. IsPrivate(s) /\ s.count = 0
    <3>1. IsPrivate(s1)
      BY <2>1, LoopSet
    <3> HIDE DEF s1
    <3>2. IsPrivate(s2) /\ s2.count = 0
      BY <3>1, CountSet
    <3> HIDE DEF s2
    <3>3. IsPrivate(s3) /\ s3.count = 0
      BY <3>2, UbSet
    <3> HIDE DEF s3
    <3>4. IsPrivate(s4) /\ s4.count = 0
      BY <3>3, VictimSet
    <3> HIDE DEF s4
    <3>5. IsPrivate(s5) /\ s5.count = 0
      BY <3>4, LowerSet
    <3> HIDE DEF s5
    <3>6. IsPrivate(s6) /\ s6.count = 0
      BY <3>5, UpperSet
    <3> HIDE DEF s6
    <3> QED
      BY <3>6, BumpedSet
  <2>4. priv' = [priv EXCEPT ![t][BufferOf(q)] = s]
    BY <2>2
  <2> HIDE DEF s
  <2>5. r = s
    BY <1>1, <1>3, <2>4 DEF Types
  <2> QED
    BY <2>3, <2>4, <2>5
<1> HIDE DEF r
<1>7. /\ program' = program /\ at' = at /\ local' = local /\ cur' = cur /\ buf' = buf /\ ran' = ran
      /\ dispIndex' = [dispIndex EXCEPT ![t] = @ + 1] /\ pc' = [pc EXCEPT ![t] = "buffer"]
  BY DEF DispatchInit, history, Goto
<1>8. Shape(t, "buffer")
  BY <1>0, <1>3, <1>6, <1>7 DEF Shape
<1>9. "buffer" \in InLoop /\ "buffer" \notin Entered /\ "idle" \notin Entered
  BY DEF InLoop, Entered, Drawing, Running, Closing
<1>10. dispIndex'[t] = Index(q) + 1 /\ pc'[t] = "buffer" /\ at'[t] = q
  BY <1>0, <1>1, <1>3, <1>7 DEF Types
<1>11. PlaceRight(t)' /\ PostRight(t)'
  BY <1>0, <1>1, <1>2, <1>6, <1>7, <1>8, <1>9, <1>10, PlaceKept DEF r
<1>12. Same(t, q) /\ SameWork(t, q)
  <2>1. /\ EnteredLoop(t, q)' <=> pc'[t] \in Entered
        /\ Through(t, q)' <=> pc'[t] \in Closing \cup {"leave"}
        /\ Closes(t, q)' <=> pc'[t] \in Closing
        /\ Publishes(t, q)' <=> pc'[t] = "publish"
        /\ Finished(t, q)' <=> pc'[t] \in Closing \cup {"leave", "done"}
        /\ pc'[t] \notin {"body", "deo", "region", "end"} => Pending(t, q)' = {}
        /\ \A m : Had(t, q, m)' <=> pc'[t] \in Entered /\ m < priv'[t][BufferOf(q)].count
    <3>1. q \in Int /\ program' = program /\ at'[t] = q
      BY <1>1, <1>7, <1>10
    <3> QED
      BY <3>1, InPlaceAfter
  <2>2. /\ ~EnteredLoop(t, q)' /\ ~Through(t, q)' /\ ~Closes(t, q)' /\ ~Publishes(t, q)' /\ ~Finished(t, q)'
        /\ Pending(t, q)' = {} /\ \A m : ~Had(t, q, m)'
    BY <1>9, <1>10, <2>1 DEF Closing
  <2>3. /\ ~Through(t, q) /\ ~Closes(t, q) /\ ~Publishes(t, q) /\ ~Finished(t, q)
        /\ Pending(t, q) = {} /\ \A m : ~Had(t, q, m)
    <3>1. q \in Int /\ at[t] = q /\ pc[t] = "idle"
      BY <1>0, <1>1, <1>2, <1>9
    <3>2. /\ EnteredLoop(t, q) <=> pc[t] \in Entered
          /\ Through(t, q) <=> pc[t] \in Closing \cup {"leave"}
          /\ Closes(t, q) <=> pc[t] \in Closing
          /\ Publishes(t, q) <=> pc[t] = "publish"
          /\ Finished(t, q) <=> pc[t] \in Closing \cup {"leave", "done"}
          /\ pc[t] \notin {"body", "deo", "region", "end"} => Pending(t, q) = {}
          /\ \A m : Had(t, q, m) <=> pc[t] \in Entered /\ m < priv[t][BufferOf(q)].count
      BY <3>1, InPlace
    <3> QED
      BY <1>9, <3>1, <3>2 DEF Closing
  <2> QED
    BY <2>2, <2>3 DEF Same, SameWork
<1> QED
  BY <1>0, <1>2, <1>7, <1>8, <1>9, <1>11, <1>12, QuietStep

LEMMA BufferReadyStep ==
    ASSUME Inv, NEW t \in Thread, BufferReady(t)
    PROVE  Inv'
<1>1. "buffer" \in InLoop /\ "next" \in InLoop /\ "next" \in Entered \ {"leave"} /\ "buffer" \notin Entered
  BY DEF InLoop, Entered, Drawing, Running, Closing
<1>2. PICK q : q = at[t]
  OBVIOUS
<1>3. /\ Types /\ PlaceRight(t) /\ q \in LoopNumbers /\ q \in Nat
      /\ dispIndex[t] = Index(q) + 1 /\ Index(q) \in Nat
      /\ BufferOf(q) \in Slots
  BY <1>1, <1>2, Inside DEF BufferReady
<1>4. dispIndex[t] - 1 = Index(q)
  BY <1>3
<1>5. /\ pc[t] = "buffer" /\ NameNow(q) = Index(q) /\ cur' = [cur EXCEPT ![t] = BufferOf(q)]
      /\ program' = program /\ at' = at /\ local' = local /\ priv' = priv /\ buf' = buf /\ ran' = ran
      /\ dispIndex' = dispIndex
  BY <1>4 DEF BufferReady, NameNow, BufferOf, history
<1>6. L(q).sched # "static_steal" /\ Construct(t) = L(q)
  BY <1>2, <1>3, Schedules DEF Types, Construct, L
<1>7. pc' = [pc EXCEPT ![t] = "next"]
  BY <1>6 DEF BufferReady, Goto
<1>8. Shape(t, "next")
  BY <1>5, <1>7 DEF Shape
<1>9. pc'[t] = "next" /\ cur'[t] = BufferOf(q) /\ at'[t] = q
  BY <1>2, <1>3, <1>5, <1>7 DEF Types
<1>10. priv[t][BufferOf(q)].count = 0 /\ 0 % n = 0
  <2>1. n \in Nat \ {0}
    BY <1>3, Basics
  <2> QED
    BY <1>2, <1>3, <1>5, <2>1 DEF PlaceRight
<1>11. PlaceRight(t)' /\ PostRight(t)'
  BY <1>1, <1>2, <1>3, <1>5, <1>8, <1>9, <1>10, PlaceKept
<1>12. Same(t, q)
  BY <1>2, <1>3, <1>5, <1>9, InPlace, InPlaceAfter DEF Same, Closing
<1>13. SameWork(t, q)
  <2>1. /\ ~Finished(t, q)' /\ Pending(t, q)' = {}
        /\ \A m : Had(t, q, m)' <=> "next" \in Entered /\ m < priv'[t][BufferOf(q)].count
    <3>1. /\ Finished(t, q)' <=> pc'[t] \in Closing \cup {"leave", "done"}
          /\ pc'[t] \notin {"body", "deo", "region", "end"} => Pending(t, q)' = {}
          /\ \A m : Had(t, q, m)' <=> pc'[t] \in Entered /\ m < priv'[t][BufferOf(q)].count
      BY <1>3, <1>5, <1>9, InPlaceAfter
    <3> QED
      BY <1>9, <3>1 DEF Closing
  <2>2. ~Finished(t, q) /\ Pending(t, q) = {} /\ \A m : ~Had(t, q, m)
    BY <1>1, <1>2, <1>3, <1>5, InPlace DEF Closing
  <2>3. \A m \in Nat : ~Had(t, q, m)'
    BY <1>5, <1>10, <2>1
  <2> QED
    BY <2>1, <2>2, <2>3 DEF SameWork
<1> QED
  BY <1>1, <1>2, <1>3, <1>5, <1>8, <1>11, <1>12, <1>13, QuietStep


-----------------------------------------------------------------------------
(* Steps that give out nothing.                                             *)

LEMMA BufferSet ==
    ASSUME Types, NEW b \in Slots, NEW r, IsBuffer(r), r.index = buf[b].index, buf' = [buf EXCEPT ![b] = r]
    PROVE  /\ r.index % Buffers = b /\ buf'[b] = r /\ \A c \in Slots : c # b => buf'[c] = buf[c]
<1>1. buf = [c \in Slots |-> buf[c]] /\ buf[b].index % Buffers = b
  BY DEF Types
<1> QED
  BY <1>1

LEMMA PrivateSet ==
    ASSUME Types, NEW t \in Thread, NEW b \in Slots, NEW r, priv' = [priv EXCEPT ![t][b] = r]
    PROVE  priv'[t][b] = r
BY DEF Types

LEMMA LocalSet ==
    ASSUME Types, NEW t \in Thread, NEW r, local' = [local EXCEPT ![t] = r]
    PROVE  local'[t] = r
BY DEF Types

LEMMA RunningStep ==
    ASSUME Inv, NEW t \in Thread, NEW place \in Drawing \cup Running, Shape(t, place), NEW q, q = at[t],
           pc[t] \in Drawing \cup Running, at' = at, cur' = cur, dispIndex' = dispIndex, ran' = ran,
           \A b \in Slots : /\ buf'[b].index = buf[b].index
                            /\ buf'[b].iteration = buf[b].iteration /\ buf'[b].done = buf[b].done,
           priv'[t][BufferOf(q)].count = priv[t][BufferOf(q)].count,
           Pending(t, q)' = Pending(t, q),
           place \in {"guided_add", "guided_swap"} =>
             Schedule(L(q)) \in {"guided", "guided_simd"} /\ L(q).tc > 0,
           place = "guided_swap" =>
             local'[t].k \in Nat /\ L(q).tc - local'[t].k >= GuidedThreshold(L(q).chunk, n),
           place = "body" => local'[t].i <= local'[t].hi
    PROVE  Inv'
<1>1. \A x \in Drawing \cup Running : x \in InLoop /\ x \in Entered \ {"leave", "done"} /\ x \notin Closing /\ x # "buffer"
  BY DEF InLoop, Entered, Drawing, Running, Closing
<1>2. /\ Types /\ PlaceRight(t) /\ q \in LoopNumbers /\ q \in Nat /\ dispIndex[t] = Index(q) + 1
      /\ cur[t] = BufferOf(q)
  BY <1>1, Inside
<1>3. pc'[t] = place /\ at'[t] = q /\ program' = program /\ place \in Places
  <2>1. place \in Places
    BY <1>1 DEF Places
  <2> QED
    BY <1>2, <2>1, Shaped DEF Shape
<1>4. Schedule(L(q)) = "static_chunked" => priv'[t][BufferOf(q)].count % n = 0
  BY <1>1, <1>2 DEF PlaceRight
<1>5. PlaceRight(t)' /\ PostRight(t)'
  BY <1>1, <1>2, <1>4, PlaceKept
<1>6. /\ ~Through(t, q) /\ ~Closes(t, q) /\ ~Publishes(t, q) /\ ~Finished(t, q) /\ EnteredLoop(t, q)
      /\ \A m : Had(t, q, m) <=> m < priv[t][BufferOf(q)].count
  BY <1>1, <1>2, InPlace DEF Closing
<1>7. /\ ~Through(t, q)' /\ ~Closes(t, q)' /\ ~Publishes(t, q)' /\ ~Finished(t, q)' /\ EnteredLoop(t, q)'
      /\ \A m : Had(t, q, m)' <=> m < priv'[t][BufferOf(q)].count
  <2>1. /\ EnteredLoop(t, q)' <=> pc'[t] \in Entered
        /\ Through(t, q)' <=> pc'[t] \in Closing \cup {"leave"}
        /\ Closes(t, q)' <=> pc'[t] \in Closing
        /\ Publishes(t, q)' <=> pc'[t] = "publish"
        /\ Finished(t, q)' <=> pc'[t] \in Closing \cup {"leave", "done"}
        /\ \A m : Had(t, q, m)' <=> pc'[t] \in Entered /\ m < priv'[t][BufferOf(q)].count
    BY <1>2, <1>3, InPlaceAfter
  <2> QED
    BY <1>1, <1>3, <2>1 DEF Closing
<1>8. Same(t, q) /\ SameWork(t, q)
  BY <1>6, <1>7 DEF Same, SameWork
<1> QED
  BY <1>1, <1>2, <1>5, <1>8, QuietStep

LEMMA DeoStep ==
    ASSUME Inv, NEW t \in Thread, Deo(t)
    PROVE  Inv'
<1>1. "deo" \in Running /\ "region" \in Running
  BY DEF Running
<1>2. PICK q : q = at[t] /\ q \in Nat
  BY Basics DEF Inv
<1>3. /\ pc[t] = "deo" /\ pc' = [pc EXCEPT ![t] = "region"] /\ program' = program /\ at' = at /\ local' = local
      /\ priv' = priv /\ buf' = buf /\ cur' = cur /\ dispIndex' = dispIndex /\ ran' = ran
  BY DEF Deo, Goto, loops, history
<1>4. Shape(t, "region") /\ at'[t] = q /\ pc'[t] = "region"
  BY <1>2, <1>3 DEF Shape, Inv, Types
<1>5. Pending(t, q)' = Pending(t, q)
  <2>1. Pending(t, q)' = (local'[t].i + 1)..local'[t].hi
    BY <1>2, <1>3, <1>4, InPlaceAfter
  <2>2. Pending(t, q) = (local[t].i + 1)..local[t].hi
    BY <1>2, <1>3, InPlace
  <2> QED
    BY <1>3, <2>1, <2>2
<1> QED
  BY <1>1, <1>2, <1>3, <1>4, <1>5, RunningStep

LEMMA DxoStep ==
    ASSUME Inv, NEW t \in Thread, Dxo(t)
    PROVE  Inv'
<1>1. "region" \in Running /\ "end" \in Running /\ "region" \in Entered \ {"leave"} /\ "region" \in InLoop
  BY DEF Running, Entered, InLoop
<1>2. PICK q : q = at[t]
  OBVIOUS
<1>3. /\ Types /\ q \in Nat /\ cur[t] = BufferOf(q) /\ BufferOf(q) \in Slots
      /\ IsBuffer(buf[BufferOf(q)]) /\ IsPrivate(priv[t][BufferOf(q)])
  BY <1>1, <1>2, Inside DEF Dxo
<1> DEFINE b == [buf[BufferOf(q)] EXCEPT !.ordered = buf[BufferOf(q)].ordered + 1]
           r == [priv[t][BufferOf(q)] EXCEPT !.bumped = priv[t][BufferOf(q)].bumped + 1]
<1>4. /\ pc[t] = "region" /\ pc' = [pc EXCEPT ![t] = "end"] /\ program' = program /\ at' = at /\ local' = local
      /\ priv' = [priv EXCEPT ![t][BufferOf(q)] = r] /\ buf' = [buf EXCEPT ![BufferOf(q)] = b]
      /\ cur' = cur /\ dispIndex' = dispIndex /\ ran' = ran
  BY <1>3 DEF Dxo, Goto
<1>5. /\ IsBuffer(b) /\ b.index = buf[BufferOf(q)].index /\ b.done = buf[BufferOf(q)].done
      /\ b.iteration = buf[BufferOf(q)].iteration
      /\ IsPrivate(r) /\ r.count = priv[t][BufferOf(q)].count
  <2>1. /\ IsBuffer(b) /\ b.index = buf[BufferOf(q)].index /\ b.done = buf[BufferOf(q)].done
        /\ b.iteration = buf[BufferOf(q)].iteration
    BY <1>3, OrderedSet
  <2>2. IsPrivate(r) /\ r.count = priv[t][BufferOf(q)].count
    BY <1>3, BumpedSet
  <2> QED
    BY <2>1, <2>2
<1> HIDE DEF b, r
<1>6. /\ b.index % Buffers = BufferOf(q) /\ buf'[BufferOf(q)] = b
      /\ (\A c \in Slots : c # BufferOf(q) => buf'[c] = buf[c]) /\ priv'[t][BufferOf(q)] = r
  BY <1>3, <1>4, <1>5, BufferSet, PrivateSet
<1>7. Shape(t, "end") /\ at'[t] = q /\ pc'[t] = "end"
  BY <1>2, <1>3, <1>4, <1>5, <1>6 DEF Shape, Types
<1>8. Pending(t, q)' = Pending(t, q)
  <2>1. Pending(t, q)' = (local'[t].i + 1)..local'[t].hi
    BY <1>3, <1>4, <1>7, InPlaceAfter
  <2>2. Pending(t, q) = (local[t].i + 1)..local[t].hi
    BY <1>2, <1>3, <1>4, InPlace
  <2> QED
    BY <1>4, <2>1, <2>2
<1>9. \A c \in Slots : /\ buf'[c].index = buf[c].index
                       /\ buf'[c].iteration = buf[c].iteration /\ buf'[c].done = buf[c].done
  BY <1>5, <1>6
<1> QED
  BY <1>1, <1>2, <1>3, <1>4, <1>5, <1>6, <1>7, <1>8, <1>9, RunningStep


LEMMA AfterIterationRight ==
    ASSUME Types, NEW t \in Thread, NEW q \in Int, at[t] = q, pc[t] = "end", AfterIteration(t),
           program' = program, at' = at
    PROVE  \E place \in Drawing \cup Running :
             /\ pc' = [pc EXCEPT ![t] = place] /\ place \in {"body", "chunk_end", "next"}
             /\ local' = local \/ \E r : IsLocal(r) /\ local' = [local EXCEPT ![t] = r]
             /\ Pending(t, q)' = Pending(t, q)
             /\ place = "body" => local'[t].i <= local'[t].hi
<1>1. "body" \in Running /\ "chunk_end" \in Running /\ "next" \in Drawing
  BY DEF Running, Drawing
<1>2. Pending(t, q) = (local[t].i + 1)..local[t].hi
  BY InPlace
<1>3. IsLocal(local[t]) /\ local[t].i \in Int /\ local[t].hi \in Int
  BY DEF Types, IsLocal
<1>4. CASE local[t].i < local[t].hi
  <2> DEFINE r == [local[t] EXCEPT !.i = local[t].i + 1]
  <2>1. local' = [local EXCEPT ![t] = r] /\ pc' = [pc EXCEPT ![t] = "body"]
    BY <1>4 DEF AfterIteration, Goto
  <2>2. IsLocal(r) /\ r.i = local[t].i + 1 /\ r.hi = local[t].hi
    BY <1>3, ISet
  <2> HIDE DEF r
  <2>3. local'[t] = r /\ pc'[t] = "body" /\ at'[t] = q
    BY <2>1, LocalSet DEF Types
  <2>4. Pending(t, q)' = r.i..r.hi
    BY <2>3, InPlaceAfter
  <2> QED
    BY <1>1, <1>2, <1>3, <1>4, <2>1, <2>2, <2>3, <2>4
<1>5. CASE ~(local[t].i < local[t].hi)
  <2>1. PICK place \in {"chunk_end", "next"} : local' = local /\ pc' = [pc EXCEPT ![t] = place]
    BY <1>5 DEF AfterIteration, Goto
  <2>2. pc'[t] = place /\ at'[t] = q
    BY <2>1 DEF Types
  <2>3. Pending(t, q)' = {}
    BY <2>2, InPlaceAfter
  <2>4. Pending(t, q) = {}
    BY <1>2, <1>3, <1>5
  <2> QED
    BY <1>1, <2>1, <2>3, <2>4
<1> QED
  BY <1>4, <1>5

LEMMA EndIterationStep ==
    ASSUME Inv, NEW t \in Thread, EndIteration(t)
    PROVE  Inv'
<1>1. PICK q : q = at[t] /\ q \in Nat
  BY Basics DEF Inv
<1>2. /\ pc[t] = "end" /\ program' = program /\ at' = at /\ priv' = priv /\ buf' = buf /\ cur' = cur
      /\ dispIndex' = dispIndex /\ ran' = ran /\ AfterIteration(t) /\ "end" \in Running
  BY DEF EndIteration, loops, history, Running
<1>3. PICK place \in Drawing \cup Running :
             /\ pc' = [pc EXCEPT ![t] = place] /\ place \in {"body", "chunk_end", "next"}
             /\ local' = local \/ \E r : IsLocal(r) /\ local' = [local EXCEPT ![t] = r]
             /\ Pending(t, q)' = Pending(t, q)
             /\ place = "body" => local'[t].i <= local'[t].hi
  BY <1>1, <1>2, AfterIterationRight DEF Inv
<1>4. Shape(t, place)
  BY <1>2, <1>3 DEF Shape
<1> QED
  BY <1>1, <1>2, <1>3, <1>4, RunningStep

LEMMA FinishStep ==
    ASSUME Inv, NEW t \in Thread, Finish(t)
    PROVE  Inv'
<1>1. "end" \in Running /\ "end" \in Entered \ {"leave"} /\ "end" \in InLoop
  BY DEF Running, Entered, InLoop
<1>2. PICK q : q = at[t]
  OBVIOUS
<1>3. /\ Types /\ q \in Nat /\ cur[t] = BufferOf(q) /\ BufferOf(q) \in Slots
      /\ IsBuffer(buf[BufferOf(q)]) /\ IsPrivate(priv[t][BufferOf(q)])
  BY <1>1, <1>2, Inside DEF Finish
<1> DEFINE b == [buf[BufferOf(q)] EXCEPT !.ordered = buf[BufferOf(q)].ordered + 1]
           r == [priv[t][BufferOf(q)] EXCEPT !.bumped = 0]
<1>4. /\ pc[t] = "end" /\ program' = program /\ at' = at /\ AfterIteration(t)
      /\ cur' = cur /\ dispIndex' = dispIndex /\ ran' = ran
  BY DEF Finish, history
<1>5. \/ priv' = [priv EXCEPT ![t][BufferOf(q)] = r] /\ buf' = buf
      \/ priv' = priv /\ buf' = [buf EXCEPT ![BufferOf(q)] = b]
  BY <1>3 DEF Finish
<1>6. /\ IsBuffer(b) /\ b.index = buf[BufferOf(q)].index /\ b.done = buf[BufferOf(q)].done
      /\ b.iteration = buf[BufferOf(q)].iteration
  BY <1>3, OrderedSet
<1>7. IsPrivate(r) /\ r.count = priv[t][BufferOf(q)].count
  BY <1>3, BumpedSet
<1> HIDE DEF b, r
<1>8. /\ priv' = priv \/ \E c \in Slots : \E x : IsPrivate(x) /\ priv' = [priv EXCEPT ![t][c] = x]
      /\ priv'[t][BufferOf(q)].count = priv[t][BufferOf(q)].count
  BY <1>3, <1>5, <1>7, PrivateSet
<1>9. buf' = buf \/ \E c \in Slots : \E x : IsBuffer(x) /\ x.index % Buffers = c /\ buf' = [buf EXCEPT ![c] = x]
  BY <1>3, <1>5, <1>6, BufferSet
<1>10. \A c \in Slots : /\ buf'[c].index = buf[c].index
                        /\ buf'[c].iteration = buf[c].iteration /\ buf'[c].done = buf[c].done
  <2>1. CASE buf' = [buf EXCEPT ![BufferOf(q)] = b]
    <3>1. buf'[BufferOf(q)] = b /\ \A c \in Slots : c # BufferOf(q) => buf'[c] = buf[c]
      BY <1>3, <1>6, <2>1, BufferSet
    <3> QED
      BY <1>6, <3>1
  <2> QED
    BY <1>5, <2>1
<1>11. PICK place \in Drawing \cup Running :
             /\ pc' = [pc EXCEPT ![t] = place] /\ place \in {"body", "chunk_end", "next"}
             /\ local' = local \/ \E x : IsLocal(x) /\ local' = [local EXCEPT ![t] = x]
             /\ Pending(t, q)' = Pending(t, q)
             /\ place = "body" => local'[t].i <= local'[t].hi
  BY <1>2, <1>3, <1>4, AfterIterationRight
<1>12. Shape(t, place)
  BY <1>4, <1>8, <1>9, <1>11 DEF Shape
<1> QED
  BY <1>1, <1>2, <1>4, <1>8, <1>10, <1>11, <1>12, RunningStep

LEMMA FinishChunkStep ==
    ASSUME Inv, NEW t \in Thread, FinishChunk(t)
    PROVE  Inv'
<1>1. /\ "chunk_end" \in Running /\ "chunk_end" \in Entered \ {"leave"} /\ "chunk_end" \in InLoop
      /\ "next" \in Drawing
  BY DEF Running, Entered, InLoop, Drawing
<1>2. PICK q : q = at[t]
  OBVIOUS
<1>3. /\ Types /\ q \in Nat /\ cur[t] = BufferOf(q) /\ BufferOf(q) \in Slots
      /\ IsBuffer(buf[BufferOf(q)]) /\ IsPrivate(priv[t][BufferOf(q)])
  BY <1>1, <1>2, Inside DEF FinishChunk
<1> DEFINE b == [buf[BufferOf(q)] EXCEPT !.ordered = buf[BufferOf(q)].ordered + OrderedLeftInChunk(t)]
           r == [priv[t][BufferOf(q)] EXCEPT !.bumped = 0]
<1>4. /\ pc[t] = "chunk_end" /\ pc' = [pc EXCEPT ![t] = "next"] /\ program' = program /\ at' = at
      /\ local' = local /\ priv' = [priv EXCEPT ![t][BufferOf(q)] = r] /\ buf' = [buf EXCEPT ![BufferOf(q)] = b]
      /\ cur' = cur /\ dispIndex' = dispIndex /\ ran' = ran
  BY <1>3 DEF FinishChunk, Goto, history
<1>5. /\ IsBuffer(b) /\ b.index = buf[BufferOf(q)].index /\ b.done = buf[BufferOf(q)].done
      /\ b.iteration = buf[BufferOf(q)].iteration
  BY <1>3, OrderedSet
<1>6. IsPrivate(r) /\ r.count = priv[t][BufferOf(q)].count
  BY <1>3, BumpedSet
<1> HIDE DEF b, r
<1>7. /\ b.index % Buffers = BufferOf(q) /\ buf'[BufferOf(q)] = b
      /\ (\A c \in Slots : c # BufferOf(q) => buf'[c] = buf[c]) /\ priv'[t][BufferOf(q)] = r
  BY <1>3, <1>4, <1>5, BufferSet, PrivateSet
<1>8. Shape(t, "next") /\ at'[t] = q /\ pc'[t] = "next"
  BY <1>2, <1>3, <1>4, <1>5, <1>6, <1>7 DEF Shape, Types
<1>9. Pending(t, q)' = Pending(t, q)
  <2>1. Pending(t, q)' = {}
    BY <1>8, IdleAfter
  <2>2. Pending(t, q) = {}
    BY <1>4, Idle
  <2> QED
    BY <2>1, <2>2
<1>10. \A c \in Slots : /\ buf'[c].index = buf[c].index
                        /\ buf'[c].iteration = buf[c].iteration /\ buf'[c].done = buf[c].done
  BY <1>5, <1>7
<1> QED
  BY <1>1, <1>2, <1>3, <1>4, <1>6, <1>7, <1>8, <1>9, <1>10, RunningStep


-----------------------------------------------------------------------------
(* The iterations of a chunk, and a loop without any.                       *)

LEMMA NoIterationsStep ==
    ASSUME Inv, NEW t \in Thread, NoIterations(t)
    PROVE  Inv'
<1>1. "next" \in Drawing
  BY DEF Drawing
<1>2. PICK q : q = at[t]
  OBVIOUS
<1>3. /\ pc[t] = "next" /\ L(q).tc = 0 /\ pc' = [pc EXCEPT ![t] = "done"] /\ program' = program /\ at' = at
      /\ local' = local /\ priv' = priv /\ buf' = buf /\ cur' = cur /\ dispIndex' = dispIndex /\ ran' = ran
  BY <1>2 DEF NoIterations, Goto, loops, history, Construct, L
<1>4. Shape(t, "done")
  BY <1>3 DEF Shape
<1>5. /\ PartRight(q) /\ PlaceRight(t) /\ q \in Nat /\ at'[t] = q /\ pc'[t] = "done" /\ program' = program
  BY <1>1, <1>2, <1>3, <1>4, DrawFrame
<1>6. Iterations(q) = {}
  BY <1>3 DEF Iterations
<1>7. \A i : Gone(q, i)' <=> Gone(q, i)
  BY <1>1, <1>2, <1>3, <1>4, NothingDrawn
<1>8. Pending(t, q)' = {}
  BY <1>5, IdleAfter
<1>9. Pending(t, q) = {}
  BY <1>2, <1>3, Idle
<1>10. Schedule(L(q)) = "static_chunked" => priv'[t][BufferOf(q)].count % n = 0
  <2>1. "next" \in Entered
    BY DEF Entered, Drawing
  <2> QED
    BY <1>2, <1>3, <1>5, <2>1 DEF PlaceRight
<1>11. PICK none : none = {}
  OBVIOUS
<1>12. ran'[q] = [i \in Iterations(q) |-> ran'[q][i]] /\ ran'[q] = ran[q]
  BY <1>3, <1>5 DEF PartRight
<1>13. none \in SUBSET Iterations(q) /\ none \in SUBSET Pending(t, q) /\ Pending(t, q)' = (Pending(t, q) \cup none) \ none
  BY <1>8, <1>9, <1>11
<1>14. pc[t] \in Drawing \cup Running
  BY <1>1, <1>3
<1>15. /\ \A i \in none : ~Gone(q, i)
       /\ \A i \in Iterations(q) : Gone(q, i)' <=> Gone(q, i) \/ i \in none
       /\ \A i \in Iterations(q) : ran'[q][i] = IF i \in none THEN 1 ELSE ran[q][i]
       /\ \A i \in Iterations(q) : Served(t, q, i)'
  BY <1>6, <1>11
<1>16. \A b \in Slots : /\ buf'[b].index = buf[b].index /\ buf'[b].done = buf[b].done
                        /\ b # BufferOf(q) => buf'[b].iteration = buf[b].iteration
  BY <1>3
<1>17. at' = at /\ cur' = cur /\ dispIndex' = dispIndex
  BY <1>3
<1>18. Draws(t, "done", q, none, none)
  BY <1>2, <1>4, <1>10, <1>12, <1>13, <1>14, <1>15, <1>16, <1>17 DEF Draws
<1> QED
  BY <1>18, DrawStep

LEMMA BodyStep ==
    ASSUME Inv, NEW t \in Thread, Body(t)
    PROVE  Inv'
<1>1. "body" \in Running
  BY DEF Running
<1>2. PICK q, i : q = at[t] /\ i = local[t].i
  OBVIOUS
<1>3. PICK place \in {"deo", "end"} : pc' = [pc EXCEPT ![t] = place]
  BY DEF Body, Goto
<1>4. place \in Drawing \cup Running \cup {"done"}
  BY DEF Running
<1>5. /\ pc[t] = "body" /\ program' = program /\ at' = at
      /\ local' = local /\ priv' = priv /\ buf' = buf /\ cur' = cur /\ dispIndex' = dispIndex
      /\ ran' = [ran EXCEPT ![q] = [ran[q] EXCEPT ![i] = Count(ran[q][i])]]
  BY <1>2 DEF Body, loops
<1>6. Shape(t, place)
  BY <1>2, <1>3, <1>5 DEF Shape
<1>7. /\ Types /\ PartRight(q) /\ PlaceRight(t) /\ q \in Nat /\ at'[t] = q /\ pc'[t] = place /\ program' = program
      /\ q \in LoopNumbers
  BY <1>1, <1>2, <1>4, <1>5, <1>6, DrawFrame
<1>8. i \in Int /\ local[t].hi \in Int /\ i <= local[t].hi
  BY <1>2, <1>5, <1>7 DEF Types, IsLocal, PlaceRight
<1>9. Pending(t, q) = i..local[t].hi
  BY <1>2, <1>5, <1>7, InPlace
<1>10. Pending(t, q)' = (i + 1)..local[t].hi
  <2>1. Pending(t, q)' = (local'[t].i + 1)..local'[t].hi
    BY <1>7, InPlaceAfter
  <2> QED
    BY <1>2, <1>5, <2>1
<1>0. PICK none, over : none = {} /\ over = {i}
  OBVIOUS
<1>11. over \in SUBSET Pending(t, q) /\ none \in SUBSET Iterations(q) /\ Pending(t, q)' = (Pending(t, q) \cup none) \ over
  BY <1>0, <1>8, <1>9, <1>10
<1>12. /\ ran'[q] = [j \in Iterations(q) |-> ran'[q][j]]
       /\ \A j \in Iterations(q) : ran'[q][j] = IF j \in over THEN 1 ELSE ran[q][j]
  <2>1. ran[q] \in [Iterations(q) -> {0, 1}] /\ i \in Iterations(q) /\ ran[q][i] = 0
    BY <1>0, <1>7, <1>11 DEF PartRight
  <2>2. Count(ran[q][i]) = 1
    BY <2>1 DEF Count, Least
  <2>3. ran'[q] = [ran[q] EXCEPT ![i] = 1]
    <3>1. q \in 1..Last /\ ran = [p \in 1..Last |-> ran[p]]
      BY <1>7, Basics DEF Types
    <3> QED
      BY <1>5, <2>2, <3>1
  <2> QED
    BY <1>0, <2>1, <2>3
<1>13. \A j : Gone(q, j)' <=> Gone(q, j)
  BY <1>1, <1>2, <1>4, <1>5, <1>6, NothingDrawn
<1>14. Schedule(L(q)) = "static_chunked" => priv'[t][BufferOf(q)].count % n = 0
  <2>1. "body" \in Entered
    BY DEF Entered, Running
  <2> QED
    BY <1>2, <1>5, <1>7, <2>1 DEF PlaceRight
<1>15. pc[t] \in Drawing \cup Running /\ place \in {"body", "deo", "end", "done"} /\ place # "body" /\ place # "done"
  BY <1>1, <1>5
<1>16. /\ \A j \in none : ~Gone(q, j)
       /\ \A j \in Iterations(q) : Gone(q, j)' <=> Gone(q, j) \/ j \in none
  BY <1>0, <1>13
<1>17. \A b \in Slots : /\ buf'[b].index = buf[b].index /\ buf'[b].done = buf[b].done
                        /\ b # BufferOf(q) => buf'[b].iteration = buf[b].iteration
  BY <1>5
<1>18. at' = at /\ cur' = cur /\ dispIndex' = dispIndex
  BY <1>5
<1>19. Draws(t, place, q, none, over)
  BY <1>2, <1>6, <1>11, <1>12, <1>14, <1>15, <1>16, <1>17, <1>18 DEF Draws
<1> QED
  BY <1>19, DrawStep


-----------------------------------------------------------------------------
(* Chunks.                                                                  *)

LEMMA TakeRight ==
    ASSUME Types, NEW t \in Thread, NEW q \in Int, at[t] = q, NEW c, c.init \in Int, c.limit \in Int, Take(t, c),
           program' = program, at' = at
    PROVE  \E place \in {"body", "done"} :
             /\ pc' = [pc EXCEPT ![t] = place]
             /\ local' = local \/ \E r : IsLocal(r) /\ local' = [local EXCEPT ![t] = r]
             /\ Pending(t, q)' = c.init..c.limit
             /\ place = "body" => local'[t].i <= local'[t].hi
             /\ place = "done" => c.init > c.limit
<1>1. IsLocal(local[t])
  BY DEF Types
<1>2. CASE c.init <= c.limit
  <2> DEFINE r == Given(local[t], c.init, c.limit)
  <2>1. local' = [local EXCEPT ![t] = r] /\ pc' = [pc EXCEPT ![t] = "body"]
    BY <1>2 DEF Take, Goto, Given
  <2>2. IsLocal(r) /\ r.i = c.init /\ r.hi = c.limit
    BY <1>1, GivenSet
  <2> HIDE DEF r
  <2>3. local'[t] = r /\ pc'[t] = "body" /\ at'[t] = q
    BY <2>1, LocalSet DEF Types
  <2>4. Pending(t, q)' = r.i..r.hi
    BY <2>3, InPlaceAfter
  <2> QED
    BY <1>2, <2>1, <2>2, <2>3, <2>4
<1>3. CASE ~(c.init <= c.limit)
  <2>1. local' = local /\ pc' = [pc EXCEPT ![t] = "done"]
    BY <1>3 DEF Take, Goto
  <2>2. pc'[t] = "done" /\ at'[t] = q
    BY <2>1 DEF Types
  <2>3. Pending(t, q)' = {}
    BY <2>2, InPlaceAfter
  <2>4. c.init..c.limit = {} /\ c.init > c.limit
    BY <1>3
  <2> QED
    BY <2>1, <2>3, <2>4
<1> QED
  BY <1>2, <1>3

DrawsByCounter(t, q, c, k) ==
    /\ Schedule(L(q)) \in ByCounter
    /\ Follows(L(q), Reach(L(q), buf[BufferOf(q)].iteration), Reach(L(q), k), c)
    /\ program' = program /\ at' = at /\ cur' = cur /\ dispIndex' = dispIndex /\ ran' = ran /\ Take(t, c)
    /\ buf' = [buf EXCEPT ![BufferOf(q)] = [buf[BufferOf(q)] EXCEPT !.iteration = k]]
    /\ priv' = [priv EXCEPT ![t][BufferOf(q)] = Bounds(priv[t][BufferOf(q)], c)]

LEMMA CounterDraw ==
    ASSUME Inv, NEW t \in Thread, NEW q, q = at[t], pc[t] \in Drawing, NEW c, NEW k \in Nat,
           DrawsByCounter(t, q, c, k)
    PROVE  Inv'
<1>1. pc[t] \in InLoop /\ pc[t] \notin {"body", "deo", "region", "end"} /\ pc[t] \in Drawing \cup Running
  BY DEF InLoop, Entered, Drawing
<1>2. /\ Types /\ PlaceRight(t) /\ q \in LoopNumbers /\ q \in Nat /\ BufferOf(q) \in Slots
      /\ IsBuffer(buf[BufferOf(q)]) /\ IsPrivate(priv[t][BufferOf(q)])
  BY <1>1, Inside
<1>0. program' = program /\ at' = at /\ cur' = cur /\ dispIndex' = dispIndex /\ ran' = ran
  BY DEF DrawsByCounter
<1> DEFINE l == L(q)
           from == Reach(l, buf[BufferOf(q)].iteration)
           upto == Reach(l, k)
           b == [buf[BufferOf(q)] EXCEPT !.iteration = k]
           r == Bounds(priv[t][BufferOf(q)], c)
           new == c.init..c.limit
<1>3. l.tc \in Nat
  BY <1>2, Schedules DEF Types
<1>4. /\ from \in 0..l.tc /\ upto \in 0..l.tc /\ c.init \in Int /\ c.limit \in Int
      /\ IF c.init <= c.limit THEN from = c.init /\ upto = c.limit + 1 ELSE from = l.tc /\ upto = l.tc
  BY DEF Follows, DrawsByCounter
<1>5. PICK place \in {"body", "done"} :
        /\ pc' = [pc EXCEPT ![t] = place]
        /\ local' = local \/ \E x : IsLocal(x) /\ local' = [local EXCEPT ![t] = x]
        /\ Pending(t, q)' = new
        /\ place = "body" => local'[t].i <= local'[t].hi
        /\ place = "done" => c.init > c.limit
  <2>1. Take(t, c) /\ program' = program /\ at' = at
    BY DEF DrawsByCounter
  <2>2. Types /\ q \in Int /\ at[t] = q /\ c.init \in Int /\ c.limit \in Int
    BY <1>2, <1>4
  <2>3. \E place \in {"body", "done"} :
          /\ pc' = [pc EXCEPT ![t] = place]
          /\ local' = local \/ \E x : IsLocal(x) /\ local' = [local EXCEPT ![t] = x]
          /\ Pending(t, q)' = c.init..c.limit
          /\ place = "body" => local'[t].i <= local'[t].hi
          /\ place = "done" => c.init > c.limit
    BY <2>1, <2>2, TakeRight
  <2> QED
    BY <2>3
<1>6. IsBuffer(b) /\ b.index = buf[BufferOf(q)].index /\ b.done = buf[BufferOf(q)].done /\ b.iteration = k
  BY <1>2, IterationSet
<1>7. IsPrivate(r) /\ r.count = priv[t][BufferOf(q)].count
  BY <1>2, BoundsSet
<1>8. buf' = [buf EXCEPT ![BufferOf(q)] = b] /\ priv' = [priv EXCEPT ![t][BufferOf(q)] = r]
  BY DEF DrawsByCounter
<1> HIDE DEF b, r, new, from, upto, l
<1>9. /\ b.index % Buffers = BufferOf(q) /\ buf'[BufferOf(q)] = b
      /\ (\A s \in Slots : s # BufferOf(q) => buf'[s] = buf[s]) /\ priv'[t][BufferOf(q)] = r
  BY <1>2, <1>6, <1>8, BufferSet, PrivateSet
<1>10. Shape(t, place)
  BY <1>0, <1>2, <1>5, <1>6, <1>7, <1>8, <1>9 DEF Shape
<1>11. place \in Drawing \cup Running \cup {"done"}
  BY DEF Running
<1>12. /\ PartRight(q) /\ Index(q) = NameNow(q) /\ ~Published(q) /\ ~Published(q)' /\ BufferOf(q)' = BufferOf(q)
       /\ Index(q) \in Nat
       /\ \A m : Had(t, q, m) <=> m < priv[t][BufferOf(q)].count
       /\ \A m : Had(t, q, m)' <=> m < priv'[t][BufferOf(q)].count
  BY <1>0, <1>1, <1>10, <1>11, DrawFrame
<1>13. \A i : Gone(q, i) <=> i < from
  <2>1. Frontier(q) = from
    BY <1>12 DEF Frontier, from, l
  <2> QED
    BY <2>1 DEF Gone, DrawsByCounter
<1>14. \A i : Gone(q, i)' <=> i < upto
  <2>1. NameNow(q)' = NameNow(q) /\ Index(q)' = Index(q)
    <3>1. Index(q)' = Index(q)
      BY <1>0, Static
    <3> QED
      BY <1>2, <1>6, <1>9, <1>12, <3>1 DEF NameNow
  <2>2. L(q)' = L(q) /\ Schedule(L(q))' = Schedule(L(q))
    BY <1>0, Static
  <2>3. (buf[BufferOf(q)].iteration)' = k
    BY <1>6, <1>9, <1>12
  <2>4. Reach(L(q), buf[BufferOf(q)].iteration)' = upto
    BY <1>0, <2>2, <2>3, Static DEF upto, l
  <2>5. Frontier(q)' = upto
    BY <1>12, <2>1, <2>4 DEF Frontier
  <2> QED
    BY <2>2, <2>5 DEF Gone, DrawsByCounter
<1>15. Iterations(q) = 0..(l.tc - 1)
  BY DEF Iterations, l
<1>16. /\ new \in SUBSET Iterations(q)
       /\ \A i \in new : ~(i < from)
       /\ \A i \in Iterations(q) : i < upto <=> i < from \/ i \in new
  <2>1. PICK a \in Int, z \in Int, tc \in Nat : a = c.init /\ z = c.limit /\ tc = l.tc
    BY <1>3, <1>4
  <2>2. /\ new = a..z /\ Iterations(q) = 0..(tc - 1) /\ from \in 0..tc /\ upto \in 0..tc
        /\ IF a <= z THEN from = a /\ upto = z + 1 ELSE from = tc /\ upto = tc
    BY <1>4, <1>15, <2>1 DEF new
  <2>3. CASE a <= z
    BY <2>2, <2>3
  <2>4. CASE ~(a <= z)
    <3>1. new = {} /\ from = tc /\ upto = tc
      BY <2>2, <2>4
    <3> QED
      BY <2>2, <3>1
  <2> QED
    BY <2>3, <2>4
<1>17. place = "done" => \A i \in Iterations(q) : Served(t, q, i)'
  <2> SUFFICES ASSUME place = "done", NEW i \in Iterations(q)
               PROVE  Served(t, q, i)'
    OBVIOUS
  <2>1. Gone(q, i)'
    BY <1>3, <1>4, <1>5, <1>14, <1>15
  <2>2. Schedule(L(q))' = Schedule(L(q))
    BY <1>0, Static
  <2> QED
    BY <2>1, <2>2 DEF Served, DrawsByCounter
<1>18. PICK over : over = {}
  OBVIOUS
<1>19. Pending(t, q) = {}
  BY <1>1, Idle
<1>20. ran'[q] = [i \in Iterations(q) |-> ran'[q][i]]
  BY <1>0, <1>12 DEF PartRight
<1>21. Schedule(L(q)) = "static_chunked" => priv'[t][BufferOf(q)].count % n = 0
  BY DEF ByCounter, DrawsByCounter
<1>22. \A s \in Slots : /\ buf'[s].index = buf[s].index /\ buf'[s].done = buf[s].done
                        /\ s # BufferOf(q) => buf'[s].iteration = buf[s].iteration
  BY <1>6, <1>9
<1>23. /\ \A i \in new : ~Gone(q, i)
       /\ \A i \in Iterations(q) : Gone(q, i)' <=> Gone(q, i) \/ i \in new
       /\ \A i \in Iterations(q) : ran'[q][i] = IF i \in over THEN 1 ELSE ran[q][i]
  BY <1>0, <1>7, <1>9, <1>12, <1>13, <1>14, <1>16, <1>18
<1>24. Pending(t, q)' = (Pending(t, q) \cup new) \ over /\ over \in SUBSET Pending(t, q)
  BY <1>5, <1>18, <1>19
<1>25. place \in {"body", "deo", "end", "done"}
  OBVIOUS
<1>26. Draws(t, place, q, new, over)
  BY <1>0, <1>1, <1>5, <1>10, <1>16, <1>17, <1>20, <1>21, <1>22, <1>23, <1>24, <1>25 DEF Draws
<1> QED
  BY <1>26, DrawStep


DrawsByThread(t, q, c, next) ==
    /\ Schedule(L(q)) \in ByThread /\ L(q).tc > 0
    /\ c = OwnChunk(L(q), t, priv[t][BufferOf(q)].count)
    /\ next = OwnCount(L(q), t, priv[t][BufferOf(q)].count)
    /\ program' = program /\ at' = at /\ cur' = cur /\ dispIndex' = dispIndex /\ ran' = ran /\ Take(t, c)
    /\ buf' = buf
    /\ priv' = [priv EXCEPT ![t][BufferOf(q)] = [Bounds(priv[t][BufferOf(q)], c) EXCEPT !.count = next]]

LEMMA ThreadDraw ==
    ASSUME Inv, NEW t \in Thread, NEW q, q = at[t], pc[t] \in Drawing, NEW c, NEW next,
           DrawsByThread(t, q, c, next)
    PROVE  Inv'
<1>0. program' = program /\ at' = at /\ cur' = cur /\ dispIndex' = dispIndex /\ ran' = ran /\ buf' = buf
  BY DEF DrawsByThread
<1>1. /\ pc[t] \in InLoop /\ pc[t] \notin {"body", "deo", "region", "end"} /\ pc[t] \in Drawing \cup Running
      /\ pc[t] \in Entered
  BY DEF InLoop, Entered, Drawing
<1>2. /\ Types /\ PlaceRight(t) /\ q \in LoopNumbers /\ q \in Nat /\ BufferOf(q) \in Slots
      /\ IsBuffer(buf[BufferOf(q)]) /\ IsPrivate(priv[t][BufferOf(q)])
  BY <1>1, Inside
<1> DEFINE l == L(q)
           count == priv[t][BufferOf(q)].count
           bounds == Bounds(priv[t][BufferOf(q)], c)
           r == [bounds EXCEPT !.count = next]
           new == c.init..c.limit
<1>3. /\ l.tc \in Nat \ {0} /\ Chunk(l) \in Nat \ {0} /\ Schedule(l) \in ByThread /\ n \in Nat \ {0, 1}
      /\ Iterations(q) = 0..(l.tc - 1)
  BY <1>2, Schedules DEF Types, DrawsByThread, Iterations
<1>4. count \in Nat /\ (Schedule(l) = "static_chunked" => count % n = 0)
  <2>1. count \in Nat
    BY <1>2 DEF IsPrivate
  <2> QED
    BY <1>1, <1>2, <2>1 DEF PlaceRight
<1>5. c = OwnChunk(l, t, count) /\ next = OwnCount(l, t, count)
  BY DEF DrawsByThread
<1> HIDE DEF l, count
<1>6. /\ c.init \in Int /\ c.limit \in Int /\ new \subseteq Iterations(q) /\ next \in Nat
      /\ Schedule(l) = "static_chunked" => next % n = 0
      /\ \A i \in Iterations(q) : \A m \in Nat : Turn(l, i, t, m) => (m < next <=> m < count \/ i \in new)
      /\ \A i \in new : \E m \in Nat : Turn(l, i, t, m) /\ ~(m < count)
      /\ c.init > c.limit => \A i \in Iterations(q) : \A m \in Nat : Turn(l, i, t, m) => m < next
  BY <1>3, <1>4, <1>5, OwnTurns
<1>7. PICK place \in {"body", "done"} :
        /\ pc' = [pc EXCEPT ![t] = place]
        /\ local' = local \/ \E x : IsLocal(x) /\ local' = [local EXCEPT ![t] = x]
        /\ Pending(t, q)' = new
        /\ place = "body" => local'[t].i <= local'[t].hi
        /\ place = "done" => c.init > c.limit
  <2>1. Take(t, c) /\ program' = program /\ at' = at
    BY DEF DrawsByThread
  <2>2. Types /\ q \in Int /\ at[t] = q /\ c.init \in Int /\ c.limit \in Int
    BY <1>2, <1>6
  <2>3. \E place \in {"body", "done"} :
          /\ pc' = [pc EXCEPT ![t] = place]
          /\ local' = local \/ \E x : IsLocal(x) /\ local' = [local EXCEPT ![t] = x]
          /\ Pending(t, q)' = c.init..c.limit
          /\ place = "body" => local'[t].i <= local'[t].hi
          /\ place = "done" => c.init > c.limit
    BY <2>1, <2>2, TakeRight
  <2> QED
    BY <2>3
<1>8. IsPrivate(r) /\ r.count = next
  <2>1. IsPrivate(bounds)
    <3>1. PICK p : p = priv[t][BufferOf(q)] /\ IsPrivate(p)
      BY <1>2
    <3>2. IsPrivate(Bounds(p, c))
      BY <3>1, BoundsSet
    <3> QED
      BY <3>1, <3>2
  <2> HIDE DEF bounds
  <2> QED
    BY <1>6, <2>1, CountSet
<1>9. priv' = [priv EXCEPT ![t][BufferOf(q)] = r]
  BY DEF DrawsByThread
<1> HIDE DEF bounds, r, new
<1>10. priv'[t][BufferOf(q)] = r
  BY <1>2, <1>9, PrivateSet
<1>11. Shape(t, place)
  BY <1>0, <1>2, <1>7, <1>8, <1>9 DEF Shape
<1>12. place \in Drawing \cup Running \cup {"done"}
  BY DEF Running
<1>13. /\ PartRight(q)
       /\ \A u \in Thread \ {t} : SameWork(u, q)
       /\ \A m : Had(t, q, m) <=> m < priv[t][BufferOf(q)].count
       /\ \A m : Had(t, q, m)' <=> m < priv'[t][BufferOf(q)].count
  BY <1>0, <1>1, <1>11, <1>12, DrawFrame
<1>14. /\ \A m : Had(t, q, m) <=> m < count
       /\ \A m : Had(t, q, m)' <=> m < next
       /\ \A u \in Thread \ {t} : \A m \in Nat : Had(u, q, m)' <=> Had(u, q, m)
  BY <1>8, <1>10, <1>13 DEF count, SameWork
<1>15. /\ Schedule(l) \notin ByCounter /\ Thread' = Thread /\ L(q)' = l /\ Schedule(L(q))' = Schedule(l)
       /\ \A i, u, m : Turn(L(q), i, u, m)' <=> Turn(l, i, u, m)
  <2>1. Thread' = Thread /\ L(q)' = l
    BY <1>0, Static DEF l
  <2>2. Schedule(L(q))' = Schedule(l)
    BY <1>0, <2>1, Static DEF l
  <2>3. \A i, u, m : Turn(L(q), i, u, m)' <=> Turn(l, i, u, m)
    BY <1>0, <2>1, Static DEF l
  <2> QED
    BY <1>3, <2>1, <2>2, <2>3 DEF ByCounter, ByThread
<1>16. \A i : Gone(q, i) <=> \E u \in Thread : \E m \in Nat : Turn(l, i, u, m) /\ Had(u, q, m)
  BY <1>15 DEF Gone, l
<1>17. \A i : Gone(q, i)' <=> \E u \in Thread : \E m \in Nat : Turn(l, i, u, m) /\ Had(u, q, m)'
  BY <1>15 DEF Gone
<1>18. \A i \in new : ~Gone(q, i)
  <2> SUFFICES ASSUME NEW i \in new, Gone(q, i) PROVE FALSE
    OBVIOUS
  <2>1. PICK u \in Thread, m \in Nat : Turn(l, i, u, m) /\ Had(u, q, m)
    BY <1>16
  <2>2. PICK k \in Nat : Turn(l, i, t, k) /\ ~(k < count)
    BY <1>6
  <2>3. i \in 0..(l.tc - 1)
    BY <1>3, <1>6
  <2>4. u = t /\ m = k
    BY <1>3, <2>1, <2>2, <2>3, Turns
  <2> QED
    BY <1>14, <2>1, <2>2, <2>4
<1>19. ASSUME NEW i \in Iterations(q)
       PROVE  Gone(q, i)' <=> Gone(q, i) \/ i \in new
  <2>1. ASSUME Gone(q, i)' PROVE Gone(q, i) \/ i \in new
    <3>1. PICK u \in Thread, m \in Nat : Turn(l, i, u, m) /\ Had(u, q, m)'
      BY <1>17, <2>1
    <3>2. CASE u = t
      BY <1>6, <1>14, <1>16, <3>1, <3>2
    <3>3. CASE u # t
      BY <1>14, <1>16, <3>1, <3>3
    <3> QED
      BY <3>2, <3>3
  <2>2. ASSUME Gone(q, i) PROVE Gone(q, i)'
    <3>1. PICK u \in Thread, m \in Nat : Turn(l, i, u, m) /\ Had(u, q, m)
      BY <1>16, <2>2
    <3>2. Had(u, q, m)'
      BY <1>6, <1>14, <3>1
    <3> QED
      BY <1>17, <3>1, <3>2
  <2>3. ASSUME i \in new PROVE Gone(q, i)'
    <3>1. PICK m \in Nat : Turn(l, i, t, m) /\ ~(m < count)
      BY <1>6, <2>3
    <3>2. Had(t, q, m)'
      BY <1>6, <1>14, <2>3, <3>1
    <3> QED
      BY <1>17, <3>1, <3>2
  <2> QED
    BY <2>1, <2>2, <2>3
<1>20. place = "done" => \A i \in Iterations(q) : Served(t, q, i)'
  <2> SUFFICES ASSUME place = "done", NEW i \in Iterations(q)
               PROVE  Served(t, q, i)'
    OBVIOUS
  <2>1. \A m \in Nat : Turn(l, i, t, m) => Had(t, q, m)'
    BY <1>6, <1>7, <1>14
  <2> QED
    BY <1>15, <2>1 DEF Served
<1>21. PICK over : over = {}
  OBVIOUS
<1>22. Pending(t, q) = {}
  BY <1>1, Idle
<1>23. Pending(t, q)' = (Pending(t, q) \cup new) \ over /\ over \in SUBSET Pending(t, q)
  BY <1>7, <1>21, <1>22
<1>24. ran'[q] = [i \in Iterations(q) |-> ran'[q][i]]
  BY <1>0, <1>13 DEF PartRight
<1>25. \A i \in Iterations(q) : ran'[q][i] = IF i \in over THEN 1 ELSE ran[q][i]
  BY <1>0, <1>21
<1>26. Schedule(L(q)) = "static_chunked" => priv'[t][BufferOf(q)].count % n = 0
  BY <1>6, <1>8, <1>10 DEF l
<1>27. \A s \in Slots : /\ buf'[s].index = buf[s].index /\ buf'[s].done = buf[s].done
                        /\ s # BufferOf(q) => buf'[s].iteration = buf[s].iteration
  BY <1>0
<1>28. /\ new \in SUBSET Iterations(q)
       /\ \A i \in new : ~Gone(q, i)
       /\ \A i \in Iterations(q) : Gone(q, i)' <=> Gone(q, i) \/ i \in new
  BY <1>6, <1>18, <1>19
<1>29. place \in {"body", "deo", "end", "done"}
  OBVIOUS
<1>30. Draws(t, place, q, new, over)
  BY <1>0, <1>1, <1>7, <1>11, <1>20, <1>23, <1>24, <1>25, <1>26, <1>27, <1>28, <1>29 DEF Draws
<1> QED
  BY <1>30, DrawStep

LEMMA NextByThreadStep ==
    ASSUME Inv, NEW t \in Thread, NextBalanced(t) \/ NextStaticChunked(t)
    PROVE  Inv'
<1>1. "next" \in Drawing /\ "next" \in InLoop /\ "next" \in Entered \ {"leave"}
  BY DEF InLoop, Entered, Drawing
<1>2. PICK q : q = at[t]
  OBVIOUS
<1>3. pc[t] = "next"
  BY DEF NextBalanced, NextStaticChunked, IsNext
<1>4. /\ cur[t] = BufferOf(q) /\ q \in LoopNumbers /\ IsPrivate(priv[t][BufferOf(q)])
  BY <1>1, <1>2, <1>3, Inside
<1>5. PICK l, p : l = L(q) /\ p = priv[t][BufferOf(q)]
  OBVIOUS
<1>6. Construct(t) = l /\ Own(t) = p
  BY <1>2, <1>4, <1>5 DEF Construct, L, Own
<1>7. CASE NextBalanced(t)
  <2>1. PICK c : c = IF p.count = 0 THEN DispatchBalanced(l.tc, n, t) ELSE NoChunk
    OBVIOUS
  <2>2. /\ l.tc > 0 /\ Schedule(l) = "balanced" /\ Take(t, c)
        /\ priv' = [priv EXCEPT ![t][BufferOf(q)] = [Bounds(p, c) EXCEPT !.count = 1]]
        /\ program' = program /\ at' = at /\ cur' = cur /\ dispIndex' = dispIndex /\ ran' = ran /\ buf' = buf
    BY <1>4, <1>5, <1>6, <1>7, <2>1 DEF NextBalanced, IsNext, history
  <2>3. c = OwnChunk(l, t, p.count) /\ 1 = OwnCount(l, t, p.count)
    BY <2>1, <2>2 DEF OwnChunk, OwnCount
  <2>4. DrawsByThread(t, q, c, 1)
    BY <1>5, <2>2, <2>3 DEF DrawsByThread, ByThread
  <2> QED
    BY <1>1, <1>2, <1>3, <2>4, ThreadDraw
<1>8. CASE NextStaticChunked(t)
  <2>1. PICK c : c = ChunkFrom(l.tc, Chunk(l) * (p.count + t), Chunk(l))
    OBVIOUS
  <2>2. PICK r : r = Bounds(p, c)
    OBVIOUS
  <2>3. PICK next : next = IF c.init <= c.limit THEN p.count + n ELSE p.count
    OBVIOUS
  <2>4. r.count = p.count
    BY <1>4, <1>5, <2>2, BoundsSet
  <2>5. /\ l.tc > 0 /\ Schedule(l) = "static_chunked" /\ Take(t, c)
        /\ program' = program /\ at' = at /\ cur' = cur /\ dispIndex' = dispIndex /\ ran' = ran /\ buf' = buf
    BY <1>6, <1>8, <2>1 DEF NextStaticChunked, IsNext, history
  <2>6. priv' = [priv EXCEPT ![t][BufferOf(q)] = [r EXCEPT !.count = next]]
    <3>1. priv' = [priv EXCEPT ![t][cur[t]] =
                     [Bounds(p, c) EXCEPT !.count = IF c.init <= c.limit THEN @ + n ELSE @]]
      BY <1>6, <1>8, <2>1 DEF NextStaticChunked
    <3>2. priv' = [priv EXCEPT ![t][BufferOf(q)] =
                     [r EXCEPT !.count = IF c.init <= c.limit THEN r.count + n ELSE r.count]]
      BY <1>4, <1>5, <2>2, <3>1
    <3> QED
      BY <2>3, <2>4, <3>2
  <2>7. c = OwnChunk(l, t, p.count) /\ next = OwnCount(l, t, p.count)
    BY <2>1, <2>3, <2>5 DEF OwnChunk, OwnCount
  <2>8. DrawsByThread(t, q, c, next)
    BY <1>5, <2>2, <2>5, <2>6, <2>7 DEF DrawsByThread, ByThread
  <2> QED
    BY <1>1, <1>2, <1>3, <2>8, ThreadDraw
<1> QED
  BY <1>7, <1>8

LEMMA NextByCounterStep ==
    ASSUME Inv, NEW t \in Thread, NextByCounter(t)
    PROVE  Inv'
<1>1. "next" \in Drawing /\ "next" \in InLoop /\ "next" \in Entered \ {"leave"}
  BY DEF InLoop, Entered, Drawing
<1>2. PICK q : q = at[t]
  OBVIOUS
<1>3. pc[t] = "next"
  BY DEF NextByCounter, IsNext
<1>4. /\ cur[t] = BufferOf(q) /\ q \in LoopNumbers /\ IsBuffer(buf[BufferOf(q)]) /\ Types
  BY <1>1, <1>2, <1>3, Inside
<1>5. PICK l, b : l = L(q) /\ b = buf[BufferOf(q)]
  OBVIOUS
<1>6. PICK k \in Nat : k = b.iteration
  BY <1>4, <1>5 DEF IsBuffer
<1>7. Construct(t) = l /\ Shared(t).iteration = k
  BY <1>2, <1>4, <1>5, <1>6 DEF Construct, L, Shared
<1>8. PICK c : c = CounterChunk(l, k)
  OBVIOUS
<1>9. l.tc \in Nat /\ l.chunk \in Nat \ {0} /\ n \in Nat /\ n >= 2 /\ Schedule(l) \in ByCounter \cup ByThread
  BY <1>4, <1>5, Schedules DEF Types
<1>10. Schedule(l) \in {"dynamic", "trapezoid"} /\ ~AskAgain(l, k)
  <2>1. Schedule(l) \in {"dynamic", "trapezoid", "analytical"}
    BY <1>7 DEF NextByCounter, IsNext
  <2>2. Schedule(l) # "analytical"
    BY <1>9 DEF ByCounter, ByThread
  <2> QED
    BY <2>1, <2>2 DEF AskAgain
<1>11. /\ Take(t, c)
       /\ buf' = [buf EXCEPT ![cur[t]].iteration = @ + 1]
       /\ priv' = [priv EXCEPT ![t][cur[t]] = Bounds(@, c)]
       /\ program' = program /\ at' = at /\ cur' = cur /\ dispIndex' = dispIndex /\ ran' = ran
  BY <1>7, <1>8, <1>10 DEF NextByCounter, history
<1>12. buf' = [buf EXCEPT ![BufferOf(q)] = [b EXCEPT !.iteration = k + 1]]
  BY <1>4, <1>5, <1>6, <1>11
<1>13. priv' = [priv EXCEPT ![t][BufferOf(q)] = Bounds(priv[t][BufferOf(q)], c)]
  BY <1>4, <1>11
<1>14. Follows(l, Reach(l, k), Reach(l, k + 1), c)
  BY <1>8, <1>9, <1>10, NextDynamic, NextTrapezoid
<1>15. DrawsByCounter(t, q, c, k + 1)
  BY <1>5, <1>6, <1>10, <1>11, <1>12, <1>13, <1>14 DEF DrawsByCounter, ByCounter
<1> QED
  BY <1>1, <1>2, <1>3, <1>6, <1>15, CounterDraw

LEMMA GuidedAddStep ==
    ASSUME Inv, NEW t \in Thread, GuidedAdd(t)
    PROVE  Inv'
<1>1. "guided_add" \in Drawing /\ "guided_add" \in InLoop /\ "guided_add" \in Entered \ {"leave"}
  BY DEF InLoop, Entered, Drawing
<1>2. PICK q : q = at[t]
  OBVIOUS
<1>3. pc[t] = "guided_add"
  BY DEF GuidedAdd
<1>4. /\ cur[t] = BufferOf(q) /\ q \in LoopNumbers /\ IsBuffer(buf[BufferOf(q)]) /\ Types /\ PlaceRight(t)
  BY <1>1, <1>2, <1>3, Inside
<1>5. PICK l, b : l = L(q) /\ b = buf[BufferOf(q)]
  OBVIOUS
<1>6. PICK k \in Nat : k = b.iteration
  BY <1>4, <1>5 DEF IsBuffer
<1>7. Construct(t) = l /\ Shared(t).iteration = k
  BY <1>2, <1>4, <1>5, <1>6 DEF Construct, L, Shared
<1>8. PICK c : c = ChunkFrom(l.tc, k, l.chunk)
  OBVIOUS
<1>9. l.tc \in Nat /\ l.chunk \in Nat \ {0} /\ n \in Nat /\ n >= 2
  BY <1>4, <1>5, Schedules DEF Types
<1>10. Schedule(l) \in {"guided", "guided_simd"}
  BY <1>2, <1>3, <1>4, <1>5 DEF PlaceRight
<1>11. /\ Take(t, c)
       /\ buf' = [buf EXCEPT ![cur[t]].iteration = @ + l.chunk]
       /\ priv' = [priv EXCEPT ![t][cur[t]] = Bounds(@, c)]
       /\ program' = program /\ at' = at /\ cur' = cur /\ dispIndex' = dispIndex /\ ran' = ran
  BY <1>7, <1>8 DEF GuidedAdd, history
<1>12. PICK next \in Nat : next = k + l.chunk
  BY <1>9
<1>13. buf' = [buf EXCEPT ![BufferOf(q)] = [b EXCEPT !.iteration = next]]
  BY <1>4, <1>5, <1>6, <1>11, <1>12
<1>14. priv' = [priv EXCEPT ![t][BufferOf(q)] = Bounds(priv[t][BufferOf(q)], c)]
  BY <1>4, <1>11
<1>15. Follows(l, Reach(l, k), Reach(l, next), c)
  BY <1>8, <1>9, <1>10, <1>12, NextGuided
<1>16. DrawsByCounter(t, q, c, next)
  BY <1>5, <1>6, <1>10, <1>11, <1>13, <1>14, <1>15 DEF DrawsByCounter, ByCounter
<1> QED
  BY <1>1, <1>2, <1>3, <1>12, <1>16, CounterDraw

LEMMA GuidedSwapStep ==
    ASSUME Inv, NEW t \in Thread, GuidedSwap(t)
    PROVE  Inv'
<1>1. /\ "guided_swap" \in Drawing /\ "guided_swap" \in InLoop /\ "guided_swap" \in Entered \ {"leave"}
      /\ "next" \in Drawing \cup Running
  BY DEF InLoop, Entered, Drawing
<1>2. PICK q : q = at[t]
  OBVIOUS
<1>3. pc[t] = "guided_swap"
  BY DEF GuidedSwap
<1>4. /\ cur[t] = BufferOf(q) /\ q \in LoopNumbers /\ q \in Nat /\ IsBuffer(buf[BufferOf(q)])
      /\ Types /\ PlaceRight(t)
  BY <1>1, <1>2, <1>3, Inside
<1>5. PICK l, b : l = L(q) /\ b = buf[BufferOf(q)]
  OBVIOUS
<1>6. PICK k \in Nat : k = local[t].k /\ l.tc - k >= GuidedThreshold(l.chunk, n)
  BY <1>2, <1>3, <1>4, <1>5 DEF PlaceRight
<1>7. Construct(t) = l /\ Shared(t) = b
  BY <1>2, <1>4, <1>5, <1>6 DEF Construct, L, Shared
<1>8. l.tc \in Nat /\ l.chunk \in Nat \ {0} /\ n \in Nat /\ n >= 2
  BY <1>4, <1>5, Schedules DEF Types
<1>9. Schedule(l) \in {"guided", "guided_simd"}
  BY <1>2, <1>3, <1>4, <1>5 DEF PlaceRight
<1>10. PICK size \in {GuidedSize(l.tc - k, n), GuidedSimdSize(l.tc - k, n, l.chunk)} :
         size = IF l.sched = "guided" THEN GuidedSize(l.tc - k, n) ELSE GuidedSimdSize(l.tc - k, n, l.chunk)
  OBVIOUS
<1>11. PICK c : c = [init |-> k, limit |-> k + size - 1]
  OBVIOUS
<1>12. /\ program' = program /\ at' = at /\ cur' = cur /\ dispIndex' = dispIndex /\ ran' = ran
       /\ IF b.iteration = k
          THEN /\ buf' = [buf EXCEPT ![cur[t]].iteration = k + size]
               /\ Take(t, c)
               /\ priv' = [priv EXCEPT ![t][cur[t]] = Bounds(@, c)]
          ELSE pc' = [pc EXCEPT ![t] = "next"] /\ local' = local /\ priv' = priv /\ buf' = buf
  BY <1>6, <1>7, <1>10, <1>11 DEF GuidedSwap, history, Goto
<1>13. CASE b.iteration = k
  <2>1. size \in Nat \ {0} /\ Follows(l, Reach(l, k), Reach(l, k + size), c)
    BY <1>6, <1>8, <1>9, <1>11, NextGuided
  <2>2. PICK next \in Nat : next = k + size
    BY <2>1
  <2>3. buf' = [buf EXCEPT ![BufferOf(q)] = [b EXCEPT !.iteration = next]]
    BY <1>4, <1>5, <1>12, <1>13, <2>2
  <2>4. priv' = [priv EXCEPT ![t][BufferOf(q)] = Bounds(priv[t][BufferOf(q)], c)]
    BY <1>4, <1>12, <1>13
  <2>5. Follows(l, Reach(l, b.iteration), Reach(l, next), c)
    BY <1>13, <2>1, <2>2
  <2>6. DrawsByCounter(t, q, c, next)
    BY <1>5, <1>9, <1>12, <1>13, <2>3, <2>4, <2>5 DEF DrawsByCounter, ByCounter
  <2> QED
    BY <1>1, <1>2, <1>3, <2>2, <2>6, CounterDraw
<1>14. CASE b.iteration # k
  <2>1. /\ program' = program /\ at' = at /\ cur' = cur /\ dispIndex' = dispIndex /\ ran' = ran
        /\ pc' = [pc EXCEPT ![t] = "next"] /\ local' = local /\ priv' = priv /\ buf' = buf
    BY <1>12, <1>14
  <2>2. Shape(t, "next")
    BY <2>1 DEF Shape
  <2>3. pc'[t] = "next" /\ at'[t] = q
    BY <1>2, <1>4, <2>1 DEF Types
  <2>4. Pending(t, q)' = {} /\ Pending(t, q) = {}
    <3>1. q \in Int
      BY <1>4
    <3>2. Pending(t, q)' = {}
      BY <2>1, <2>3, <3>1, InPlaceAfter
    <3>3. Pending(t, q) = {}
      BY <1>2, <1>3, <3>1, InPlace
    <3> QED
      BY <3>2, <3>3
  <2> QED
    BY <1>1, <1>2, <1>3, <2>1, <2>2, <2>4, RunningStep
<1> QED
  BY <1>13, <1>14

LEMMA GuidedReadStep ==
    ASSUME Inv, NEW t \in Thread, GuidedRead(t)
    PROVE  Inv'
<1>1. /\ "next" \in Drawing /\ "next" \in InLoop /\ "next" \in Entered \ {"leave"}
      /\ "guided_add" \in Drawing /\ "guided_swap" \in Drawing /\ "next" \in Entered
  BY DEF InLoop, Entered, Drawing
<1>2. PICK q : q = at[t]
  OBVIOUS
<1>3. pc[t] = "next"
  BY DEF GuidedRead, IsNext
<1>4. /\ cur[t] = BufferOf(q) /\ q \in LoopNumbers /\ q \in Nat /\ IsBuffer(buf[BufferOf(q)])
      /\ Types /\ PlaceRight(t) /\ PartRight(q) /\ IsLocal(local[t])
  BY <1>1, <1>2, <1>3, Inside
<1>5. PICK l, b, r : l = L(q) /\ b = buf[BufferOf(q)] /\ r = [local[t] EXCEPT !.k = b.iteration]
  OBVIOUS
<1>6. PICK k \in Nat : k = b.iteration
  BY <1>4, <1>5 DEF IsBuffer
<1>7. Construct(t) = l /\ Shared(t).iteration = k
  BY <1>2, <1>4, <1>5, <1>6 DEF Construct, L, Shared
<1>8. l.tc \in Nat /\ l.chunk \in Nat \ {0} /\ n \in Nat /\ n >= 2
  BY <1>4, <1>5, Schedules DEF Types
<1>9. PICK place \in {"done", "guided_add", "guided_swap"} :
        /\ pc' = [pc EXCEPT ![t] = place]
        /\ place = "done" => l.tc - k <= 0
        /\ place = "guided_swap" => ~(l.tc - k < GuidedThreshold(l.chunk, n))
  <2>1. PICK rest, least : rest = l.tc - k /\ least = GuidedThreshold(l.chunk, n)
    OBVIOUS
  <2>2. pc' = [pc EXCEPT ![t] = IF rest <= 0 THEN "done" ELSE IF rest < least THEN "guided_add" ELSE "guided_swap"]
    BY <1>7, <2>1 DEF GuidedRead, Goto
  <2>3. PICK place : place = IF rest <= 0 THEN "done" ELSE IF rest < least THEN "guided_add" ELSE "guided_swap"
    OBVIOUS
  <2>4. pc' = [pc EXCEPT ![t] = place]
    BY <2>2, <2>3
  <2>5. rest \in Int /\ least \in Int
    BY <1>8, <2>1 DEF GuidedThreshold
  <2>6. \/ rest <= 0 /\ place = "done"
        \/ rest < least /\ place = "guided_add"
        \/ ~(rest < least) /\ place = "guided_swap"
    BY <2>3, <2>5
  <2> QED
    BY <2>1, <2>4, <2>6
<1>10. /\ Schedule(l) \in {"guided", "guided_simd"} /\ l.tc > 0 /\ local' = [local EXCEPT ![t].k = k]
       /\ program' = program /\ at' = at /\ cur' = cur /\ dispIndex' = dispIndex /\ ran' = ran /\ priv' = priv
       /\ buf' = buf
  BY <1>7 DEF GuidedRead, IsNext, loops, history
<1>11. IsLocal(r) /\ r.k = k /\ local' = [local EXCEPT ![t] = r]
  <2>1. IsLocal(r) /\ r.k = k
    BY <1>4, <1>5, <1>6, KSet
  <2>2. local' = [local EXCEPT ![t] = r]
    BY <1>5, <1>6, <1>10
  <2> QED
    BY <2>1, <2>2
<1>12. local'[t].k = k
  BY <1>4, <1>11, LocalSet
<1>13. Shape(t, place)
  BY <1>9, <1>10, <1>11 DEF Shape
<1>14. pc'[t] = place /\ at'[t] = q
  BY <1>2, <1>4, <1>9, <1>10 DEF Types
<1>15. Pending(t, q)' = {}
  BY <1>4, <1>10, <1>14, InPlaceAfter
<1>16. Pending(t, q) = {}
  BY <1>2, <1>3, <1>4, InPlace
<1>17. CASE place # "done"
  <2>1. GuidedThreshold(l.chunk, n) \in Int
    BY <1>8 DEF GuidedThreshold
  <2>2. place = "guided_swap" => local'[t].k \in Nat /\ l.tc - local'[t].k >= GuidedThreshold(l.chunk, n)
    BY <1>8, <1>9, <1>12, <2>1
  <2>3. place \in Drawing \cup Running
    BY <1>1, <1>17
  <2>4. priv'[t][BufferOf(q)].count = priv[t][BufferOf(q)].count /\ Pending(t, q)' = Pending(t, q)
    BY <1>10, <1>15, <1>16
  <2>5. pc[t] \in Drawing \cup Running /\ place # "body"
    BY <1>1, <1>3
  <2>6. Schedule(L(q)) \in {"guided", "guided_simd"} /\ L(q).tc > 0
    BY <1>5, <1>10
  <2>7. place = "guided_swap" => local'[t].k \in Nat /\ L(q).tc - local'[t].k >= GuidedThreshold(L(q).chunk, n)
    BY <1>5, <2>2
  <2>8. \A s \in Slots : /\ buf'[s].index = buf[s].index
                         /\ buf'[s].iteration = buf[s].iteration /\ buf'[s].done = buf[s].done
    BY <1>10
  <2> QED
    BY <1>2, <1>10, <1>13, <2>3, <2>4, <2>5, <2>6, <2>7, <2>8, RunningStep
<1>18. CASE place = "done"
  <2>1. PICK none : none = {}
    OBVIOUS
  <2>2. "done" \in Drawing \cup Running \cup {"done"} /\ pc[t] \in Drawing \cup Running
    BY <1>1, <1>3
  <2>3. Shape(t, "done") /\ l.tc <= k
    BY <1>8, <1>9, <1>13, <1>18
  <2>4. Index(q) = NameNow(q) /\ ~Published(q) /\ Index(q) \in Nat
    BY <1>2, <1>10, <2>2, <2>3, DrawFrame
  <2>5. \A i : Gone(q, i)' <=> Gone(q, i)
    BY <1>2, <1>10, <2>2, <2>3, NothingDrawn
  <2>6. ASSUME NEW i \in Iterations(q)
        PROVE  Served(t, q, i)'
    <3>1. Frontier(q) = l.tc
      <4>1. Frontier(q) = Reach(l, k)
        BY <1>5, <1>6, <2>4 DEF Frontier
      <4>2. Reach(l, k) = l.tc
        BY <1>8, <1>10, <2>3 DEF Reach, Least
      <4> QED
        BY <4>1, <4>2
    <3>2. i < l.tc
      BY <1>5, <1>8 DEF Iterations
    <3>3. Schedule(L(q)) \in ByCounter
      BY <1>5, <1>10 DEF ByCounter
    <3>4. Gone(q, i)
      BY <3>1, <3>2, <3>3 DEF Gone
    <3>5. Schedule(L(q))' = Schedule(L(q))
      BY <1>10, Static
    <3> QED
      BY <2>5, <3>3, <3>4, <3>5 DEF Served
  <2>7. Schedule(L(q)) # "static_chunked"
    BY <1>5, <1>10
  <2>8. none \in SUBSET Iterations(q) /\ none \in SUBSET Pending(t, q) /\ Pending(t, q)' = (Pending(t, q) \cup none) \ none
    BY <1>15, <1>16, <2>1
  <2>9. ran'[q] = [i \in Iterations(q) |-> ran'[q][i]]
    BY <1>4, <1>10 DEF PartRight
  <2>10. /\ \A i \in none : ~Gone(q, i)
         /\ \A i \in Iterations(q) : Gone(q, i)' <=> Gone(q, i) \/ i \in none
         /\ \A i \in Iterations(q) : ran'[q][i] = IF i \in none THEN 1 ELSE ran[q][i]
    BY <1>10, <2>1, <2>5
  <2>11. \A s \in Slots : /\ buf'[s].index = buf[s].index /\ buf'[s].done = buf[s].done
                          /\ s # BufferOf(q) => buf'[s].iteration = buf[s].iteration
    BY <1>10
  <2>12. at' = at /\ cur' = cur /\ dispIndex' = dispIndex
    BY <1>10
  <2>13. Draws(t, "done", q, none, none)
    BY <1>2, <2>2, <2>3, <2>6, <2>7, <2>8, <2>9, <2>10, <2>11, <2>12 DEF Draws
  <2> QED
    BY <2>13, DrawStep
<1> QED
  BY <1>17, <1>18


(* There is no stealing.                                                    *)
LEMMA NoStealing ==
    ASSUME Inv, NEW t \in Thread
    PROVE  ~(FlagForThieves(t) \/ NextOwnChunk(t) \/ Search(t) \/ Scan(t) \/ Rob(t) \/ Adopt(t))
<1>1. Types /\ pc[t] \in Places
  BY DEF Inv, Types
<1>2. pc[t] \notin {"flag", "search", "scan", "rob", "adopt"}
  BY <1>1 DEF Places, InLoop, Entered, Drawing, Running, Closing, Posting, InOther
<1>3. ~NextOwnChunk(t)
  <2> SUFFICES ASSUME NextOwnChunk(t) PROVE FALSE
    OBVIOUS
  <2>1. pc[t] = "next" /\ Schedule(Construct(t)) = "static_steal"
    BY DEF NextOwnChunk, IsNext
  <2>2. "next" \in InLoop
    BY DEF InLoop, Entered, Drawing
  <2>3. PICK q : q = at[t]
    OBVIOUS
  <2>4. q \in LoopNumbers
    BY <2>1, <2>2, <2>3, Inside
  <2>5. Schedule(L(q)) \in ByCounter \cup ByThread
    BY <1>1, <2>4, Schedules DEF Types
  <2> QED
    BY <2>1, <2>3, <2>5 DEF Construct, L, ByCounter, ByThread
<1> QED
  BY <1>2, <1>3 DEF FlagForThieves, Search, Scan, Rob, Adopt

-----------------------------------------------------------------------------
(* The end of a loop.                                                       *)

(* No work is given out, begun or ended.                                    *)
LEMMA WorkKept ==
    ASSUME program' = program, NEW p \in LoopNumbers, PartRight(p), ran'[p] = ran[p], NEW t \in Thread,
           \A u \in Thread : SameWork(u, p), \A i \in Iterations(p) : Gone(p, i)' <=> Gone(p, i)
    PROVE  PartRight(p)'
<1>1. \A u \in Thread : /\ Finished(u, p)' <=> Finished(u, p)
                        /\ Pending(u, p)' = Pending(u, p)
                        /\ \A m \in Nat : Had(u, p, m)' <=> Had(u, p, m)
  BY DEF SameWork
<1>2. \A u \in Thread : Finished(u, p)' => \A i \in Iterations(p) : Served(u, p, i)'
  BY <1>1, ServedKept DEF PartRight
<1>3. PICK none : none = {}
  OBVIOUS
<1>4. /\ none \in SUBSET Iterations(p) /\ none \in SUBSET Pending(t, p)
      /\ Pending(t, p)' = (Pending(t, p) \cup none) \ none
      /\ \A i \in none : ~Gone(p, i)
      /\ \A i \in Iterations(p) : Gone(p, i)' <=> Gone(p, i) \/ i \in none
      /\ \A u \in Thread \ {t} : SameWork(u, p)
  BY <1>1, <1>3
<1>5. ran'[p] = [i \in Iterations(p) |-> IF i \in none THEN 1 ELSE ran[p][i]]
  <2>1. ran[p] = [i \in Iterations(p) |-> ran[p][i]]
    BY DEF PartRight
  <2> QED
    BY <1>3, <2>1
<1> QED
  BY <1>2, <1>4, <1>5, PartKept

(* What has gone, from where the counter is.                                *)
LEMMA GoneToFrontier ==
    ASSUME program' = program, NEW p \in LoopNumbers, Frontier(p)' = Frontier(p),
           \A u \in Thread : SameWork(u, p), NEW i
    PROVE  Gone(p, i)' <=> Gone(p, i)
<1>1. /\ L(p)' = L(p) /\ Thread' = Thread /\ (\A l : Schedule(l)' = Schedule(l))
      /\ \A l, k, v, m : Turn(l, k, v, m)' <=> Turn(l, k, v, m)
  BY Static
<1> QED
  BY <1>1 DEF Gone, SameWork

(* A thread that is through a loop or becomes so keeps its work.            *)
LEMMA ClosingWork ==
    ASSUME NEW t, NEW q \in Int, at[t] = q, pc[t] \in {"done", "reset", "publish"},
           program' = program, at'[t] = q, pc'[t] \in {"reset", "publish", "leave"}, priv' = priv
    PROVE  SameWork(t, q)
<1>1. /\ {"done", "reset", "publish", "leave"} \subseteq Entered /\ {"reset", "publish"} = Closing
      /\ {"done", "reset", "publish", "leave"} \cap {"body", "deo", "region", "end"} = {}
  BY DEF Entered, Closing
<1>2. BufferOf(q)' = BufferOf(q)
  BY Static
<1>3. /\ Finished(t, q) /\ Pending(t, q) = {}
      /\ \A m : Had(t, q, m) <=> m < priv[t][BufferOf(q)].count
  BY <1>1, InPlace
<1>4. /\ Finished(t, q)' /\ Pending(t, q)' = {}
      /\ \A m : Had(t, q, m)' <=> m < priv'[t][BufferOf(q)].count
  BY <1>1, InPlaceAfter
<1> QED
  BY <1>3, <1>4 DEF SameWork

LEMMA NumDoneStep ==
    ASSUME Inv, NEW t \in Thread, NumDone(t)
    PROVE  Inv'
<1>1. /\ "done" \in InLoop /\ "done" \in Entered \ {"leave"} /\ "done" \notin Closing \cup {"leave"}
      /\ \A x \in {"reset", "leave"} : x \in InLoop /\ x \in Places /\ x \in Closing \cup {"leave"} /\ x # "publish"
      /\ "leave" \notin Closing /\ "reset" \in Closing
  BY DEF InLoop, Entered, Closing, Places
<1>2. PICK q : q = at[t]
  OBVIOUS
<1>3. pc[t] = "done"
  BY DEF NumDone
<1>4. /\ Types /\ PlaceRight(t) /\ q \in LoopNumbers /\ q \in Nat /\ RingRight(q) /\ PartRight(q)
      /\ cur[t] = BufferOf(q) /\ BufferOf(q) \in Slots /\ IsBuffer(buf[BufferOf(q)])
      /\ dispIndex[t] = Index(q) + 1 /\ Index(q) \in Nat /\ Index(q) = NameNow(q)
  BY <1>1, <1>2, <1>3, Inside
<1>5. PICK done \in Nat : done = buf[BufferOf(q)].done
  BY <1>4 DEF IsBuffer
<1>6. PICK b : b = [buf[BufferOf(q)] EXCEPT !.done = done + 1]
  OBVIOUS
<1>7. PICK place \in {"reset", "leave"} :
        pc' = [pc EXCEPT ![t] = place] /\ (place = "reset" => done = n - 1)
  <2>1. Shared(t).done = done
    BY <1>4, <1>5 DEF Shared
  <2>2. PICK place \in {"reset", "leave"} : place = IF IsLast(done) THEN "reset" ELSE "leave"
    OBVIOUS
  <2> QED
    BY <2>1, <2>2 DEF NumDone, Goto, IsLast
<1>8. /\ buf' = [buf EXCEPT ![BufferOf(q)] = b]
      /\ program' = program /\ at' = at /\ local' = local /\ priv' = priv /\ cur' = cur
      /\ dispIndex' = dispIndex /\ ran' = ran
  BY <1>4, <1>5, <1>6 DEF NumDone, history
<1>9. /\ IsBuffer(b) /\ b.done = done + 1 /\ b.index = buf[BufferOf(q)].index
      /\ b.iteration = buf[BufferOf(q)].iteration
  BY <1>4, <1>6, DoneSet
<1>10. /\ b.index % Buffers = BufferOf(q) /\ buf'[BufferOf(q)] = b
       /\ \A c \in Slots : c # BufferOf(q) => buf'[c] = buf[c]
  BY <1>4, <1>8, <1>9, BufferSet
<1>11. Shape(t, place)
  BY <1>4, <1>7, <1>8, <1>9, <1>10 DEF Shape
<1>12. Types' /\ Frame(t) /\ pc'[t] = place /\ at'[t] = q
  BY <1>1, <1>2, <1>4, <1>8, <1>11, Shaped
<1>13. BufferOf(q)' = BufferOf(q) /\ Thread' = Thread /\ n' = n /\ Index(q)' = Index(q) /\ L(q)' = L(q)
       /\ \A l, k : Reach(l, k)' = Reach(l, k)
  BY <1>8, Static
<1>14. NameNow(q)' = NameNow(q)
  BY <1>9, <1>10, <1>13 DEF NameNow
<1>15. /\ ~Through(t, q) /\ ~Closes(t, q) /\ ~Publishes(t, q)
       /\ Through(t, q)' /\ (Closes(t, q)' <=> place = "reset") /\ ~Publishes(t, q)'
  <2>1. q \in Int
    BY <1>4
  <2>2. ~Through(t, q) /\ ~Closes(t, q) /\ ~Publishes(t, q)
    BY <1>1, <1>2, <1>3, <2>1, InPlace DEF Closing
  <2>3. /\ Through(t, q)' <=> pc'[t] \in Closing \cup {"leave"}
        /\ Closes(t, q)' <=> pc'[t] \in Closing
        /\ Publishes(t, q)' <=> pc'[t] = "publish"
    BY <1>8, <1>12, <2>1, InPlaceAfter
  <2> QED
    BY <1>1, <1>12, <2>2, <2>3
<1>16. \A u \in Thread \ {t} : SameWork(u, q) /\ Same(u, q)
  BY <1>12, OthersSame
<1>17. \A u \in Thread : ~Closes(u, q)
  BY <1>4, <1>15 DEF RingRight, AllThrough
<1>18. \A u \in Thread \ {t} : ~Closes(u, q)' /\ (Through(u, q)' <=> Through(u, q))
  BY <1>16, <1>17 DEF Same
<1>19. ~Published(q) /\ ~Published(q)'
  <2>1. \A u \in Thread : Publishes(u, q) => Closes(u, q)
    BY DEF Publishes, Closes, Closing
  <2>2. \A u \in Thread : Publishes(u, q)' => Publishes(u, q)
    BY <1>15, <1>16 DEF Same
  <2> QED
    BY <1>13, <1>17, <2>1, <2>2 DEF Published
<1> DEFINE through == {u \in Thread : Through(u, q)}
           after == {u \in Thread : Through(u, q)'}
<1>20. /\ after = through \cup {t} /\ Cardinality(after) = done + 1 /\ after \in SUBSET Thread
       /\ IsFiniteSet(Thread) /\ Cardinality(Thread) = n
  <2>1. after = through \cup {t} /\ t \notin through /\ through \in SUBSET Thread /\ after \in SUBSET Thread
    BY <1>15, <1>18
  <2>2. n \in Nat \ {0} /\ Thread = 0..(n - 1)
    BY <1>4, Basics
  <2>3. IsFiniteSet(Thread) /\ Cardinality(Thread) = n
    BY <2>2, FS_Interval
  <2>4. done = Cardinality(through)
    BY <1>4, <1>5, <1>19 DEF RingRight
  <2> HIDE DEF through, after
  <2>5. IsFiniteSet(through)
    BY <2>1, <2>3, FS_Subset
  <2>6. Cardinality(through \cup {t}) = done + 1
    BY <2>1, <2>4, <2>5, FS_AddElement
  <2> QED
    BY <2>1, <2>3, <2>6
<1>21. place = "reset" => \A u \in Thread : Through(u, q)'
  <2> SUFFICES ASSUME place = "reset" PROVE after = Thread
    OBVIOUS
  <2>1. n \in Nat /\ done + 1 = n
    BY <1>4, <1>7, Basics
  <2> HIDE DEF after
  <2> QED
    BY <1>20, <2>1, FS_Subset
<1>22. RingRight(q)'
  <2>1. (Index(q) < NameNow(q) => \A u \in Thread : Through(u, q) /\ ~Closes(u, q))'
    BY <1>4, <1>13, <1>14
  <2>2. (Index(q) > NameNow(q) => \A u \in Thread : ~EnteredLoop(u, q))'
    BY <1>4, <1>13, <1>14
  <2>3. ((\E u \in Thread : Closes(u, q)) => AllThrough(q))'
    BY <1>13, <1>15, <1>18, <1>21 DEF AllThrough
  <2>4. (\A u, v \in Thread : Closes(u, q) /\ Closes(v, q) => u = v)'
    BY <1>13, <1>18
  <2>5. (Published(q) => buf[BufferOf(q)].done = 0 /\ buf[BufferOf(q)].iteration = 0)'
    BY <1>19
  <2>6. (Index(q) = NameNow(q) /\ ~Published(q) =>
           buf[BufferOf(q)].done = Cardinality({u \in Thread : Through(u, q)}))'
    <3>1. {u \in Thread : Through(u, q)}' = after
      BY <1>13
    <3>2. (buf[BufferOf(q)].done)' = done + 1
      BY <1>9, <1>10, <1>13
    <3> QED
      BY <1>20, <3>1, <3>2
  <2> QED
    BY <2>1, <2>2, <2>3, <2>4, <2>5, <2>6 DEF RingRight
<1>23. SameWork(t, q)
  <2>1. q \in Int /\ pc[t] \in {"done", "reset", "publish"} /\ pc'[t] \in {"reset", "publish", "leave"}
    BY <1>3, <1>4, <1>12
  <2> QED
    BY <1>2, <1>8, <1>12, <2>1, ClosingWork
<1>24. PartRight(q)'
  <2>1. Frontier(q)' = Frontier(q)
    <3>1. (buf[BufferOf(q)].iteration)' = buf[BufferOf(q)].iteration
      BY <1>9, <1>10, <1>13
    <3> QED
      BY <1>13, <1>14, <1>19, <3>1 DEF Frontier
  <2>2. \A u \in Thread : SameWork(u, q)
    BY <1>16, <1>23
  <2>3. \A i : Gone(q, i)' <=> Gone(q, i)
    BY <1>4, <1>8, <2>1, <2>2, GoneToFrontier
  <2>4. ran'[q] = ran[q]
    BY <1>8
  <2> QED
    BY <1>4, <1>8, <2>2, <2>3, <2>4, WorkKept
<1>25. PlaceRight(t)' /\ PostRight(t)'
  <2>1. place \in InLoop
    BY <1>1
  <2>2. cur'[t] = BufferOf(q) /\ dispIndex'[t] = Index(q) + 1
    BY <1>4, <1>8
  <2>3. Schedule(L(q)) = "static_chunked" => priv'[t][BufferOf(q)].count % n = 0
    BY <1>1, <1>2, <1>3, <1>4, <1>8 DEF PlaceRight
  <2> QED
    BY <1>2, <1>4, <1>8, <1>11, <2>1, <2>2, <2>3, PlaceKept
<1>26. BuffersKept(t)
  BY <1>2, <1>4, <1>9, <1>10 DEF BuffersKept
<1>27. q \notin Doacrosses
  BY <1>4, Basics
<1> QED
  BY <1>2, <1>12, <1>22, <1>24, <1>25, <1>26, <1>27, Assemble


LEMMA ResetBufferStep ==
    ASSUME Inv, NEW t \in Thread, ResetBuffer(t)
    PROVE  Inv'
<1>1. /\ "reset" \in InLoop /\ "reset" \in Entered \ {"leave"} /\ "reset" \in Closing
      /\ "publish" \in InLoop /\ "publish" \in Entered \ {"leave"} /\ "publish" \in Closing /\ "publish" \in Places
  BY DEF InLoop, Entered, Closing, Places
<1>2. PICK q : q = at[t]
  OBVIOUS
<1>3. pc[t] = "reset"
  BY DEF ResetBuffer
<1>4. /\ Types /\ PlaceRight(t) /\ q \in LoopNumbers /\ q \in Nat /\ RingRight(q) /\ PartRight(q)
      /\ cur[t] = BufferOf(q) /\ BufferOf(q) \in Slots /\ IsBuffer(buf[BufferOf(q)])
      /\ dispIndex[t] = Index(q) + 1 /\ Index(q) \in Nat /\ Index(q) = NameNow(q)
  BY <1>1, <1>2, <1>3, Inside
<1>5. PICK o : o = IF Ordered(t) THEN 0 ELSE buf[BufferOf(q)].ordered
  OBVIOUS
<1>6. PICK b : b = [buf[BufferOf(q)] EXCEPT !.done = 0, !.iteration = 0, !.ordered = o]
  OBVIOUS
<1>7. /\ buf' = [buf EXCEPT ![BufferOf(q)] = b] /\ pc' = [pc EXCEPT ![t] = "publish"]
      /\ program' = program /\ at' = at /\ local' = local /\ priv' = priv /\ cur' = cur
      /\ dispIndex' = dispIndex /\ ran' = ran
  BY <1>4, <1>5, <1>6 DEF ResetBuffer, history, Goto, Shared
<1>8. IsBuffer(b) /\ b.done = 0 /\ b.index = buf[BufferOf(q)].index /\ b.iteration = 0
  <2> DEFINE x == [buf[BufferOf(q)] EXCEPT !.done = 0]
             y == [x EXCEPT !.iteration = 0]
             z == [y EXCEPT !.ordered = o]
  <2>1. IsBuffer(x) /\ x.done = 0 /\ x.index = buf[BufferOf(q)].index
    BY <1>4, DoneSet
  <2> HIDE DEF x
  <2>2. IsBuffer(y) /\ y.done = 0 /\ y.index = buf[BufferOf(q)].index /\ y.iteration = 0
    BY <2>1, IterationSet
  <2> HIDE DEF y
  <2>3. IsBuffer(z) /\ z.done = 0 /\ z.index = buf[BufferOf(q)].index /\ z.iteration = 0
    BY <2>2, OrderedSet
  <2>4. z = b
    BY <1>6 DEF x, y
  <2> HIDE DEF z
  <2> QED
    BY <2>3, <2>4
<1>9. /\ b.index % Buffers = BufferOf(q) /\ buf'[BufferOf(q)] = b
      /\ \A c \in Slots : c # BufferOf(q) => buf'[c] = buf[c]
  BY <1>4, <1>7, <1>8, BufferSet
<1>10. Shape(t, "publish")
  BY <1>4, <1>7, <1>8, <1>9 DEF Shape
<1>11. Types' /\ Frame(t) /\ pc'[t] = "publish" /\ at'[t] = q
  BY <1>1, <1>2, <1>4, <1>7, <1>10, Shaped
<1>12. BufferOf(q)' = BufferOf(q) /\ Thread' = Thread /\ Index(q)' = Index(q) /\ L(q)' = L(q)
       /\ \A l : Schedule(l)' = Schedule(l)
  BY <1>7, Static
<1>13. NameNow(q)' = NameNow(q)
  BY <1>8, <1>9, <1>12 DEF NameNow
<1>14. /\ Through(t, q) /\ Closes(t, q) /\ ~Publishes(t, q) /\ Finished(t, q)
       /\ Through(t, q)' /\ Closes(t, q)' /\ Publishes(t, q)'
  <2>1. q \in Int
    BY <1>4
  <2>2. Through(t, q) /\ Closes(t, q) /\ ~Publishes(t, q) /\ Finished(t, q)
    BY <1>1, <1>2, <1>3, <2>1, InPlace
  <2>3. /\ Through(t, q)' <=> pc'[t] \in Closing \cup {"leave"}
        /\ Closes(t, q)' <=> pc'[t] \in Closing
        /\ Publishes(t, q)' <=> pc'[t] = "publish"
    BY <1>7, <1>11, <2>1, InPlaceAfter
  <2> QED
    BY <1>1, <1>11, <2>2, <2>3
<1>15. \A u \in Thread \ {t} : SameWork(u, q) /\ Same(u, q)
  BY <1>11, OthersSame
<1>16. \A u \in Thread : (Through(u, q)' <=> Through(u, q)) /\ (Closes(u, q)' <=> Closes(u, q))
  BY <1>14, <1>15 DEF Same
<1>17. Published(q)'
  BY <1>12, <1>14 DEF Published
<1>18. /\ (\A u \in Thread : Through(u, q)) /\ \A u, v \in Thread : Closes(u, q) /\ Closes(v, q) => u = v
  BY <1>4, <1>14 DEF RingRight, AllThrough
<1>19. RingRight(q)'
  <2>1. (Index(q) < NameNow(q) => \A u \in Thread : Through(u, q) /\ ~Closes(u, q))'
    BY <1>4, <1>12, <1>13
  <2>2. (Index(q) > NameNow(q) => \A u \in Thread : ~EnteredLoop(u, q))'
    BY <1>4, <1>12, <1>13
  <2>3. ((\E u \in Thread : Closes(u, q)) => AllThrough(q))'
    BY <1>12, <1>16, <1>18 DEF AllThrough
  <2>4. (\A u, v \in Thread : Closes(u, q) /\ Closes(v, q) => u = v)'
    BY <1>12, <1>16, <1>18
  <2>5. (Published(q) => buf[BufferOf(q)].done = 0 /\ buf[BufferOf(q)].iteration = 0)'
    BY <1>8, <1>9, <1>12
  <2>6. (Index(q) = NameNow(q) /\ ~Published(q) =>
           buf[BufferOf(q)].done = Cardinality({u \in Thread : Through(u, q)}))'
    BY <1>17
  <2> QED
    BY <2>1, <2>2, <2>3, <2>4, <2>5, <2>6 DEF RingRight
<1>20. SameWork(t, q)
  <2>1. q \in Int /\ pc[t] \in {"done", "reset", "publish"} /\ pc'[t] \in {"reset", "publish", "leave"}
    BY <1>3, <1>4, <1>11
  <2> QED
    BY <1>2, <1>7, <1>11, <2>1, ClosingWork
<1>21. PartRight(q)'
  <2>1. \A u \in Thread : SameWork(u, q)
    BY <1>15, <1>20
  <2>2. ASSUME NEW i \in Iterations(q)
        PROVE  Gone(q, i)' <=> Gone(q, i)
    <3>1. CASE Schedule(L(q)) \in ByCounter
      <4>1. Gone(q, i)
        BY <1>4, <1>14, <3>1 DEF PartRight, Served
      <4>2. Frontier(q)' = L(q).tc
        BY <1>12, <1>17 DEF Frontier
      <4>3. i < L(q).tc
        <5>1. L(q).tc \in Nat
          BY <1>4, Schedules DEF Types
        <5> QED
          BY <5>1 DEF Iterations
      <4>4. Gone(q, i)'
        BY <1>12, <3>1, <4>2, <4>3 DEF Gone
      <4> QED
        BY <4>1, <4>4
    <3>2. CASE Schedule(L(q)) \notin ByCounter
      <4>1. \A l, k, v, m : Turn(l, k, v, m)' <=> Turn(l, k, v, m)
        BY <1>7, Static
      <4>2. \A u \in Thread : \A m \in Nat : Had(u, q, m)' <=> Had(u, q, m)
        BY <2>1 DEF SameWork
      <4> QED
        BY <1>12, <3>2, <4>1, <4>2 DEF Gone
    <3> QED
      BY <3>1, <3>2
  <2>3. ran'[q] = ran[q]
    BY <1>7
  <2> QED
    BY <1>4, <1>7, <2>1, <2>2, <2>3, WorkKept
<1>22. PlaceRight(t)' /\ PostRight(t)'
  <2>1. cur'[t] = BufferOf(q) /\ dispIndex'[t] = Index(q) + 1
    BY <1>4, <1>7
  <2>2. Schedule(L(q)) = "static_chunked" => priv'[t][BufferOf(q)].count % n = 0
    BY <1>1, <1>2, <1>3, <1>4, <1>7 DEF PlaceRight
  <2> QED
    BY <1>1, <1>2, <1>4, <1>7, <1>10, <2>1, <2>2, PlaceKept
<1>23. BuffersKept(t)
  BY <1>2, <1>4, <1>8, <1>9 DEF BuffersKept
<1>24. q \notin Doacrosses
  BY <1>4, Basics
<1> QED
  BY <1>2, <1>11, <1>19, <1>21, <1>22, <1>23, <1>24, Assemble

LEMMA LeaveLoopStep ==
    ASSUME Inv, NEW t \in Thread, LeaveLoop(t)
    PROVE  Inv'
<1>1. /\ "leave" \in InLoop /\ "leave" \in Entered /\ "leave" \notin Closing
      /\ "idle" \in Places /\ "idle" \notin InLoop /\ "idle" \notin Posting \cup {"doacross_buffer"}
      /\ Entered \subseteq InLoop /\ "body" \in InLoop /\ "buffer" \in InLoop
      /\ "guided_add" \in InLoop /\ "guided_swap" \in InLoop
      /\ "doacross_body" \in Posting /\ "free_flags" \in Posting
  BY DEF InLoop, Entered, Closing, Places, Posting, Drawing, Running
<1>2. PICK q : q = at[t]
  OBVIOUS
<1>3. pc[t] = "leave"
  BY DEF LeaveLoop
<1>4. /\ Types /\ PlaceRight(t) /\ q \in LoopNumbers /\ q \in 1..Last /\ q \in Nat /\ Last \in Nat
      /\ RingRight(q) /\ PartRight(q) /\ BufferOf(q) \in Slots
      /\ dispIndex[t] = Index(q) + 1 /\ Index(q) \in Nat
  BY <1>1, <1>2, <1>3, Inside
<1>5. /\ at' = [at EXCEPT ![t] = @ + 1] /\ pc' = [pc EXCEPT ![t] = "idle"] /\ cur' = [cur EXCEPT ![t] = None]
      /\ program' = program /\ local' = local /\ priv' = priv /\ buf' = buf
      /\ dispIndex' = dispIndex /\ ran' = ran
  BY DEF LeaveLoop, NextConstruct, Goto, history
<1>6. Shape(t, "idle")
  <2>1. at[t] <= Last
    BY <1>2, <1>4
  <2> QED
    BY <1>5, <2>1 DEF Shape
<1>7. Types' /\ Frame(t) /\ pc'[t] = "idle"
  BY <1>1, <1>4, <1>6, Shaped
<1>8. at'[t] = q + 1
  BY <1>2, <1>4, <1>5 DEF Types
<1>9. BufferOf(q)' = BufferOf(q) /\ Thread' = Thread /\ L(q)' = L(q) /\ Last' = Last
      /\ LoopNumbers' = LoopNumbers /\ Doacrosses' = Doacrosses
      /\ (\A l : Schedule(l)' = Schedule(l)) /\ (\A p : Number(p)' = Number(p))
      /\ \A l, k, v, m : Turn(l, k, v, m)' <=> Turn(l, k, v, m)
  BY <1>5, Static
<1>10. /\ EnteredLoop(t, q) /\ Through(t, q) /\ ~Closes(t, q) /\ ~Publishes(t, q) /\ Finished(t, q)
       /\ Pending(t, q) = {}
  <2>1. q \in Int
    BY <1>4
  <2> QED
    BY <1>1, <1>2, <1>3, <2>1, InPlace
<1>11. at'[t] > q /\ ~(at'[t] = q)
  BY <1>4, <1>8
<1>12. /\ Through(t, q)' /\ ~Closes(t, q)' /\ ~Publishes(t, q)' /\ Finished(t, q)' /\ Pending(t, q)' = {}
       /\ \A m : Had(t, q, m)'
  BY <1>9, <1>11 DEF Through, Closes, Publishes, Finished, Pending, Had
<1>13. Same(t, q)
  BY <1>10, <1>12 DEF Same
<1>14. \A u \in Thread \ {t} : SameWork(u, q) /\ Same(u, q)
  BY <1>7, OthersSame
<1>15. \A u \in Thread : Same(u, q)
  BY <1>13, <1>14
<1>16. NameNow(q)' = NameNow(q) /\ buf'[BufferOf(q)] = buf[BufferOf(q)]
  BY <1>5, <1>9 DEF NameNow
<1>17. RingRight(q)'
  <2>1. Published(q) => buf[BufferOf(q)].done = 0 /\ buf[BufferOf(q)].iteration = 0
    BY <1>4 DEF RingRight
  <2> QED
    BY <1>4, <1>5, <1>15, <1>16, <2>1, RingKept
<1>18. \A u \in Thread : \A m \in Nat : Had(u, q, m) => Had(u, q, m)'
  BY <1>12, <1>14 DEF SameWork
<1>19. ASSUME NEW i \in Iterations(q)
       PROVE  Gone(q, i)' <=> Gone(q, i)
  <2>1. CASE Schedule(L(q)) \in ByCounter
    <3>1. Frontier(q)' = Frontier(q)
      <4>1. Published(q)' <=> Published(q)
        BY <1>9, <1>15 DEF Published, Same
      <4>2. Index(q)' = Index(q) /\ \A l, k : Reach(l, k)' = Reach(l, k)
        BY <1>5, Static
      <4> QED
        BY <1>9, <1>16, <4>1, <4>2 DEF Frontier
    <3> QED
      BY <1>9, <2>1, <3>1 DEF Gone
  <2>2. CASE Schedule(L(q)) \notin ByCounter
    <3>1. Gone(q, i) <=> \E u \in Thread : \E m \in Nat : Turn(L(q), i, u, m) /\ Had(u, q, m)
      BY <2>2 DEF Gone
    <3>2. Gone(q, i)' <=> \E u \in Thread : \E m \in Nat : Turn(L(q), i, u, m) /\ Had(u, q, m)'
      BY <1>9, <2>2 DEF Gone
    <3>3. ASSUME NEW u \in Thread, NEW m \in Nat, Turn(L(q), i, u, m), Had(u, q, m)'
          PROVE  Had(u, q, m)
      <4>1. CASE u = t
        <5>1. Served(t, q, i)
          BY <1>4, <1>10 DEF PartRight
        <5> QED
          BY <2>2, <3>3, <4>1, <5>1 DEF Served
      <4>2. CASE u # t
        BY <1>14, <3>3, <4>2 DEF SameWork
      <4> QED
        BY <4>1, <4>2
    <3> QED
      BY <1>18, <3>1, <3>2, <3>3
  <2> QED
    BY <2>1, <2>2
<1>20. \A u \in Thread : Finished(u, q)' => \A i \in Iterations(q) : Served(u, q, i)'
  <2> SUFFICES ASSUME NEW u \in Thread, Finished(u, q)', NEW i \in Iterations(q)
               PROVE  Served(u, q, i)'
    OBVIOUS
  <2>1. Finished(u, q)
    BY <1>10, <1>14 DEF SameWork
  <2>2. Served(u, q, i)
    BY <1>4, <2>1 DEF PartRight
  <2> QED
    BY <1>4, <1>5, <1>18, <1>19, <2>2, ServedKept
<1>21. PartRight(q)'
  <2>1. PICK none : none = {}
    OBVIOUS
  <2>2. /\ none \in SUBSET Iterations(q) /\ none \in SUBSET Pending(t, q)
        /\ Pending(t, q)' = (Pending(t, q) \cup none) \ none
        /\ \A i \in none : ~Gone(q, i)
        /\ \A i \in Iterations(q) : Gone(q, i)' <=> Gone(q, i) \/ i \in none
        /\ \A u \in Thread \ {t} : SameWork(u, q)
    BY <1>10, <1>12, <1>14, <1>19, <2>1
  <2>3. ran'[q] = [i \in Iterations(q) |-> IF i \in none THEN 1 ELSE ran[q][i]]
    <3>1. ran[q] = [i \in Iterations(q) |-> ran[q][i]]
      BY <1>4 DEF PartRight
    <3> QED
      BY <1>5, <2>1, <3>1
  <2> QED
    BY <1>4, <1>5, <1>20, <2>2, <2>3, PartKept
<1>22. PlaceRight(t)'
  <2>1. dispIndex'[t] = Number(q) + 0 /\ at'[t] - 1 = q
    <3>1. Number(q) \in Nat /\ Index(q) = Number(q) - 1
      BY <1>4, Numbers DEF Index
    <3> QED
      BY <1>4, <1>5, <1>8, <3>1
  <2>2. (dispIndex[t] = Number(at[t] - 1) + (IF pc[t] \in InLoop THEN 1 ELSE 0))'
    <3>1. Number(at[t] - 1)' = Number(q)
      BY <1>9, <2>1
    <3>2. pc'[t] \notin InLoop
      BY <1>1, <1>7
    <3> QED
      BY <2>1, <3>1, <3>2
  <2>3. pc'[t] = "idle" /\ pc'[t] \notin InLoop /\ pc'[t] \notin Posting \cup {"doacross_buffer"}
    BY <1>1, <1>7
  <2> QED
    BY <1>1, <1>9, <2>2, <2>3 DEF PlaceRight
<1>23. PostRight(t)'
  BY <1>1, <1>7 DEF PostRight
<1>24. BuffersKept(t)
  BY <1>5 DEF BuffersKept
<1>25. q \notin Doacrosses
  BY <1>4, Basics
<1> QED
  BY <1>2, <1>7, <1>17, <1>21, <1>22, <1>23, <1>24, <1>25, Assemble


(* The counter of a loop that no thread has entered.                        *)
LEMMA NothingReached ==
    ASSUME program \in Programs, Regular(program), NEW p \in LoopNumbers
    PROVE  Reach(L(p), 0) = 0
<1>1. /\ n \in Nat /\ n >= 2 /\ L(p).tc \in Nat /\ L(p).chunk \in Nat \ {0}
  BY Schedules
<1>2. Least(L(p).tc, 0) = 0
  BY <1>1 DEF Least
<1>3. CASE Schedule(L(p)) = "dynamic"
  <2>1. L(p).chunk * 0 = 0
    BY <1>1
  <2> QED
    BY <1>2, <1>3, <2>1 DEF Reach
<1>4. CASE Schedule(L(p)) = "trapezoid"
  <2>3. PICK tc \in Nat, chunk \in Nat \ {0} : tc = L(p).tc /\ chunk = L(p).chunk
    BY <1>1
  <2>0. PICK a : a = Trapezoid(tc, chunk, n)
    OBVIOUS
  <2>1. a.first \in Nat /\ a.less \in Nat /\ a.cycles \in Nat /\ a.cycles >= 2
    <3>1. n \in Nat /\ n >= 2
      BY <1>1
    <3> QED
      BY <2>0, <3>1, Trapezoids
  <2>2. TrapezoidStart(L(p), 0) = 0
    <3>1. PICK x \in Int : x = 2 * a.first - (0 - 1) * a.less
      BY <2>1
    <3>2. 0 * x = 0 /\ 0 \div 2 = 0
      OBVIOUS
    <3> QED
      BY <2>3, <2>0, <3>1, <3>2 DEF TrapezoidStart
  <2> QED
    BY <1>2, <1>4, <2>3, <2>0, <2>1, <2>2 DEF Reach
<1> QED
  BY <1>2, <1>3, <1>4 DEF Reach

(* The buffer of the loop q passes to the next loop that is to have it.     *)
LEMMA OtherLoopsPublished ==
    ASSUME Inv, NEW t \in Thread, Frame(t), NEW q, q = at[t], q \in LoopNumbers, Publishes(t, q),
           Index(q) = NameNow(q), buf'[BufferOf(q)].index = buf[BufferOf(q)].index + Buffers,
           \A b \in Slots : /\ buf'[b].iteration = buf[b].iteration /\ buf'[b].done = buf[b].done
                            /\ b # BufferOf(q) => buf'[b].index = buf[b].index,
           NEW p \in LoopNumbers, p # q
    PROVE  RingRight(p)' /\ PartRight(p)'
<1>1. Types /\ RingRight(p) /\ PartRight(p) /\ RingRight(q)
  BY DEF Inv
<1>2. /\ p \in 1..Last /\ p \in Nat /\ at[t] \in Nat /\ Index(p) \in Nat /\ NameNow(p) \in Nat /\ BufferOf(p) \in Slots
      /\ Index(p) # Index(q) /\ Index(q) \in Nat /\ BufferOf(q) \in Slots /\ Buffers \in Nat \ {0}
  BY <1>1, Basics
<1>3. program' = program /\ ran'[p] = ran[p]
  BY <1>2 DEF Frame
<1>4. \A u \in Thread : Same(u, p) /\ SameWork(u, p)
  BY <1>2, OthersSame, ElsewhereSame
<1>5. /\ BufferOf(p)' = BufferOf(p) /\ Index(p)' = Index(p) /\ Thread' = Thread /\ L(p)' = L(p)
      /\ \A l, k : Reach(l, k)' = Reach(l, k)
  BY <1>3, Static
<1>6. CASE BufferOf(p) # BufferOf(q)
  <2>1. NameNow(p)' = NameNow(p)
    BY <1>2, <1>5, <1>6 DEF NameNow
  <2>2. buf'[BufferOf(p)].iteration = buf[BufferOf(p)].iteration /\ buf'[BufferOf(p)].done = buf[BufferOf(p)].done
    BY <1>2
  <2> QED
    BY <1>1, <1>2, <1>3, <1>4, <2>1, <2>2, LoopKept
<1>7. CASE BufferOf(p) = BufferOf(q)
  <2>1. NameNow(p) = Index(q) /\ NameNow(p)' = Index(q) + Buffers
    BY <1>5, <1>7 DEF NameNow
  <2>2. /\ buf[BufferOf(p)].done = 0 /\ buf[BufferOf(p)].iteration = 0
        /\ (buf[BufferOf(p)].done)' = 0 /\ (buf[BufferOf(p)].iteration)' = 0
    <3>1. Published(q)
      BY DEF Published
    <3> QED
      BY <1>1, <1>2, <1>5, <1>7, <3>1 DEF RingRight
  <2>3. \A u \in Thread : /\ Through(u, p)' <=> Through(u, p)
                          /\ Closes(u, p)' <=> Closes(u, p)
                          /\ Publishes(u, p)' <=> Publishes(u, p)
                          /\ Index(p) > NameNow(p) /\ EnteredLoop(u, p)' => EnteredLoop(u, p)
    BY <1>4 DEF Same
  <2>4. \A u \in Thread : /\ Through(u, p) => EnteredLoop(u, p)
                          /\ Closes(u, p) => EnteredLoop(u, p)
                          /\ Publishes(u, p) => Closes(u, p)
    BY DEF Through, Closes, EnteredLoop, Publishes, Entered, Closing
  <2>5. ~Published(p) /\ ~Published(p)' /\ \A u \in Thread : ~Closes(u, p) /\ ~Closes(u, p)'
    <3>1. \A u \in Thread : ~Closes(u, p)
      <4>1. CASE Index(p) < Index(q)
        BY <1>1, <2>1, <4>1 DEF RingRight
      <4>2. CASE Index(p) > Index(q)
        BY <1>1, <2>1, <2>4, <4>2 DEF RingRight
      <4> QED
        BY <1>2, <4>1, <4>2
    <3> QED
      BY <1>5, <2>3, <2>4, <3>1 DEF Published
  <2>6. CASE Index(p) < Index(q)
    <3>1. \A u \in Thread : Through(u, p)
      BY <1>1, <2>1, <2>6 DEF RingRight
    <3>2. Index(p) < NameNow(p) /\ Index(p)' < NameNow(p)'
      BY <1>2, <1>5, <2>1, <2>6
    <3>3. ~(Index(p)' > NameNow(p)') /\ ~(Index(p)' = NameNow(p)')
      BY <1>2, <1>5, <2>1, <2>6
    <3>4. RingRight(p)'
      <4>1. (Index(p) < NameNow(p) => \A u \in Thread : Through(u, p) /\ ~Closes(u, p))'
        BY <1>5, <2>3, <2>5, <3>1
      <4>2. (Index(p) > NameNow(p) => \A u \in Thread : ~EnteredLoop(u, p))'
        BY <3>3
      <4>3. ((\E u \in Thread : Closes(u, p)) => AllThrough(p))'
        BY <1>5, <2>5
      <4>4. (\A u, v \in Thread : Closes(u, p) /\ Closes(v, p) => u = v)'
        BY <1>5, <2>5
      <4>5. (Published(p) => buf[BufferOf(p)].done = 0 /\ buf[BufferOf(p)].iteration = 0)'
        BY <2>5
      <4>6. (Index(p) = NameNow(p) /\ ~Published(p) =>
               buf[BufferOf(p)].done = Cardinality({u \in Thread : Through(u, p)}))'
        BY <3>3
      <4> QED
        BY <4>1, <4>2, <4>3, <4>4, <4>5, <4>6 DEF RingRight
    <3>5. Frontier(p)' = Frontier(p)
      BY <1>5, <3>2 DEF Frontier
    <3>6. \A i : Gone(p, i)' <=> Gone(p, i)
      BY <1>3, <1>4, <3>5, GoneToFrontier
    <3>7. PartRight(p)'
      BY <1>1, <1>3, <1>4, <3>6, WorkKept
    <3> QED
      BY <3>4, <3>7
  <2>7. CASE Index(p) > Index(q)
    <3>1. Index(p) >= Index(q) + Buffers
      <4>1. Index(p) % Buffers = Index(q) % Buffers
        BY <1>7 DEF BufferOf, Slot
      <4> QED
        BY <1>2, <2>7, <4>1, ModGap
    <3>2. Index(p)' >= NameNow(p)' /\ ~(Index(p)' < NameNow(p)') /\ Index(p) > NameNow(p) /\ ~(Index(p) < NameNow(p)) /\ Index(p) # NameNow(p)
      BY <1>2, <1>5, <2>1, <2>7, <3>1
    <3>3. \A u \in Thread : ~EnteredLoop(u, p) /\ ~EnteredLoop(u, p)' /\ ~Through(u, p)'
      <4>1. \A u \in Thread : ~EnteredLoop(u, p)
        BY <1>1, <3>2 DEF RingRight
      <4> QED
        BY <2>3, <2>4, <3>2, <4>1
    <3>4. Cardinality({u \in Thread : Through(u, p)})' = 0
      <4>1. {u \in Thread : Through(u, p)}' = {}
        BY <1>5, <3>3
      <4> QED
        BY <4>1, FS_EmptySet
    <3>5. RingRight(p)'
      <4>1. (Index(p) < NameNow(p) => \A u \in Thread : Through(u, p) /\ ~Closes(u, p))'
        BY <3>2
      <4>2. (Index(p) > NameNow(p) => \A u \in Thread : ~EnteredLoop(u, p))'
        BY <1>5, <3>3
      <4>3. ((\E u \in Thread : Closes(u, p)) => AllThrough(p))'
        BY <1>5, <2>5
      <4>4. (\A u, v \in Thread : Closes(u, p) /\ Closes(v, p) => u = v)'
        BY <1>5, <2>5
      <4>5. (Published(p) => buf[BufferOf(p)].done = 0 /\ buf[BufferOf(p)].iteration = 0)'
        BY <2>5
      <4>6. (Index(p) = NameNow(p) /\ ~Published(p) =>
               buf[BufferOf(p)].done = Cardinality({u \in Thread : Through(u, p)}))'
        BY <2>2, <3>4
      <4> QED
        BY <4>1, <4>2, <4>3, <4>4, <4>5, <4>6 DEF RingRight
    <3>6. Frontier(p) = 0
      BY <2>5, <3>2 DEF Frontier
    <3>7. Frontier(p)' = 0
      <4>1. Reach(L(p), 0) = 0
        BY <1>1, NothingReached DEF Types
      <4>2. Reach(L(p), buf[BufferOf(p)].iteration)' = 0
        BY <1>5, <2>2, <4>1
      <4> QED
        BY <2>5, <3>2, <4>2 DEF Frontier
    <3>8. \A i : Gone(p, i)' <=> Gone(p, i)
      BY <1>3, <1>4, <3>6, <3>7, GoneToFrontier
    <3>9. PartRight(p)'
      BY <1>1, <1>3, <1>4, <3>8, WorkKept
    <3> QED
      BY <3>5, <3>9
  <2> QED
    BY <1>2, <2>6, <2>7
<1> QED
  BY <1>6, <1>7

LEMMA PublishBufferStep ==
    ASSUME Inv, NEW t \in Thread, PublishBuffer(t)
    PROVE  Inv'
<1>1. /\ "publish" \in InLoop /\ "publish" \in Entered \ {"leave"} /\ "publish" \in Closing
      /\ "leave" \in InLoop /\ "leave" \in Entered /\ "leave" \notin Closing /\ "leave" \in Places
  BY DEF InLoop, Entered, Closing, Places
<1>2. PICK q : q = at[t]
  OBVIOUS
<1>3. pc[t] = "publish"
  BY DEF PublishBuffer
<1>4. /\ Types /\ PlaceRight(t) /\ q \in LoopNumbers /\ q \in Nat /\ RingRight(q) /\ PartRight(q)
      /\ cur[t] = BufferOf(q) /\ BufferOf(q) \in Slots /\ IsBuffer(buf[BufferOf(q)])
      /\ dispIndex[t] = Index(q) + 1 /\ Index(q) \in Nat /\ Index(q) = NameNow(q)
      /\ buf[BufferOf(q)].index % Buffers = BufferOf(q)
  BY <1>1, <1>2, <1>3, Inside
<1>5. PICK name \in Nat : name = buf[BufferOf(q)].index
  BY <1>4 DEF IsBuffer
<1>6. PICK next \in Nat : next = name + Buffers /\ next % Buffers = BufferOf(q)
  <2>1. PICK d \in Nat \ {0} : d = Buffers
    BY BuffersAssumption
  <2>2. PICK next \in Nat : next = name + d
    OBVIOUS
  <2>3. next % d = name % d
    BY <2>2, OneTurn
  <2> QED
    BY <1>4, <1>5, <2>1, <2>2, <2>3
<1>7. PICK b : b = [buf[BufferOf(q)] EXCEPT !.index = next]
  OBVIOUS
<1>8. /\ buf' = [buf EXCEPT ![BufferOf(q)] = b] /\ pc' = [pc EXCEPT ![t] = "leave"]
      /\ program' = program /\ at' = at /\ local' = local /\ priv' = priv /\ cur' = cur
      /\ dispIndex' = dispIndex /\ ran' = ran
  BY <1>4, <1>5, <1>6, <1>7 DEF PublishBuffer, NextNameOfBuffer, history, Goto
<1>9. /\ IsBuffer(b) /\ b.index = next /\ b.done = buf[BufferOf(q)].done
      /\ b.iteration = buf[BufferOf(q)].iteration
  BY <1>4, <1>7 DEF IsBuffer
<1>10. buf'[BufferOf(q)] = b /\ \A c \in Slots : c # BufferOf(q) => buf'[c] = buf[c]
  BY <1>4, <1>8 DEF Types
<1>11. Shape(t, "leave")
  BY <1>4, <1>6, <1>8, <1>9 DEF Shape
<1>12. Types' /\ Frame(t) /\ pc'[t] = "leave" /\ at'[t] = q
  BY <1>1, <1>2, <1>4, <1>8, <1>11, Shaped
<1>13. BufferOf(q)' = BufferOf(q) /\ Thread' = Thread /\ Index(q)' = Index(q) /\ L(q)' = L(q)
       /\ LoopNumbers' = LoopNumbers /\ Doacrosses' = Doacrosses
  BY <1>8, Static
<1>14. NameNow(q)' > Index(q)' /\ Buffers \in Nat \ {0}
  BY <1>4, <1>5, <1>6, <1>9, <1>10, <1>13, BuffersAssumption DEF NameNow
<1>15. /\ Through(t, q) /\ Closes(t, q) /\ Publishes(t, q)
       /\ Through(t, q)' /\ ~Closes(t, q)' /\ ~Publishes(t, q)'
  <2>1. q \in Int
    BY <1>4
  <2>2. Through(t, q) /\ Closes(t, q) /\ Publishes(t, q)
    BY <1>1, <1>2, <1>3, <2>1, InPlace
  <2>3. /\ Through(t, q)' <=> pc'[t] \in Closing \cup {"leave"}
        /\ Closes(t, q)' <=> pc'[t] \in Closing
        /\ Publishes(t, q)' <=> pc'[t] = "publish"
    BY <1>8, <1>12, <2>1, InPlaceAfter
  <2> QED
    BY <1>1, <1>12, <2>2, <2>3
<1>16. \A u \in Thread \ {t} : SameWork(u, q) /\ Same(u, q)
  BY <1>12, OthersSame
<1>17. \A u \in Thread : Through(u, q)' /\ ~Closes(u, q)'
  <2>1. \A u \in Thread : Through(u, q)
    BY <1>4, <1>15 DEF RingRight, AllThrough
  <2>2. \A u \in Thread \ {t} : ~Closes(u, q)
    BY <1>4, <1>15 DEF RingRight
  <2> QED
    BY <1>15, <1>16, <2>1, <2>2 DEF Same
<1>18. ~Published(q)'
  <2>1. \A u \in Thread : Publishes(u, q)' => Closes(u, q)'
    BY DEF Publishes, Closes, Closing
  <2> QED
    BY <1>13, <1>17, <2>1 DEF Published
<1>19. RingRight(q)'
  <2>1. (Index(q) < NameNow(q) => \A u \in Thread : Through(u, q) /\ ~Closes(u, q))'
    BY <1>13, <1>17
  <2>2. ~(Index(q)' > NameNow(q)') /\ Index(q)' # NameNow(q)'
    BY <1>4, <1>5, <1>6, <1>9, <1>10, <1>13, <1>14 DEF NameNow
  <2>3. ((\E u \in Thread : Closes(u, q)) => AllThrough(q))'
    BY <1>13, <1>17
  <2>4. (\A u, v \in Thread : Closes(u, q) /\ Closes(v, q) => u = v)'
    BY <1>13, <1>17
  <2> QED
    BY <1>18, <2>1, <2>2, <2>3, <2>4 DEF RingRight
<1>20. SameWork(t, q)
  <2>1. q \in Int /\ pc[t] \in {"done", "reset", "publish"} /\ pc'[t] \in {"reset", "publish", "leave"}
    BY <1>3, <1>4, <1>12
  <2> QED
    BY <1>2, <1>8, <1>12, <2>1, ClosingWork
<1>21. PartRight(q)'
  <2>1. \A u \in Thread : SameWork(u, q)
    BY <1>16, <1>20
  <2>2. Frontier(q) = L(q).tc
    <3>1. Published(q)
      BY <1>15 DEF Published
    <3> QED
      BY <3>1 DEF Frontier
  <2>3. Frontier(q)' = L(q).tc
    BY <1>13, <1>14 DEF Frontier
  <2>4. \A i : Gone(q, i)' <=> Gone(q, i)
    BY <1>4, <1>8, <2>1, <2>2, <2>3, GoneToFrontier
  <2>5. ran'[q] = ran[q]
    BY <1>8
  <2> QED
    BY <1>4, <1>8, <2>1, <2>4, <2>5, WorkKept
<1>22. PlaceRight(t)' /\ PostRight(t)'
  <2>1. dispIndex'[t] = Index(q) + 1
    BY <1>4, <1>8
  <2>2. Schedule(L(q)) = "static_chunked" => priv'[t][BufferOf(q)].count % n = 0
    BY <1>1, <1>2, <1>3, <1>4, <1>8 DEF PlaceRight
  <2> QED
    BY <1>1, <1>2, <1>4, <1>8, <1>11, <2>1, <2>2, PlaceKept
<1>23. \A p \in LoopNumbers : RingRight(p)' /\ PartRight(p)'
  <2>1. buf'[BufferOf(q)].index = buf[BufferOf(q)].index + Buffers
    BY <1>5, <1>6, <1>9, <1>10
  <2>2. \A c \in Slots : /\ buf'[c].iteration = buf[c].iteration /\ buf'[c].done = buf[c].done
                         /\ c # BufferOf(q) => buf'[c].index = buf[c].index
    BY <1>9, <1>10
  <2>3. \A p \in LoopNumbers : p # q => RingRight(p)' /\ PartRight(p)'
    BY <1>2, <1>4, <1>12, <1>15, <2>1, <2>2, OtherLoopsPublished
  <2> QED
    BY <1>19, <1>21, <2>3
<1>24. \A p \in Doacrosses : DoacrossRight(p)'
  <2>1. q \notin Doacrosses
    BY <1>4, Basics
  <2> QED
    BY <1>2, <1>12, <2>1, OtherDoacrosses
<1>25. \A u \in Thread : PlaceRight(u)' /\ PostRight(u)'
  BY <1>12, <1>22, OtherThreads
<1> QED
  BY <1>12, <1>13, <1>23, <1>24, <1>25 DEF Inv


-----------------------------------------------------------------------------
(* Doacross loops.                                                          *)

SameCounts(r, s) == IsBuffer(s) /\ s.index = r.index /\ s.iteration = r.iteration /\ s.done = r.done

LEMMA FlagsSet ==
    ASSUME NEW r, IsBuffer(r), NEW a
    PROVE  /\ SameCounts(r, [r EXCEPT !.flags = a]) /\ SameCounts(r, [r EXCEPT !.posted = a])
           /\ SameCounts(r, [r EXCEPT !.daDone = a]) /\ SameCounts(r, [r EXCEPT !.daIndex = a])
<1>1. SameCounts(r, [r EXCEPT !.flags = a])
  BY DEF SameCounts, IsBuffer
<1>2. SameCounts(r, [r EXCEPT !.posted = a])
  BY DEF SameCounts, IsBuffer
<1>3. SameCounts(r, [r EXCEPT !.daDone = a])
  BY DEF SameCounts, IsBuffer
<1>4. SameCounts(r, [r EXCEPT !.daIndex = a])
  BY DEF SameCounts, IsBuffer
<1> QED
  BY <1>1, <1>2, <1>3, <1>4

LEMMA AllFlagsSet ==
    ASSUME NEW r, IsBuffer(r), NEW a, NEW b, NEW c, NEW d
    PROVE  /\ SameCounts(r, [r EXCEPT !.flags = a, !.posted = b])
           /\ SameCounts(r, [r EXCEPT !.flags = a, !.posted = b, !.daDone = c, !.daIndex = d])
<1> DEFINE w == [r EXCEPT !.flags = a]
           x == [w EXCEPT !.posted = b]
           y == [x EXCEPT !.daDone = c]
           z == [y EXCEPT !.daIndex = d]
<1>0. x = [r EXCEPT !.flags = a, !.posted = b] /\ z = [r EXCEPT !.flags = a, !.posted = b, !.daDone = c, !.daIndex = d]
  OBVIOUS
<1>1. SameCounts(r, w)
  BY FlagsSet
<1> HIDE DEF w
<1>2. SameCounts(w, x) /\ IsBuffer(w)
  BY <1>1, FlagsSet DEF SameCounts
<1> HIDE DEF x
<1>3. SameCounts(x, y) /\ IsBuffer(x)
  BY <1>2, FlagsSet DEF SameCounts
<1> HIDE DEF y
<1>4. SameCounts(y, z)
  BY <1>3, FlagsSet DEF SameCounts
<1> HIDE DEF z
<1> QED
  BY <1>0, <1>1, <1>2, <1>3, <1>4 DEF SameCounts

(* What a step does to the doacross part of a buffer.                       *)
OnlyFlags ==
    buf' = buf \/ \E s : \E r : (s \in Slots => SameCounts(buf[s], r)) /\ buf' = [buf EXCEPT ![s] = r]

LEMMA CountsKept ==
    ASSUME Types, OnlyFlags
    PROVE  /\ buf' = buf \/ \E b \in Slots : \E r : IsBuffer(r) /\ r.index % Buffers = b /\ buf' = [buf EXCEPT ![b] = r]
           /\ \A b \in Slots : /\ buf'[b].index = buf[b].index
                               /\ buf'[b].iteration = buf[b].iteration /\ buf'[b].done = buf[b].done
<1>1. buf = [b \in Slots |-> buf[b]] /\ \A b \in Slots : IsBuffer(buf[b]) /\ buf[b].index % Buffers = b
  BY DEF Types
<1>2. CASE buf' = buf
  BY <1>2
<1>3. ASSUME NEW s, NEW r, s \in Slots => SameCounts(buf[s], r), buf' = [buf EXCEPT ![s] = r]
      PROVE  /\ buf' = buf \/ \E b \in Slots : \E x : IsBuffer(x) /\ x.index % Buffers = b /\ buf' = [buf EXCEPT ![b] = x]
             /\ \A b \in Slots : /\ buf'[b].index = buf[b].index
                                 /\ buf'[b].iteration = buf[b].iteration /\ buf'[b].done = buf[b].done
  <2>1. CASE s \notin Slots
    <3>1. buf' = buf
      BY <1>1, <1>3, <2>1
    <3> QED
      BY <3>1
  <2>2. CASE s \in Slots
    <3>1. IsBuffer(r) /\ r.index = buf[s].index /\ r.iteration = buf[s].iteration /\ r.done = buf[s].done
      BY <1>3, <2>2 DEF SameCounts
    <3>2. r.index % Buffers = s
      BY <1>1, <2>2, <3>1
    <3>3. buf'[s] = r /\ \A b \in Slots : b # s => buf'[b] = buf[b]
      BY <1>1, <1>3, <2>2
    <3> QED
      BY <1>3, <2>2, <3>1, <3>2, <3>3
  <2> QED
    BY <2>1, <2>2
<1> QED
  BY <1>2, <1>3 DEF OnlyFlags

PostStep(t, q, place) ==
    /\ q = at[t] /\ q \in Doacrosses /\ pc[t] \in Posting \cup {"doacross_buffer", "idle"}
    /\ program' = program /\ priv' = priv /\ cur' = cur /\ dispIndex' = dispIndex /\ OnlyFlags
    /\ pc' = [pc EXCEPT ![t] = place]
    /\ local' = local \/ \E r : IsLocal(r) /\ local' = [local EXCEPT ![t] = r]
    /\ ran' = ran \/ \E f : ran' = [ran EXCEPT ![at[t]] = f]
    /\ \/ place = "idle" /\ at' = [at EXCEPT ![t] = @ + 1]
       \/ place \in Posting \cup {"doacross_buffer"} /\ at' = at

LEMMA PostFrame ==
    ASSUME Inv, NEW t \in Thread, NEW q, NEW place, PostStep(t, q, place)
    PROVE  /\ Types /\ PostRight(t) /\ DoacrossRight(q) /\ q \in Nat /\ Types' /\ Frame(t) /\ pc'[t] = place
           /\ BuffersKept(t) /\ PlaceRight(t)' /\ IsLocal(local[t])
           /\ IF place = "idle" THEN at'[t] = q + 1 ELSE at'[t] = q
           /\ L(q).tc \in Nat /\ n \in Nat \ {0, 1} /\ Thread = 0..(n - 1)
<1>1. /\ Types /\ PlaceRight(t) /\ PostRight(t) /\ DoacrossRight(q) /\ IsLocal(local[t])
  BY DEF Inv, PostStep, Types
<1>2. /\ q = at[t] /\ q \in 1..Last /\ q \in Nat /\ q \notin LoopNumbers /\ q \in Doacrosses /\ Last \in Nat
      /\ n \in Nat \ {0, 1} /\ Thread = 0..(n - 1)
  BY <1>1, Basics DEF PostStep
<1>3. "idle" \notin Posting \cup {"doacross_buffer"} /\ place \in Places
  BY DEF PostStep, Posting, Places
<1>4. /\ program' = program /\ dispIndex' = dispIndex /\ pc' = [pc EXCEPT ![t] = place]
      /\ IF place = "idle" THEN at' = [at EXCEPT ![t] = @ + 1] ELSE at' = at
  BY <1>3 DEF PostStep
<1>5. /\ buf' = buf \/ \E b \in Slots : \E r : IsBuffer(r) /\ r.index % Buffers = b /\ buf' = [buf EXCEPT ![b] = r]
      /\ \A b \in Slots : /\ buf'[b].index = buf[b].index
                          /\ buf'[b].iteration = buf[b].iteration /\ buf'[b].done = buf[b].done
  BY <1>1, CountsKept DEF PostStep
<1>6. Shape(t, place)
  <2>1. at[t] <= Last
    BY <1>2
  <2> QED
    BY <1>3, <1>4, <1>5, <2>1 DEF Shape, PostStep
<1>7. Types' /\ Frame(t) /\ pc'[t] = place
  BY <1>1, <1>3, <1>6, Shaped
<1>8. BuffersKept(t)
  BY <1>5 DEF BuffersKept
<1>9. IF place = "idle" THEN at'[t] = q + 1 ELSE at'[t] = q
  BY <1>1, <1>2, <1>4 DEF Types
<1>10. L(q).tc \in Nat
  BY <1>1, <1>2 DEF Types, Regular, Doacrosses, L, Last
<1>11. /\ Last' = Last /\ LoopNumbers' = LoopNumbers /\ Doacrosses' = Doacrosses
       /\ \A p : Number(p)' = Number(p)
  BY <1>4, Static
<1>12. dispIndex[t] = Number(q) /\ Number(q) = Number(q - 1) /\ Number(q) \in Nat
  <2>1. pc[t] \notin InLoop
    BY <1>1, <1>2 DEF PlaceRight
  <2>2. dispIndex[t] = Number(q - 1) + 0
    BY <1>1, <1>2, <2>1 DEF PlaceRight
  <2>3. Number(q) = Number(q - 1) + 0 /\ Number(q) \in Nat /\ Number(q - 1) \in Nat
    BY <1>2, Numbers
  <2> QED
    BY <2>2, <2>3
<1>13. PlaceRight(t)'
  <2>1. /\ place \notin InLoop /\ Entered \subseteq InLoop /\ "body" \in InLoop /\ "buffer" \in InLoop
        /\ "guided_add" \in InLoop /\ "guided_swap" \in InLoop
    BY DEF PostStep, Posting, InLoop, Entered, Drawing, Running, Closing
  <2>2. (pc[t] # "idle" => at[t] <= Last)'
    BY <1>2, <1>7, <1>9, <1>11
  <2>3. (pc[t] \in InLoop <=> at[t] \in LoopNumbers /\ pc[t] # "idle")'
    BY <1>2, <1>7, <1>9, <1>11, <2>1
  <2>4. (pc[t] \in Posting \cup {"doacross_buffer"} <=> at[t] \in Doacrosses /\ pc[t] # "idle")'
    BY <1>2, <1>3, <1>7, <1>9, <1>11 DEF PostStep
  <2>5. (dispIndex[t] = Number(at[t] - 1) + (IF pc[t] \in InLoop THEN 1 ELSE 0))'
    <3>1. Number(at[t] - 1)' = Number(q)
      <4>1. at'[t] - 1 = q \/ at'[t] - 1 = q - 1
        BY <1>2, <1>9
      <4> QED
        BY <1>11, <1>12, <4>1
    <3> QED
      BY <1>4, <1>7, <1>12, <2>1, <3>1
  <2>6. pc'[t] \notin InLoop
    BY <1>7, <2>1
  <2> QED
    BY <2>1, <2>2, <2>3, <2>4, <2>5, <2>6 DEF PlaceRight
<1> QED
  BY <1>1, <1>2, <1>7, <1>8, <1>9, <1>10, <1>13

(* Nothing is posted.                                                       *)
LEMMA NothingPosted ==
    ASSUME Inv, NEW t \in Thread, NEW q, NEW place, PostStep(t, q, place), PostRight(t)', ran' = ran,
           \A i \in Iterations(q) : i % n = t => (HasRun(t, q, i)' <=> HasRun(t, q, i))
    PROVE  Inv'
<1>1. /\ DoacrossRight(q) /\ q \in Nat /\ Types' /\ Frame(t) /\ BuffersKept(t) /\ PlaceRight(t)'
      /\ n \in Nat \ {0} /\ Thread = 0..(n - 1)
  BY PostFrame
<1>2. q = at[t] /\ q \in Doacrosses /\ program' = program /\ q \notin LoopNumbers
  BY DEF PostStep, Doacrosses, LoopNumbers
<1>3. Iterations(q)' = Iterations(q) /\ n' = n
  BY <1>2, Static
<1>4. ASSUME NEW i \in Iterations(q)
      PROVE  HasRun(i % n, q, i)' <=> HasRun(i % n, q, i)
  <2>1. i % n \in Thread
    <3>1. i \in Nat
      BY DEF Iterations
    <3> QED
      BY <1>1, <3>1, DivMod
  <2>2. CASE i % n = t
    BY <1>3, <2>2
  <2>3. CASE i % n # t
    <3>1. at'[i % n] = at[i % n] /\ pc'[i % n] = pc[i % n] /\ local'[i % n] = local[i % n]
      BY <1>1, <2>1, <2>3 DEF Frame
    <3> QED
      BY <1>3, <3>1 DEF HasRun
  <2> QED
    BY <2>2, <2>3
<1>5. DoacrossRight(q)'
  <2>1. ran[q] = [i \in Iterations(q) |-> IF HasRun(i % n, q, i) THEN 1 ELSE 0]
    BY <1>1 DEF DoacrossRight
  <2>2. ran'[q] = [i \in Iterations(q) |-> IF HasRun(i % n, q, i)' THEN 1 ELSE 0]
    BY <1>4, <2>1
  <2> QED
    BY <1>3, <2>2 DEF DoacrossRight
<1> QED
  BY <1>1, <1>2, <1>5, Assemble


LEMMA DoacrossInitStep ==
    ASSUME Inv, NEW t \in Thread, DoacrossInit(t)
    PROVE  Inv'
<1>1. PICK q : q = at[t]
  OBVIOUS
<1>2. Types /\ q \in Nat /\ Last \in Nat
  BY <1>1, Basics DEF Inv
<1>3. q \in Doacrosses /\ pc[t] = "idle"
  <2>1. q <= Last /\ L(q).kind = "doacross" /\ pc[t] = "idle"
    BY <1>1 DEF DoacrossInit, Comes, Construct, L, Last
  <2>2. q \in 1..Last
    BY <1>1, <1>2, <2>1 DEF Types
  <2> QED
    BY <2>1, <2>2 DEF Doacrosses, L
<1>4. /\ program' = program /\ at' = at /\ local' = local /\ priv' = priv /\ cur' = cur /\ dispIndex' = dispIndex
      /\ buf' = buf /\ ran' = ran /\ pc' = [pc EXCEPT ![t] = "doacross_buffer"]
  BY DEF DoacrossInit, Goto, history
<1>5. PostStep(t, q, "doacross_buffer")
  BY <1>1, <1>3, <1>4 DEF PostStep, OnlyFlags
<1>6. pc'[t] = "doacross_buffer" /\ at'[t] = q /\ at[t] = q
  BY <1>1, <1>4, <1>5, PostFrame
<1>7. "idle" \notin Posting /\ "doacross_buffer" \notin Posting /\ "doacross_body" \in Posting /\ "free_flags" \in Posting
  BY DEF Posting
<1>8. PostRight(t)'
  BY <1>6, <1>7 DEF PostRight
<1>9. \A i : HasRun(t, q, i)' <=> HasRun(t, q, i)
  BY <1>2, <1>3, <1>6, <1>7 DEF HasRun
<1> QED
  BY <1>4, <1>5, <1>8, <1>9, NothingPosted

LEMMA DoacrossReadyStep ==
    ASSUME Inv, NEW t \in Thread, DoacrossReady(t)
    PROVE  Inv'
<1>1. PICK q : q = at[t]
  OBVIOUS
<1>2. /\ Types /\ PlaceRight(t) /\ q \in Nat /\ n \in Nat \ {0} /\ Thread = 0..(n - 1) /\ IsLocal(local[t])
  BY <1>1, Basics DEF Inv, Types
<1>3. q \in Doacrosses /\ pc[t] = "doacross_buffer"
  BY <1>1, <1>2 DEF DoacrossReady, PlaceRight
<1>4. PICK r : r = [local[t] EXCEPT !.i = t]
  OBVIOUS
<1>5. IsLocal(r) /\ r.i = t
  BY <1>2, <1>4, ISet
<1>6. OnlyFlags
  <2>1. PICK s, f : buf' = [buf EXCEPT ![s] = [buf[s] EXCEPT !.flags = f]]
    BY DEF DoacrossReady
  <2>2. s \in Slots => SameCounts(buf[s], [buf[s] EXCEPT !.flags = f])
    BY <1>2, FlagsSet DEF Types
  <2> QED
    BY <2>1, <2>2 DEF OnlyFlags
<1>7. /\ program' = program /\ at' = at /\ local' = [local EXCEPT ![t] = r] /\ priv' = priv /\ cur' = cur
      /\ dispIndex' = dispIndex /\ ran' = ran
  BY <1>4 DEF DoacrossReady, history
<1>8. PICK place \in {"allocate_flags", "await_flags", "doacross_wait"} : pc' = [pc EXCEPT ![t] = place]
  <2>1. PICK place : place = CASE buf[DaSlot(t)].flags = "null" -> "allocate_flags"
                               [] buf[DaSlot(t)].flags = "init" -> "await_flags"
                               [] OTHER                 -> "doacross_wait"
    OBVIOUS
  <2>2. place \in {"allocate_flags", "await_flags", "doacross_wait"}
    BY <2>1
  <2>3. pc' = [pc EXCEPT ![t] = place]
    BY <2>1 DEF DoacrossReady, Goto
  <2> QED
    BY <2>2, <2>3
<1>9. /\ place \in Posting /\ "doacross_buffer" \notin Posting /\ place \notin {"doacross_body", "free_flags", "idle"}
      /\ "doacross_body" \in Posting /\ "free_flags" \in Posting
  BY DEF Posting
<1>10. PostStep(t, q, place)
  BY <1>1, <1>3, <1>5, <1>6, <1>7, <1>8, <1>9 DEF PostStep
<1>11. pc'[t] = place /\ at'[t] = q /\ at[t] = q
  BY <1>1, <1>9, <1>10, PostFrame
<1>12. local'[t].i = t
  BY <1>2, <1>5, <1>7, LocalSet
<1>13. n' = n
  BY <1>7, Static
<1>14. PostRight(t)'
  <2>1. t \in Nat /\ t % n = t
    BY <1>2
  <2> QED
    BY <1>9, <1>11, <1>12, <1>13, <2>1 DEF PostRight
<1>15. ASSUME NEW i \in Iterations(q), i % n = t
       PROVE  HasRun(t, q, i)' <=> HasRun(t, q, i)
  <2>1. ~HasRun(t, q, i)
    BY <1>2, <1>3, <1>9, <1>11 DEF HasRun
  <2>2. HasRun(t, q, i)' <=> i < t
    BY <1>2, <1>9, <1>11, <1>12 DEF HasRun
  <2>3. ~(i < t)
    <3>1. i \in Nat
      BY DEF Iterations
    <3>2. PICK d \in Nat : d = n /\ t \in 0..(d - 1) /\ i % d = t
      BY <1>2, <1>15
    <3> QED
      BY <3>1, <3>2
  <2> QED
    BY <2>1, <2>2, <2>3
<1> QED
  BY <1>7, <1>10, <1>14, <1>15, NothingPosted

(* Between the places with flags, without an iteration.                     *)
LEMMA PlaceToPlace ==
    ASSUME Inv, NEW t \in Thread, NEW q, NEW place \in Posting, PostStep(t, q, place), pc[t] \in Posting,
           local' = local, ran' = ran,
           place = "doacross_body" => local[t].i < L(q).tc, place = "free_flags" => local[t].i >= L(q).tc
    PROVE  Inv'
<1>1. "idle" \notin Posting
  BY DEF Posting
<1>2. /\ Types /\ PostRight(t) /\ pc'[t] = place /\ at'[t] = q /\ q \in Nat /\ q = at[t] /\ program' = program
  BY <1>1, PostFrame DEF PostStep
<1>3. n' = n /\ \A p : L(p)' = L(p)
  BY <1>2, Static
<1>4. PostRight(t)'
  <2>1. local'[t].i \in Nat /\ local'[t].i % n' = t
    BY <1>2, <1>3 DEF PostRight
  <2>2. place = "doacross_body" => local'[t].i < (L(at[t]).tc)'
    BY <1>2, <1>3
  <2>3. place = "free_flags" => local'[t].i >= (L(at[t]).tc)'
    BY <1>2, <1>3
  <2> QED
    BY <1>2, <2>1, <2>2, <2>3 DEF PostRight
<1>5. \A i : HasRun(t, q, i)' <=> HasRun(t, q, i)
  BY <1>2 DEF HasRun
<1> QED
  BY <1>4, <1>5, NothingPosted

LEMMA FlagSteps ==
    ASSUME Inv, NEW t \in Thread, AllocateFlags(t) \/ AwaitFlags(t) \/ DoacrossWait(t)
    PROVE  Inv'
<1>1. PICK q : q = at[t]
  OBVIOUS
<1>2. Types /\ PlaceRight(t) /\ pc[t] \in {"allocate_flags", "await_flags", "doacross_wait"}
  BY DEF Inv, AllocateFlags, AwaitFlags, DoacrossWait
<1>3. {"allocate_flags", "await_flags", "doacross_wait", "doacross_body"} \subseteq Posting
  BY DEF Posting
<1>4. q \in Doacrosses /\ pc[t] \in Posting
  BY <1>1, <1>2, <1>3 DEF PlaceRight
<1>5. /\ program' = program /\ at' = at /\ local' = local /\ priv' = priv /\ cur' = cur
      /\ dispIndex' = dispIndex /\ ran' = ran
  BY DEF AllocateFlags, AwaitFlags, DoacrossWait, loops, history
<1>6. PICK place \in {"doacross_wait", "doacross_body"} :
        pc' = [pc EXCEPT ![t] = place] /\ (place = "doacross_body" => local[t].i < L(q).tc)
  BY <1>1 DEF AllocateFlags, AwaitFlags, DoacrossWait, Goto, Construct, L
<1>7. OnlyFlags
  <2>1. CASE AllocateFlags(t)
    <3>1. PICK s : buf' = [buf EXCEPT ![s] = [buf[s] EXCEPT !.flags = "ready", !.posted = {}]]
      BY <2>1 DEF AllocateFlags
    <3>2. s \in Slots => SameCounts(buf[s], [buf[s] EXCEPT !.flags = "ready", !.posted = {}])
      BY <1>2, AllFlagsSet DEF Types
    <3> QED
      BY <3>1, <3>2 DEF OnlyFlags
  <2>2. CASE ~AllocateFlags(t)
    BY <2>2 DEF AwaitFlags, DoacrossWait, loops, OnlyFlags
  <2> QED
    BY <2>1, <2>2
<1>8. place \in Posting /\ place # "free_flags"
  BY <1>3
<1>9. PostStep(t, q, place)
  BY <1>1, <1>4, <1>5, <1>6, <1>7, <1>8 DEF PostStep
<1> QED
  BY <1>4, <1>5, <1>6, <1>8, <1>9, PlaceToPlace

(* An iteration is run and posted.                                          *)
LEMMA DoacrossPostStep ==
    ASSUME Inv, NEW t \in Thread, DoacrossPost(t)
    PROVE  Inv'
<1>1. PICK q, i : q = at[t] /\ i = local[t].i
  OBVIOUS
<1>2. Types /\ PlaceRight(t) /\ PostRight(t) /\ pc[t] = "doacross_body" /\ IsLocal(local[t])
  BY DEF Inv, DoacrossPost, Types
<1>3. "doacross_body" \in Posting /\ "doacross_wait" \in Posting
  BY DEF Posting
<1>4. q \in Doacrosses /\ i \in Nat /\ i % n = t /\ i < L(q).tc
  BY <1>1, <1>2, <1>3 DEF PlaceRight, PostRight
<1>5. PICK r : r = [local[t] EXCEPT !.i = i + n]
  OBVIOUS
<1>6. /\ program' = program /\ at' = at /\ local' = [local EXCEPT ![t] = r] /\ priv' = priv /\ cur' = cur
      /\ dispIndex' = dispIndex /\ pc' = [pc EXCEPT ![t] = "doacross_wait"]
      /\ ran' = [ran EXCEPT ![q] = [ran[q] EXCEPT ![i] = Count(ran[q][i])]]
  BY <1>1, <1>5 DEF DoacrossPost, Goto
<1>7. OnlyFlags
  <2>1. PICK s, f : buf' = [buf EXCEPT ![s] = [buf[s] EXCEPT !.posted = f]]
    BY DEF DoacrossPost
  <2>2. s \in Slots => SameCounts(buf[s], [buf[s] EXCEPT !.posted = f])
    BY <1>2, FlagsSet DEF Types
  <2> QED
    BY <2>1, <2>2 DEF OnlyFlags
<1>8. n \in Nat \ {0}
  BY <1>2, Basics
<1>9. IsLocal(r) /\ r.i = i + n
  <2>1. i + n \in Int
    BY <1>4, <1>8
  <2> QED
    BY <1>2, <1>5, <2>1, ISet
<1>10. PostStep(t, q, "doacross_wait")
  <2>1. ran' = [ran EXCEPT ![at[t]] = [ran[q] EXCEPT ![i] = Count(ran[q][i])]]
    BY <1>1, <1>6
  <2> QED
    BY <1>1, <1>2, <1>3, <1>4, <1>6, <1>7, <1>9, <2>1 DEF PostStep
<1>11. /\ DoacrossRight(q) /\ q \in Nat /\ Types' /\ Frame(t) /\ BuffersKept(t) /\ PlaceRight(t)'
       /\ Thread = 0..(n - 1) /\ pc'[t] = "doacross_wait" /\ at'[t] = q /\ L(q).tc \in Nat
  BY <1>10, PostFrame
<1>12. local'[t].i = i + n
  BY <1>2, <1>6, <1>9, LocalSet
<1>13. Iterations(q)' = Iterations(q) /\ n' = n
  BY <1>6, Static
<1>14. PostRight(t)'
  <2>1. PICK d \in Nat \ {0}, j \in Nat : d = n /\ j = i
    BY <1>4, <1>8
  <2>2. (j + d) % d = j % d
    BY OneTurn
  <2>3. j + d \in Nat
    OBVIOUS
  <2>4. i + n \in Nat /\ (i + n) % n = t
    BY <1>4, <2>1, <2>2, <2>3
  <2> QED
    BY <1>11, <1>12, <1>13, <2>4 DEF PostRight
<1>15. i \in Iterations(q)
  BY <1>4, <1>11 DEF Iterations
<1>16. ASSUME NEW j \in Iterations(q)
       PROVE  HasRun(j % n, q, j)' <=> HasRun(j % n, q, j) \/ j = i
  <2>1. j \in Nat /\ j % n \in Thread
    <3>1. j \in Nat
      BY DEF Iterations
    <3> QED
      BY <1>8, <1>11, <3>1, DivMod
  <2>2. CASE j % n = t
    <3>1. HasRun(t, q, j) <=> j < i
      BY <1>1, <1>2, <1>3, <1>11 DEF HasRun
    <3>2. HasRun(t, q, j)' <=> j < i + n
      BY <1>3, <1>11, <1>12 DEF HasRun
    <3>3. j < i + n <=> j < i \/ j = i
      <4>1. j > i => j >= i + n
        BY <1>4, <1>8, <2>1, <2>2, ModGap
      <4> QED
        BY <1>4, <1>8, <2>1, <4>1
    <3> QED
      BY <1>13, <2>2, <3>1, <3>2, <3>3
  <2>3. CASE j % n # t
    <3>1. j # i
      BY <1>4, <2>3
    <3>2. at'[j % n] = at[j % n] /\ pc'[j % n] = pc[j % n] /\ local'[j % n] = local[j % n]
      BY <1>11, <2>1, <2>3 DEF Frame
    <3> QED
      BY <1>13, <3>1, <3>2 DEF HasRun
  <2> QED
    BY <2>2, <2>3
<1>17. DoacrossRight(q)'
  <2>1. ran[q] = [j \in Iterations(q) |-> IF HasRun(j % n, q, j) THEN 1 ELSE 0]
    BY <1>11 DEF DoacrossRight
  <2>2. Count(ran[q][i]) = 1
    <3>1. ~HasRun(i % n, q, i)
      BY <1>1, <1>2, <1>4, <1>11 DEF HasRun
    <3>2. ran[q][i] = 0
      BY <1>15, <2>1, <3>1
    <3> QED
      BY <3>2 DEF Count, Least
  <2>3. ran'[q] = [ran[q] EXCEPT ![i] = 1]
    <3>1. q \in 1..Last /\ ran = [p \in 1..Last |-> ran[p]]
      BY <1>2, <1>4, Basics DEF Types
    <3> QED
      BY <1>6, <2>2, <3>1
  <2>4. ran'[q] = [j \in Iterations(q) |-> IF HasRun(j % n, q, j) \/ j = i THEN 1 ELSE 0]
    BY <2>1, <2>3
  <2>5. ran'[q] = [j \in Iterations(q) |-> IF HasRun(j % n, q, j)' THEN 1 ELSE 0]
    BY <1>16, <2>4
  <2> QED
    BY <1>13, <2>5 DEF DoacrossRight
<1>18. q \notin LoopNumbers
  BY <1>2, <1>4, Basics
<1> QED
  BY <1>1, <1>11, <1>14, <1>17, <1>18, Assemble

(* A thread is through with a doacross loop.                                *)
LEMMA DoacrossEnd ==
    ASSUME Inv, NEW t \in Thread, NEW q, PostStep(t, q, "idle"), pc[t] \in Posting, local[t].i >= L(q).tc, ran' = ran
    PROVE  Inv'
<1>1. /\ PostRight(t) /\ q \in Nat /\ pc'[t] = "idle" /\ at'[t] = q + 1 /\ L(q).tc \in Nat /\ q = at[t]
  BY PostFrame DEF PostStep
<1>2. local[t].i \in Nat
  BY <1>1 DEF PostRight
<1>3. PostRight(t)'
  <2>1. "idle" \notin Posting /\ "doacross_body" \in Posting /\ "free_flags" \in Posting
    BY DEF Posting
  <2> QED
    BY <1>1, <2>1 DEF PostRight
<1>4. ASSUME NEW i \in Iterations(q)
      PROVE  HasRun(t, q, i)' <=> HasRun(t, q, i)
  <2>1. i < local[t].i
    <3>1. i \in Nat /\ i < L(q).tc
      BY <1>1 DEF Iterations
    <3> QED
      BY <1>1, <1>2, <3>1
  <2>2. HasRun(t, q, i)
    BY <1>1, <2>1 DEF HasRun
  <2>3. HasRun(t, q, i)'
    BY <1>1 DEF HasRun
  <2> QED
    BY <2>2, <2>3
<1> QED
  BY <1>3, <1>4, NothingPosted

LEMMA EndSteps ==
    ASSUME Inv, NEW t \in Thread, DoacrossFini(t) \/ FreeFlags(t)
    PROVE  Inv'
<1>1. PICK q : q = at[t]
  OBVIOUS
<1>2. Types /\ PlaceRight(t) /\ PostRight(t) /\ pc[t] \in {"doacross_wait", "free_flags"}
  BY DEF Inv, DoacrossFini, FreeFlags
<1>3. "doacross_wait" \in Posting /\ "free_flags" \in Posting
  BY DEF Posting
<1>4. q \in Doacrosses /\ pc[t] \in Posting
  BY <1>1, <1>2, <1>3 DEF PlaceRight
<1>5. local[t].i >= L(q).tc
  BY <1>1, <1>2 DEF DoacrossFini, FreeFlags, PostRight, Construct, L
<1>6. /\ program' = program /\ local' = local /\ priv' = priv /\ cur' = cur
      /\ dispIndex' = dispIndex /\ ran' = ran
  BY DEF DoacrossFini, FreeFlags, history
<1>7. OnlyFlags
  <2>1. CASE DoacrossFini(t)
    <3>1. PICK s, f : buf' = [buf EXCEPT ![s] = [buf[s] EXCEPT !.daDone = f]]
      BY <2>1 DEF DoacrossFini
    <3>2. s \in Slots => SameCounts(buf[s], [buf[s] EXCEPT !.daDone = f])
      BY <1>2, FlagsSet DEF Types
    <3> QED
      BY <3>1, <3>2 DEF OnlyFlags
  <2>2. CASE FreeFlags(t)
    <3>1. PICK s, f : buf' = [buf EXCEPT ![s] = [buf[s] EXCEPT !.flags = "null", !.posted = {}, !.daDone = 0, !.daIndex = f]]
      BY <2>2 DEF FreeFlags
    <3>2. s \in Slots =>
            SameCounts(buf[s], [buf[s] EXCEPT !.flags = "null", !.posted = {}, !.daDone = 0, !.daIndex = f])
      BY <1>2, AllFlagsSet DEF Types
    <3> QED
      BY <3>1, <3>2 DEF OnlyFlags
  <2> QED
    BY <2>1, <2>2
<1>8. \/ pc' = [pc EXCEPT ![t] = "idle"] /\ at' = [at EXCEPT ![t] = @ + 1]
      \/ pc' = [pc EXCEPT ![t] = "free_flags"] /\ at' = at
  BY DEF DoacrossFini, FreeFlags, NextConstruct, Goto
<1>9. CASE pc' = [pc EXCEPT ![t] = "idle"] /\ at' = [at EXCEPT ![t] = @ + 1]
  <2>1. PostStep(t, q, "idle")
    BY <1>1, <1>4, <1>6, <1>7, <1>9 DEF PostStep
  <2> QED
    BY <1>4, <1>5, <1>6, <2>1, DoacrossEnd
<1>10. CASE pc' = [pc EXCEPT ![t] = "free_flags"] /\ at' = at
  <2>1. PostStep(t, q, "free_flags")
    BY <1>1, <1>3, <1>4, <1>6, <1>7, <1>10 DEF PostStep
  <2> QED
    BY <1>3, <1>4, <1>5, <1>6, <2>1, PlaceToPlace
<1> QED
  BY <1>8, <1>9, <1>10


-----------------------------------------------------------------------------
(* All together.                                                            *)

LEMMA InvInit ==
    ASSUME Init, Regular(program)
    PROVE  Inv
<1>1. /\ n \in Nat \ {0, 1} /\ Last \in Nat /\ Buffers \in Nat \ {0} /\ Thread = 0..(n - 1)
      /\ program \in Programs
  BY ProgramsAssumption, BuffersAssumption DEF Init, n, Regular, Last, Thread
<1>2. /\ at = [t \in Thread |-> 1] /\ pc = [t \in Thread |-> "idle"] /\ local = [t \in Thread |-> EmptyLocal]
      /\ priv = [t \in Thread |-> [b \in Slots |-> EmptyPrivate]] /\ cur = [t \in Thread |-> None]
      /\ dispIndex = [t \in Thread |-> 0]
      /\ ran = [p \in 1..Last |-> CASE L(p).kind \in {"loop", "doacross"} -> [i \in 0..(L(p).tc - 1) |-> 0]
                                    [] OTHER -> [t \in Thread |-> 0]]
      /\ buf = [b \in Slots |-> [index |-> b, iteration |-> 0, done |-> 0, ordered |-> 0,
                                 daIndex |-> b, flags |-> "null", posted |-> {}, daDone |-> 0]]
  BY DEF Init, L, Last
<1>3. \A t \in Thread : at[t] = 1 /\ pc[t] = "idle" /\ dispIndex[t] = 0
  BY <1>2
<1>4. /\ "idle" \in Places /\ "idle" \notin InLoop /\ "idle" \notin Posting \cup {"doacross_buffer"}
      /\ "idle" \notin Entered /\ "idle" \notin Closing \cup {"leave"}
      /\ Entered \subseteq InLoop /\ "body" \in InLoop /\ "buffer" \in InLoop
      /\ "guided_add" \in InLoop /\ "guided_swap" \in InLoop
      /\ "doacross_body" \in Posting /\ "free_flags" \in Posting
  BY DEF Places, InLoop, Entered, Closing, Posting, Drawing, Running
<1>5. \A b \in Slots : /\ IsBuffer(buf[b]) /\ buf[b].index = b /\ buf[b].iteration = 0 /\ buf[b].done = 0
                       /\ b \in Nat /\ b % Buffers = b
  <2> SUFFICES ASSUME NEW b \in Slots
               PROVE  /\ IsBuffer(buf[b]) /\ buf[b].index = b /\ buf[b].iteration = 0 /\ buf[b].done = 0
                      /\ b \in Nat /\ b % Buffers = b
    OBVIOUS
  <2>1. b \in 0..(Buffers - 1) /\ b \in Nat
    BY <1>1 DEF Slots
  <2>2. b % Buffers = b
    BY <1>1, <2>1
  <2>3. buf[b] = [index |-> b, iteration |-> 0, done |-> 0, ordered |-> 0,
                  daIndex |-> b, flags |-> "null", posted |-> {}, daDone |-> 0]
    BY <1>2
  <2> QED
    BY <2>1, <2>2, <2>3 DEF IsBuffer
<1>6. Types
  <2>1. at \in [Thread -> 1..(Last + 1)] /\ pc \in [Thread -> Places] /\ dispIndex \in [Thread -> Nat]
    BY <1>1, <1>2, <1>4
  <2>2. local = [t \in Thread |-> local[t]] /\ \A t \in Thread : IsLocal(local[t])
    BY <1>2 DEF IsLocal, EmptyLocal
  <2>3. \A t \in Thread : \A b \in Slots : IsPrivate(priv[t][b])
    BY <1>2 DEF IsPrivate, EmptyPrivate
  <2>4. /\ priv = [t \in Thread |-> [b \in Slots |-> priv[t][b]]] /\ buf = [b \in Slots |-> buf[b]]
        /\ cur = [t \in Thread |-> cur[t]] /\ ran = [p \in 1..Last |-> ran[p]]
    BY <1>2
  <2>5. program \in Programs /\ Regular(program) /\ \A b \in Slots : IsBuffer(buf[b]) /\ buf[b].index % Buffers = b
    BY <1>1, <1>5
  <2> QED
    BY <2>1, <2>2, <2>3, <2>4, <2>5 DEF Types
<1>7. \A t \in Thread : PlaceRight(t) /\ PostRight(t)
  <2> SUFFICES ASSUME NEW t \in Thread PROVE PlaceRight(t) /\ PostRight(t)
    OBVIOUS
  <2>1. dispIndex[t] = Number(at[t] - 1) + (IF pc[t] \in InLoop THEN 1 ELSE 0)
    <3>1. Number(0) = 0
      BY <1>1, Numbers
    <3>2. at[t] - 1 = 0
      BY <1>3
    <3> QED
      BY <1>3, <1>4, <3>1, <3>2
  <2>2. PlaceRight(t)
    BY <1>3, <1>4, <2>1 DEF PlaceRight
  <2>3. PostRight(t)
    BY <1>3, <1>4 DEF PostRight
  <2> QED
    BY <2>2, <2>3
<1>8. ASSUME NEW p \in LoopNumbers
      PROVE  RingRight(p) /\ PartRight(p)
  <2>1. /\ p \in 1..Last /\ p \in Nat /\ p >= 1 /\ Index(p) \in Nat /\ BufferOf(p) \in Slots
        /\ L(p).kind = "loop"
    BY <1>1, <1>6, Basics DEF LoopNumbers, L
  <2>2. NameNow(p) = BufferOf(p) /\ NameNow(p) <= Index(p) /\ ~(Index(p) < NameNow(p))
    <3>1. NameNow(p) = BufferOf(p)
      BY <1>5, <2>1 DEF NameNow
    <3>2. PICK d \in Nat \ {0}, a \in Nat : d = Buffers /\ a = Index(p)
      BY <1>1, <2>1
    <3>3. a % d <= a /\ a % d \in Nat
      BY DivMod
    <3> QED
      BY <3>1, <3>2, <3>3 DEF BufferOf, Slot
  <2>3. \A t \in Thread : /\ ~EnteredLoop(t, p) /\ ~Through(t, p) /\ ~Closes(t, p) /\ ~Publishes(t, p)
                          /\ ~Finished(t, p) /\ Pending(t, p) = {} /\ \A m : ~Had(t, p, m)
    <3> SUFFICES ASSUME NEW t \in Thread
                 PROVE  /\ ~EnteredLoop(t, p) /\ ~Through(t, p) /\ ~Closes(t, p) /\ ~Publishes(t, p)
                        /\ ~Finished(t, p) /\ Pending(t, p) = {} /\ \A m : ~Had(t, p, m)
      OBVIOUS
    <3>1. ~(at[t] > p) /\ pc[t] = "idle"
      BY <1>3, <2>1
    <3> QED
      BY <1>4, <3>1 DEF EnteredLoop, Through, Closes, Publishes, Finished, Pending, Had
  <2>4. ~Published(p)
    BY <2>3 DEF Published
  <2>5. RingRight(p)
    <3>1. {t \in Thread : Through(t, p)} = {}
      BY <2>3
    <3>2. Cardinality({t \in Thread : Through(t, p)}) = 0
      BY <3>1, FS_EmptySet
    <3> QED
      BY <1>5, <2>1, <2>2, <2>3, <2>4, <3>2 DEF RingRight
  <2>6. \A i \in Iterations(p) : ~Gone(p, i)
    <3>1. Frontier(p) = 0
      BY <1>1, <1>5, <2>1, <2>2, <2>4, NothingReached DEF Frontier
    <3>2. \A i \in Iterations(p) : ~(i < 0)
      BY DEF Iterations
    <3> QED
      BY <2>3, <3>1, <3>2 DEF Gone
  <2>7. ran[p] = [i \in Iterations(p) |-> 0]
    BY <1>2, <2>1 DEF Iterations
  <2>8. PartRight(p)
    BY <2>3, <2>6, <2>7 DEF PartRight
  <2> QED
    BY <2>5, <2>8
<1>9. ASSUME NEW p \in Doacrosses
      PROVE  DoacrossRight(p)
  <2>1. p \in 1..Last /\ p >= 1 /\ L(p).kind = "doacross" /\ p \in Nat
    BY <1>1 DEF Doacrosses, L
  <2>2. ran[p] = [i \in Iterations(p) |-> 0]
    BY <1>2, <2>1 DEF Iterations
  <2>3. \A i \in Iterations(p) : ~HasRun(i % n, p, i)
    <3> SUFFICES ASSUME NEW i \in Iterations(p) PROVE ~HasRun(i % n, p, i)
      OBVIOUS
    <3>1. i % n \in Thread
      <4>1. i \in Nat
        BY DEF Iterations
      <4> QED
        BY <1>1, <4>1, DivMod
    <3>2. at[i % n] = 1 /\ pc[i % n] = "idle"
      BY <1>3, <3>1
    <3> QED
      BY <1>4, <2>1, <3>2 DEF HasRun
  <2> QED
    BY <2>2, <2>3 DEF DoacrossRight
<1> QED
  BY <1>6, <1>7, <1>8, <1>9 DEF Inv

LEMMA Stutters ==
    ASSUME Inv, UNCHANGED vars
    PROVE  Inv'
<1>1. /\ program' = program /\ at' = at /\ pc' = pc /\ local' = local /\ priv' = priv /\ cur' = cur
      /\ dispIndex' = dispIndex /\ buf' = buf /\ ran' = ran
  BY DEF vars, loops, history
<1>2. Types /\ Thread' = Thread /\ LoopNumbers' = LoopNumbers /\ Doacrosses' = Doacrosses /\ n' = n /\ Last' = Last
      /\ \A p : L(p)' = L(p) /\ Number(p)' = Number(p) /\ Index(p)' = Index(p) /\ BufferOf(p)' = BufferOf(p)
                /\ Iterations(p)' = Iterations(p)
  BY <1>1, Static DEF Inv
<1>3. Types'
  BY <1>1, <1>2 DEF Types, Slots
<1>4. PICK t \in Thread : t = 0
  BY <1>2, Basics
<1>5. Frame(t) /\ BuffersKept(t)
  BY <1>1 DEF Frame, BuffersKept
<1>6. \A u \in Thread : PlaceRight(u)' /\ PostRight(u)'
  <2>1. \A l : Schedule(l)' = Schedule(l)
    BY <1>1, Static
  <2> QED
    BY <1>1, <1>2, <2>1 DEF Inv, PlaceRight, PostRight
<1>7. ASSUME NEW p \in LoopNumbers
      PROVE  RingRight(p)' /\ PartRight(p)'
  <2>1. \A u \in Thread : Same(u, p) /\ SameWork(u, p)
    BY <1>1, <1>2 DEF Same, SameWork, EnteredLoop, Through, Closes, Publishes, Finished, Pending, Had
  <2>2. NameNow(p)' = NameNow(p) /\ ran'[p] = ran[p] /\ Index(p) \in Int /\ NameNow(p) \in Int
    BY <1>1, <1>2, Basics DEF NameNow
  <2>3. RingRight(p) /\ PartRight(p)
    BY DEF Inv
  <2> QED
    BY <1>1, <2>1, <2>2, <2>3, LoopKept
<1>8. \A p \in Doacrosses : DoacrossRight(p)'
  BY <1>1, <1>2 DEF Inv, DoacrossRight, HasRun
<1> QED
  BY <1>2, <1>3, <1>6, <1>7, <1>8 DEF Inv

LEMMA InvNext ==
    ASSUME Inv, Next
    PROVE  Inv'
<1>1. PICK t \in Thread : DispatchedLoop(t) \/ Synchronisation(t)
  BY DEF Next, Step
<1>2. CASE DispatchInit(t) \/ BufferReady(t) \/ NoIterations(t)
  BY <1>2, DispatchInitStep, BufferReadyStep, NoIterationsStep
<1>3. CASE NextBalanced(t) \/ NextStaticChunked(t) \/ NextByCounter(t)
  BY <1>3, NextByThreadStep, NextByCounterStep
<1>4. CASE GuidedRead(t) \/ GuidedAdd(t) \/ GuidedSwap(t)
  BY <1>4, GuidedReadStep, GuidedAddStep, GuidedSwapStep
<1>5. CASE Body(t) \/ Deo(t) \/ Dxo(t) \/ EndIteration(t) \/ Finish(t) \/ FinishChunk(t)
  BY <1>5, BodyStep, DeoStep, DxoStep, EndIterationStep, FinishStep, FinishChunkStep
<1>6. CASE NumDone(t) \/ ResetBuffer(t) \/ PublishBuffer(t) \/ LeaveLoop(t)
  BY <1>6, NumDoneStep, ResetBufferStep, PublishBufferStep, LeaveLoopStep
<1>7. CASE OtherStep(t)
  BY <1>7, OtherSteps
<1>8. CASE DoacrossInit(t) \/ DoacrossReady(t) \/ AllocateFlags(t) \/ AwaitFlags(t) \/ DoacrossWait(t)
  BY <1>8, DoacrossInitStep, DoacrossReadyStep, FlagSteps
<1>9. CASE DoacrossPost(t) \/ DoacrossFini(t) \/ FreeFlags(t)
  BY <1>9, DoacrossPostStep, EndSteps
<1> QED
  BY <1>1, <1>2, <1>3, <1>4, <1>5, <1>6, <1>7, <1>8, <1>9, NoStealing
     DEF DispatchedLoop, Synchronisation, OtherStep

LEMMA InvEachIterationOnce ==
    ASSUME Inv
    PROVE  EachIterationOnce
<1>1. Types /\ n \in Nat \ {0, 1} /\ Thread = 0..(n - 1)
  BY Basics DEF Inv
<1>2. ASSUME NEW p \in LoopNumbers, NEW i \in Iterations(p)
      PROVE  ran[p][i] <= 1 /\ (IsOver(p) => ran[p][i] = 1)
  <2>1. PartRight(p) /\ p \in Nat /\ L(p).tc \in Nat /\ Schedule(L(p)) \in ByCounter \cup ByThread
        /\ (L(p).tc > 0 => Chunk(L(p)) \in Nat \ {0})
    <3>1. p \in Nat
      BY <1>1, Basics
    <3> QED
      BY <1>1, <3>1, Schedules DEF Inv, Types
  <2>2. ran[p][i] \in {0, 1}
    BY <2>1 DEF PartRight
  <2>3. ASSUME IsOver(p) PROVE ran[p][i] = 1
    <3>1. \A t \in Thread : Finished(t, p) /\ Pending(t, p) = {}
      <4> SUFFICES ASSUME NEW t \in Thread PROVE Finished(t, p) /\ Pending(t, p) = {}
        OBVIOUS
      <4>1. at[t] > p /\ at[t] \in Nat
        BY <1>1, <2>3, Basics DEF IsOver
      <4>2. at[t] # p
        BY <2>1, <4>1
      <4> QED
        BY <4>1, <4>2 DEF Finished, Through, Pending
    <3>2. \A t \in Thread : Served(t, p, i)
      BY <2>1, <3>1 DEF PartRight
    <3>3. Gone(p, i)
      <4>1. CASE Schedule(L(p)) \in ByCounter
        <5>1. 0 \in Thread
          BY <1>1
        <5> QED
          BY <3>2, <4>1, <5>1 DEF Served
      <4>2. CASE Schedule(L(p)) \notin ByCounter
        <5>1. i \in 0..(L(p).tc - 1) /\ Schedule(L(p)) \in ByThread
          BY <2>1, <4>2 DEF Iterations
        <5>2. PICK t \in Thread, m \in Nat : Turn(L(p), i, t, m)
          BY <1>1, <2>1, <5>1, Turns
        <5> QED
          BY <3>2, <4>2, <5>2 DEF Served, Gone
      <4> QED
        BY <4>1, <4>2
    <3> QED
      BY <2>1, <3>1, <3>3 DEF PartRight
  <2> QED
    BY <2>2, <2>3
<1>3. ASSUME NEW p \in Doacrosses, NEW i \in Iterations(p)
      PROVE  ran[p][i] <= 1 /\ (IsOver(p) => ran[p][i] = 1)
  <2>1. ran[p][i] = IF HasRun(i % n, p, i) THEN 1 ELSE 0
    BY DEF Inv, DoacrossRight
  <2>2. i % n \in Thread
    <3>1. i \in Nat
      BY DEF Iterations
    <3> QED
      BY <1>1, <3>1, DivMod
  <2>3. IsOver(p) => HasRun(i % n, p, i)
    BY <2>2 DEF IsOver, HasRun
  <2> QED
    BY <2>1, <2>3
<1>4. \A p \in LoopNumbers \cup Doacrosses : DOMAIN ran[p] = Iterations(p)
  <2>1. ASSUME NEW p \in LoopNumbers
        PROVE  DOMAIN ran[p] = Iterations(p)
    <3>1. PartRight(p)
      BY DEF Inv
    <3>2. ran[p] \in [Iterations(p) -> {0, 1}]
      BY <3>1 DEF PartRight
    <3> QED
      BY <3>2
  <2>2. ASSUME NEW p \in Doacrosses
        PROVE  DOMAIN ran[p] = Iterations(p)
    <3>1. DoacrossRight(p)
      BY DEF Inv
    <3> QED
      BY <3>1 DEF DoacrossRight
  <2> QED
    BY <2>1, <2>2
<1>5. \A p \in 1..Len(program.does) :
        program.does[p].kind \in {"loop", "doacross"} => p \in LoopNumbers \cup Doacrosses
  BY DEF LoopNumbers, Doacrosses, Last
<1> QED
  BY <1>2, <1>3, <1>4, <1>5 DEF EachIterationOnce

(* Every iteration of a dispatched or doacross loop is run at most once,    *)
(* and exactly once when all the threads have left the loop, for every      *)
(* number of threads, of iterations and of dispatch buffers, and every      *)
(* sequence of constructs, when the schedules are dynamic, guided (plain or *)
(* simd), trapezoidal, balanced, greedy or chunked by the thread's number.  *)
Supported == \A p \in Programs : Regular(p)

THEOREM IterationsOnce ==
    ASSUME Supported
    PROVE  SafeSpec => []EachIterationOnce
<1>1. Init => Inv
  <2> SUFFICES ASSUME Init PROVE Inv
    OBVIOUS
  <2>1. Regular(program)
    BY DEF Init, Supported
  <2> QED
    BY <2>1, InvInit
<1>2. Inv /\ [Next]_vars => Inv'
  BY InvNext, Stutters
<1>3. Inv => EachIterationOnce
  BY InvEachIterationOnce
<1> QED
  BY <1>1, <1>2, <1>3, PTL DEF SafeSpec
================================================================================
