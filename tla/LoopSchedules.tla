---------------------------- MODULE LoopSchedules ----------------------------
(***************************************************************************)
(* How the iterations of a loop are divided: the static schedules of       *)
(* kmp_sched.cpp, the parameters and the chunks of the dispatched          *)
(* schedules of kmp_dispatch.cpp, and the bounds that the GNU entry points *)
(* pass and return.  A loop is a record [lb, ub, st, sg]: its bounds, its  *)
(* increment and whether its variable is signed.  Variables have Width     *)
(* bits and wrap around.  A share or chunk is a record of bounds and of    *)
(* the flag "last".                                                        *)
(***************************************************************************)
EXTENDS Integers, FiniteSets

CONSTANT Width

ASSUME WidthAssumption == Width \in Nat \ {0}

Modulus == 2^Width
Lowest(l) == IF l.sg THEN -(2^(Width - 1)) ELSE 0
Highest(l) == IF l.sg THEN 2^(Width - 1) - 1 ELSE Modulus - 1
Values(l) == Lowest(l)..Highest(l)

(* The values of types T and UT that a computation leaves.                 *)
AsT(l, x) == ((x - Lowest(l)) % Modulus) + Lowest(l)
AsUT(x) == x % Modulus

Least(a, b) == IF a <= b THEN a ELSE b
Most(a, b) == IF a <= b THEN b ELSE a
CeilDiv(a, b) == (a + b - 1) \div b

(* Is a before b in the order of the loop?                                 *)
Before(l, a, b) == IF l.st > 0 THEN a < b ELSE b < a

(* The loop's bound cuts off what an upper bound has too much; an upper    *)
(* bound that wrapped around is first set to the end of the type.          *)
Capped(l, upper) == IF Before(l, l.ub, upper) THEN l.ub ELSE upper
Unwrapped(l, lower, upper) ==
    IF Before(l, upper, lower) THEN IF l.st > 0 THEN Highest(l) ELSE Lowest(l)
                               ELSE upper

(***************************************************************************)
(* Static schedules: kmp_sched.cpp.                                        *)
(***************************************************************************)
ZeroTrip(l) == Before(l, l.ub, l.lb)

TripCount(l) ==
    CASE l.st = 1  -> AsUT(l.ub - l.lb + 1)
      [] l.st = -1 -> AsUT(l.lb - l.ub + 1)
      [] l.st > 1  -> AsUT(AsUT(l.ub - l.lb) \div l.st + 1)
      [] l.st < -1 -> AsUT(AsUT(l.lb - l.ub) \div (-l.st) + 1)

(* Fewer iterations than sharers: one each, and the others get a range     *)
(* that is empty because it starts after the loop.                         *)
Nothing(l) == [lower |-> AsT(l, l.ub + l.st), upper |-> l.ub, last |-> FALSE]

OneEach(l, id) ==
    LET only == AsT(l, l.lb + id * l.st)
    IN  IF id < TripCount(l)
        THEN [lower |-> only, upper |-> only, last |-> id = TripCount(l) - 1]
        ELSE Nothing(l)

(* Mutant: the sharers that take an extra iteration are not counted when   *)
(* the start of a share is computed.                                       *)
BalancedNoExtras(l, n, id) ==
    LET small  == TripCount(l) \div n
        extras == TripCount(l) % n
        lower  == AsT(l, l.lb + l.st * (id * small))
    IN  [lower |-> lower,
         upper |-> AsT(l, lower + small * l.st - (IF id < extras THEN 0 ELSE l.st)),
         last |-> id = n - 1]

Balanced(l, n, id) ==
    LET small  == TripCount(l) \div n
        extras == TripCount(l) % n
        lower  == AsT(l, l.lb + l.st * (id * small + Least(id, extras)))
    IN  [lower |-> lower,
         upper |-> AsT(l, lower + small * l.st - (IF id < extras THEN 0 ELSE l.st)),
         last |-> id = n - 1]

Greedy(l, n, id) ==
    LET big   == AsT(l, CeilDiv(TripCount(l), n) * l.st)
        lower == AsT(l, l.lb + id * big)
        upper == Unwrapped(l, lower, AsT(l, lower + big - l.st))
    IN  [lower |-> lower, upper |-> Capped(l, upper),
         last |-> /\ ~Before(l, l.ub, lower)
                  /\ Before(l, AsT(l, l.ub - l.st), upper)]

(* The share of one of n under schedule(static).  Threads share "one each" *)
(* when the iterations are fewer than they are, teams and the threads of a *)
(* distributed loop also when they are as many.                            *)
Divided(l, static, n, id) ==
    IF static = "balanced" THEN Balanced(l, n, id) ELSE Greedy(l, n, id)
EvenShare(l, static, n, id) ==
    IF TripCount(l) < n THEN OneEach(l, id) ELSE Divided(l, static, n, id)
DistShare(l, static, n, id) ==
    IF TripCount(l) <= n THEN OneEach(l, id) ELSE Divided(l, static, n, id)

(* The first chunk of a sharer under schedule(static, chunk); the next     *)
(* ones follow at "stride".                                                *)
Chunked(l, chunk, n, id) ==
    LET c     == Most(chunk, 1)
        span  == c * l.st
        lower == AsT(l, l.lb + span * id)
    IN  [lower |-> lower, upper |-> AsT(l, lower + span - l.st),
         stride |-> span * n, last |-> id = ((TripCount(l) - 1) \div c) % n]

(* static_balanced_chunked: one chunk each, a multiple of the power of two *)
(* "chunk".                                                                *)
RoundUp(x, chunk) == ((x + chunk - 1) \div chunk) * chunk

BalancedChunked(l, chunk, n, id) ==
    LET c     == RoundUp(CeilDiv(TripCount(l), n), chunk)
        span  == c * l.st
        lower == AsT(l, l.lb + span * id)
    IN  [lower |-> lower, upper |-> Capped(l, AsT(l, lower + span - l.st)),
         last |-> id = (TripCount(l) - 1) \div c]

Whole(l) == [lower |-> l.lb, upper |-> l.ub, last |-> TRUE]

(* __kmp_for_static_init: the share of thread tid of nth.                  *)
ForStaticInit(l, sched, chunk, nth, tid) ==
    CASE ZeroTrip(l) -> [Whole(l) EXCEPT !.last = FALSE]
      [] ~ZeroTrip(l) /\ nth = 1 -> Whole(l)
      [] OTHER ->
           CASE sched = "static_chunked" -> Chunked(l, chunk, nth, tid)
             [] sched = "static_balanced_chunked" -> BalancedChunked(l, chunk, nth, tid)
             [] OTHER -> EvenShare(l, sched, nth, tid)

(* __kmp_dist_for_static_init: first the share of team "team" of nteams,   *)
(* which ends at "dist", then the share of thread tid in it.               *)
DistForStaticInit(l, sched, static, chunk, nteams, team, nth, tid) ==
    IF TripCount(l) <= nteams
    THEN LET one == IF tid = 0 THEN OneEach(l, team) ELSE Nothing(l)
         IN  [share |-> one, dist |-> one.upper]
    ELSE LET d    == Divided(l, static, nteams, team)
             part == [l EXCEPT !.lb = d.lower, !.ub = d.upper]
             mine == CASE Before(l, d.upper, d.lower) -> d
                       [] sched = "static_chunked" -> Chunked(part, chunk, nth, tid)
                       [] TripCount(part) <= tid -> Nothing(l)
                       [] OTHER -> DistShare(part, static, nth, tid)
         IN  [share |-> [mine EXCEPT !.last = d.last /\ mine.last], dist |-> d.upper]

(* __kmp_team_static_init: the chunks of a team under                      *)
(* dist_schedule(static, chunk).                                           *)
TeamStaticInit(l, chunk, nteams, team) ==
    LET c == Chunked(l, chunk, nteams, team)
    IN  [c EXCEPT !.upper = Capped(l, Unwrapped(l, c.lower, c.upper))]

(* __kmp_dist_get_bounds: the part of a team when the loop inside is       *)
(* dispatched.                                                             *)
DistGetBounds(l, static, nteams, team) == DistShare(l, static, nteams, team)

(***************************************************************************)
(* Dispatched schedules: kmp_dispatch.cpp.  Chunks are ranges of iteration *)
(* numbers.                                                                *)
(***************************************************************************)
DispatchTripCount(l) == IF ZeroTrip(l) THEN 0 ELSE AsT(l, TripCount(l))

NoChunk == [init |-> 0, limit |-> -1, last |-> FALSE]

(* The chunk that starts at iteration init, cut at the last iteration.     *)
ChunkFrom(tc, init, size) ==
    IF init <= tc - 1
    THEN [init |-> init, limit |-> Least(init + size - 1, tc - 1),
          last |-> init + size - 1 >= tc - 1]
    ELSE NoChunk

(* static_balanced, one chunk in iteration numbers.                        *)
DispatchBalanced(tc, n, id) ==
    LET small == tc \div n   extras == tc % n
        first == id * small + Least(id, extras)
    IN  IF tc < n
        THEN IF id < tc THEN [init |-> id, limit |-> id, last |-> id = tc - 1] ELSE NoChunk
        ELSE [init |-> first, limit |-> first + small - (IF id < extras THEN 0 ELSE 1),
              last |-> id = n - 1]

(* static_greedy and static_balanced_chunked are dispatched as             *)
(* static_chunked with these chunks.                                       *)
GreedyChunk(tc, n) == IF n > 1 THEN CeilDiv(tc, n) ELSE tc
SimdChunk(tc, n, chunk) == IF n > 1 THEN RoundUp(CeilDiv(tc, n), chunk) ELSE tc

(* The k-th chunk of a thread.                                             *)
ChunkedChunk(tc, chunk, n, tid, k) == ChunkFrom(tc, chunk * (k * n + tid), chunk)

(* The chunk of the counter-th request.                                    *)
DynamicChunk(tc, chunk, counter) == ChunkFrom(tc, chunk * counter, chunk)

(* static_steal: the chunks that a thread has before it steals.            *)
StealShare(tc, chunk, n, id) ==
    LET ntc   == CeilDiv(tc, chunk)
        first == id * (ntc \div n) + Least(id, ntc % n)
    IN  [count |-> first, ub |-> first + ntc \div n + (IF id < ntc % n THEN 1 ELSE 0)]

CanSteal(tc, chunk, n) == n > 1 /\ CeilDiv(tc, chunk) >= n

(* What a thief takes of the "remaining" chunks of its victim.             *)
Loot(remaining) == IF remaining > 3 THEN remaining \div 4 ELSE 1

(* Guided: a chunk is 1 / (2 * n) of what remains, down to a threshold.    *)
GuidedIsDynamic(tc, chunk, n) == (2 * chunk + 1) * n >= tc
GuidedThreshold(chunk, n) == 2 * n * (chunk + 1)
GuidedSize(remaining, n) == remaining \div (2 * n)
GuidedSimdSize(remaining, n, chunk) == RoundUp(GuidedSize(remaining, n), chunk)

(* Guided analytical: the iterations that remain before chunk idx, tc      *)
(* times the idx-th power of (2 * n - 1) / (2 * n), rounded up.            *)
GuidedRemaining(tc, n, idx) == CeilDiv(tc * (2 * n - 1)^idx, (2 * n)^idx)

(* The first chunk whose size would be too small; from there on the chunks *)
(* are of size "chunk".                                                    *)
CrossOver(tc, chunk, n) ==
    CHOOSE c \in 1..(4 * n * tc) :
        /\ tc * (2 * n - 1)^c <= (2 * chunk + 1) * n * (2 * n)^c
        /\ tc * (2 * n - 1)^(c - 1) > (2 * chunk + 1) * n * (2 * n)^(c - 1)

(* A request whose chunk would be empty asks again ("retry").              *)
AnalyticalChunk(tc, chunk, n, idx) ==
    LET cross == CrossOver(tc, chunk, n)
        first == tc - GuidedRemaining(tc, n, cross) - cross * chunk + idx * chunk
        from  == tc - GuidedRemaining(tc, n, idx)
        to    == tc - GuidedRemaining(tc, n, idx + 1)
    IN  IF idx >= cross THEN ChunkFrom(tc, first, chunk)
        ELSE [init |-> from, limit |-> to - 1, last |-> FALSE]

(* Mutant: the number of cycles is rounded down.                           *)
TrapezoidRoundedDown(tc, chunk, n) ==
    LET first  == Most(tc \div (2 * n), 1)
        final  == Least(Most(chunk, 1), first)
        cycles == Most((2 * tc) \div (first + final), 2)
    IN  [first |-> first, cycles |-> cycles, less |-> (first - final) \div (cycles - 1)]

(* Trapezoidal: chunks shrink from "first" by "less" to no less than       *)
(* "final".                                                                *)
Trapezoid(tc, chunk, n) ==
    LET first  == Most(tc \div (2 * n), 1)
        final  == Least(Most(chunk, 1), first)
        cycles == Most(CeilDiv(2 * tc, first + final), 2)
    IN  [first |-> first, cycles |-> cycles, less |-> (first - final) \div (cycles - 1)]

TrapezoidChunk(tc, chunk, n, idx) ==
    LET p    == Trapezoid(tc, chunk, n)
        init == (idx * (2 * p.first - (idx - 1) * p.less)) \div 2
        next == ((idx + 1) * (2 * p.first - idx * p.less)) \div 2
    IN  IF idx < p.cycles THEN ChunkFrom(tc, init, next - init) ELSE NoChunk

(* The bounds of the loop variable that a chunk stands for.                *)
LowerOf(l, chunk) == AsT(l, l.lb + chunk.init * l.st)
UpperOf(l, chunk) == AsT(l, l.lb + chunk.limit * l.st)

(* The one chunk of static_balanced ends where the user's bound is when    *)
(* there is no iteration in between.                                       *)
BalancedUpperOf(l, chunk) ==
    IF Before(l, l.ub, AsT(l, UpperOf(l, chunk) + l.st)) THEN l.ub ELSE UpperOf(l, chunk)

(***************************************************************************)
(* GNU entry points: kmp_gsupport.cpp.  Their upper bounds are exclusive.  *)
(***************************************************************************)
(* The loop that GOMP_loop_*_start dispatches for (lb, ub, str), and the   *)
(* exclusive end of a chunk that it gives back.                            *)
GompLoop(lb, ub, str) ==
    [lb |-> lb, ub |-> IF str > 0 THEN ub - 1 ELSE ub + 1, st |-> str, sg |-> TRUE]
GompRuns(lb, ub, str) == IF str > 0 THEN lb < ub ELSE lb > ub
GompEnd(str, upper) == IF str > 0 THEN upper + 1 ELSE upper - 1
=============================================================================
