------------------------------ MODULE Worksharing ------------------------------
(***************************************************************************)
(* The constructs that share work in a parallel region: dispatched loops   *)
(* over the ring of shared dispatch buffers, ordered regions, doacross     *)
(* loops, single, copyprivate, critical and barrier (kmp_dispatch.cpp,     *)
(* kmp_dispatch.h, kmp_csupport.cpp, __kmp_enter_single).                  *)
(*                                                                         *)
(* All the threads of the team meet the constructs of the region in the    *)
(* same order, each at its own pace: nothing but a barrier holds one back  *)
(* from loops that others have not finished.  LoopSchedules has the sizes  *)
(* of the chunks.  The barrier is one that works; see Barrier.             *)
(***************************************************************************)
EXTENDS LoopSchedules, FiniteSets, Sequences

CONSTANTS
    Buffers,        \* __kmp_dispatch_num_buffers
    Programs,       \* regions: the number of threads and the constructs in order
    None

ASSUME BuffersAssumption == Buffers \in Nat \ {0}
ASSUME ProgramsAssumption == \A p \in Programs : p.threads \in Nat \ {0, 1}

VARIABLES
    program,        \* the region
    at,             \* the construct that a thread is in or comes to next
    pc,             \* where a thread is in it
    local,          \* its chunk lo..hi, its iteration i, the counter it read,
                    \*   the victim it looks at and its attempts to steal
    priv,           \* th_disp_buffer: the private part of every buffer
    cur,            \* th_dispatch_pr_current: the buffer of its loop, or None
    dispIndex,      \* th_disp_index
    daIndex,        \* th_doacross_buf_idx
    buf,            \* t_disp_buffer: the shared part of every buffer
    thisConstruct,  \* this_construct of a thread
    construct,      \* t_construct of the team
    copypriv,       \* t_copypriv_data: the thread whose data it points at
    arrived,        \* barriers at which a thread has arrived
    crit,           \* the word of the critical name: the thread whose lock it points at
    held,           \* the holder of the lock that a thread made for the critical name
    ran, passed     \* for the properties: how often an iteration ran (a single: how
                    \*   often thread t did), and the ordered parts that are over

loops == <<priv, cur, dispIndex, daIndex, buf>>
others == <<thisConstruct, construct, copypriv, arrived, crit, held>>
history == <<ran, passed>>
vars == <<program, at, pc, local, loops, others, history>>

n == program.threads
Thread == 0..(n - 1)
Team(p) == 0..(p.threads - 1)
Construct(t) == program.does[at[t]]
Slots == 0..(Buffers - 1)
Own(t) == priv[t][cur[t]]
Shared(t) == buf[cur[t]]
Slot(index) == index % Buffers
Count(k) == Least(k + 1, 2)

EmptyLocal == [lo |-> 0, hi |-> -1, i |-> 0, k |-> 0, victim |-> 0, tries |-> 0]
EmptyPrivate == [loop |-> 0, count |-> 0, ub |-> 0, victim |-> 0, steal |-> 0,
                 lower |-> 1, upper |-> 0, bumped |-> 0]

Init ==
    /\ program \in Programs
    /\ at = [t \in Thread |-> 1]
    /\ pc = [t \in Thread |-> "idle"]
    /\ local = [t \in Thread |-> EmptyLocal]
    /\ priv = [t \in Thread |-> [b \in Slots |-> EmptyPrivate]]
    /\ cur = [t \in Thread |-> None]
    /\ dispIndex = [t \in Thread |-> 0]
    /\ daIndex = [t \in Thread |-> 0]
    /\ buf = [b \in Slots |-> [index |-> b, iteration |-> 0, done |-> 0, ordered |-> 0,
                               daIndex |-> b, flags |-> "null", posted |-> {}, daDone |-> 0]]
    /\ thisConstruct = [t \in Thread |-> 0]
    /\ construct = 0
    /\ copypriv = None
    /\ arrived = [t \in Thread |-> 0]
    /\ crit = None
    /\ held = [t \in Thread |-> None]
    /\ ran = [p \in 1..Len(program.does) |->
                 CASE program.does[p].kind \in {"loop", "doacross"} ->
                          [i \in 0..(program.does[p].tc - 1) |-> 0]
                   [] OTHER -> [t \in Thread |-> 0]]
    /\ passed = [p \in 1..Len(program.does) |-> {}]

Goto(t, place) == pc' = [pc EXCEPT ![t] = place]
NextConstruct(t) == at' = [at EXCEPT ![t] = @ + 1] /\ Goto(t, "idle")
Comes(t, kind) == pc[t] = "idle" /\ at[t] <= Len(program.does) /\ Construct(t).kind = kind

(***************************************************************************)
(* The start of a dispatched loop.                                         *)
(***************************************************************************)
(* __kmp_dispatch_init_algorithm: a nonmonotonic schedule is static_steal; *)
(* guided, stealing and the even schedules have simpler forms.             *)
Schedule(c) ==
    LET s == IF c.sched = "nonmonotonic" THEN "static_steal" ELSE c.sched
    IN  CASE s \in {"guided", "guided_simd", "analytical"} /\ GuidedIsDynamic(c.tc, c.chunk, n)
               -> "dynamic"
          [] s = "static_steal" /\ ~CanSteal(c.tc, c.chunk, n) -> "balanced"
          [] s = "greedy" -> "static_chunked"
          [] OTHER -> s

Chunk(c) == IF c.sched = "greedy" THEN GreedyChunk(c.tc, n) ELSE c.chunk

DispatchInit(t) ==
    LET c     == Construct(t)
        b     == Slot(dispIndex[t])
        share == StealShare(c.tc, c.chunk, n, t)
        steal == Schedule(c) = "static_steal"
    IN  /\ Comes(t, "loop")
        /\ dispIndex' = [dispIndex EXCEPT ![t] = @ + 1]
        /\ priv' = [priv EXCEPT ![t][b] =
                       [@ EXCEPT !.loop = at[t],
                                 !.count = IF steal THEN share.count ELSE 0,
                                 !.ub = IF steal THEN share.ub ELSE c.tc,
                                 !.victim = (t + 1) % n,
                                 !.lower = 1, !.upper = 0, !.bumped = 0]]
        /\ Goto(t, "buffer")
        /\ UNCHANGED <<program, at, local, cur, daIndex, buf, others, history>>

(* Mutant: the thread waits for the count it has already raised.           *)
BufferReadyRaised(t) ==
    LET mine == dispIndex[t] - 1 IN
    /\ pc[t] = "buffer"
    /\ buf[Slot(mine)].index = dispIndex[t]
    /\ cur' = [cur EXCEPT ![t] = Slot(mine)]
    /\ Goto(t, IF Construct(t).sched = "static_steal" THEN "flag" ELSE "next")
    /\ UNCHANGED <<program, at, local, priv, dispIndex, daIndex, buf, others, history>>

(* The name of the buffer is my_buffer_index when it is free to use.       *)
BufferReady(t) ==
    LET mine == dispIndex[t] - 1 IN
    /\ pc[t] = "buffer"
    /\ buf[Slot(mine)].index = mine
    /\ cur' = [cur EXCEPT ![t] = Slot(mine)]
    /\ Goto(t, IF Construct(t).sched = "static_steal" THEN "flag" ELSE "next")
    /\ UNCHANGED <<program, at, local, priv, dispIndex, daIndex, buf, others, history>>

(* The flag that other threads may steal: not for a schedule that has only *)
(* become static_steal.                                                    *)
FlagForThieves(t) ==
    /\ pc[t] = "flag"
    /\ priv' = [priv EXCEPT ![t][cur[t]].steal = @ + 1]
    /\ Goto(t, "next")
    /\ UNCHANGED <<program, at, local, cur, dispIndex, daIndex, buf, others, history>>

(***************************************************************************)
(* __kmp_dispatch_next: a chunk, or no more.                               *)
(***************************************************************************)
(* The chunk c is executed next, if there is one.                          *)
Take(t, c) ==
    IF c.init <= c.limit
    THEN local' = [local EXCEPT ![t] = [@ EXCEPT !.lo = c.init, !.hi = c.limit, !.i = c.init]]
         /\ Goto(t, "body")
    ELSE local' = local /\ Goto(t, "done")

Bounds(p, c) == IF c.init <= c.limit THEN [p EXCEPT !.lower = c.init, !.upper = c.limit] ELSE p

IsNext(t, scheds) == pc[t] = "next" /\ Construct(t).tc > 0 /\ Schedule(Construct(t)) \in scheds

NoIterations(t) ==
    /\ pc[t] = "next"
    /\ Construct(t).tc = 0
    /\ Goto(t, "done")
    /\ UNCHANGED <<program, at, local, loops, others, history>>

NextBalanced(t) ==
    LET c == IF Own(t).count = 0 THEN DispatchBalanced(Construct(t).tc, n, t) ELSE NoChunk IN
    /\ IsNext(t, {"balanced"})
    /\ Take(t, c)
    /\ priv' = [priv EXCEPT ![t][cur[t]] = [Bounds(@, c) EXCEPT !.count = 1]]
    /\ UNCHANGED <<program, at, cur, dispIndex, daIndex, buf, others, history>>

NextStaticChunked(t) ==
    LET l == Construct(t)
        c == ChunkFrom(l.tc, Chunk(l) * (Own(t).count + t), Chunk(l))
    IN  /\ IsNext(t, {"static_chunked"})
        /\ Take(t, c)
        /\ priv' = [priv EXCEPT ![t][cur[t]] =
                       [Bounds(Own(t), c) EXCEPT !.count = IF c.init <= c.limit THEN @ + n ELSE @]]
        /\ UNCHANGED <<program, at, cur, dispIndex, daIndex, buf, others, history>>

(* Dynamic, trapezoidal and analytical schedules number the requests.      *)
CounterChunk(l, k) ==
    CASE Schedule(l) = "dynamic"   -> DynamicChunk(l.tc, l.chunk, k)
      [] Schedule(l) = "trapezoid" -> TrapezoidChunk(l.tc, l.chunk, n, k)
      [] OTHER                     -> AnalyticalChunk(l.tc, l.chunk, n, k)

(* An analytical chunk before the cross-over can be empty: ask again.      *)
AskAgain(l, k) ==
    Schedule(l) = "analytical" /\ k < CrossOver(l.tc, l.chunk, n)
      /\ CounterChunk(l, k).init > CounterChunk(l, k).limit

NextByCounter(t) ==
    LET l == Construct(t)
        k == Shared(t).iteration
        c == CounterChunk(l, k)
    IN  /\ IsNext(t, {"dynamic", "trapezoid", "analytical"})
        /\ buf' = [buf EXCEPT ![cur[t]].iteration = @ + 1]
        /\ IF AskAgain(l, k)
           THEN UNCHANGED <<pc, local, priv>>
           ELSE Take(t, c) /\ priv' = [priv EXCEPT ![t][cur[t]] = Bounds(@, c)]
        /\ UNCHANGED <<program, at, cur, dispIndex, daIndex, others, history>>

(* Guided schedules count iterations: the thread reads the count, then     *)
(* adds a small chunk to it or compares and swaps a large one.             *)
GuidedRead(t) ==
    LET l         == Construct(t)
        remaining == l.tc - Shared(t).iteration
    IN  /\ IsNext(t, {"guided", "guided_simd"})
        /\ local' = [local EXCEPT ![t].k = Shared(t).iteration]
        /\ Goto(t, IF remaining <= 0 THEN "done"
                   ELSE IF remaining < GuidedThreshold(l.chunk, n) THEN "guided_add" ELSE "guided_swap")
        /\ UNCHANGED <<program, at, loops, others, history>>

GuidedAdd(t) ==
    LET l == Construct(t)
        c == ChunkFrom(l.tc, Shared(t).iteration, l.chunk)
    IN  /\ pc[t] = "guided_add"
        /\ buf' = [buf EXCEPT ![cur[t]].iteration = @ + l.chunk]
        /\ Take(t, c)
        /\ priv' = [priv EXCEPT ![t][cur[t]] = Bounds(@, c)]
        /\ UNCHANGED <<program, at, cur, dispIndex, daIndex, others, history>>

GuidedSwap(t) ==
    LET l    == Construct(t)
        k    == local[t].k
        size == IF l.sched = "guided" THEN GuidedSize(l.tc - k, n)
                                      ELSE GuidedSimdSize(l.tc - k, n, l.chunk)
        c    == [init |-> k, limit |-> k + size - 1]
    IN  /\ pc[t] = "guided_swap"
        /\ IF Shared(t).iteration = k
           THEN /\ buf' = [buf EXCEPT ![cur[t]].iteration = k + size]
                /\ Take(t, c)
                /\ priv' = [priv EXCEPT ![t][cur[t]] = Bounds(@, c)]
           ELSE Goto(t, "next") /\ UNCHANGED <<local, priv, buf>>
        /\ UNCHANGED <<program, at, cur, dispIndex, daIndex, others, history>>

(***************************************************************************)
(* static_steal, on loop variables of 4 bytes: count and ub of the private *)
(* buffer are chunk numbers, changed together by an 8-byte compare and     *)
(* swap.  A thread takes its own next chunk first.                         *)
(***************************************************************************)
StealChunk(l, number) == ChunkFrom(l.tc, number * l.chunk, l.chunk)

NextOwnChunk(t) ==
    LET c == StealChunk(Construct(t), Own(t).count)
        some == Own(t).count < Own(t).ub
    IN  /\ IsNext(t, {"static_steal"})
        /\ priv' = [priv EXCEPT ![t][cur[t]] =
                       [(IF some THEN Bounds(Own(t), c) ELSE Own(t)) EXCEPT !.count = @ + 1]]
        /\ IF some THEN Take(t, c)
           ELSE local' = [local EXCEPT ![t].tries = 0] /\ Goto(t, "search")
        /\ UNCHANGED <<program, at, cur, dispIndex, daIndex, buf, others, history>>

(* At most n - 1 attempts, each from the remembered victim.                *)
Search(t) ==
    LET tries == local[t].tries + 1 IN
    /\ pc[t] = "search"
    /\ local' = [local EXCEPT ![t].tries = tries, ![t].victim = Own(t).victim]
    /\ Goto(t, IF tries = n THEN "done" ELSE "scan")
    /\ UNCHANGED <<program, at, loops, others, history>>

(* One look at th_dispatch_pr_current of the victim and at its flag.       *)
SameFlag(t, v) == cur[v] # None /\ priv[v][cur[v]].steal = Own(t).steal

Scan(t) ==
    LET v    == local[t].victim
        last == (Own(t).victim + n - 1) % n
    IN  /\ pc[t] = "scan"
        /\ CASE v # t /\ SameFlag(t, v) ->
                  /\ priv' = [priv EXCEPT ![t][cur[t]].victim = v]
                  /\ local' = [local EXCEPT ![t].k = cur[v]]
                  /\ Goto(t, "rob")
             [] v # last /\ ~(v # t /\ SameFlag(t, v)) ->
                  /\ local' = [local EXCEPT ![t].victim = (v + 1) % n]
                  /\ UNCHANGED <<priv, pc>>
             [] v = last /\ v = t ->           \* its own share, which is empty
                  /\ priv' = [priv EXCEPT ![t][cur[t]].victim = (v + 1) % n]
                  /\ local' = local
                  /\ Goto(t, "search")
             [] OTHER -> Goto(t, "search") /\ UNCHANGED <<priv, local>>
        /\ UNCHANGED <<program, at, cur, dispIndex, daIndex, buf, others, history>>

(* A successful compare and swap on the victim's pair.                     *)
Rob(t) ==
    LET v    == local[t].victim
        b    == local[t].k
        left == priv[v][b].ub - priv[v][b].count
    IN  /\ pc[t] = "rob"
        /\ IF left < 2
           THEN /\ priv' = [priv EXCEPT ![t][cur[t]].victim = (v + 1) % n]
                /\ local' = local
                /\ Goto(t, "search")
           ELSE /\ priv' = [priv EXCEPT ![v][b].ub = @ - Loot(left)]
                /\ local' = [local EXCEPT ![t].lo = priv[v][b].ub - Loot(left),
                                          ![t].hi = priv[v][b].ub]
                /\ Goto(t, "adopt")
        /\ UNCHANGED <<program, at, cur, dispIndex, daIndex, buf, others, history>>

(* The loot becomes its own share, but for the chunk it executes now.      *)
Adopt(t) ==
    LET c == StealChunk(Construct(t), local[t].lo) IN
    /\ pc[t] = "adopt"
    /\ priv' = [priv EXCEPT ![t][cur[t]] =
                   [Bounds(@, c) EXCEPT !.count = local[t].lo + 1, !.ub = local[t].hi]]
    /\ Take(t, c)
    /\ UNCHANGED <<program, at, cur, dispIndex, daIndex, buf, others, history>>

(***************************************************************************)
(* The iterations of a chunk, and the ordered regions in them.             *)
(***************************************************************************)
Ordered(t) == Construct(t).ordered # "no"
HasRegion(t) == Ordered(t) /\ local[t].i \notin Construct(t).skips

(* Runs iteration i; then its ordered region, if it has one.               *)
Body(t) ==
    /\ pc[t] = "body"
    /\ ran' = [ran EXCEPT ![at[t]][local[t].i] = Count(@)]
    /\ Goto(t, CASE HasRegion(t) -> "deo" [] OTHER -> "end")
    /\ UNCHANGED <<program, at, local, loops, others, passed>>

(* __kmp_dispatch_deo, the entry of the ordered region.                    *)
Deo(t) ==
    /\ pc[t] = "deo"
    /\ Shared(t).ordered >= Own(t).lower
    /\ Goto(t, "region")
    /\ UNCHANGED <<program, at, local, loops, others, history>>

(* __kmp_dispatch_dxo, the exit.                                           *)
Dxo(t) ==
    /\ pc[t] = "region"
    /\ priv' = [priv EXCEPT ![t][cur[t]].bumped = @ + 1]
    /\ buf' = [buf EXCEPT ![cur[t]].ordered = @ + 1]
    /\ passed' = [passed EXCEPT ![at[t]] = @ \union {local[t].i}]
    /\ Goto(t, "end")
    /\ UNCHANGED <<program, at, local, cur, dispIndex, daIndex, others, ran>>

AfterIteration(t) ==
    IF local[t].i < local[t].hi
    THEN local' = [local EXCEPT ![t].i = @ + 1] /\ Goto(t, "body")
    ELSE local' = local /\ Goto(t, IF Construct(t).ordered = "gomp" THEN "chunk_end" ELSE "next")

(* The end of an iteration: nothing to do, unless the compiler calls       *)
(* __kmp_dispatch_finish after each (ordered = "kmp").                     *)
EndIteration(t) ==
    /\ pc[t] = "end"
    /\ Construct(t).ordered # "kmp"
    /\ AfterIteration(t)
    /\ UNCHANGED <<program, at, loops, others, history>>

(* __kmp_dispatch_finish: the iteration counts as passed, whether or not   *)
(* it had an ordered region.                                               *)
Finish(t) ==
    /\ pc[t] = "end"
    /\ Construct(t).ordered = "kmp"
    /\ IF Own(t).bumped # 0
       THEN priv' = [priv EXCEPT ![t][cur[t]].bumped = 0] /\ buf' = buf
       ELSE /\ Shared(t).ordered >= Own(t).lower
            /\ buf' = [buf EXCEPT ![cur[t]].ordered = @ + 1]
            /\ priv' = priv
    /\ AfterIteration(t)
    /\ UNCHANGED <<program, at, cur, dispIndex, daIndex, others, history>>

(* Mutant: the regions that the chunk did have are counted again.          *)
OrderedLeftInChunkAgain(t) == Own(t).upper - Own(t).lower + 1

(* The iterations of the chunk that had no ordered region.                 *)
OrderedLeftInChunk(t) == Own(t).upper - Own(t).lower + 1 - Own(t).bumped

(* __kmp_dispatch_finish_chunk, which the GNU entry points call.           *)
FinishChunk(t) ==
    LET left == OrderedLeftInChunk(t) IN
    /\ pc[t] = "chunk_end"
    /\ left # 0 => Shared(t).ordered >= Own(t).lower
    /\ buf' = [buf EXCEPT ![cur[t]].ordered = @ + left]
    /\ priv' = [priv EXCEPT ![t][cur[t]].bumped = 0]
    /\ Goto(t, "next")
    /\ UNCHANGED <<program, at, local, cur, dispIndex, daIndex, others, history>>

(***************************************************************************)
(* The end of a dispatched loop: the last thread frees the buffer.         *)
(***************************************************************************)
(* Mutant: the last but one frees it.                                      *)
IsLastEarly(done) == done >= n - 2

IsLast(done) == done = n - 1

NumDone(t) ==
    /\ pc[t] = "done"
    /\ buf' = [buf EXCEPT ![cur[t]].done = @ + 1]
    /\ Goto(t, IF IsLast(Shared(t).done) THEN "reset" ELSE "leave")
    /\ UNCHANGED <<program, at, local, priv, cur, dispIndex, daIndex, others, history>>

ResetBuffer(t) ==
    /\ pc[t] = "reset"
    /\ buf' = [buf EXCEPT ![cur[t]] =
                  [Shared(t) EXCEPT !.done = 0, !.iteration = 0, !.ordered = IF Ordered(t) THEN 0 ELSE @]]
    /\ Goto(t, "publish")
    /\ UNCHANGED <<program, at, local, priv, cur, dispIndex, daIndex, others, history>>

NextNameOfBuffer(index) == index + Buffers

PublishBuffer(t) ==
    /\ pc[t] = "publish"
    /\ buf' = [buf EXCEPT ![cur[t]].index = NextNameOfBuffer(@)]
    /\ Goto(t, "leave")
    /\ UNCHANGED <<program, at, local, priv, cur, dispIndex, daIndex, others, history>>

LeaveLoop(t) ==
    /\ pc[t] = "leave"
    /\ cur' = [cur EXCEPT ![t] = None]
    /\ NextConstruct(t)
    /\ UNCHANGED <<program, local, priv, dispIndex, daIndex, buf, others, history>>

DispatchedLoop(t) ==
    \/ DispatchInit(t) \/ BufferReady(t) \/ FlagForThieves(t)
    \/ NoIterations(t) \/ NextBalanced(t) \/ NextStaticChunked(t) \/ NextByCounter(t)
    \/ GuidedRead(t) \/ GuidedAdd(t) \/ GuidedSwap(t)
    \/ NextOwnChunk(t) \/ Search(t) \/ Scan(t) \/ Rob(t) \/ Adopt(t)
    \/ Body(t) \/ Deo(t) \/ Dxo(t) \/ EndIteration(t) \/ Finish(t) \/ FinishChunk(t)
    \/ NumDone(t) \/ ResetBuffer(t) \/ PublishBuffer(t) \/ LeaveLoop(t)

(***************************************************************************)
(* single, copyprivate and barrier.                                        *)
(***************************************************************************)
(* __kmp_enter_single: the team's count is the thread's old count as long  *)
(* as nobody has taken this single.                                        *)
EnterSingle(t) ==
    /\ Comes(t, "single")
    /\ thisConstruct' = [thisConstruct EXCEPT ![t] = @ + 1]
    /\ Goto(t, IF construct = thisConstruct[t] THEN "claim" ELSE "not_single")
    /\ UNCHANGED <<program, at, local, loops, construct, copypriv, arrived, crit, held, history>>

(* Mutant: the count is stored without comparing it again.                 *)
ClaimedUnchecked(t) == TRUE

Claimed(t) == construct = thisConstruct[t] - 1

ClaimSingle(t) ==
    /\ pc[t] = "claim"
    /\ construct' = IF Claimed(t) THEN thisConstruct[t] ELSE construct
    /\ ran' = IF Claimed(t) THEN [ran EXCEPT ![at[t]][t] = Count(@)] ELSE ran
    /\ Goto(t, "not_single")
    /\ UNCHANGED <<program, at, local, loops, thisConstruct, copypriv, arrived, crit, held, passed>>

EndSingle(t) ==
    /\ pc[t] = "not_single"
    /\ ~Construct(t).copy
    /\ NextConstruct(t)
    /\ UNCHANGED <<program, local, loops, others, history>>

(* __kmpc_copyprivate: the thread of the single leaves its data, then two  *)
(* barriers with the copying between them.                                 *)
CopyPrivate(t) ==
    /\ pc[t] = "not_single"
    /\ Construct(t).copy
    /\ copypriv' = IF ran[at[t]][t] > 0 THEN t ELSE copypriv
    /\ arrived' = [arrived EXCEPT ![t] = @ + 1]
    /\ Goto(t, "copy")
    /\ UNCHANGED <<program, at, local, loops, thisConstruct, construct, crit, held, history>>

AllArrived(t) == \A u \in Thread : arrived[u] >= arrived[t]

CopyOut(t) ==
    /\ pc[t] = "copy"
    /\ AllArrived(t)
    /\ passed' = [passed EXCEPT ![at[t]] = @ \union {copypriv}]
    /\ arrived' = [arrived EXCEPT ![t] = @ + 1]
    /\ Goto(t, "barrier")
    /\ UNCHANGED <<program, at, local, loops, thisConstruct, construct, copypriv, crit, held, ran>>

Arrive(t) ==
    /\ Comes(t, "barrier")
    /\ arrived' = [arrived EXCEPT ![t] = @ + 1]
    /\ Goto(t, "barrier")
    /\ UNCHANGED <<program, at, local, loops, thisConstruct, construct, copypriv, crit, held, history>>

LeaveBarrier(t) ==
    /\ pc[t] = "barrier"
    /\ AllArrived(t)
    /\ NextConstruct(t)
    /\ UNCHANGED <<program, local, loops, others, history>>

(***************************************************************************)
(* critical, when the default lock is indirect: the first threads make a   *)
(* lock each, and the word keeps the first.                                *)
(***************************************************************************)
EnterCritical(t) ==
    /\ Comes(t, "critical")
    /\ Goto(t, IF crit = None THEN "make_lock" ELSE "set_lock")
    /\ UNCHANGED <<program, at, local, loops, others, history>>

MakeLock(t) ==
    /\ pc[t] = "make_lock"
    /\ crit' = IF crit = None THEN t ELSE crit
    /\ Goto(t, "set_lock")
    /\ UNCHANGED <<program, at, local, loops, thisConstruct, construct, copypriv, arrived, held,
                   history>>

SetLock(t) ==
    /\ pc[t] = "set_lock"
    /\ held[crit] = None
    /\ held' = [held EXCEPT ![crit] = t]
    /\ Goto(t, "critical")
    /\ UNCHANGED <<program, at, local, loops, thisConstruct, construct, copypriv, arrived, crit,
                   history>>

EndCritical(t) ==
    /\ pc[t] = "critical"
    /\ held' = [held EXCEPT ![crit] = None]
    /\ NextConstruct(t)
    /\ UNCHANGED <<program, local, loops, thisConstruct, construct, copypriv, arrived, crit,
                   history>>

(***************************************************************************)
(* Doacross loops.  They have a ring of names of their own in the shared   *)
(* buffers.  The iterations are those of schedule(static, 1); iteration i  *)
(* waits for i - 1.                                                        *)
(***************************************************************************)
DoacrossInit(t) ==
    /\ Comes(t, "doacross")
    /\ daIndex' = [daIndex EXCEPT ![t] = @ + 1]
    /\ Goto(t, "doacross_buffer")
    /\ UNCHANGED <<program, at, local, priv, cur, dispIndex, buf, others, history>>

DaSlot(t) == Slot(daIndex[t] - 1)

(* The first thread that finds the buffer free allocates the flags.        *)
DoacrossReady(t) ==
    LET b == DaSlot(t) IN
    /\ pc[t] = "doacross_buffer"
    /\ buf[b].daIndex = daIndex[t] - 1
    /\ local' = [local EXCEPT ![t].i = t]
    /\ buf' = [buf EXCEPT ![b].flags = IF @ = "null" THEN "init" ELSE @]
    /\ Goto(t, CASE buf[b].flags = "null" -> "allocate_flags"
                 [] buf[b].flags = "init" -> "await_flags"
                 [] OTHER                 -> "doacross_wait")
    /\ UNCHANGED <<program, at, priv, cur, dispIndex, daIndex, others, history>>

AllocateFlags(t) ==
    /\ pc[t] = "allocate_flags"
    /\ buf' = [buf EXCEPT ![DaSlot(t)] = [@ EXCEPT !.flags = "ready", !.posted = {}]]
    /\ Goto(t, "doacross_wait")
    /\ UNCHANGED <<program, at, local, priv, cur, dispIndex, daIndex, others, history>>

AwaitFlags(t) ==
    /\ pc[t] = "await_flags"
    /\ buf[DaSlot(t)].flags # "init"
    /\ Goto(t, "doacross_wait")
    /\ UNCHANGED <<program, at, local, loops, others, history>>

(* __kmpc_doacross_wait: outside of the loop there is nothing to wait for. *)
DoacrossWait(t) ==
    LET i == local[t].i IN
    /\ pc[t] = "doacross_wait"
    /\ i < Construct(t).tc
    /\ i - 1 \in 0..(Construct(t).tc - 1) => i - 1 \in buf[DaSlot(t)].posted
    /\ Goto(t, "doacross_body")
    /\ UNCHANGED <<program, at, local, loops, others, history>>

DoacrossPost(t) ==
    LET i == local[t].i IN
    /\ pc[t] = "doacross_body"
    /\ ran' = [ran EXCEPT ![at[t]][i] = Count(@)]
    /\ passed' = [passed EXCEPT ![at[t]] = @ \union {i}]
    /\ buf' = [buf EXCEPT ![DaSlot(t)].posted = @ \union {i}]
    /\ local' = [local EXCEPT ![t].i = i + n]
    /\ Goto(t, "doacross_wait")
    /\ UNCHANGED <<program, at, priv, cur, dispIndex, daIndex, others>>

DoacrossFini(t) ==
    /\ pc[t] = "doacross_wait"
    /\ local[t].i >= Construct(t).tc
    /\ buf' = [buf EXCEPT ![DaSlot(t)].daDone = @ + 1]
    /\ IF IsLast(buf[DaSlot(t)].daDone) THEN Goto(t, "free_flags") /\ at' = at
                                        ELSE NextConstruct(t)
    /\ UNCHANGED <<program, local, priv, cur, dispIndex, daIndex, others, history>>

FreeFlags(t) ==
    /\ pc[t] = "free_flags"
    /\ buf' = [buf EXCEPT ![DaSlot(t)] =
                  [buf[DaSlot(t)] EXCEPT !.flags = "null", !.posted = {}, !.daDone = 0,
                                          !.daIndex = NextNameOfBuffer(@)]]
    /\ NextConstruct(t)
    /\ UNCHANGED <<program, local, priv, cur, dispIndex, daIndex, others, history>>

Synchronisation(t) ==
    \/ EnterSingle(t) \/ ClaimSingle(t) \/ EndSingle(t) \/ CopyPrivate(t) \/ CopyOut(t)
    \/ Arrive(t) \/ LeaveBarrier(t)
    \/ EnterCritical(t) \/ MakeLock(t) \/ SetLock(t) \/ EndCritical(t)
    \/ DoacrossInit(t) \/ DoacrossReady(t) \/ AllocateFlags(t) \/ AwaitFlags(t)
    \/ DoacrossWait(t) \/ DoacrossPost(t) \/ DoacrossFini(t) \/ FreeFlags(t)

Step(t) == DispatchedLoop(t) \/ Synchronisation(t)

Next == \E t \in Thread : Step(t)

(* A thread that can take a step does: the waits are loops that poll, and  *)
(* nothing else keeps a thread from its program.                           *)
Fairness == \A t \in UNION {Team(p) : p \in Programs} : WF_vars(t \in Thread /\ Step(t))
SafeSpec == Init /\ [][Next]_vars
Spec == SafeSpec /\ Fairness

(***************************************************************************)
(* Properties.                                                             *)
(***************************************************************************)
IsOver(p) == \A t \in Thread : at[t] > p

(* Every iteration of a loop is executed by exactly one thread, whatever   *)
(* the schedule, and however far the threads drift apart over loops that   *)
(* use the same buffers (__kmp_dispatch_init, __kmp_dispatch_next).        *)
EachIterationOnce ==
    \A p \in 1..Len(program.does) :
        program.does[p].kind \in {"loop", "doacross"} =>
            \A i \in DOMAIN ran[p] : ran[p][i] <= 1 /\ (IsOver(p) => ran[p][i] = 1)

(* In an ordered region, and in an iteration of a doacross loop, all that  *)
(* comes before it in the sequential order is over; also when iterations   *)
(* skip the region and chunks are large (__kmp_dispatch_deo,               *)
(* __kmp_dispatch_finish, __kmp_dispatch_finish_chunk,                     *)
(* __kmpc_doacross_wait).                                                  *)
InSequence ==
    \A t \in Thread :
        /\ pc[t] = "region" =>
             0..(local[t].i - 1) \subseteq passed[at[t]] \union Construct(t).skips
        /\ pc[t] = "doacross_body" => 0..(local[t].i - 1) \subseteq passed[at[t]]

(* One thread executes a single, copyprivate gives the others what that    *)
(* thread has, and one thread at a time is in a critical section even when *)
(* several have made a lock for it (__kmp_enter_single,                    *)
(* __kmpc_copyprivate, __kmpc_critical_with_hint).                         *)
OneThreadAtATime ==
    /\ \A p \in 1..Len(program.does) : program.does[p].kind = "single" =>
          LET by == {t \in Thread : ran[p][t] > 0}
          IN  /\ Cardinality(by) <= 1
              /\ IsOver(p) => Cardinality(by) = 1
              /\ passed[p] \subseteq by
    /\ Cardinality({t \in Thread : pc[t] = "critical"}) <= 1

(* Every thread gets to the end of the region: no wait for a buffer, for   *)
(* an ordered region or for the flags of a doacross loop is for ever.      *)
Completes == <>(\A t \in Thread : at[t] > Len(program.does))

(* A thread steals only from a thread that is in the same loop.            *)
RobsTheSameLoop ==
    \A t \in Thread : pc[t] = "rob" =>
        priv[local[t].victim][local[t].k].loop = Own(t).loop
================================================================================
