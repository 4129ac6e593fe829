------------------------------ MODULE MCBarrier ------------------------------
(***************************************************************************)
(* A team at its barriers, and beside it the pure algorithms against their *)
(* definitions: the trees of the barriers and the division of loops among  *)
(* threads and teams.  For those a case is chosen at the start, and the    *)
(* number of threads then grows.                                           *)
(***************************************************************************)
EXTENDS Barrier, LoopSchedules

CONSTANTS MaxBits, MaxThreads, MaxSharers, MaxTrip, MaxChunk

VARIABLES case, nproc

SplitBody == <<"reduceNowait", "master">>

Is(part) == case.part = part
Trees == [part : {"topology"}, pattern : Pattern, bits : 1..MaxBits]

(* Loops whose variable does not overflow when it steps past the end.      *)
Loops == {l \in [lb : -Modulus..Modulus, ub : -Modulus..Modulus,
                 st : {-3, -1, 1, 2}, sg : BOOLEAN] :
             {l.lb, l.ub, l.ub + l.st} \subseteq Values(l)}

Cases == [part : {"barriers"}] \cup Trees \cup [part : {"static"}, loop : Loops]
         \cup [part : {"dispatch"}, tc : 0..MaxTrip, chunk : 1..MaxChunk]

MCInit ==
    /\ case \in Cases /\ nproc = 1
    /\ forkIcv \in (IF Is("barriers") THEN Icv ELSE {CHOOSE v \in Icv : TRUE})
    /\ Init

(* The next team has one thread more. *)
Grow ==
    /\ ~Is("barriers")
    /\ nproc < (IF Is("topology") THEN MaxThreads ELSE MaxSharers)
    /\ nproc' = nproc + 1
    /\ UNCHANGED <<case, vars>>

TeamStep == Is("barriers") /\ Next /\ UNCHANGED <<case, nproc>>

MCNext == Grow \/ TeamStep

MCSpec == MCInit /\ [][MCNext]_<<case, nproc, vars>> /\ Fairness

(* Whatever the pattern and the branching, the gather and the release go   *)
(* along trees that span the team from its master, and an arriving worker  *)
(* wakes the very thread that waits for it (kmp_barrier.cpp).              *)
TreesSpanTeam ==
    Is("topology") =>
        /\ GatherIsTeamTree(case.pattern, case.bits, nproc)
        /\ ReleaseIsTeamTree(case.pattern, case.bits, nproc)
        /\ ParentIsWaiter(case.pattern, case.bits, nproc)

-----------------------------------------------------------------------------
Sharers == 0..(nproc - 1)

Abs(x) == IF x < 0 THEN -x ELSE x

(* What "for (i = lower; i <= upper; i += st)" runs, and what it runs when *)
(* the compiler repeats the range at a stride up to "end".                 *)
Ran(l, s) ==
    {v \in Values(l) : /\ ~Before(l, v, s.lower) /\ ~Before(l, s.upper, v)
                       /\ Abs(v - s.lower) % Abs(l.st) = 0}
RanStrided(l, s, end) ==
    {v \in Values(l) : /\ ~Before(l, v, s.lower) /\ ~Before(l, end, v)
                       /\ Abs(v - s.lower) % Abs(l.st) = 0
                       /\ Abs(v - s.lower) % Abs(s.stride) <= Abs(s.upper - s.lower)}

(* Each iteration is run by exactly one of ids, and the flag for the last  *)
(* iteration is set for the one that runs it.                              *)
Divides(l, ids, ran(_), last(_)) ==
    LET all == Ran(l, Whole(l))
    IN  /\ UNION {ran(i) : i \in ids} = all
        /\ \A i, j \in ids : i # j => ran(i) \cap ran(j) = {}
        /\ \A i \in ids :
              last(i) <=> \E v \in ran(i) : \A w \in all : ~Before(l, v, w)

(* The products that the code computes without a check fit the type.       *)
ChunksFit(l, chunk, n) == l.lb + Most(chunk, 1) * l.st * n \in Values(l)
SharesFit(l, n) == l.lb + CeilDiv(TripCount(l), n) * l.st * (n - 1) \in Values(l)

Statics == {"balanced", "greedy"}
Fit(l, sched, chunk, n) ==
    CASE sched = "balanced" -> TRUE
      [] sched = "greedy" -> SharesFit(l, n)
      [] sched = "static_chunked" -> ChunksFit(l, chunk, n)
      [] sched = "static_balanced_chunked" ->
            ChunksFit(l, RoundUp(CeilDiv(TripCount(l), n), chunk), n)

(* Under every static schedule, and for every loop whose bounds fit its    *)
(* type, __kmp_for_static_init gives each iteration to exactly one thread  *)
(* and sets the last-iteration flag for the thread that runs the last one. *)
ThreadsDivideLoop(l) ==
    \A sched \in Statics \cup {"static_chunked", "static_balanced_chunked"},
       chunk \in {0, 1, 2} :
        LET s(i)   == ForStaticInit(l, sched, chunk, nproc, i)
            ran(i) == IF sched = "static_chunked" /\ nproc > 1 /\ ~ZeroTrip(l)
                      THEN RanStrided(l, s(i), l.ub) ELSE Ran(l, s(i))
            last(i) == s(i).last
        IN  ((sched = "static_balanced_chunked" => chunk > 0) /\ Fit(l, sched, chunk, nproc))
                => Divides(l, Sharers, ran, last)

(* The same for "distribute parallel for" over two teams of nproc threads, *)
(* for the chunks of dist_schedule(static, chunk) and for the bounds of    *)
(* the team of a dispatched loop, over nproc teams.                        *)
TeamsDivideLoop(l) ==
    /\ \A static \in Statics, sched \in {"static", "static_chunked"} :
          LET d(p)   == DistForStaticInit(l, sched, static, 1, 2, p[1], nproc, p[2])
              ran(p) == IF "stride" \in DOMAIN d(p).share
                        THEN RanStrided(l, d(p).share, d(p).dist) ELSE Ran(l, d(p).share)
              last(p) == d(p).share.last
          IN  (SharesFit(l, 2 * nproc) /\ ChunksFit(l, 1, TripCount(l) + nproc))
                  => Divides(l, {0, 1} \X Sharers, ran, last)
    /\ \A static \in Statics :
          LET s(i) == DistGetBounds(l, static, nproc, i)
              ran(i) == Ran(l, s(i))   last(i) == s(i).last
          IN  Fit(l, static, 1, nproc) => Divides(l, Sharers, ran, last)
    /\ \A chunk \in {0, 1, 2} :
          LET s(i) == TeamStaticInit(l, chunk, nproc, i)
              ran(i) == RanStrided(l, s(i), l.ub)   last(i) == s(i).last
          IN  ChunksFit(l, chunk, nproc) => Divides(l, Sharers, ran, last)

(* Chunks turned into bounds of the loop variable are the values the loop  *)
(* takes, and so are the ranges that the GNU entry points give back for    *)
(* the loop with the exclusive upper bound ub.                             *)
ChunksDivideLoop(l) ==
    LET divided(loop, chunk, ids, upper(_)) ==
          LET ran(i) == IF chunk[i] = NoChunk THEN {}
                        ELSE Ran(loop, [lower |-> LowerOf(loop, chunk[i]), upper |-> upper(i)])
              last(i) == chunk[i].last
          IN  Divides(loop, ids, ran, last)
        dynamic(loop) == [i \in 0..DispatchTripCount(loop) |->
                             DynamicChunk(DispatchTripCount(loop), 2, i)]
        mine    == [i \in Sharers |-> DispatchBalanced(DispatchTripCount(l), nproc, i)]
        gomp    == GompLoop(l.lb, l.ub, l.st)
        \* the compiler's loop runs while its variable is before the end
        before(end) == end - (IF l.st > 0 THEN 1 ELSE -1)
        plain(i)    == UpperOf(l, dynamic(l)[i])
        balanced(i) == BalancedUpperOf(l, mine[i])
        given(i)    == before(GompEnd(l.st, UpperOf(gomp, dynamic(gomp)[i])))
    IN  /\ divided(l, dynamic(l), DOMAIN dynamic(l), plain)
        /\ divided(l, mine, Sharers, balanced)
        /\ (l.sg /\ GompRuns(l.lb, l.ub, l.st)) =>
              divided(gomp, dynamic(gomp), DOMAIN dynamic(gomp), given)

(* All schedules of static loops.                                          *)
StaticPartition ==
    Is("static") =>
        /\ ThreadsDivideLoop(case.loop)
        /\ ~ZeroTrip(case.loop) => TeamsDivideLoop(case.loop)
        /\ TripCount(case.loop) \in Values(case.loop) => ChunksDivideLoop(case.loop)

-----------------------------------------------------------------------------
Iterations(c) == c.init..c.limit

(* The chunks f[k] together are the iterations 0..tc-1, each once, and the *)
(* last flag marks the chunk with iteration tc-1.                          *)
Covers(tc, f) ==
    /\ UNION {Iterations(f[k]) : k \in DOMAIN f} = 0..(tc - 1)
    /\ \A j, k \in DOMAIN f : j # k => Iterations(f[j]) \cap Iterations(f[k]) = {}
    /\ \A k \in DOMAIN f : f[k].last <=> tc - 1 \in Iterations(f[k])

(* The start of the k-th chunk when one thread takes all guided chunks.    *)
GuidedStart(tc, chunk, n, simd) ==
    LET start[k \in 0..(tc + 1)] ==
          IF k = 0 THEN 0
          ELSE LET init == start[k - 1]   rest == tc - init
               IN  IF rest < GuidedThreshold(chunk, n) THEN init + chunk
                   ELSE init + (IF simd THEN GuidedSimdSize(rest, n, chunk)
                                ELSE GuidedSize(rest, n))
    IN  start

(* Requested one after another, the chunks of every dispatched schedule    *)
(* are the iterations of the loop, each once, and the last one is flagged. *)
DispatchPartition ==
    LET tc == case.tc   chunk == case.chunk   n == nproc
        Analytical == {k \in 0..(2 * tc) :
                          LET c == AnalyticalChunk(tc, chunk, n, k) IN c.init <= c.limit}
        start(simd) == GuidedStart(tc, chunk, n, simd)
    IN  Is("dispatch") =>
        /\ Covers(tc, [id \in Sharers |-> DispatchBalanced(tc, n, id)])
        /\ \A c \in {chunk, GreedyChunk(tc, n), SimdChunk(tc, n, 2^(chunk - 1))} :
              Covers(tc, [p \in Sharers \X (0..tc) |-> ChunkedChunk(tc, c, n, p[1], p[2])])
        /\ Covers(tc, [k \in 0..tc |-> DynamicChunk(tc, chunk, k)])
        /\ Covers(tc, [k \in 0..tc |-> TrapezoidChunk(tc, chunk, n, k)])
        /\ CanSteal(tc, chunk, n) =>
              /\ UNION {StealShare(tc, chunk, n, i).count..(StealShare(tc, chunk, n, i).ub - 1) :
                           i \in Sharers} = 0..(CeilDiv(tc, chunk) - 1)
              /\ \A i \in Sharers : i > 0 =>
                    StealShare(tc, chunk, n, i).count = StealShare(tc, chunk, n, i - 1).ub
        /\ (n > 1 /\ ~GuidedIsDynamic(tc, chunk, n)) =>
              /\ \A simd \in BOOLEAN :
                    Covers(tc, [k \in 0..tc |->
                        ChunkFrom(tc, start(simd)[k], start(simd)[k + 1] - start(simd)[k])])
              /\ Covers(tc, [k \in Analytical |-> AnalyticalChunk(tc, chunk, n, k)])

(* Every iteration of a loop is run once, by one thread, whatever the      *)
(* schedule, the bounds and the team; the last one is known as such        *)
(* (kmp_sched.cpp, kmp_dispatch.cpp).                                      *)
LoopsDivided == StaticPartition /\ DispatchPartition

=============================================================================
