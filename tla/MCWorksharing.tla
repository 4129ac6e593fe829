---------------------------- MODULE MCWorksharing ----------------------------
(***************************************************************************)
(* Worksharing, one kind of run at a time: loops and constructs of one     *)
(* region; constructs that combine the threads' data; programs as GCC      *)
(* compiles them.                                                          *)
(***************************************************************************)
EXTENDS Worksharing

CONSTANTS Parts, Forced, GccPrograms

VARIABLES part,
          (* of Collectives *)
          nproc, prog, force, atTeams, spot, stage, th, method, name, came, released,
          total, reg, single, sent, copied, buffer, area, mine, taken, done,
          (* of Gomp *)
          gcc, region, size, serial, place, step, range, own, disp, ranOf, turn, turns,
          winner, data, got, arrivals, posted, crashed, value, tasks, group, holder, sums

Loop(sched, tc, chunk) ==
    [kind |-> "loop", sched |-> sched, tc |-> tc, chunk |-> chunk, ordered |-> "no", skips |-> {}]
OrderedLoop(sched, tc, chunk, flavour, skips) ==
    [Loop(sched, tc, chunk) EXCEPT !.ordered = flavour, !.skips = skips]
Single == [kind |-> "single", copy |-> FALSE]
SingleCopy == [kind |-> "single", copy |-> TRUE]
Critical == [kind |-> "critical"]
Barrier == [kind |-> "barrier"]
Doacross(tc) == [kind |-> "doacross", tc |-> tc]

Two(does) == [threads |-> 2, does |-> does]
Three(does) == [threads |-> 3, does |-> does]

(* Loops one after another without a barrier, more than there are buffers, *)
(* of every schedule; ordered loops of both flavours, where iterations     *)
(* skip the region; stealing; doacross; single, copyprivate, critical.     *)
SharedRegions == { Two(<<>>),
    Two(<<Loop("dynamic", 3, 1), Single, Loop("dynamic", 2, 1), Loop("dynamic", 3, 2)>>),
    Three(<<Loop("dynamic", 1, 1), Loop("static_chunked", 2, 1), Loop("dynamic", 1, 1)>>),
    Two(<<Loop("guided", 8, 1), Single>>), Two(<<Loop("guided_simd", 7, 1)>>),
    Two(<<Loop("greedy", 3, 1), Loop("trapezoid", 5, 1)>>),
    Two(<<Loop("analytical", 7, 1), Loop("dynamic", 0, 1)>>),
    Two(<<OrderedLoop("dynamic", 4, 2, "gomp", {1, 2}), OrderedLoop("dynamic", 4, 1, "gomp", {0}),
          OrderedLoop("static_chunked", 4, 2, "gomp", {0, 3})>>),
    Two(<<OrderedLoop("static_chunked", 4, 2, "kmp", {0, 2}), OrderedLoop("guided", 3, 1, "kmp", {1}),
          OrderedLoop("balanced", 3, 1, "kmp", {0})>>),
    Three(<<OrderedLoop("dynamic", 4, 2, "gomp", {1}), Single>>),
    Two(<<Loop("static_steal", 8, 1), Barrier, Loop("nonmonotonic", 2, 1), Single>>),
    Three(<<Loop("static_steal", 3, 1)>>),
    Two(<<Doacross(3), Doacross(2), Doacross(3), Single>>),
    Three(<<Doacross(3), Doacross(1), Critical>>),
    Three(<<Single, Critical, SingleCopy, SingleCopy>>) }

(* Reduce blocks in every method, copyprivate, and doacross loops over two *)
(* dimensions, one of them downwards.                                      *)
Red(kind, atomic, tree) == [kind |-> kind, atomic |-> atomic, tree |-> tree]
Bare(kind) == [kind |-> kind, atomic |-> FALSE, tree |-> FALSE]
Combining(nth, constructs) == [nproc |-> nth, constructs |-> constructs]
CombiningPrograms ==
    { Combining(1, << >>),
      Combining(3, << Red("reduce", FALSE, FALSE), Red("reduce_nowait", FALSE, TRUE), Red("reduce", TRUE, TRUE) >>),
      Combining(3, << Red("reduce_nowait", TRUE, FALSE), Red("reduce", FALSE, TRUE) >>),
      Combining(3, << Bare("copyprivate"), Bare("copyprivate"), Red("reduce_nowait", FALSE, FALSE) >>),
      Combining(2, << Bare("doacross"), Bare("doacross"), Bare("doacross") >>),
      Combining(3, << Bare("doacross") >>) }
TwoDims == << [lo |-> 0, up |-> 2, st |-> 2], [lo |-> 3, up |-> 2, st |-> -1] >>
TwoSinks == { <<-2, 0>>, <<0, 1>> }

-----------------------------------------------------------------------------
(* Programs as GCC would compile them.                                     *)
NoLoopHere == [kind |-> "none"]
GccLoop(lb, ub, str, sched, chunk, ordered, nowait) ==
    [kind |-> "loop", lb |-> lb, ub |-> ub, str |-> str, sched |-> sched, chunk |-> chunk,
     ordered |-> ordered, ull |-> "no", nowait |-> nowait]
UllLoop(way, lb, ub, str) == [GccLoop(lb, ub, str, "dynamic", 1, FALSE, FALSE) EXCEPT !.ull = way]
GccSections(count, nowait) == [kind |-> "sections", count |-> count, nowait |-> nowait]
GccDoacross(count) == [kind |-> "doacross", counts |-> count, sched |-> "dynamic", chunk |-> 1, nowait |-> FALSE]
Plain(kind) == [kind |-> kind]
GccTask(if, depend, nout) == [kind |-> "task", cond |-> if, depend |-> depend, nout |-> nout]
GccCritical(lock) == [kind |-> "critical", lock |-> lock]
In(threads, sizes, combined, body) ==
    [threads |-> threads, sizes |-> sizes, combined |-> combined, body |-> body]

GuidedRun == [sched |-> "guided", chunk |-> 1]

OneBarrier == << In(1, {1}, NoLoopHere, <<Plain("barrier")>>) >>
MCGccPrograms == { OneBarrier,
    << In(0, {1, 2}, NoLoopHere, <<GccLoop(1, 6, 2, "dynamic", 1, FALSE, TRUE), GccLoop(5, 0, -2, "guided", 1, FALSE, FALSE),
                                   Plain("single"), Plain("copy"), Plain("copy")>>) >>,
    << In(2, {1, 3}, GccLoop(0, 4, 1, "runtime", 0, FALSE, TRUE), <<GccSections(2, FALSE)>>),
       In(0, {2}, GccSections(3, TRUE), <<Plain("barrier")>>) >>,
    << In(0, {1, 2}, GccLoop(3, 3, 1, "dynamic", 1, FALSE, TRUE), <<GccLoop(3, 3, 1, "dynamic", 1, FALSE, TRUE),
                     GccLoop(4, -1, -1, "dynamic", 2, TRUE, FALSE)>>) >>,
    << In(0, {2, 3}, NoLoopHere, <<GccLoop(0, 5, 1, "static", 2, TRUE, TRUE), GccLoop(0, 3, 1, "static", 0, FALSE, FALSE),
                     UllLoop("up", 0, 3, 2), Plain("single")>>) >>,
    << In(0, {2}, NoLoopHere, <<GccDoacross(3), GccCritical("unnamed"), GccCritical("name"), GccCritical("atomic")>>),
       In(1, {2}, NoLoopHere, <<GccSections(2, FALSE), Plain("copy")>>) >>,
    << In(0, {1, 2}, NoLoopHere, <<Plain("group"), GccTask(TRUE, <<"x">>, 1), GccTask(TRUE, <<"y", "x">>, 1),
                     Plain("endgroup"), GccTask(FALSE, <<>>, 0)>>) >>,
    << In(0, {2}, NoLoopHere, <<GccTask(TRUE, <<"x">>, 0), GccTask(TRUE, <<"x">>, 0), GccTask(TRUE, <<"x">>, 1),
                     Plain("taskwait"), GccTask(TRUE, <<>>, 0)>>) >>,
    << In(0, {2, 3}, NoLoopHere, <<GccCritical("name"), GccCritical("unnamed"), GccCritical("name")>>) >> }

Downwards == { OneBarrier, << In(0, {2}, NoLoopHere, <<UllLoop("down", 3, 0, 1)>>) >> }

-----------------------------------------------------------------------------
Combine == INSTANCE Collectives WITH
    MaxNproc <- 3, Programs <- CombiningPrograms, TeamsizeCutoff <- 2, NumBuffers <- 2,
    Dims <- TwoDims, Sinks <- TwoSinks, at <- spot, pc <- stage, crit <- name, arrived <- came,
    copypriv <- sent, priv <- mine, ran <- done
Gcc == INSTANCE Gomp WITH
    RunSched <- GuidedRun, MaxTeam <- 3, done <- ranOf, construct <- turn, mine <- turns,
    came <- arrivals, local <- value, total <- sums

combineVars == <<nproc, prog, force, atTeams, spot, stage, th, method, name, came, released,
                 total, reg, single, sent, copied, buffer, area, mine, taken, done>>
gccVars == <<gcc, region, size, serial, place, step, range, own, disp, ranOf, turn, turns,
             winner, data, got, arrivals, posted, crashed, value, tasks, group, holder, sums>>

(* What a part does not run is given its smallest program.                 *)
For(kind, values, nothing) == IF part = kind THEN values ELSE {nothing}

MCInit ==
    /\ part \in Parts
    /\ program \in For("loops", Programs, Two(<<>>)) /\ Init
    /\ \E p \in For("data", CombiningPrograms, Combining(1, <<>>)) : nproc = p.nproc /\ prog = p.constructs
    /\ force \in For("data", Forced, "none")
    /\ (\A c \in DOMAIN prog : prog[c].kind = "doacross") => force = "none"
    /\ atTeams \in For("data", BOOLEAN, FALSE)
    /\ Combine!CollectInit
    /\ gcc \in For("gcc", GccPrograms, OneBarrier) /\ Gcc!GompInit

MCNext ==
    \/ part = "loops" /\ Next /\ UNCHANGED <<part, combineVars, gccVars>>
    \/ part = "data" /\ Combine!CollectNext /\ UNCHANGED <<part, vars, gccVars>>
    \/ part = "gcc" /\ Gcc!GompNext /\ UNCHANGED <<part, vars, combineVars>>

(* Threads wait by not taking a step, so that it is enough that some       *)
(* thread that can go on does.                                             *)
MCFairness ==
    /\ WF_vars(part = "loops" /\ Next)
    /\ WF_combineVars(part = "data" /\ Combine!CollectNext)
    /\ WF_gccVars(part = "gcc" /\ Gcc!GompNext)

MCSpec == MCInit /\ [][MCNext]_<<part, vars, combineVars, gccVars>> /\ MCFairness

-----------------------------------------------------------------------------
(* Ordered regions and doacross iterations run in the order of the loop,   *)
(* and critical and ordered regions one thread at a time                   *)
(* (kmp_dispatch.cpp:1100-1180, kmp_csupport.cpp:1040-1560, 3790-4100).    *)
RegionsInOrder == part = "loops" => InSequence /\ OneThreadAtATime

(* Reductions, copyprivate and doacross loops over several dimensions give *)
(* every thread what the others have put in (kmp_csupport.cpp:2030-4130).  *)
DataCombined == part = "data" => Combine!DataCombined

(* A program as GCC compiles it has every iteration, section, task and     *)
(* single run once and in its order (kmp_gsupport.cpp).                    *)
GompConstructs == part = "gcc" => Gcc!GompConstructs

(* Every thread of a team comes to the end of its program.                 *)
WorksharingEnds ==
    /\ part = "loops" => Completes
    /\ part = "data" => Combine!ConstructsEnd
    /\ part = "gcc" => Gcc!GompEnds
=============================================================================
