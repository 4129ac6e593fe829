---------------------------------- MODULE Gomp ----------------------------------
(***************************************************************************)
(* The entry points that GCC's code calls (kmp_gsupport.cpp): parallel     *)
(* regions with and without a loop or sections in the same call, loops     *)
(* whose bounds GCC gives and takes half open while the dispatcher works   *)
(* with inclusive ones, doacross loops, sections, single and copyprivate,  *)
(* critical and atomic, and tasks with captured data and dependences.      *)
(*                                                                         *)
(* A program is a sequence of regions, each a sequence of constructs; the  *)
(* threads of its team go through them as GCC's code does.  What the entry *)
(* points call (dispatcher, barriers, task queues) is modelled by what it  *)
(* promises here, and in detail in Worksharing, Barrier and Tasking.       *)
(***************************************************************************)
EXTENDS Integers, Sequences, FiniteSets

CONSTANTS GccPrograms,  \* sequences of [threads, combined, body, sizes]
          RunSched,     \* the run-sched-var: [sched, chunk]
          MaxTeam       \* threads a team can have

VARIABLES gcc, region,       \* the program and the region thread 0 is in
          size, serial,      \* its team; t_serialized
          place, step,       \* each thread: its construct and the step of it
          range,             \* *p_lb and *p_ub as GCC's code got them
          own,               \* th_dispatch: the thread's part of its loop
          disp,              \* t_disp_buffer: iterations handed out, ordered ones done
          done,              \* how often each iteration or section ran, by construct
          construct, mine,   \* t_construct and this_construct
          winner, data, got, \* who ran a single; t_copypriv_data, what was copied
          came,              \* barriers each thread has arrived at
          posted, crashed,   \* doacross flags; a NULL th_doacross_info was read
          local, tasks, group,  \* a variable of each thread, its tasks and taskgroup
          holder, total      \* locks of critical and atomic, the sum each protects

flowVars == <<gcc, region, size, serial, place, step>>
loopVars == <<range, own, disp, done, posted, crashed>>
copyData == <<construct, mine, winner, data, got>>
taskVars == <<local, tasks, group>>
lockVars == <<holder, total>>
gompVars == <<flowVars, loopVars, copyData, came, taskVars, lockVars>>

Threads == 0..(MaxTeam - 1)
Team == 0..(size - 1)
Nothing == -1
Locks == {"unnamed", "name", "atomic"}
Values == -1..8   \* of the loop variables
NoLoop == [sched |-> "none"]
NoChunk == [loop |-> NoLoop, count |-> 0, low |-> 0, up |-> 0, bumped |-> 0, info |-> FALSE]
Sites == {<<r, c>> : r \in 1..Len(gcc), c \in 0..6}
NoSites(v) == [s \in Sites |-> v]

GompInit ==
    /\ gcc \in GccPrograms /\ region = 1 /\ size = 0 /\ serial = FALSE
    /\ place = [t \in Threads |-> 0] /\ step = [t \in Threads |-> IF t = 0 THEN "fork" ELSE "out"]
    /\ range = [t \in Threads |-> <<0, 0>>] /\ own = [t \in Threads |-> NoChunk]
    /\ disp = NoSites([taken |-> 0, ordered |-> 0]) /\ done = NoSites([v \in Values |-> 0])
    /\ construct = 0 /\ mine = [t \in Threads |-> 0] /\ winner = NoSites({})
    /\ data = <<>> /\ got = NoSites([t \in Threads |-> <<>>])
    /\ came = [t \in Threads |-> 0] /\ posted = NoSites({}) /\ crashed = FALSE
    /\ local = [t \in Threads |-> 0] /\ tasks = <<>> /\ group = [t \in Threads |-> FALSE]
    /\ holder = [l \in Locks |-> Nothing] /\ total = [l \in Locks |-> <<0, 0>>]

Region == gcc[region]
Site(t) == <<region, place[t]>>
Here(t) == IF place[t] = 0 THEN Region.combined ELSE Region.body[place[t]]
At(t, kinds, s) ==
    step[t] = s /\ place[t] \in (IF Region.combined.kind = "none" THEN 1 ELSE 0)..Len(Region.body)
                /\ Here(t).kind \in kinds
Goto(t, s) == step' = [step EXCEPT ![t] = s] /\ UNCHANGED <<gcc, region, size, serial, place>>
Leave(t) ==
    /\ place' = [place EXCEPT ![t] = @ + 1]
    /\ step' = [step EXCEPT ![t] = IF place[t] = Len(Region.body) THEN "join" ELSE "at"]
    /\ UNCHANGED <<gcc, region, size, serial>>

--------------------------------------------------------------------------------
(* Loops: half-open bounds of GCC, inclusive bounds of the dispatcher.     *)
Ull(c) == c.kind = "loop" /\ c.ull # "no"
Stride(c) == IF c.ull = "down" THEN 0 - c.str ELSE c.str   \* str2 of the ull versions

(* The test before KMP_DISPATCH_INIT: in the ull versions str is unsigned. *)
Nonempty(c) == IF c.str > 0 THEN c.lb < c.ub ELSE c.lb > c.ub
Inclusive(c) == IF Stride(c) > 0 THEN c.ub - 1 ELSE c.ub + 1

(* The arguments of KMP_DISPATCH_INIT.  Sections are the iterations        *)
(* 1..count of a dynamic loop whose chunks of 1 must not be merged.        *)
RuntimeSched(c) == IF c.sched = "runtime" THEN RunSched ELSE [sched |-> c.sched, chunk |-> c.chunk]
LoopInit(c) == [lb |-> c.lb, ub |-> Inclusive(c), st |-> Stride(c), merge |-> TRUE, ordered |-> c.ordered,
                sched |-> RuntimeSched(c).sched, chunk |-> RuntimeSched(c).chunk]
SectionsInit(c) == [lb |-> 1, ub |-> c.count, st |-> 1, merge |-> FALSE, ordered |-> FALSE,
                    sched |-> "dynamic", chunk |-> 1]
DoacrossInit(c) == [lb |-> 0, ub |-> c.counts - 1, st |-> 1, merge |-> TRUE, ordered |-> FALSE,
                    sched |-> c.sched, chunk |-> c.chunk]
InitOf(c) == CASE c.kind = "loop" -> LoopInit(c)
               [] c.kind = "sections" -> SectionsInit(c)
               [] c.kind = "doacross" -> DoacrossInit(c)

(* __kmp_dispatch_init: the trip count from the inclusive bounds.          *)
Trips(l) == IF l.st > 0 THEN (IF l.ub >= l.lb THEN ((l.ub - l.lb) \div l.st) + 1 ELSE 0)
                        ELSE (IF l.ub <= l.lb THEN ((l.lb - l.ub) \div (0 - l.st)) + 1 ELSE 0)

Least(a, b) == IF a < b THEN a ELSE b
Portion(first, n, trips) == IF first < trips THEN {<<first, Least(first + n, trips) - 1>>} ELSE {}

(* The intervals of iteration numbers __kmp_dispatch_next may give t: a    *)
(* serialized team gets the rest in one piece, or in chunks when the       *)
(* schedule forbids to merge them.                                         *)
Chunks(t, mineNow) ==
    LET l == mineNow.loop
        trips == Trips(l)
        taken == disp[Site(t)].taken
        share == (trips + size - 1) \div size
    IN  IF serial THEN Portion(mineNow.count, IF l.merge THEN trips ELSE l.chunk, trips)
        ELSE CASE l.sched = "static" /\ l.chunk = 0 ->
                      IF mineNow.count = 0 THEN Portion(t * share, share, trips) ELSE {}
               [] l.sched = "static" -> Portion(l.chunk * (t + mineNow.count * size), l.chunk, trips)
               [] l.sched = "dynamic" -> Portion(taken, l.chunk, trips)
               [] OTHER -> UNION {Portion(taken, n, trips) : n \in Least(l.chunk, trips)..trips}

(* What is added to *p_ub: a start looks at str, a next at the stride that *)
(* the dispatcher returns.                                                 *)
StartEnd(c) == IF (IF Ull(c) THEN c.str ELSE Stride(c)) > 0 THEN 1 ELSE -1
NextEndUp(l) == 1   \* mutant: whatever the direction
NextEnd(l) == IF l.st > 0 THEN 1 ELSE -1

(* KMP_DISPATCH_NEXT with the thread's part p of its loop, the bounds      *)
(* handed to GCC's code, and KMP_DOACROSS_FINI when there is no more.      *)
TakeChunk(t, p, ubStep) ==
    LET l == p.loop IN
    IF Chunks(t, p) = {}
    THEN own' = [own EXCEPT ![t] = NoChunk] /\ UNCHANGED <<range, disp>> /\ Goto(t, "end")
    ELSE \E chunk \in Chunks(t, p) :
            /\ range' = [range EXCEPT ![t] = <<l.lb + chunk[1] * l.st, l.lb + chunk[2] * l.st + ubStep>>]
            /\ own' = [own EXCEPT ![t] = [p EXCEPT !.low = chunk[1], !.up = chunk[2], !.bumped = 0,
                                             !.count = IF serial THEN chunk[2] + 1 ELSE @ + 1]]
            /\ disp' = IF serial \/ l.sched = "static" THEN disp
                       ELSE [disp EXCEPT ![Site(t)].taken = chunk[2] + 1]
            /\ Goto(t, "run")

Part(c) == [NoChunk EXCEPT !.loop = InitOf(c), !.info = (c.kind = "doacross" /\ ~serial)]
LoopRest == <<done, posted, crashed, copyData, came, taskVars, lockVars>>

(* GOMP_loop_*_start and GOMP_loop_ull_*_start.                            *)
LoopStart(t) ==
    /\ At(t, {"loop"}, "at")
    /\ IF Nonempty(Here(t)) THEN TakeChunk(t, Part(Here(t)), StartEnd(Here(t)))
                            ELSE Goto(t, "end") /\ UNCHANGED <<range, own, disp>>
    /\ UNCHANGED LoopRest

SectionsStart(t) ==
    /\ At(t, {"sections"}, "at") /\ TakeChunk(t, Part(Here(t)), 1) /\ UNCHANGED LoopRest

(* GOMP_loop_doacross_*_start and GOMP_loop_ull_doacross_*_start.          *)
DoacrossStart(t) ==
    /\ At(t, {"doacross"}, "at") /\ TakeChunk(t, Part(Here(t)), 1) /\ UNCHANGED LoopRest

(* KMP_DISPATCH_INIT of a combined region: thread 0 in the entry point,    *)
(* the others in __kmp_GOMP_parallel_microtask_wrapper.                    *)
CombinedInit(t) ==
    /\ own' = [own EXCEPT ![t] = Part(Here(t))] /\ Goto(t, "next")
    /\ UNCHANGED <<range, disp, LoopRest>>
WorkerInit(t) == t # 0 /\ At(t, {"loop", "sections"}, "init") /\ CombinedInit(t)
ParallelLoop(t) == t = 0 /\ At(t, {"loop"}, "init") /\ CombinedInit(t)
ParallelSections(t) == t = 0 /\ At(t, {"sections"}, "init") /\ CombinedInit(t)

(* Mutant: only chunks without any ordered region are counted.             *)
FiniChunkWhole(t) ==
    /\ At(t, {"loop"}, "fini")
    /\ disp' = IF serial \/ own[t].bumped > 0 THEN disp
               ELSE [disp EXCEPT ![Site(t)].ordered = @ + own[t].up - own[t].low + 1]
    /\ own' = [own EXCEPT ![t].bumped = 0] /\ Goto(t, "next")
    /\ UNCHANGED <<range, LoopRest>>

(* KMP_DISPATCH_FINI_CHUNK: the iterations of the chunk that had no        *)
(* ordered region are counted once the chunks before it are over.          *)
FiniChunk(t) ==
    LET p == own[t]  rest == p.up - p.low + 1 - p.bumped IN
    /\ At(t, {"loop"}, "fini")
    /\ serial \/ rest = 0 \/ disp[Site(t)].ordered >= p.low
    /\ disp' = IF serial THEN disp ELSE [disp EXCEPT ![Site(t)].ordered = @ + rest]
    /\ own' = [own EXCEPT ![t].bumped = 0] /\ Goto(t, "next")
    /\ UNCHANGED <<range, LoopRest>>

(* GOMP_loop_*_next, GOMP_loop_ull_*_next and GOMP_sections_next.          *)
LoopNext(t) ==
    /\ At(t, {"loop", "doacross"}, "next")
    /\ TakeChunk(t, own[t], NextEnd(own[t].loop))
    /\ UNCHANGED LoopRest

SectionsNext(t) ==
    /\ At(t, {"sections"}, "next") /\ TakeChunk(t, own[t], 1) /\ UNCHANGED LoopRest

--------------------------------------------------------------------------------
(* GCC's code between the calls: the iterations of the range it was given. *)
More(t) == IF own[t].loop.st > 0 THEN range[t][1] < range[t][2] ELSE range[t][1] > range[t][2]
RunOne(t) ==
    /\ done' = [done EXCEPT ![Site(t)][range[t][1]] = @ + 1]
    /\ range' = [range EXCEPT ![t][1] = @ + own[t].loop.st]

AfterRange(t) ==
    /\ At(t, {"loop", "sections", "doacross"}, "run") /\ ~More(t)
    /\ Goto(t, IF own[t].loop.ordered THEN "fini" ELSE "next")
    /\ UNCHANGED <<loopVars, copyData, came, taskVars, lockVars>>

OrderedIn(v) == v % 2 = 0   \* the iterations that have an ordered region
Iterate(t) ==
    /\ At(t, {"loop", "sections"}, "run") /\ More(t)
    /\ IF own[t].loop.ordered /\ OrderedIn(range[t][1])
       THEN (* GOMP_ordered_start waits for the chunk's turn *)
            /\ serial \/ disp[Site(t)].ordered >= own[t].low
            /\ Goto(t, "ordered")
       ELSE UNCHANGED flowVars
    /\ RunOne(t)
    /\ UNCHANGED <<own, disp, posted, crashed, copyData, came, taskVars, lockVars>>

OrderedEnd(t) ==
    /\ At(t, {"loop"}, "ordered")
    /\ IF serial THEN UNCHANGED <<disp, own>>
       ELSE /\ disp' = [disp EXCEPT ![Site(t)].ordered = @ + 1]
            /\ own' = [own EXCEPT ![t].bumped = @ + 1]
    /\ Goto(t, "run")
    /\ UNCHANGED <<range, LoopRest>>

(* An iteration of a doacross loop waits for the one before it.  GCC calls *)
(* GOMP_doacross_wait, which takes the number of dimensions from           *)
(* th_doacross_info, and then GOMP_doacross_post.                          *)
DoacrossIteration(t) ==
    LET i == range[t][1] IN
    /\ At(t, {"doacross"}, "run") /\ More(t)
    /\ (i > 0 /\ own[t].info) => (i - 1) \in posted[Site(t)]
    /\ crashed' = (crashed \/ (i > 0 /\ ~own[t].info))
    /\ posted' = IF own[t].info THEN [posted EXCEPT ![Site(t)] = @ \cup {i}] ELSE posted
    /\ RunOne(t)
    /\ UNCHANGED <<own, disp, flowVars, copyData, came, taskVars, lockVars>>

(* GOMP_loop_end and GOMP_sections_end, and their nowait versions.         *)
EndLoop(t) ==
    /\ At(t, {"loop", "sections", "doacross"}, "end")
    /\ IF Here(t).nowait THEN Leave(t) /\ UNCHANGED came
       ELSE Goto(t, "barrier") /\ came' = [came EXCEPT ![t] = @ + 1]
    /\ UNCHANGED <<loopVars, copyData, taskVars, lockVars>>

--------------------------------------------------------------------------------
(* Barriers and the constructs built on them.  A thread that waits runs    *)
(* tasks (RunTask), and the barrier is over when no task is left.          *)
Arrive(t) == came' = [came EXCEPT ![t] = @ + 1]
Released(t) ==
    \/ serial
    \/ \A u \in Team : came[u] >= came[t] /\ \A i \in DOMAIN tasks : tasks[i].state = "done"
Waits(t) == step[t] \in {"barrier", "set", "copied", "copy", "taskwait", "join"}
OnlyFlow == <<loopVars, copyData, came, taskVars, lockVars>>

BarrierStart(t) ==
    /\ At(t, {"barrier"}, "at") /\ Arrive(t) /\ Goto(t, "barrier")
    /\ UNCHANGED <<loopVars, copyData, taskVars, lockVars>>

BarrierEnd(t) ==
    /\ step[t] = "barrier" /\ Released(t) /\ Leave(t)
    /\ UNCHANGED OnlyFlow

(* GOMP_single_start and GOMP_single_copy_start: __kmp_enter_single.       *)
EnterSingle(t) ==
    /\ At(t, {"single", "copy"}, "at")
    /\ LET wins == serial \/ construct = mine[t] IN
       /\ IF serial THEN UNCHANGED <<construct, mine>>
          ELSE /\ mine' = [mine EXCEPT ![t] = @ + 1]
               /\ construct' = IF wins THEN mine[t] + 1 ELSE construct
       /\ winner' = IF wins THEN [winner EXCEPT ![Site(t)] = @ \cup {t}] ELSE winner
       /\ IF Here(t).kind = "single" THEN Leave(t) /\ UNCHANGED came
          ELSE /\ Goto(t, IF wins THEN "body" ELSE "copy")
               /\ IF wins THEN UNCHANGED came ELSE Arrive(t)
    /\ UNCHANGED <<loopVars, data, got, taskVars, lockVars>>

(* GOMP_single_copy_end: the pointer, then two barriers.                   *)
CopyEnd(t) ==
    /\ At(t, {"copy"}, "body")
    /\ data' = <<Site(t), t>> /\ Arrive(t) /\ Goto(t, "set")
    /\ UNCHANGED <<loopVars, construct, mine, winner, got, taskVars, lockVars>>

SecondBarrier(t) ==
    /\ step[t] = "set" /\ Released(t) /\ Arrive(t) /\ Goto(t, "copied")
    /\ UNCHANGED <<loopVars, copyData, taskVars, lockVars>>

(* The others read t_copypriv_data between the two barriers.               *)
CopyRead(t) ==
    /\ step[t] = "copy" /\ Released(t)
    /\ got' = [got EXCEPT ![Site(t)][t] = data] /\ Arrive(t) /\ Goto(t, "copied")
    /\ UNCHANGED <<loopVars, construct, mine, winner, data, taskVars, lockVars>>

(* The one who ran the single uses its data again after the construct.     *)
CopyDone(t) ==
    /\ step[t] = "copied" /\ Released(t) /\ Leave(t)
    /\ UNCHANGED OnlyFlow

(* GOMP_critical_start, GOMP_critical_name_start and GOMP_atomic_start:    *)
(* then a sum is read, and written before the call that ends the section.  *)
LockStart(t) ==
    /\ At(t, {"critical"}, "at") /\ holder[Here(t).lock] = Nothing
    /\ holder' = [holder EXCEPT ![Here(t).lock] = t]
    /\ local' = [local EXCEPT ![t] = total[Here(t).lock][1]] /\ Goto(t, "locked")
    /\ UNCHANGED <<loopVars, copyData, came, tasks, group, total>>

LockEnd(t) ==
    /\ At(t, {"critical"}, "locked")
    /\ holder' = [holder EXCEPT ![Here(t).lock] = Nothing]
    /\ total' = [total EXCEPT ![Here(t).lock] = <<local[t] + 1, @[2] + 1>>] /\ Leave(t)
    /\ UNCHANGED <<loopVars, copyData, came, taskVars>>

--------------------------------------------------------------------------------
(* Tasks.  The variable of the creating thread changes after the call: a   *)
(* task must see the value it was created with.                            *)
Change(t) == local' = [local EXCEPT ![t] = (@ + 1) % 3]

(* dep_list: the first nout addresses are written, all are read.           *)
Outs(c) == {c.depend[i] : i \in 1..c.nout}
Ins(c) == {c.depend[i] : i \in 1..Len(c.depend)}
Clash(a, b) == a.outs \cap b.ins # {} \/ a.ins \cap b.outs # {}
Before(i) == {j \in 1..(i - 1) : tasks[j].by = tasks[i].by /\ Clash(tasks[j], tasks[i])}

(* shareds: a copy of the arguments, which an undeferred task has not.     *)
Captured(t) == [copy |-> TRUE, value |-> local[t]]
Sees(k) == IF k.args.copy THEN k.args.value ELSE local[k.by]

GompTask(t) ==
    LET c == Here(t) IN
    /\ At(t, {"task"}, "at")
    /\ tasks' = Append(tasks, [by |-> t, site |-> Site(t), wrote |-> local[t], saw |-> Nothing,
                               outs |-> Outs(c), ins |-> Ins(c), group |-> group[t],
                               args |-> IF c.cond THEN Captured(t) ELSE [copy |-> FALSE],
                               state |-> IF c.cond /\ ~serial THEN "queued" ELSE "now"])
    /\ IF c.cond /\ ~serial THEN Change(t) /\ Leave(t) ELSE UNCHANGED local /\ Goto(t, "now")
    /\ UNCHANGED <<loopVars, copyData, came, group, lockVars>>

Ended(i) == tasks' = [tasks EXCEPT ![i].state = "done", ![i].saw = Sees(tasks[i])]

(* if (0): __kmpc_omp_task_begin_if0, func(data), ...complete_if0; and in a *)
(* serialized team every task runs where it is created.                    *)
RunNow(t) ==
    /\ At(t, {"task"}, "now")
    /\ \E i \in DOMAIN tasks : tasks[i].by = t /\ tasks[i].state = "now" /\ Ended(i)
    /\ Change(t) /\ Leave(t)
    /\ UNCHANGED <<loopVars, copyData, came, group, lockVars>>

(* A thread that waits runs a queued task whose predecessors are done.     *)
RunTask(t) ==
    /\ t \in Team /\ Waits(t)
    /\ \E i \in DOMAIN tasks :
          tasks[i].state = "queued" /\ (\A j \in Before(i) : tasks[j].state = "done") /\ Ended(i)
    /\ UNCHANGED <<flowVars, loopVars, copyData, came, local, group, lockVars>>

Children(t) == {i \in DOMAIN tasks : tasks[i].by = t /\ tasks[i].state # "done"}

TaskwaitStart(t) ==
    /\ At(t, {"taskwait", "endgroup"}, "at") /\ Goto(t, "taskwait")
    /\ UNCHANGED OnlyFlow

(* GOMP_taskwait, and GOMP_taskgroup_end for the tasks of the group.       *)
TaskwaitEnd(t) ==
    LET grouped == Here(t).kind = "endgroup" IN
    /\ At(t, {"taskwait", "endgroup"}, "taskwait")
    /\ {i \in Children(t) : grouped => tasks[i].group} = {}
    /\ group' = IF grouped THEN [group EXCEPT ![t] = FALSE] ELSE group
    /\ Leave(t)
    /\ UNCHANGED <<loopVars, copyData, came, local, tasks, lockVars>>

TaskgroupStart(t) ==
    /\ At(t, {"group"}, "at") /\ group' = [group EXCEPT ![t] = TRUE] /\ Leave(t)
    /\ UNCHANGED <<loopVars, copyData, came, local, tasks, lockVars>>

--------------------------------------------------------------------------------
(* Parallel regions.                                                       *)
Enter(t) == IF t \notin 0..(size' - 1) THEN "out" ELSE IF Region.combined.kind = "none" THEN "at" ELSE "init"

(* GOMP_parallel and the combined entry points: num_threads(1) serializes, *)
(* and so does __kmp_fork_call when it gets no second thread.              *)
Fork ==
    /\ step[0] = "fork"
    /\ \E n \in Region.sizes : size' = IF Region.threads = 0 THEN n ELSE Least(n, Region.threads)
    /\ serial' = (size' = 1)
    /\ place' = [t \in Threads |-> IF Region.combined.kind = "none" THEN 1 ELSE 0]
    /\ step' = [t \in Threads |-> Enter(t)]
    /\ construct' = 0 /\ mine' = [t \in Threads |-> 0]
    /\ UNCHANGED <<gcc, region, loopVars, winner, data, got, came, taskVars, lockVars>>

(* GOMP_parallel_end: __kmp_join_call, whose barrier runs the tasks left,  *)
(* or __kmpc_end_serialized_parallel.                                      *)
Join ==
    /\ step[0] = "join" /\ \A t \in Team : step[t] = "join"
    /\ \A i \in DOMAIN tasks : tasks[i].state = "done"
    /\ size' = 0 /\ serial' = FALSE
    /\ region' = region + 1 /\ place' = [t \in Threads |-> 0]
    /\ step' = [t \in Threads |-> IF t # 0 THEN "out" ELSE IF region = Len(gcc) THEN "end" ELSE "fork"]
    /\ came' = [t \in Threads |-> 0]
    /\ UNCHANGED <<gcc, loopVars, copyData, taskVars, lockVars>>

ThreadStep(t) ==
    \/ LoopStart(t) \/ SectionsStart(t) \/ DoacrossStart(t) \/ FiniChunk(t) \/ LoopNext(t)
    \/ WorkerInit(t) \/ ParallelLoop(t) \/ ParallelSections(t) \/ SectionsNext(t)
    \/ AfterRange(t) \/ Iterate(t) \/ OrderedEnd(t) \/ DoacrossIteration(t) \/ EndLoop(t)
    \/ BarrierStart(t) \/ BarrierEnd(t) \/ EnterSingle(t) \/ CopyEnd(t) \/ SecondBarrier(t)
    \/ CopyRead(t) \/ CopyDone(t) \/ LockStart(t) \/ LockEnd(t)
    \/ GompTask(t) \/ RunNow(t) \/ RunTask(t) \/ TaskwaitStart(t) \/ TaskwaitEnd(t) \/ TaskgroupStart(t)

GompNext == Fork \/ Join \/ \E t \in Team : ThreadStep(t)

(* Every thread of the team is a system thread; locks are given up.        *)
GompFairness == WF_gompVars(Fork) /\ WF_gompVars(Join)
                /\ \A t \in Threads : WF_gompVars(t \in Team /\ ThreadStep(t))
                                      /\ SF_gompVars(t \in Team /\ LockStart(t))

GompSpec == GompInit /\ [][GompNext]_gompVars /\ GompFairness

--------------------------------------------------------------------------------
Body(s) == IF s[2] = 0 THEN gcc[s[1]].combined ELSE gcc[s[1]].body[s[2]]
Written(s) == s[2] <= Len(gcc[s[1]].body) /\ (s[2] = 0 => gcc[s[1]].combined.kind # "none")
Over(s) == Written(s) /\ (s[1] < region \/ (s[1] = region /\ size > 0 /\ \A t \in Team : place[t] > s[2]))

(* The iterations the program's loops have, from their bounds as written.  *)
Iterations(c) ==
    CASE c.kind = "loop" -> {v \in Values : IF Stride(c) > 0
                               THEN v >= c.lb /\ v < c.ub /\ (v - c.lb) % Stride(c) = 0
                               ELSE v <= c.lb /\ v > c.ub /\ (c.lb - v) % (0 - Stride(c)) = 0}
      [] c.kind = "sections" -> 1..c.count
      [] c.kind = "doacross" -> 0..(c.counts - 1)
      [] OTHER -> {}

(* Each iteration and each section runs once, and none besides.            *)
EachOnce ==
    \A s \in Sites : Written(s) =>
        \A v \in Values : /\ done[s][v] <= (IF v \in Iterations(Body(s)) THEN 1 ELSE 0)
                          /\ Over(s) /\ v \in Iterations(Body(s)) => done[s][v] = 1

(* Ordered regions and doacross iterations run in the order of the loop.   *)
InOrder ==
    \A s \in Sites : Written(s) /\ (Body(s).kind = "doacross" \/ (Body(s).kind = "loop" /\ Body(s).ordered)) =>
        \A v, w \in {v \in Iterations(Body(s)) : Body(s).kind = "loop" => OrderedIn(v)} :
            done[s][v] = 1 /\ (IF Body(s).kind = "loop" /\ Stride(Body(s)) < 0 THEN w > v ELSE w < v)
                => done[s][w] = 1

(* A single has one winner, whose data the others get.                     *)
OneWinner ==
    \A s \in Sites : Written(s) =>
        /\ Cardinality(winner[s]) <= 1
        /\ Over(s) /\ Body(s).kind \in {"single", "copy"} => winner[s] # {}
        /\ \A t \in Threads : got[s][t] # <<>> => got[s][t][1] = s /\ winner[s] = {got[s][t][2]}

(* A task sees the data it was created with, runs after those it depends   *)
(* on, and is done when the taskwait or the taskgroup after it ends.       *)
Awaited(i) ==
    LET k == tasks[i] IN
    k.site[1] = region /\ \E w \in (k.site[2] + 1)..(place[k.by] - 1) :
        Region.body[w].kind = "taskwait" \/ (Region.body[w].kind = "endgroup" /\ k.group)
TasksRight ==
    \A i \in DOMAIN tasks :
        /\ tasks[i].state = "done" => /\ tasks[i].saw = tasks[i].wrote
                                      /\ \A j \in Before(i) : tasks[j].state = "done"
        /\ Awaited(i) => tasks[i].state = "done"

(* The constructs of GCC's code do what OpenMP says: no iteration or       *)
(* section is lost or repeated between the half-open ranges of GCC and the *)
(* inclusive ones of the dispatcher, ordered parts keep their order,       *)
(* copyprivate data and the data of tasks arrive, sums are not lost.       *)
GompConstructs == /\ EachOnce /\ InOrder /\ OneWinner /\ TasksRight
                  /\ \A l \in Locks : total[l][1] = total[l][2]

(* A team that is serialized has no doacross flags; the entry points of a  *)
(* doacross loop must not look for them ("no dependencies if team is       *)
(* serialized").                                                           *)
NoFlagsNoWait == ~crashed

(* Every program comes to its end: no thread waits for ever in an ordered  *)
(* region, a barrier, a taskwait or for a doacross flag.                   *)
GompEnds == <>(step[0] = "end")

=================================================================================
