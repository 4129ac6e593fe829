------------------------------ MODULE Taskloop ------------------------------
(***************************************************************************)
(* The taskloop construct and task reductions (kmp_tasking.cpp, and the     *)
(* GOMP entry to it in kmp_gsupport.cpp).                                   *)
(*                                                                          *)
(* One task, run by thread 0, opens the taskgroups of its program with the  *)
(* reduction items of each, meets a taskloop, closes the groups (or waits   *)
(* for its children) and stops.  The other threads of the team are at the   *)
(* barrier and run whatever tasks they find.  A thread is a stack of      *)
(* frames: a loop frame is a call of __kmp_taskloop_recur or _linear, an    *)
(* aux frame the auxiliary task that made such a call, a work frame a task  *)
(* of the loop.                                                             *)
(***************************************************************************)
EXTENDS Integers, SequencesExt, FiniteSetsExt

CONSTANTS Programs,    \* the programs the initial states choose from
          Lazy,        \* reduction items with flags.lazy_priv
          DequeSize    \* tasks a thread's deque holds before it is full

Missing == -1          \* no private copy has been allocated

VARIABLES prog,        \* the program: groups, loop, clauses, team size
          pc,          \* where the encountering task is in it
          groups,      \* its open taskgroups: items and count of tasks
          children,    \* td_incomplete_child_tasks of the encountering task
          priv,        \* reduce_priv: item -> thread -> copy
          shared,      \* reduce_shar: item -> value
          frames,       \* thread -> frames, the innermost last
          ready,       \* thread -> tasks in its deque
          ran          \* the loop tasks that have been executed

loopVars == <<prog, pc, groups, children, priv, shared, frames, ready, ran>>

Team == 0 .. prog.nth - 1
Items == UNION {prog.groups[g] : g \in DOMAIN prog.groups}

-----------------------------------------------------------------------------
(* The arithmetic of the construct.                                         *)

\* The trip count: unsigned, so that only the empty loop of stride 1 is 0.
TripCount(lo, hi, st) ==
  IF st < 0 THEN (lo - hi) \div (-st) + 1 ELSE (hi - lo) \div st + 1

Trips == IF prog.hi - prog.lo = -1 /\ prog.st = 1
         THEN 0 ELSE TripCount(prog.lo, prog.hi, prog.st)

\* num_tasks, grainsize and extras for tc iterations: the clause is none (0),
\* grainsize (1) or num_tasks (2).
ManyTasks(tasks, tc) ==
  IF tasks > tc THEN [n |-> tc, gr |-> 1, ext |-> 0]
                ELSE [n |-> tasks, gr |-> tc \div tasks, ext |-> tc % tasks]

LongTasks(size, tc) ==
  IF size > tc THEN [n |-> 1, gr |-> tc, ext |-> 0]
  ELSE LET tasks == tc \div size
       IN  [n |-> tasks, gr |-> tc \div tasks, ext |-> tc % tasks]

Shares(tc) ==
  CASE prog.sched = 0 -> ManyTasks(prog.nth * 10, tc)
    [] prog.sched = 2 -> ManyTasks(prog.size, tc)
    [] prog.sched = 1 -> LongTasks(prog.size, tc)

MinTasks == IF prog.min = 0 THEN Min({prog.nth * 10, 256}) ELSE prog.min

\* __kmp_taskloop_recur: the two halves of a range of n tasks.
FirstHalf(f) ==
  LET n0 == f.n \div 2
      more == n0 <= f.ext
      tc0 == IF more THEN (f.gr + 1) * n0 ELSE f.tc - f.gr * (f.n - n0)
  IN  [f EXCEPT !.hi = f.lo + prog.st * (tc0 - 1), !.n = n0,
                !.gr = IF more THEN f.gr + 1 ELSE f.gr,
                !.ext = IF more THEN 0 ELSE f.ext, !.tc = tc0]

\* As SecondHalf, were the extra iterations the first half takes not taken off.
SecondHalfExtras(f) ==
  LET first == FirstHalf(f)
  IN  [f EXCEPT !.lo = first.hi + prog.st, !.n = f.n - f.n \div 2,
                !.tc = f.tc - first.tc]

SecondHalf(f) ==
  LET n0 == f.n \div 2
      first == FirstHalf(f)
  IN  [f EXCEPT !.lo = first.hi + prog.st, !.n = f.n - n0,
                !.ext = IF n0 <= f.ext THEN f.ext - n0 ELSE 0,
                !.tc = f.tc - first.tc]

\* The first chunk of a range cut linearly, and the range left after it.
ChunkEnd(f) == f.lo + prog.st * (IF f.ext = 0 THEN f.gr - 1 ELSE f.gr)

AfterChunk(f) ==
  [f EXCEPT !.lo = ChunkEnd(f) + prog.st, !.n = f.n - 1,
            !.ext = IF f.ext = 0 THEN 0 ELSE f.ext - 1,
            !.tc = f.tc - (IF f.ext = 0 THEN f.gr ELSE f.gr + 1)]

\* Whether the chunk that ends a linear range is the last of the whole loop.
IsLast(f) ==
  LET upper == ChunkEnd(f)
  IN  /\ f.n = 1
      /\ IF prog.st = 1 THEN upper = prog.hi
         ELSE IF prog.st > 0 THEN prog.st > prog.hi - upper
         ELSE upper - prog.hi < -prog.st

\* A GOMP task gets an exclusive upper bound, and its body compares with it.
StoredUpper(upper) ==
  IF prog.native THEN upper + (IF prog.st > 0 THEN 1 ELSE -1) ELSE upper

Iterations(lo, stored) ==
  LET inner == IF prog.native THEN stored - (IF prog.st > 0 THEN 1 ELSE -1)
               ELSE stored
  IN  {lo + k * prog.st : k \in 0 .. (TripCount(lo, inner, prog.st) - 1)}

Space == IF Trips = 0 THEN {} ELSE {prog.lo + k * prog.st : k \in 0 .. Trips - 1}

-----------------------------------------------------------------------------
(* Tasks: a task knows whether it is a child of the encountering task and   *)
(* which taskgroup (0 for none) it was created in.                          *)

\* The task a thread runs is the encountering one unless an aux frame is open.
UnderEncountering(t) == t = 0 /\ \A i \in DOMAIN frames[t] : frames[t][i].kind # "aux"

\* A team of one thread keeps no counts (team_serial).
Counted == prog.nth > 1

TaskOf(t) == [child |-> UnderEncountering(t), grp |-> Len(groups)]

\* The counts after tasks are created and after one is finished.
CreatedIn(gs, task, k) ==
  IF Counted /\ task.grp > 0 THEN [gs EXCEPT ![task.grp].count = @ + k] ELSE gs

\* As Finished, were a task of the loop not taken off its group.
FinishedUncounted(gs, task) == gs

Finished(gs, task) == CreatedIn(gs, task, -1)

ChildCount(task, k) == IF Counted /\ task.child THEN children + k ELSE children

\* __kmp_omp_task: the task is queued, or run at once when the team or the
\* task is serial or the deque is full.
RunNow(t, task) ==
  \/ ~Counted
  \/ prog.if0 /\ task.kind = "work"
  \/ Cardinality(ready[t]) = DequeSize

\* Starting a task: an auxiliary task calls back into the loop.
Opened(task) ==
  IF task.kind = "work" THEN <<task>>
  ELSE <<[kind |-> "aux", task |-> task.task], task.loop>>

-----------------------------------------------------------------------------
(* Task reductions.                                                         *)

\* __kmpc_task_reduction_init: nothing for one thread, pointers for a lazy
\* item, initialised copies for any other.
FreshCopies(item) == [t \in Team |-> IF item \in Lazy THEN Missing ELSE 0]

\* __kmpc_task_reduction_get_th_data: the group of an item is searched from
\* the task's group through its parents.
GroupOf(item, grp) == {g \in 1 .. grp : item \in groups[g].items}

\* The contribution of a task to every item through its thread's copy.
Contribution(t, task, k) ==
  IF ~Counted THEN priv
  ELSE [i \in Items |->
          IF GroupOf(i, task.grp) = {} THEN priv[i]
          ELSE [priv[i] EXCEPT ![t] = (IF @ = Missing THEN 0 ELSE @) + k]]

\* As Combined, were the copy of the last thread of the team left out.
CombinedShort(item) ==
  shared[item] + MapThenSumSet(LAMBDA t : IF priv[item][t] = Missing THEN 0
                                           ELSE priv[item][t], Team \ {prog.nth - 1})

\* __kmp_task_reduction_fini: every copy there is goes into the shared item.
Combined(item) ==
  shared[item] + MapThenSumSet(LAMBDA t : IF priv[item][t] = Missing THEN 0
                                           ELSE priv[item][t], Team)

-----------------------------------------------------------------------------
(* GOMP_taskloop: the flags and bounds gcc passes, for __kmpc_taskloop.      *)

\* A step of a downward loop that is not sign extended is extended from its
\* highest set bit.
SignExtended(step, up) ==
  IF up \/ step < 0 THEN step
  ELSE step - Min({2 ^ b : b \in {c \in 0 .. 8 : 2 ^ c > step}})

FromGomp(c) ==
  [groups |-> c.groups, nth |-> c.nth, min |-> c.min, wait |-> c.wait,
   lo |-> c.start, hi |-> c.end + (IF c.up THEN -1 ELSE 1),
   st |-> SignExtended(c.step, c.up),
   sched |-> IF c.tasks = 0 THEN 0 ELSE IF c.grain THEN 1 ELSE 2,
   size |-> c.tasks, if0 |-> c.if0, nogroup |-> c.nogroup, native |-> TRUE]

-----------------------------------------------------------------------------
LoopInit ==
  /\ prog \in Programs
  /\ pc = "open"
  /\ groups = <<>>
  /\ children = 0
  /\ priv = [i \in Items |-> [t \in Team |-> Missing]]
  /\ shared = [i \in Items |-> 0]
  /\ frames = [t \in Team |-> <<>>]
  /\ ready = [t \in Team |-> {}]
  /\ ran = {}

\* __kmpc_taskgroup and __kmpc_task_reduction_init.
OpenGroup ==
  /\ pc = "open"
  /\ Len(groups) < Len(prog.groups)
  /\ LET items == prog.groups[Len(groups) + 1]
     IN  /\ groups' = Append(groups, [items |-> items, count |-> 0])
         /\ priv' = [i \in Items |-> IF Counted /\ i \in items
                                     THEN FreshCopies(i) ELSE priv[i]]
  /\ UNCHANGED <<prog, pc, children, shared, frames, ready, ran>>

\* __kmpc_taskloop: the pattern task was created in the groups that are open;
\* the loop opens its own unless nogroup; an empty loop ends at once.
BeginLoop ==
  /\ pc = "open"
  /\ Len(groups) = Len(prog.groups)
  /\ LET pattern == TaskOf(0)
         counted == CreatedIn(groups, pattern, 1)
         opened == IF prog.nogroup THEN counted
                   ELSE Append(counted, [items |-> {}, count |-> 0])
         s == Shares(Trips)
         loop == [kind |-> "loop", lo |-> prog.lo, hi |-> prog.hi, n |-> s.n,
                  gr |-> s.gr, ext |-> s.ext, tc |-> Trips, task |-> pattern]
     IN  IF Trips = 0
         THEN /\ pc' = "close"
              /\ groups' = Finished(opened, pattern)
              /\ UNCHANGED <<children, frames>>
         ELSE /\ pc' = "loop"
              /\ groups' = opened
              /\ children' = ChildCount(pattern, 1)
              /\ frames' = [frames EXCEPT ![0] = <<loop>>]
  /\ UNCHANGED <<prog, priv, shared, ready, ran>>

\* The innermost frame of a thread, and the frames below it.
TopFrame(t) == Last(frames[t])
Running(t, kind) == frames[t] # <<>> /\ TopFrame(t).kind = kind

\* Whether the range is split: always linear for if(0) and for GOMP loops.
Splits(f) == f.n > MinTasks /\ ~prog.if0 /\ ~prog.native

\* One round of __kmp_taskloop_recur: the second half becomes a pattern task
\* and an auxiliary task that will run it, the first stays in this frame.
SplitLoop(t) ==
  /\ Running(t, "loop")
  /\ Splits(TopFrame(t))
  /\ LET f == TopFrame(t)
         made == TaskOf(t)
         aux == [kind |-> "aux", task |-> made,
                 loop |-> [SecondHalf(f) EXCEPT !.task = made]]
         rest == Append(Front(frames[t]), FirstHalf(f))
     IN  /\ groups' = CreatedIn(groups, made, 2)
         /\ children' = ChildCount(made, 2)
         /\ IF RunNow(t, aux)
            THEN /\ frames' = [frames EXCEPT ![t] = rest \o Opened(aux)]
                 /\ UNCHANGED ready
            ELSE /\ frames' = [frames EXCEPT ![t] = rest]
                 /\ ready' = [ready EXCEPT ![t] = @ \union {aux}]
  /\ UNCHANGED <<prog, pc, priv, shared, ran>>

\* One iteration of __kmp_taskloop_linear.
LaunchChunk(t) ==
  /\ Running(t, "loop")
  /\ ~Splits(TopFrame(t))
  /\ TopFrame(t).n > 0
  /\ LET f == TopFrame(t)
         made == TaskOf(t)
         work == [kind |-> "work", lo |-> f.lo, hi |-> StoredUpper(ChunkEnd(f)),
                  last |-> IsLast(f), task |-> made]
         rest == Append(Front(frames[t]), AfterChunk(f))
     IN  /\ groups' = CreatedIn(groups, made, 1)
         /\ children' = ChildCount(made, 1)
         /\ IF RunNow(t, work)
            THEN /\ frames' = [frames EXCEPT ![t] = Append(rest, work)]
                 /\ UNCHANGED ready
            ELSE /\ frames' = [frames EXCEPT ![t] = rest]
                 /\ ready' = [ready EXCEPT ![t] = @ \union {work}]
  /\ UNCHANGED <<prog, pc, priv, shared, ran>>

\* The end of a linear loop, which frees the pattern task, and the end of an
\* auxiliary task: __kmp_task_finish.
FinishFrame(t) ==
  /\ \/ Running(t, "loop") /\ TopFrame(t).n = 0
     \/ Running(t, "aux")
  /\ groups' = Finished(groups, TopFrame(t).task)
  /\ children' = ChildCount(TopFrame(t).task, -1)
  /\ frames' = [frames EXCEPT ![t] = Front(@)]
  /\ UNCHANGED <<prog, pc, priv, shared, ready, ran>>

\* A task of the loop runs its iterations and is finished.
RunWork(t) ==
  /\ Running(t, "work")
  /\ LET w == TopFrame(t)
         k == Cardinality(Iterations(w.lo, w.hi))
     IN  /\ ran' = ran \union {w}
         /\ priv' = Contribution(t, w.task, k)
         /\ shared' = IF Counted THEN shared ELSE [i \in Items |-> shared[i] + k]
         /\ groups' = Finished(groups, w.task)
         /\ children' = ChildCount(w.task, -1)
  /\ frames' = [frames EXCEPT ![t] = Front(@)]
  /\ UNCHANGED <<prog, pc, ready>>

\* __kmp_execute_tasks: a thread at a barrier, or the encountering one in a
\* wait, takes a task from any deque.
TakeTask(t) ==
  /\ frames[t] = <<>>
  /\ t = 0 => pc \in {"closeLoop", "close"}
  /\ \E v \in Team : \E task \in ready[v] :
       /\ ready' = [ready EXCEPT ![v] = @ \ {task}]
       /\ frames' = [frames EXCEPT ![t] = Opened(task)]
  /\ UNCHANGED <<prog, pc, groups, children, priv, shared, ran>>

\* __kmpc_taskloop returns from the launching of the tasks.
Launched ==
  /\ pc = "loop"
  /\ frames[0] = <<>>
  /\ pc' = IF prog.nogroup THEN "close" ELSE "closeLoop"
  /\ UNCHANGED <<prog, groups, children, priv, shared, frames, ready, ran>>

\* __kmpc_end_taskgroup: wait until the group has no task, reduce, and return
\* to the parent group.
CloseGroup ==
  /\ pc \in {"closeLoop", "close"}
  /\ frames[0] = <<>>
  /\ groups # <<>>
  /\ Counted => Last(groups).count = 0
  /\ LET items == Last(groups).items
     IN  /\ shared' = [i \in Items |-> IF Counted /\ i \in items
                                       THEN Combined(i) ELSE shared[i]]
         /\ priv' = [i \in Items |-> IF i \in items THEN [t \in Team |-> Missing]
                                     ELSE priv[i]]
  /\ groups' = Front(groups)
  /\ pc' = "close"
  /\ UNCHANGED <<prog, children, frames, ready, ran>>

\* The program ends, after a taskwait when it has one.
Stop ==
  /\ pc = "close"
  /\ groups = <<>>
  /\ frames[0] = <<>>
  /\ prog.wait => children = 0
  /\ pc' = "done"
  /\ UNCHANGED <<prog, groups, children, priv, shared, frames, ready, ran>>

LoopStep(t) == SplitLoop(t) \/ LaunchChunk(t) \/ FinishFrame(t) \/ RunWork(t) \/ TakeTask(t)

LoopNext == OpenGroup \/ BeginLoop \/ Launched \/ CloseGroup \/ Stop
        \/ \E t \in Team : LoopStep(t)

\* The encountering task goes on, and so does a thread that has a frame; a
\* thread of the team looks for tasks again and again.
LoopFairness == WF_loopVars(LoopNext)

LoopSpec == LoopInit /\ [][LoopNext]_loopVars /\ LoopFairness

-----------------------------------------------------------------------------
(* What the construct promises.                                             *)

\* The places where iterations are: executed, in tasks that wait or run, and
\* in ranges still to be cut.
WorkTasks == ran
             \union {w \in UNION {ready[t] : t \in Team} : w.kind = "work"}
             \union {w \in UNION {Range(frames[t]) : t \in Team} : w.kind = "work"}

OpenRanges == {f \in UNION {Range(frames[t]) : t \in Team} :
                 f.kind = "loop" /\ f.n > 0}
              \union {a.loop : a \in {r \in UNION {ready[t] : t \in Team} :
                                        r.kind = "aux"}}

RangeOf(f) == {f.lo + k * prog.st : k \in 0 .. f.tc - 1}

\* Every iteration of the loop is in exactly one place, whatever halves and
\* chunks it was cut into and whoever runs them.
OnceEach ==
  pc # "open" =>
    LET pieces == {<<"w", w.lo, Iterations(w.lo, w.hi)>> : w \in WorkTasks}
                  \union {<<"r", f.lo, RangeOf(f)>> : f \in OpenRanges}
    IN  /\ UNION {p[3] : p \in pieces} = Space
        /\ MapThenSumSet(LAMBDA p : Cardinality(p[3]), pieces)
             = Cardinality(Space)

\* The lastprivate flag is given to no task but the one with the sequentially
\* last iteration, and to that one.
LastOnLast ==
  \A w \in WorkTasks :
    w.last <=> prog.lo + (Trips - 1) * prog.st \in Iterations(w.lo, w.hi)

\* num_tasks(n) makes min(n, trips) tasks; with grainsize(g) a task has at
\* least min(g, trips) and fewer than 2g iterations.
ClauseKept ==
  /\ (prog.sched = 2 /\ pc = "done" /\ Space = UNION {Iterations(w.lo, w.hi) : w \in ran})
       => Cardinality(ran) = Min({prog.size, Trips})
  /\ prog.sched = 1 =>
       \A w \in WorkTasks :
         /\ Cardinality(Iterations(w.lo, w.hi)) >= Min({prog.size, Trips})
         /\ Cardinality(Iterations(w.lo, w.hi)) < 2 * prog.size

TaskloopDivided == OnceEach /\ LastOnLast /\ ClauseKept

\* Once the group of a loop has ended every iteration has been run, and once
\* the group of a reduction item has ended the item holds the contribution of
\* every task, the ones on copies of any thread included.
GroupsReduce ==
  pc = "done" =>
    /\ prog.groups # <<>> \/ ~prog.nogroup =>
         Space = UNION {Iterations(w.lo, w.hi) : w \in ran}
    /\ \A i \in Items : shared[i] = Cardinality(Space)

\* A taskwait after a taskloop without a group returns when the tasks of the
\* loop, all of them generated by the waiting task, have been run.
TaskwaitWaits ==
  pc = "done" /\ prog.wait => Space = UNION {Iterations(w.lo, w.hi) : w \in ran}

\* The construct ends and no task of it is left.
TaskloopsEnd == <>(pc = "done" /\ \A t \in Team : ready[t] = {} /\ frames[t] = <<>>)
=============================================================================
