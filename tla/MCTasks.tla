------------------------------- MODULE MCTasks -------------------------------
(***************************************************************************)
(* Explicit tasks, one kind of run at a time: tasks of a team with a proxy *)
(* task, a taskgroup and a thread outside the team; tasks with dependences *)
(* of one parent; taskloops with reductions in their groups.               *)
(***************************************************************************)
EXTENDS Tasking, TaskDeps, Taskloop

CONSTANT Parts

VARIABLE part

Dep(kind, v) == [kind |-> kind, var |-> v]
T(deps) == [op |-> "task", deps |-> deps]
W(deps) == [op |-> "wait", deps |-> deps]
From(parentKind, does) == [parent |-> parentKind, does |-> does]
In == Dep("in", 1)      Out == Dep("out", 1)      Mtx == Dep("mtx", 1)
In2 == Dep("in", 2)     Out2 == Dep("out", 2)     Mtx2 == Dep("mtx", 2)

(* Every kind of dependence after every other, on one variable and on two, *)
(* aliased dependences, locks named in different orders, more locks than   *)
(* a task can have, waits, and a parent that ends before its children.     *)
AllGraphs == {
    From("implicit", <<T(<<In>>), T(<<Mtx>>), T(<<In>>), T(<<Out>>)>>),
    From("implicit", <<T(<<Mtx>>), T(<<In>>), T(<<Mtx>>)>>),
    From("implicit", <<T(<<Out, Out2>>), T(<<In, In2>>), T(<<Out2>>)>>),
    From("explicit", <<T(<<Out>>), T(<<In>>), T(<<In>>), T(<<Out>>)>>),
    From("implicit", <<T(<<Mtx, Mtx2>>), T(<<Mtx2, Mtx>>), T(<<Mtx2>>)>>),
    From("implicit", <<T(<<In, Mtx>>), T(<<Mtx, Out2, Mtx>>), W(<<Mtx, In2>>)>>),
    From("implicit", <<W(<<Out>>), T(<<Out>>), W(<<Out>>), T(<<In>>), W(<<In>>), T(<<Out>>)>>),
    From("implicit", <<T([i \in 1..5 |-> Dep("mtx", i)]), T(<<Dep("mtx", 5)>>), T(<<>>)>>) }

(* Loops up and down, every clause, groups with eager and lazy reduction   *)
(* items, native loops, teams of one and of two.                           *)
Loop(lo, hi, st, sched, size) ==
  [groups |-> <<{"a"}, {"b"}>>, nth |-> 2, min |-> 1, wait |-> FALSE, lo |-> lo,
   hi |-> hi, st |-> st, sched |-> sched, size |-> size, if0 |-> FALSE,
   nogroup |-> TRUE, native |-> FALSE]

Gomp(start, end, incr, up, grain, tasks) ==
  [groups |-> <<{"b"}>>, nth |-> 2, min |-> 1, wait |-> FALSE, start |-> start,
   end |-> end, step |-> incr, up |-> up, grain |-> grain, tasks |-> tasks,
   if0 |-> FALSE, nogroup |-> FALSE]

MCPrograms ==
  {Loop(3, 9, 1, 2, 5), Loop(0, 7, 1, 1, 3),
   [Loop(9, 1, -3, 2, 3) EXCEPT !.groups = <<{"b"}>>, !.nogroup = FALSE],
   [Loop(1, 8, 2, 0, 0) EXCEPT !.groups = <<>>, !.nogroup = FALSE],
   [Loop(0, 4, 1, 0, 0) EXCEPT !.min = 0],
   [Loop(0, 5, 1, 2, 4) EXCEPT !.nth = 1],
   [Loop(0, 5, 1, 2, 4) EXCEPT !.if0 = TRUE],
   Loop(2, 1, 1, 2, 4),
   FromGomp(Gomp(0, 6, 2, TRUE, TRUE, 1)),
   FromGomp(Gomp(9, 2, 13, FALSE, FALSE, 2)),
   FromGomp(Gomp(0, 3, 1, TRUE, FALSE, 0))}

MCLazy == {"b"}

-----------------------------------------------------------------------------
(* What a part does not run is given one of its values.                    *)
For(name, values) == IF part = name THEN values ELSE {CHOOSE v \in values : TRUE}

MCInit ==
    /\ part \in Parts
    /\ Init
    /\ graph \in For("dependences", Graphs) /\ DepsInit
    /\ prog \in For("taskloops", Programs) /\ LoopInit

MCNext ==
    \/ part = "tasks" /\ Next /\ UNCHANGED <<part, depsVars, loopVars>>
    \/ part = "dependences" /\ DepsNext /\ UNCHANGED <<part, vars, loopVars>>
    \/ part = "taskloops" /\ LoopNext /\ UNCHANGED <<part, vars, depsVars>>

(* The fairness of each part, while it runs.                               *)
MCFairness ==
    /\ \A t \in Thread :
          WF_vars(part = "tasks" /\ (Step(t) \/ Reach(t) \/ (t = Master /\ MasterStep)))
    /\ \A x \in Proxies : WF_vars(part = "tasks" /\ Complete(x))
    /\ WF_depsVars(part = "dependences" /\ Parent)
    /\ \A x \in 1..6 : WF_depsVars(part = "dependences" /\ x \in Steps /\ Task(x))
    /\ WF_loopVars(part = "taskloops" /\ LoopNext)

MCSpec == MCInit /\ [][MCNext]_<<part, vars, depsVars, loopVars>> /\ MCFairness

-----------------------------------------------------------------------------
(* No task and no node of the dependence graph is used after it was freed: *)
(* the counts of children and of references name exactly those who still   *)
(* hold one (kmp_tasking.cpp:600-680, kmp_taskdeps.cpp:25-36).             *)
NothingUsedAfterFree == NoUseAfterFree /\ NodesLiveWhileUsed

(* The tasks of a taskloop have the iterations of the loop between them,   *)
(* each once, and every group's reduction has what its tasks contributed   *)
(* when the group ends (kmp_tasking.cpp:3600-4186, 1960-2330).             *)
TaskloopsRight == TaskloopDivided /\ GroupsReduce

(* No thread waits forever: every wait for tasks ends, every task with     *)
(* dependences is run, and every taskloop comes to its end.                *)
TasksEnd ==
    /\ part = "tasks" => EveryWaitEnds
    /\ part = "dependences" => EveryTaskRuns
    /\ part = "taskloops" => TaskloopsEnd
=============================================================================
