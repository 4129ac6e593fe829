------------------------------- MODULE Tasking -------------------------------
(***************************************************************************)
(* Explicit tasks from their creation to the release of their memory, the  *)
(* waits that execute them (taskwait, taskgroup, barrier), proxy tasks     *)
(* completed from outside the team, and the two task teams a team uses in  *)
(* turn (kmp_tasking.cpp; the wait loop is in kmp_wait_release.h).         *)
(*                                                                         *)
(* A thread works on a stack of frames: its implicit task at the bottom,   *)
(* and above it the tasks it has begun while an older one waits.  The      *)
(* deques are sequences here; TaskDeque shows that the rings implement     *)
(* them.  Threads do not sleep here; SuspendResume shows that they wake.   *)
(* Implicit tasks bear the number of their thread.                         *)
(***************************************************************************)
EXTENDS Integers, FiniteSets, SequencesExt

CONSTANTS
    NProc,          \* threads of the team, numbered from 0, the master
    Tasks,          \* explicit tasks, those that are alike created in this order
    Proxies,        \* those that are proxy tasks
    Mutex,          \* those with a mutexinoutset dependence, on one lock
    Groups,         \* taskgroups the program may start
    MaxWork,        \* bound: tasks, taskgroups and barriers of the program together
    MaxOutside,     \* bound: barriers of a program with a proxy task completed outside
    Anywhere,       \* explicit tasks too create tasks of Proxies and Mutex
    None

Thread == 0..(NProc - 1)
Master == 0

ASSUME TeamAssumption == NProc \in Nat \ {0, 1} /\ MaxWork \in Nat /\ MaxOutside \in Nat
ASSUME TaskAssumption ==
    /\ Tasks \subseteq Nat /\ Tasks \intersect Thread = {} /\ IsFiniteSet(Tasks)
    /\ Proxies \subseteq Tasks /\ Mutex \subseteq Tasks \ Proxies
ASSUME NoneAssumption == None \notin Tasks \union Thread \union Groups
ASSUME AnywhereAssumption == Anywhere \in BOOLEAN

VARIABLES
    life,           \* of an explicit task: none, queued, live, complete, freed
    parent,         \* td_parent
    incomplete,     \* td_incomplete_child_tasks of every task
    allocated,      \* td_allocated_child_tasks
    taskgroup,      \* td_taskgroup of every task
    group,          \* the taskgroups: the task that has it open, its parent group, its count;
                    \*   for the properties, whether it was used and the tasks created before it
    stack,          \* frames of a thread: task, what it is doing, where in the wait loop
    team,           \* the two task teams: active, found, proxies, unfinished
    deque,          \* deque[k][t]: deque of thread t in task team k
    queues,         \* queues[k]: threads whose deque in task team k has been allocated
    home,           \* td_task_team of a proxy task
    parity, ptr,    \* th_task_state, and th_task_team: 0, 1, or None
    finished,       \* thread_finished of a thread in the last wait of a barrier
    mutexLock,      \* the task that holds the lock of the Mutex tasks, or None
    ext,            \* the thread outside the team that completes proxy task x: where it is
    arrived, go,    \* workers that have arrived, and that have been released
    barriers        \* barriers that thread t has begun

tree == <<parent, incomplete, allocated, taskgroup, group>>
teams == <<team, parity, ptr, finished>>
sync == <<arrived, go, barriers>>
vars == <<life, parent, incomplete, allocated, taskgroup, group, stack, team, deque,
          queues, home, parity, ptr, finished, mutexLock, ext, arrived, go, barriers>>

FreshTeam == [active |-> TRUE, found |-> FALSE, proxies |-> FALSE, unfinished |-> NProc]

Frame(x, doing, at) == [task |-> x, doing |-> doing, at |-> at]
Run(x) == Frame(x, "run", "-")

(* The first region has begun: the fork barrier set both task teams up.     *)
Init ==
    /\ life = [x \in Tasks |-> "none"] /\ parent = [x \in Tasks |-> None]
    /\ incomplete = [x \in Tasks \union Thread |-> 0]
    /\ allocated = [x \in Tasks |-> 0]
    /\ taskgroup = [x \in Tasks \union Thread |-> None]
    /\ group = [g \in Groups |-> [by |-> None, outer |-> None, count |-> 0, used |-> FALSE, before |-> {}]]
    /\ stack = [t \in Thread |-> <<Run(t)>>]
    /\ team = [k \in 0..1 |-> FreshTeam]
    /\ deque = [k \in 0..1 |-> [t \in Thread |-> <<>>]]
    /\ queues = [k \in 0..1 |-> {}] /\ home = [x \in Proxies |-> None]
    /\ parity = [t \in Thread |-> 0] /\ ptr = [t \in Thread |-> 0]
    /\ finished = [t \in Thread |-> FALSE]
    /\ mutexLock = None
    /\ ext = [x \in Proxies |-> "none"]
    /\ arrived = {} /\ go = {} /\ barriers = [t \in Thread |-> 0]

-----------------------------------------------------------------------------
Top(t) == Last(stack[t])
Doing(t, what) == Top(t).doing = what
Current(t) == Top(t).task

Become(t, f) == stack' = [stack EXCEPT ![t] = Append(Front(@), f)]
Begin(t, f) == stack' = [stack EXCEPT ![t] = Append(@, f)]
Return(t) == stack' = [stack EXCEPT ![t] = Front(@)]
Go(t, doing, at) == Become(t, Frame(Current(t), doing, at))

Ancestors(x) ==
    LET up[y \in Tasks \union Thread] ==
            IF y \in Thread THEN {} ELSE {parent[y]} \union up[parent[y]]
    IN  up[x]

(* The last wait of a barrier, final_spin in the code.                      *)
Final(t) == Top(t).doing \in {"release", "teamwait"}
Constrained(t) == Top(t).doing \in {"taskwait", "endgroup"}
Waiting(t) == Top(t).doing \in {"taskwait", "endgroup", "gather", "release", "teamwait"}

(* __kmp_task_is_allowed: in a constrained wait only descendants of the     *)
(* waiting task, except proxy tasks, which are untied; a task with a        *)
(* mutexinoutset dependence only if its lock can be had.                    *)
Allowed(t, x) ==
    /\ Constrained(t) /\ x \notin Proxies => Current(t) \in Ancestors(x)
    /\ x \in Mutex => mutexLock = None

Locked(x) == mutexLock' = IF x \in Mutex THEN x ELSE mutexLock

(* __kmp_invoke_task: the task's own code, or the bottom half of a proxy    *)
(* task that has been completed.                                            *)
Invoke(t, x) ==
    stack' = [stack EXCEPT ![t] =
        Append(Append(Front(@), [Last(@) EXCEPT !.at = IF Final(t) THEN "own" ELSE "wait"]),
               IF x \in Proxies THEN Frame(x, "bottom", "-") ELSE Run(x))]

-----------------------------------------------------------------------------
(* The program: a running task creates tasks, waits for them and ends.      *)

Alike(x, z) == (x \in Proxies) = (z \in Proxies) /\ (x \in Mutex) = (z \in Mutex)

Begun == Max({barriers[t] : t \in Thread})
Created == {x \in Tasks : life[x] # "none"}

(* What a program may still do: a proxy task and a taskgroup count twice.   *)
Room(n) ==
    Cardinality(Created) + Cardinality(Created \intersect Proxies)
        + 2 * Cardinality({g \in Groups : group[g].used}) + Begun + n <= MaxWork

MayCreate(y, x) ==
    /\ Room(IF x \in Proxies THEN 2 ELSE 1)
    /\ life[x] = "none" /\ \A z \in Tasks : life[z] = "none" /\ Alike(x, z) => x <= z
    /\ x \in Proxies \union Mutex => Anywhere \/ y \in Thread

(* Mutant: a task is counted in a taskgroup only if its creator started it. *)
AllocateUncounted(y, x) ==
    LET g == taskgroup[y] IN
    /\ parent' = [parent EXCEPT ![x] = y]
    /\ incomplete' = [incomplete EXCEPT ![y] = @ + 1]
    /\ allocated' = [z \in Tasks |-> IF z = x THEN 1
                                     ELSE IF z = y THEN allocated[z] + 1 ELSE allocated[z]]
    /\ taskgroup' = [taskgroup EXCEPT ![x] = IF g # None /\ group[g].by = y THEN g ELSE None]
    /\ group' = IF g # None /\ group[g].by = y THEN [group EXCEPT ![g].count = @ + 1] ELSE group

(* __kmp_task_alloc: the counts of the parent and of its taskgroup.         *)
Allocate(y, x) ==
    LET g == taskgroup[y] IN
    /\ parent' = [parent EXCEPT ![x] = y]
    /\ incomplete' = [incomplete EXCEPT ![y] = @ + 1]
    /\ allocated' = [z \in Tasks |-> IF z = x THEN 1
                                     ELSE IF z = y THEN allocated[z] + 1 ELSE allocated[z]]
    /\ taskgroup' = [taskgroup EXCEPT ![x] = g]
    /\ group' = IF g = None THEN group ELSE [group EXCEPT ![g].count = @ + 1]

(* The first task of a region enables tasking in the task team.             *)
CreateDeferred(t, x) ==
    /\ Doing(t, "run") /\ x \in Tasks \ Proxies /\ MayCreate(Current(t), x)
    /\ Allocate(Current(t), x)
    /\ life' = [life EXCEPT ![x] = "queued"]
    /\ team' = [team EXCEPT ![ptr[t]].found = TRUE]
    /\ deque' = [deque EXCEPT ![ptr[t]][t] = Append(@, x)]
    /\ queues' = [queues EXCEPT ![ptr[t]] = @ \union {t}]
    /\ UNCHANGED <<stack, home, parity, ptr, finished, mutexLock, ext, sync>>

(* A task of an if(0) clause, or one that does not fit in the deque.        *)
CreateUndeferred(t, x) ==
    /\ Doing(t, "run") /\ x \in Tasks \ Proxies /\ MayCreate(Current(t), x)
    /\ x \in Mutex => mutexLock = None
    /\ Allocate(Current(t), x)
    /\ life' = [life EXCEPT ![x] = "live"]
    /\ Begin(t, Run(x)) /\ Locked(x)
    /\ UNCHANGED <<deque, queues, home, teams, ext, sync>>

(* A proxy task is started at once.  What it starts is completed by a       *)
(* thread outside the team, or by this thread before the routine returns.   *)
CreateProxy(t, x) ==
    /\ Doing(t, "run") /\ x \in Proxies /\ MayCreate(Current(t), x)
    /\ Allocate(Current(t), x)
    /\ life' = [life EXCEPT ![x] = "live"]
    /\ team' = [team EXCEPT ![ptr[t]].found = TRUE, ![ptr[t]].proxies = TRUE]
    /\ home' = [home EXCEPT ![x] = ptr[t]]
    /\ \/ /\ Begun <= MaxOutside
          /\ ext' = [ext EXCEPT ![x] = "started"] /\ UNCHANGED stack
       \/ Begin(t, Frame(x, "top1", "-")) /\ UNCHANGED ext
    /\ queues' = IF team[ptr[t]].found THEN queues ELSE [queues EXCEPT ![ptr[t]] = @ \union {t}]
    /\ UNCHANGED <<deque, parity, ptr, finished, mutexLock, sync>>

(* A taskwait without incomplete children changes nothing.                  *)
Taskwait(t) ==
    /\ Doing(t, "run") /\ incomplete[Current(t)] > 0
    /\ Go(t, "taskwait", "wait")
    /\ UNCHANGED <<life, tree, deque, queues, home, teams, mutexLock, ext, sync>>

StartGroup(t, g) ==
    LET x == Current(t) IN
    /\ Doing(t, "run") /\ ~group[g].used /\ Room(2)
    /\ group' = [group EXCEPT ![g] = [by |-> x, outer |-> taskgroup[x], count |-> 0, used |-> TRUE,
                                        before |-> Created]]
    /\ taskgroup' = [taskgroup EXCEPT ![x] = g]
    /\ UNCHANGED <<life, parent, incomplete, allocated, stack, deque, queues, home, teams,
                   mutexLock, ext, sync>>

InOwnGroup(x) == taskgroup[x] # None /\ group[taskgroup[x]].by = x

EndGroup(t) ==
    /\ Doing(t, "run") /\ InOwnGroup(Current(t))
    /\ Go(t, "endgroup", "wait")
    /\ UNCHANGED <<life, tree, deque, queues, home, teams, mutexLock, ext, sync>>

(* The code of an explicit task ends: __kmp_task_finish marks it complete.  *)
End(t) ==
    LET x == Current(t) IN
    /\ Doing(t, "run") /\ x \in Tasks /\ ~InOwnGroup(x)
    /\ life' = [life EXCEPT ![x] = "complete"]
    /\ mutexLock' = IF x \in Mutex THEN None ELSE mutexLock
    /\ Go(t, "count", "-")
    /\ UNCHANGED <<tree, deque, queues, home, teams, ext, sync>>

(* Its parent, and then its taskgroup, have one incomplete task less.       *)
CountParent(t) ==
    LET x == Current(t) IN
    /\ Doing(t, "count")
    /\ incomplete' = [incomplete EXCEPT ![parent[x]] = @ - 1]
    /\ Go(t, IF taskgroup[x] = None THEN "free" ELSE "countgroup", "-")
    /\ UNCHANGED <<life, parent, allocated, taskgroup, group, deque, queues, home, teams, mutexLock, ext, sync>>

CountGroup(t) ==
    LET x == Current(t) IN
    /\ Doing(t, "countgroup")
    /\ group' = [group EXCEPT ![taskgroup[x]].count = @ - 1]
    /\ Go(t, "free", "-")
    /\ UNCHANGED <<life, parent, incomplete, allocated, taskgroup, deque, queues, home, teams, mutexLock, ext, sync>>

(* Mutant: a complete task is freed though it has children.                 *)
FreeTaskAlone(t) ==
    LET x == Current(t) IN
    /\ Doing(t, "free")
    /\ allocated' = [allocated EXCEPT ![x] = 0]
    /\ life' = [life EXCEPT ![x] = "freed"] /\ Return(t)
    /\ UNCHANGED <<parent, incomplete, taskgroup, group, deque, queues, home, teams, mutexLock, ext, sync>>

(* Mutant: the walk does not go on to the ancestors.                        *)
FreeTaskNoAncestors(t) ==
    LET x == Current(t) IN
    /\ Doing(t, "free")
    /\ allocated' = [allocated EXCEPT ![x] = @ - 1]
    /\ life' = IF allocated[x] = 1 THEN [life EXCEPT ![x] = "freed"] ELSE life
    /\ Return(t)
    /\ UNCHANGED <<parent, incomplete, taskgroup, group, deque, queues, home, teams, mutexLock, ext, sync>>

(* One turn of __kmp_free_task_and_ancestors: the task itself holds one     *)
(* count and each of its children one.                                      *)
FreeTask(t) ==
    LET x == Current(t) IN
    /\ Doing(t, "free")
    /\ allocated' = [allocated EXCEPT ![x] = @ - 1]
    /\ IF allocated[x] > 1
         THEN Return(t) /\ UNCHANGED life
         ELSE /\ life' = [life EXCEPT ![x] = "freed"]
              /\ IF parent[x] \in Thread THEN Return(t)
                                         ELSE Become(t, Frame(parent[x], "free", "-"))
    /\ UNCHANGED <<parent, incomplete, taskgroup, group, deque, queues, home, teams, mutexLock, ext, sync>>

-----------------------------------------------------------------------------
(* Proxy tasks.  The halves of the completion as code of a thread of the    *)
(* team (frames top1 to bottom) and of a thread outside it (ext).           *)

(* First top half: complete, one task less in the group, imaginary child.   *)
FirstTopHalf(x) ==
    LET g == taskgroup[x] IN
    /\ life' = [life EXCEPT ![x] = "complete"]
    /\ group' = IF g = None THEN group ELSE [group EXCEPT ![g].count = @ - 1]
    /\ incomplete' = [incomplete EXCEPT ![x] = @ + 1]
    /\ UNCHANGED <<parent, allocated, taskgroup>>

ProxyTopHalf(t) ==
    LET x == Current(t) IN
    \/ /\ Doing(t, "top1") /\ FirstTopHalf(x) /\ Go(t, "top2", "-")
       /\ UNCHANGED <<deque, queues, home, teams, mutexLock, ext, sync>>
    \/ /\ Doing(t, "top2") /\ Go(t, "top3", "-")
       /\ incomplete' = [incomplete EXCEPT ![parent[x]] = @ - 1]
       /\ UNCHANGED <<life, parent, allocated, taskgroup, group, deque, queues, home, teams, mutexLock, ext, sync>>
    \/ /\ Doing(t, "top3") /\ Go(t, "bottom", "-")
       /\ incomplete' = [incomplete EXCEPT ![x] = @ - 1]
       /\ UNCHANGED <<life, parent, allocated, taskgroup, group, deque, queues, home, teams, mutexLock, ext, sync>>

(* The bottom half waits until the top halves are done with the task.       *)
BottomHalf(t) ==
    /\ Doing(t, "bottom") /\ incomplete[Current(t)] <= 0
    /\ Go(t, "free", "-")
    /\ UNCHANGED <<life, tree, deque, queues, home, teams, mutexLock, ext, sync>>

ExtFirstTop(x) ==
    /\ ext[x] = "started" /\ ext' = [ext EXCEPT ![x] = "give"]
    /\ FirstTopHalf(x)
    /\ UNCHANGED <<stack, deque, queues, home, teams, mutexLock, sync>>

(* __kmp_give_task: the deque of the first thread from number 1 on, and of  *)
(* the master after all others, that has one.                               *)
Receives(k, v) ==
    /\ v \in queues[k] \union {Master}
    /\ \A u \in queues[k] \ {Master} : v # Master /\ v <= u

ExtGive(x) ==
    LET k == home[x] IN
    /\ ext[x] = "give" /\ ext' = [ext EXCEPT ![x] = "parent"]
    /\ \E v \in Thread : Receives(k, v) /\ deque' = [deque EXCEPT ![k][v] = Append(@, x)]
    /\ UNCHANGED <<life, tree, stack, queues, home, teams, mutexLock, sync>>

ExtCountParent(x) ==
    /\ ext[x] = "parent" /\ ext' = [ext EXCEPT ![x] = "child"]
    /\ incomplete' = [incomplete EXCEPT ![parent[x]] = @ - 1]
    /\ UNCHANGED <<life, parent, allocated, taskgroup, group, stack, deque, queues, home, teams, mutexLock, sync>>

ExtRemoveChild(x) ==
    /\ ext[x] = "child" /\ ext' = [ext EXCEPT ![x] = "done"]
    /\ incomplete' = [incomplete EXCEPT ![x] = @ - 1]
    /\ UNCHANGED <<life, parent, allocated, taskgroup, group, stack, deque, queues, home, teams, mutexLock, sync>>

-----------------------------------------------------------------------------
(* Waits.  A frame that waits is at "wait" between two calls of             *)
(* execute_tasks, and in the call at "own" or "steal" while it looks for a  *)
(* task and at "dry" when it found none.                                    *)

Done(t) ==
    CASE Doing(t, "taskwait") -> incomplete[Current(t)] = 0
      [] Doing(t, "endgroup") -> group[taskgroup[Current(t)]].count = 0
      [] Doing(t, "gather")   -> arrived = Thread \ {Master}
      [] Doing(t, "teamwait") -> team[parity[t]].unfinished = 0
      [] Doing(t, "release")  -> t \in go

(* A turn of the loop of a barrier's wait: the task team is left alone once *)
(* the master has deactivated it.  taskwait and taskgroup call              *)
(* execute_tasks without a look at the task team.                           *)
WaitTurn(t) ==
    /\ Waiting(t) /\ Top(t).at = "wait" /\ ~Done(t) /\ ptr[t] # None
    /\ CASE Constrained(t) -> Go(t, Top(t).doing, "own") /\ UNCHANGED ptr
         [] ~Constrained(t) /\ ~team[ptr[t]].active -> ptr' = [ptr EXCEPT ![t] = None] /\ UNCHANGED stack
         [] OTHER -> team[ptr[t]].found /\ Go(t, Top(t).doing, "own") /\ UNCHANGED ptr
    /\ UNCHANGED <<life, tree, team, deque, queues, home, parity, finished, mutexLock, ext, sync>>

(* __kmp_remove_my_task: the newest task of the thread's own deque.         *)
TakeOwn(t) ==
    LET k == ptr[t]
        x == Last(deque[k][t]) IN
    /\ Waiting(t) /\ Top(t).at = "own"
    /\ IF deque[k][t] # <<>> /\ Allowed(t, x)
         THEN /\ deque' = [deque EXCEPT ![k][t] = Front(@)]
              /\ Invoke(t, x) /\ Locked(x)
              /\ life' = IF x \in Proxies THEN life ELSE [life EXCEPT ![x] = "live"]
         ELSE Go(t, Top(t).doing, "steal") /\ UNCHANGED <<life, deque, mutexLock>>
    /\ UNCHANGED <<tree, queues, home, teams, ext, sync>>

(* Mutant: a thief that had declared itself finished does not count itself  *)
(* among the unfinished threads again.                                      *)
StealUncounted(t, v) ==
    LET k == ptr[t]
        x == Head(deque[k][v]) IN
    /\ Waiting(t) /\ Top(t).at = "steal" /\ v # t
    /\ IF deque[k][v] # <<>> /\ Allowed(t, x)
         THEN /\ deque' = [deque EXCEPT ![k][v] = Tail(@)]
              /\ Invoke(t, x) /\ Locked(x)
              /\ life' = IF x \in Proxies THEN life ELSE [life EXCEPT ![x] = "live"]
         ELSE Go(t, Top(t).doing, "dry") /\ UNCHANGED <<life, deque, mutexLock>>
    /\ UNCHANGED <<tree, queues, home, teams, ext, sync>>

(* __kmp_steal_task: the oldest task of a victim, under the lock of the     *)
(* victim's deque.                                                          *)
Steal(t, v) ==
    LET k == ptr[t]
        x == Head(deque[k][v])
        again == Final(t) /\ finished[t] IN
    /\ Waiting(t) /\ Top(t).at = "steal" /\ v # t
    /\ IF deque[k][v] # <<>> /\ Allowed(t, x)
         THEN /\ deque' = [deque EXCEPT ![k][v] = Tail(@)]
              /\ Invoke(t, x) /\ Locked(x)
              /\ life' = IF x \in Proxies THEN life ELSE [life EXCEPT ![x] = "live"]
              /\ team' = IF again THEN [team EXCEPT ![k].unfinished = @ + 1] ELSE team
              /\ finished' = [finished EXCEPT ![t] = @ /\ ~again]
         ELSE Go(t, Top(t).doing, "dry") /\ UNCHANGED <<life, deque, mutexLock, team, finished>>
    /\ UNCHANGED <<tree, queues, home, parity, ptr, ext, sync>>

(* No task found.  In the last wait of a barrier a thread is then finished, *)
(* unless children of its implicit task are incomplete.                     *)
GiveUp(t) ==
    LET leaves == Final(t) /\ incomplete[Current(t)] = 0 /\ ~finished[t] IN
    /\ Waiting(t) /\ Top(t).at = "dry"
    /\ team' = IF leaves THEN [team EXCEPT ![ptr[t]].unfinished = @ - 1] ELSE team
    /\ finished' = [finished EXCEPT ![t] = @ \/ leaves]
    /\ Go(t, Top(t).doing, "wait")
    /\ UNCHANGED <<life, tree, deque, queues, home, parity, ptr, mutexLock, ext, sync>>

LeaveTaskwait(t) ==
    /\ Doing(t, "taskwait") /\ Top(t).at = "wait" /\ Done(t)
    /\ Go(t, "run", "-")
    /\ UNCHANGED <<life, tree, deque, queues, home, teams, mutexLock, ext, sync>>

(* The task is in the parent group again and the group is freed.            *)
LeaveGroup(t) ==
    LET x == Current(t) IN
    /\ Doing(t, "endgroup") /\ Top(t).at = "wait" /\ Done(t)
    /\ taskgroup' = [taskgroup EXCEPT ![x] = group[@].outer]
    /\ group' = [group EXCEPT ![taskgroup[x]].by = None]
    /\ Go(t, "run", "-")
    /\ UNCHANGED <<life, parent, incomplete, allocated, deque, queues, home, teams, mutexLock, ext, sync>>

-----------------------------------------------------------------------------
(* Barriers.                                                                *)

(* __kmp_task_team_setup: the other task team is made ready before any      *)
(* thread can switch to it, unless it is already active.                    *)
Setup(k) == IF team[k].active THEN team ELSE [team EXCEPT ![k] = FreshTeam]

AtBarrier(t) ==
    /\ Doing(t, "run") /\ Current(t) = t /\ ~InOwnGroup(t)
    /\ barriers[t] < Begun \/ Room(1)
    /\ barriers[t] >= MaxOutside => \A x \in Proxies : ext[x] = "none"

MasterArrives ==
    /\ AtBarrier(Master)
    /\ team' = Setup(1 - parity[Master])
    /\ barriers' = [barriers EXCEPT ![Master] = @ + 1]
    /\ Go(Master, "gather", "wait")
    /\ UNCHANGED <<life, tree, deque, queues, home, parity, ptr, finished, mutexLock, ext, arrived, go>>

WorkerArrives(t) ==
    /\ t # Master /\ AtBarrier(t)
    /\ arrived' = arrived \union {t}
    /\ barriers' = [barriers EXCEPT ![t] = @ + 1]
    /\ finished' = [finished EXCEPT ![t] = FALSE]
    /\ Go(t, "release", "wait")
    /\ UNCHANGED <<life, tree, deque, queues, home, team, parity, ptr, mutexLock, ext, go>>

(* The master has gathered the workers.  __kmp_task_team_wait waits only if *)
(* some task was created.                                                   *)
Gathered ==
    /\ Doing(Master, "gather") /\ Top(Master).at = "wait" /\ Done(Master)
    /\ arrived' = {}
    /\ finished' = [finished EXCEPT ![Master] = FALSE]
    /\ Go(Master, IF team[parity[Master]].found THEN "teamwait" ELSE "letgo",
       IF team[parity[Master]].found THEN "wait" ELSE 1)
    /\ UNCHANGED <<life, tree, deque, queues, home, team, parity, ptr, mutexLock, ext, go, barriers>>

(* Every thread is finished: the task team is deactivated.                  *)
Deactivate ==
    /\ Doing(Master, "teamwait") /\ Top(Master).at = "wait" /\ Done(Master)
    /\ team' = [team EXCEPT ![parity[Master]].active = FALSE, ![parity[Master]].proxies = FALSE]
    /\ ptr' = [ptr EXCEPT ![Master] = None]
    /\ Go(Master, "letgo", 1)
    /\ UNCHANGED <<life, tree, deque, queues, home, parity, finished, mutexLock, ext, sync>>

(* Mutant: the loop over the workers ends one too early.                    *)
LetGoShort ==
    LET t == Top(Master).at IN
    /\ Doing(Master, "letgo") /\ t < NProc - 1
    /\ go' = go \union {t}
    /\ Go(Master, "letgo", t + 1)
    /\ UNCHANGED <<life, tree, deque, queues, home, teams, mutexLock, ext, arrived, barriers>>

(* The release of the workers, one after the other.                         *)
LetGo ==
    LET t == Top(Master).at IN
    /\ Doing(Master, "letgo") /\ t < NProc
    /\ go' = go \union {t}
    /\ Go(Master, "letgo", t + 1)
    /\ UNCHANGED <<life, tree, deque, queues, home, teams, mutexLock, ext, arrived, barriers>>

(* __kmp_task_team_sync: a thread released turns to the other task team.    *)
Sync(t) ==
    /\ parity' = [parity EXCEPT ![t] = 1 - @]
    /\ ptr' = [ptr EXCEPT ![t] = 1 - parity[t]]
    /\ Go(t, "run", "-")
    /\ UNCHANGED <<life, tree, deque, queues, home, team, finished, mutexLock, ext, arrived, barriers>>

MasterLeaves ==
    /\ Doing(Master, "letgo") /\ Top(Master).at = NProc
    /\ Sync(Master) /\ UNCHANGED go

WorkerLeaves(t) ==
    /\ Doing(t, "release") /\ Top(t).at = "wait" /\ Done(t)
    /\ go' = go \ {t} /\ Sync(t)

-----------------------------------------------------------------------------
(* What a thread does of itself, and what the program makes it do.          *)
Step(t) ==
    \/ CountParent(t) \/ CountGroup(t) \/ FreeTask(t) \/ ProxyTopHalf(t) \/ BottomHalf(t)
    \/ WaitTurn(t) \/ TakeOwn(t) \/ GiveUp(t)
    \/ \E v \in Thread : Steal(t, v)
    \/ LeaveTaskwait(t) \/ LeaveGroup(t) \/ WorkerLeaves(t)

MasterStep == Gathered \/ Deactivate \/ LetGo \/ MasterLeaves

Complete(x) == ExtFirstTop(x) \/ ExtGive(x) \/ ExtCountParent(x) \/ ExtRemoveChild(x)

Reach(t) == End(t) \/ EndGroup(t) \/ WorkerArrives(t) \/ (t = Master /\ MasterArrives)

Next ==
    \/ \E t \in Thread : Step(t) \/ Reach(t) \/ Taskwait(t)
    \/ \E t \in Thread, x \in Tasks : CreateDeferred(t, x) \/ CreateUndeferred(t, x) \/ CreateProxy(t, x)
    \/ \E t \in Thread, g \in Groups : StartGroup(t, g)
    \/ MasterStep
    \/ \E x \in Proxies : Complete(x)

(* Threads are scheduled; the code of tasks ends; what a proxy task stands  *)
(* for is completed.                                                        *)
Fairness ==
    /\ \A t \in Thread : WF_vars(Step(t) \/ Reach(t) \/ (t = Master /\ MasterStep))
    /\ \A x \in Proxies : WF_vars(Complete(x))

SafeSpec == Init /\ [][Next]_vars
Spec == SafeSpec /\ Fairness

-----------------------------------------------------------------------------
Actions == {"run", "count", "countgroup", "free", "top1", "top2", "top3", "bottom", "taskwait",
            "endgroup", "gather", "teamwait", "letgo", "release"}

(* The shape of the state: counts do not fall below zero, and a thread's    *)
(* stack begins with its implicit task.                                     *)
TypeOK ==
    /\ life \in [Tasks -> {"none", "queued", "live", "complete", "freed"}]
    /\ incomplete \in [Tasks \union Thread -> Nat] /\ allocated \in [Tasks -> Nat]
    /\ taskgroup \in [Tasks \union Thread -> Groups \union {None}]
    /\ \A g \in Groups : group[g].count \in Nat
    /\ \A k \in 0..1 : team[k].unfinished \in Nat
    /\ \A t \in Thread :
           /\ stack[t] # <<>> /\ stack[t][1].task = t
           /\ \A i \in DOMAIN stack[t] : stack[t][i].doing \in Actions
    /\ mutexLock \in Mutex \union {None}

Over(x) == life[x] \in {"none", "complete", "freed"}

(* A barrier waits for the tasks of the region: when the master opens it,   *)
(* every explicit task created before has been executed, wherever it was    *)
(* queued, stolen or created by another task meanwhile.                     *)
BarrierWaitsForTasks ==
    Doing(Master, "letgo") /\ Top(Master).at = 1 => \A x \in Tasks : Over(x)

(* Whoever still has to touch a task finds it allocated: the threads that   *)
(* work on it or finish it, the deques it is in, its children that have not *)
(* been freed, the thread that completes it from outside.                   *)
NoUseAfterFree ==
    /\ \A t \in Thread : \A i \in DOMAIN stack[t] :
           LET x == stack[t][i].task IN
           x \in Tasks => life[x] # "freed" /\ (parent[x] \in Tasks => life[parent[x]] # "freed")
    /\ \A k \in 0..1, t \in Thread : \A i \in DOMAIN deque[k][t] : life[deque[k][t][i]] # "freed"
    /\ \A x \in Tasks : life[x] \notin {"none", "freed"} /\ parent[x] \in Tasks => life[parent[x]] # "freed"
    /\ \A x \in Proxies : ext[x] \in {"started", "give", "parent", "child"} => life[x] # "freed"

(* No memory is lost: a complete task that nobody works on or holds, and    *)
(* whose children have been freed, has been freed itself.                   *)
NothingLeaks ==
    \A x \in Tasks :
        \/ life[x] # "complete"
        \/ \E y \in Tasks : parent[y] = x /\ life[y] # "freed"
        \/ \E t \in Thread : \E i \in DOMAIN stack[t] : stack[t][i].task = x
        \/ x \in Proxies /\ ext[x] \in {"give", "parent", "child"}
        \/ \E k \in 0..1, t \in Thread : \E i \in DOMAIN deque[k][t] : deque[k][t][i] = x

(* What the end of a taskgroup waits for: the tasks its starter y created   *)
(* since, and their descendants.                                            *)
Descends(x, c) == x = c \/ c \in Ancestors(x)
InGroup(x, y) ==
    \E c \in Created \ group[taskgroup[y]].before : parent[c] = y /\ x \in Created /\ Descends(x, c)

(* taskwait returns when the children of the waiting task are complete, and *)
(* the end of a taskgroup when all descendants created in it are, whoever   *)
(* created and whoever executes them.                                       *)
WaitsForItsTasks ==
    [][\A t \in Thread :
        LET y == Current(t) IN
        Len(stack'[t]) = Len(stack[t]) /\ Last(stack'[t]).doing = "run" =>
            /\ Doing(t, "taskwait") => \A x \in Tasks : parent[x] = y => Over(x)
            /\ Doing(t, "endgroup") => \A x \in Tasks : InGroup(x, y) => Over(x)]_vars

(* Every wait ends: a thread that can do it finds the work, counts reach    *)
(* zero, and nobody waits for a thread that waits for him.  As the program  *)
(* is bounded, all threads are in the end back in their implicit tasks.     *)
EveryWaitEnds == <>[](\A t \in Thread : stack[t] = <<Run(t)>>)

=============================================================================
