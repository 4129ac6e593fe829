------------------------------- MODULE TaskDeps -------------------------------
(***************************************************************************)
(* Dependences between the child tasks of one task: the hash of the last   *)
(* tasks that named each variable, the graph of nodes with their counted   *)
(* references, mutexinoutset locks, and waiting for dependences            *)
(* (kmp_taskdeps.cpp, kmp_taskdeps.h; the locks and the end of a task are  *)
(* in kmp_tasking.cpp).                                                    *)
(*                                                                         *)
(* The parent goes through its program; every child, once queued, may be   *)
(* executed by a thread of its own at any time.  A child bears the number  *)
(* of the step of the program that creates it.                             *)
(***************************************************************************)
EXTENDS Integers, Sequences, FiniteSets

CONSTANTS
    Graphs,         \* programs: the kind of the parent, and steps [op, deps]
    Variables,      \* addresses, in the order of their mutexinoutset locks
    MaxMtxDeps      \* MAX_MTX_DEPS

Dependences == [kind : {"in", "out", "mtx"}, var : Variables]

ASSUME DepsAssumption ==
    /\ Variables \subseteq Nat /\ IsFiniteSet(Variables)
    /\ MaxMtxDeps \in Nat
    /\ Graphs \subseteq [parent : {"implicit", "explicit"},
                         does : Seq([op : {"task", "wait"}, deps : Seq(Dependences)])]

VARIABLES
    graph,          \* the program
    step, at,       \* where the parent is in it, and in what
    todo,           \* the dependences of the step that it has yet to process
    link,           \* the nodes it has yet to link the new one to
    found,          \* npredecessors, the local count
    hash,           \* per variable: last_out, last_ins, last_mtxs, last_flag; mtx_lock
    tracked,        \* td_dephash exists
    node,           \* per step: dn.task is set, npredecessors, successors, nrefs, mtx_locks
    nodeLife,       \* per step: what its task is doing
    held,           \* the variables whose locks it holds
    mtx,            \* the task that holds the lock of a variable, or 0
    left,           \* how many successors it has yet to notify
    pending,        \* td_incomplete_child_tasks of the parent
    complete        \* td_flags.complete of the parent, an implicit task

creator == <<step, at, todo, link, found>>
running == <<nodeLife, held, mtx, left>>
depsVars == <<graph, creator, hash, tracked, node, running, pending, complete>>

Steps == 1..Len(graph.does)
IsTask(x) == graph.does[x].op = "task"
Implicit == graph.parent = "implicit"

(* The list of successors is here in the order of their arrival: the code  *)
(* puts a new one in front and goes through it from there.  Those of an    *)
(* entry are sets: a step names it once, the last one stands first.        *)
NewNode == [task |-> FALSE, npred |-> -1, succ |-> <<>>, refs |-> 1, locks |-> {}]
NoNode == [task |-> FALSE, npred |-> 0, succ |-> <<>>, refs |-> 0, locks |-> {}]
EmptyEntry == [out |-> 0, ins |-> {}, mtxs |-> {}, flag |-> "ins", lock |-> "none"]

DepsInit ==
    /\ graph \in Graphs
    /\ step = 1 /\ at = "step" /\ todo = {} /\ link = {} /\ found = 0
    /\ hash = [v \in Variables |-> EmptyEntry]
    /\ tracked = FALSE
    /\ node = [x \in Steps |-> NoNode]
    /\ nodeLife = [x \in Steps |-> "none"]
    /\ held = [x \in Steps |-> {}]
    /\ mtx = [v \in Variables |-> 0]
    /\ left = [x \in Steps |-> 0]
    /\ pending = 0
    /\ complete = FALSE

(***************************************************************************)
(* The dependences of a step.                                              *)
(***************************************************************************)
(* __kmp_check_deps: those on one variable are taken together, and there   *)
(* are at most MaxMtxDeps locks; a wait has none.                          *)
Merged(deps, v) ==
    LET kinds == {deps[i].kind : i \in {j \in DOMAIN deps : deps[j].var = v}}
    IN  IF Cardinality(kinds) = 1 THEN CHOOSE k \in kinds : TRUE ELSE "out"

First(deps) == {i \in DOMAIN deps : \A j \in 1..(i - 1) : deps[j].var # deps[i].var}

(* The dependences of step x that are not void, by their place.  One that  *)
(* began as mutexinoutset counts against the limit even when another on    *)
(* the same variable makes it an out.                                      *)
Filtered(x) == First(graph.does[x].deps)
VarOf(x, i) == graph.does[x].deps[i].var
KindOf(x, i) ==
    LET deps    == graph.does[x].deps
        Whole(j) == Merged(deps, deps[j].var)
        mtxs    == {j \in First(deps) : j <= i /\ deps[j].kind = "mtx"}
    IN  IF Whole(i) = "mtx" /\ (~IsTask(x) \/ Cardinality(mtxs) > MaxMtxDeps)
        THEN "out" ELSE Whole(i)

(* The lists and arrays are gone through from one end.                     *)
Least(S, i) == i \in S /\ \A j \in S : i <= j
Greatest(S, i) == i \in S /\ \A j \in S : j <= i

LastOut(h) == {h.out} \ {0}

(* Mutant: a reader does not wait for the mutexinoutset tasks before it.   *)
PredecessorsForgetMtxs(h, kind) ==
    IF kind = "in" THEN LastOut(h)
    ELSE IF h.ins # {} THEN h.ins ELSE IF h.mtxs # {} THEN h.mtxs ELSE LastOut(h)

(* __kmp_process_deps: the nodes that the new one follows.                 *)
Predecessors(h, kind) ==
    CASE kind = "out" /\ h.ins \cup h.mtxs = {} -> LastOut(h)
      [] kind = "out" /\ h.ins \cup h.mtxs # {} -> IF h.flag = "ins" THEN h.ins ELSE h.mtxs
      [] kind = "in" -> IF h.mtxs # {} THEN h.mtxs ELSE LastOut(h)
      [] OTHER       -> IF h.ins # {} THEN h.ins ELSE LastOut(h)

(* What the entry becomes with node x: a wait leaves no last_out.          *)
After(h, kind, x) ==
    CASE kind = "out" ->
           [h EXCEPT !.out = IF IsTask(x) THEN x ELSE 0, !.ins = {}, !.mtxs = {}]
      [] kind = "in" ->
           [h EXCEPT !.out = IF h.mtxs # {} THEN 0 ELSE @,
                     !.ins = {x} \cup (IF h.mtxs # {} /\ h.flag = "mtxs" THEN {} ELSE @),
                     !.flag = "ins"]
      [] OTHER ->
           [h EXCEPT !.out = IF h.ins # {} THEN 0 ELSE @,
                     !.mtxs = {x} \cup (IF h.ins # {} /\ h.flag = "ins" THEN {} ELSE @),
                     !.flag = "mtxs", !.lock = "made"]

(* The references that an entry, and the whole hash, hold to node x.       *)
Held(h, x) == {l \in {"out", "ins", "mtxs"} :
                  x \in CASE l = "out" -> LastOut(h) [] l = "ins" -> h.ins [] OTHER -> h.mtxs}
InHash(x) == {e \in Variables \X {"out", "ins", "mtxs"} : e[2] \in Held(hash[e[1]], x)}

(***************************************************************************)
(* The parent.                                                             *)
(***************************************************************************)
Advance == step' = step + 1 /\ at' = "step"

(* __kmpc_omp_task_with_deps, of a task without dependences.               *)
CreatePlain ==
    /\ at = "step" /\ step \in Steps
    /\ IsTask(step) /\ graph.does[step].deps = <<>>
    /\ pending' = pending + 1
    /\ nodeLife' = [nodeLife EXCEPT ![step] = "queued"]
    /\ Advance
    /\ UNCHANGED <<graph, todo, link, found, hash, tracked, node, held, mtx, left, complete>>

CreateWithDeps ==
    /\ at = "step" /\ step \in Steps
    /\ IsTask(step) /\ graph.does[step].deps # <<>>
    /\ pending' = pending + 1
    /\ tracked' = TRUE
    /\ node' = [node EXCEPT ![step] = NewNode]
    /\ nodeLife' = [nodeLife EXCEPT ![step] = "new"]
    /\ todo' = Filtered(step) /\ found' = 0 /\ at' = "deps"
    /\ UNCHANGED <<graph, step, link, hash, held, mtx, left, complete>>

(* __kmpc_omp_wait_deps, with a node on the stack; nothing to wait for     *)
(* when there is no hash.                                                  *)
WaitDeps ==
    /\ at = "step" /\ step \in Steps
    /\ ~IsTask(step)
    /\ IF tracked
       THEN /\ node' = [node EXCEPT ![step] = NewNode]
            /\ todo' = Filtered(step) /\ found' = 0 /\ at' = "deps" /\ step' = step
       ELSE Advance /\ UNCHANGED <<node, todo, found>>
    /\ UNCHANGED <<graph, link, hash, tracked, running, pending, complete>>

NextDep ==
    /\ at = "deps"
    /\ \E i \in todo :
          /\ Least(todo, i)
          /\ link' = Predecessors(hash[VarOf(step, i)], KindOf(step, i))
    /\ at' = "link"
    /\ UNCHANGED <<graph, step, todo, found, hash, tracked, node, running, pending, complete>>

(* __kmp_depnode_link_successor, under the lock of the node.               *)
Link ==
    /\ at = "link"
    /\ \E p \in link :
          /\ Greatest(link, p)
          /\ IF node[p].task
             THEN /\ node' = [node EXCEPT ![p].succ = Append(@, step), ![step].refs = @ + 1]
                  /\ found' = found + 1
             ELSE UNCHANGED <<node, found>>
          /\ link' = link \ {p}
    /\ UNCHANGED <<graph, step, at, todo, hash, tracked, running, pending, complete>>

EntryAfter(i) == After(hash[VarOf(step, i)], KindOf(step, i), step)
NodeAfter(x, i) ==
    LET v == VarOf(step, i) IN
    [node[x] EXCEPT
        !.refs = @ + Cardinality(Held(EntryAfter(i), x)) - Cardinality(Held(hash[v], x)),
        !.locks = IF x = step /\ KindOf(step, i) = "mtx" THEN @ \cup {v} ELSE @]

UpdateHash ==
    /\ at = "link" /\ link = {}
    /\ \E i \in todo :
          /\ Least(todo, i)
          /\ hash' = [hash EXCEPT ![VarOf(step, i)] = EntryAfter(i)]
          /\ node' = [x \in Steps |-> NodeAfter(x, i)]
          /\ todo' = todo \ {i}
    /\ at' = "deps"
    /\ UNCHANGED <<graph, step, link, found, tracked, running, pending, complete>>

(* The count began at -1, so that nobody could queue the task before now.  *)
Submit ==
    LET npred == node[step].npred + found + 1 IN
    /\ at = "deps" /\ todo = {}
    /\ node' = [node EXCEPT ![step].npred = npred, ![step].task = IsTask(step)]
    /\ nodeLife' = IF IsTask(step)
               THEN [nodeLife EXCEPT ![step] = IF npred > 0 THEN "blocked" ELSE "queued"] ELSE nodeLife
    /\ IF IsTask(step) \/ npred <= 0 THEN Advance ELSE at' = "wait" /\ step' = step
    /\ UNCHANGED <<graph, todo, link, found, hash, tracked, held, mtx, left, pending, complete>>

EndWait ==
    /\ at = "wait"
    /\ node[step].npred <= 0
    /\ Advance
    /\ UNCHANGED <<graph, todo, link, found, hash, tracked, node, running, pending, complete>>

(***************************************************************************)
(* The end of the parent: the hash is freed, and its references with it.   *)
(***************************************************************************)
FreeEntries == node' = [x \in Steps |-> [node[x] EXCEPT !.refs = @ - Cardinality(InHash(x))]]
EmptyBuckets ==
    hash' = [v \in Variables |->
                [EmptyEntry EXCEPT !.lock = IF hash[v].lock = "made" THEN "freed" ELSE @]]

(* __kmp_release_deps of an explicit parent; its children may live on.     *)
EndExplicit ==
    /\ at = "step" /\ step \notin Steps
    /\ ~Implicit
    /\ FreeEntries /\ EmptyBuckets
    /\ at' = "end"
    /\ UNCHANGED <<graph, step, todo, link, found, tracked, running, pending, complete>>

(* __kmp_finish_implicit_task, before the barrier at the end of the        *)
(* region: whoever finds the parent complete and childless, and can take   *)
(* the mark away, cleans the hash.                                         *)
EndImplicit ==
    /\ at = "step" /\ step \notin Steps
    /\ Implicit
    /\ complete' = (complete \/ tracked)
    /\ at' = IF tracked THEN "mark" ELSE "end"
    /\ UNCHANGED <<graph, step, todo, link, found, hash, tracked, node, running, pending>>

LookForChildren ==
    /\ at = "mark"
    /\ at' = IF pending = 0 /\ complete THEN "clean" ELSE "end"
    /\ UNCHANGED <<graph, step, todo, link, found, hash, tracked, node, running, pending, complete>>

(* Mutant: the mark is taken away without comparing.                       *)
MarkTakenAnyway == TRUE

MarkTaken == complete

Clean ==
    IF MarkTaken THEN complete' = FALSE /\ FreeEntries ELSE UNCHANGED <<complete, node>>

ParentCleans ==
    /\ at = "clean"
    /\ Clean
    /\ at' = IF MarkTaken THEN "empty" ELSE "end"
    /\ UNCHANGED <<graph, step, todo, link, found, hash, tracked, running, pending>>

ParentEmpties ==
    /\ at = "empty"
    /\ EmptyBuckets
    /\ at' = "end"
    /\ UNCHANGED <<graph, step, todo, link, found, tracked, node, running, pending, complete>>

Parent ==
    \/ CreatePlain \/ CreateWithDeps \/ WaitDeps \/ NextDep \/ Link \/ UpdateHash \/ Submit
    \/ EndWait \/ EndExplicit \/ EndImplicit \/ LookForChildren
    \/ ParentCleans \/ ParentEmpties

(***************************************************************************)
(* The tasks.                                                              *)
(***************************************************************************)
Becomes(x, what) == nodeLife' = [nodeLife EXCEPT ![x] = what]
HasNode(x) == graph.does[x].deps # <<>>

(* __kmp_task_is_allowed: a thread that looks at the task tries its locks  *)
(* one after the other, sorted the same way for every task.                *)
TryLocks(x) ==
    /\ nodeLife[x] = "queued"
    /\ Becomes(x, IF node[x].locks = {} THEN "runs" ELSE "locking")
    /\ UNCHANGED <<graph, creator, hash, tracked, node, held, mtx, left, pending, complete>>

TestLock(x) ==
    /\ nodeLife[x] = "locking"
    /\ \E v \in node[x].locks \ held[x] :
          /\ Greatest(node[x].locks \ held[x], v)
          /\ IF mtx[v] = 0
             THEN /\ mtx' = [mtx EXCEPT ![v] = x]
                  /\ held' = [held EXCEPT ![x] = @ \cup {v}]
                  /\ Becomes(x, IF node[x].locks = held[x] \cup {v} THEN "runs" ELSE "locking")
             ELSE /\ Becomes(x, IF held[x] = {} THEN "queued" ELSE "backing")
                  /\ UNCHANGED <<mtx, held>>
    /\ UNCHANGED <<graph, creator, hash, tracked, node, left, pending, complete>>

(* Locks are given back in the reverse order: when one could not be had,   *)
(* and when the task has ended.                                            *)
ReleaseLock(x, from, to) ==
    /\ nodeLife[x] = from
    /\ \E v \in held[x] :
          /\ Least(held[x], v)
          /\ mtx' = [mtx EXCEPT ![v] = 0]
          /\ held' = [held EXCEPT ![x] = @ \ {v}]
          /\ Becomes(x, IF held[x] = {v} THEN to ELSE from)
    /\ UNCHANGED <<graph, creator, hash, tracked, node, left, pending, complete>>

BackOff(x) == ReleaseLock(x, "backing", "queued")
Unlock(x) == ReleaseLock(x, "unlocking", "ended")

(* The body ends: __kmp_task_finish.                                       *)
EndOf(x) ==
    /\ nodeLife[x] = "runs"
    /\ Becomes(x, IF held[x] # {} THEN "unlocking" ELSE "ended")
    /\ UNCHANGED <<graph, creator, hash, tracked, node, held, mtx, left, pending, complete>>

UncountChild(x) ==
    /\ nodeLife[x] = "ended"
    /\ pending' = pending - 1
    /\ Becomes(x, IF HasNode(x) THEN "releasing" ELSE "freeing")
    /\ UNCHANGED <<graph, creator, hash, tracked, node, held, mtx, left, complete>>

(* __kmp_release_deps: no dependence on the task arises any more ...       *)
MarkFinished(x) ==
    /\ nodeLife[x] = "releasing"
    /\ node' = [node EXCEPT ![x].task = FALSE]
    /\ left' = [left EXCEPT ![x] = Len(node[x].succ)]
    /\ Becomes(x, "notifying")
    /\ UNCHANGED <<graph, creator, hash, tracked, held, mtx, pending, complete>>

(* ... then each successor loses a predecessor; who takes the last one     *)
(* queues the task.                                                        *)
Successor(x) == node[x].succ[left[x]]

Notify(x) ==
    LET s == Successor(x) IN
    /\ nodeLife[x] = "notifying" /\ left[x] > 0
    /\ node' = [node EXCEPT ![s].npred = @ - 1]
    /\ Becomes(x, IF node[s].npred = 1 THEN "queueing" ELSE "forgetting")
    /\ UNCHANGED <<graph, creator, hash, tracked, held, mtx, left, pending, complete>>

(* The successor may be a wait, which has no task.                         *)
QueueSuccessor(x) ==
    LET s == Successor(x) IN
    /\ nodeLife[x] = "queueing"
    /\ nodeLife' = [nodeLife EXCEPT ![x] = "forgetting", ![s] = IF node[s].task THEN "queued" ELSE @]
    /\ UNCHANGED <<graph, creator, hash, tracked, node, held, mtx, left, pending, complete>>

ForgetSuccessor(x) ==
    /\ nodeLife[x] = "forgetting"
    /\ node' = [node EXCEPT ![Successor(x)].refs = @ - 1]
    /\ left' = [left EXCEPT ![x] = @ - 1]
    /\ Becomes(x, "notifying")
    /\ UNCHANGED <<graph, creator, hash, tracked, held, mtx, pending, complete>>

ForgetOwnNode(x) ==
    /\ nodeLife[x] = "notifying" /\ left[x] = 0
    /\ node' = [node EXCEPT ![x].refs = @ - 1]
    /\ Becomes(x, "freeing")
    /\ UNCHANGED <<graph, creator, hash, tracked, held, mtx, left, pending, complete>>

(* __kmp_free_task_and_ancestors comes to an implicit parent.              *)
DropTask(x) ==
    /\ nodeLife[x] = "freeing"
    /\ Becomes(x, IF Implicit /\ tracked /\ pending = 0 /\ complete THEN "cleaning" ELSE "freed")
    /\ UNCHANGED <<graph, creator, hash, tracked, node, held, mtx, left, pending, complete>>

TaskCleans(x) ==
    /\ nodeLife[x] = "cleaning"
    /\ Clean
    /\ Becomes(x, IF MarkTaken THEN "emptying" ELSE "freed")
    /\ UNCHANGED <<graph, creator, hash, tracked, held, mtx, left, pending>>

TaskEmpties(x) ==
    /\ nodeLife[x] = "emptying"
    /\ EmptyBuckets
    /\ Becomes(x, "freed")
    /\ UNCHANGED <<graph, creator, tracked, node, held, mtx, left, pending, complete>>

Task(x) ==
    \/ TryLocks(x) \/ TestLock(x) \/ BackOff(x) \/ EndOf(x) \/ Unlock(x) \/ UncountChild(x)
    \/ MarkFinished(x) \/ Notify(x) \/ QueueSuccessor(x) \/ ForgetSuccessor(x)
    \/ ForgetOwnNode(x) \/ DropTask(x) \/ TaskCleans(x)
    \/ TaskEmpties(x)

DepsNext == Parent \/ \E x \in Steps : Task(x)

(* Threads look at queued tasks until none is left; see EveryWaitEnds of   *)
(* module Tasking.                                                         *)
DepsFairness == WF_depsVars(Parent) /\ \A x \in 1..8 : WF_depsVars(x \in Steps /\ Task(x))
DepsSpec == DepsInit /\ [][DepsNext]_depsVars /\ DepsFairness

(***************************************************************************)
(* Properties.                                                             *)
(***************************************************************************)
(* Step x names v, for this kind of access.                                *)
Names(x, v, kind) == \E i \in Filtered(x) : VarOf(x, i) = v /\ KindOf(x, i) = kind

Conflict(k, l) == k = "out" \/ l = "out" \/ k # l

Ordered(u, x) ==
    \E v \in Variables, k, l \in {"in", "out", "mtx"} :
        Conflict(k, l) /\ Names(u, v, k) /\ Names(x, v, l)

BodyIsOver(u) ==
    nodeLife[u] \notin {"none", "new", "blocked", "queued", "locking", "backing", "runs"}

HasBegun(x) == IF IsTask(x) THEN nodeLife[x] = "runs" ELSE step > x

(* A task runs, and a wait ends, only when the earlier tasks that it       *)
(* depends on have run; tasks that name a variable mutexinoutset exclude   *)
(* each other (__kmp_process_deps with tasks ending at the same time,      *)
(* __kmp_task_is_allowed).                                                 *)
DependencesHold ==
    \A x \in Steps : HasBegun(x) => \A u \in 1..(x - 1) : IsTask(u) =>
        /\ Ordered(u, x) => BodyIsOver(u)
        /\ (IsTask(x) /\ nodeLife[u] = "runs") =>
               ~\E v \in Variables : Names(u, v, "mtx") /\ Names(x, v, "mtx")

(* The references to the node of a task that are left: in the hash, until  *)
(* it is emptied, and in the lists of those it follows.                    *)
Emptying == at = "empty" \/ \E u \in Steps : nodeLife[u] = "emptying"
Released == {"notifying", "queueing", "forgetting", "freeing", "cleaning", "emptying", "freed"}
Listed(u) == IF nodeLife[u] \in Released THEN left[u] ELSE Len(node[u].succ)
LinksTo(x) == UNION {{<<u, i>> : i \in {j \in 1..Listed(u) : node[u].succ[j] = x}} : u \in Steps}
References(x) == (IF Emptying THEN 0 ELSE Cardinality(InHash(x))) + Cardinality(LinksTo(x))

(* A node is not freed while a reference to it is left, and is freed when  *)
(* none is; the hash of an implicit task is cleaned once, by its thread or *)
(* by the last of its children (__kmp_node_deref,                          *)
(* __kmp_finish_implicit_task, __kmp_free_task_and_ancestors).             *)
NodesLiveWhileUsed ==
    /\ \A x \in Steps : IsTask(x) => node[x].refs >= References(x)
    /\ at = "end" /\ (\A x \in Steps : IsTask(x) => nodeLife[x] = "freed")
         => \A x \in Steps : IsTask(x) => node[x].refs = 0

(* Every task runs in the end: none waits for a predecessor that has       *)
(* ended, and tasks with several locks do not keep each other from them    *)
(* (__kmp_release_deps, the order of mtx_locks).                           *)
EveryTaskRuns == <>(at = "end" /\ \A x \in Steps : IsTask(x) => nodeLife[x] = "freed")
================================================================================
