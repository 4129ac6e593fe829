------------------------------ MODULE TaskDeque ------------------------------
(***************************************************************************)
(* The task deques of a team (kmp_tasking.cpp).  Every thread of the team  *)
(* owns a ring of task pointers; it pushes and removes tasks at the tail,  *)
(* other threads steal at the head, and the thread that completes a proxy  *)
(* task, which may be outside the team, puts the task at the tail of any   *)
(* deque.  All of them change the deque under td_deque_lock, so a critical *)
(* section is one action; but a deque is allocated without the lock, in    *)
(* two stores, and a thread looks whether it is full without the lock      *)
(* before it decides what to do under it.                                  *)
(*                                                                         *)
(* Whether a thread may execute a task (__kmp_task_is_allowed) depends on  *)
(* the task scheduling constraint and on the locks of mutexinoutset        *)
(* dependences: a task of Restricted may be refused by any thread at any   *)
(* time, another one never is.  A thief's choice of victim and the count   *)
(* of unfinished threads are left out.                                     *)
(***************************************************************************)
EXTENDS Integers, Sequences

CONSTANTS
    NProc,          \* threads of the team, numbered from 0
    Tasks,          \* explicit tasks, pushed by their creator
    Proxies,        \* proxy tasks, completed by a thread outside the team
    Restricted,     \* tasks that may not be allowed to execute somewhere
    Untied,         \* untied tasks
    InitialSize,    \* INITIAL_TASK_DEQUE_SIZE, a power of two
    PassLimit,      \* 2^31, beyond which the pass of a giver wraps to 0
    Null

Thread == 0..(NProc - 1)
Items == Tasks \union Proxies

ASSUME NProcAssumption == NProc \in Nat \ {0}
ASSUME ItemsAssumption ==
    /\ Tasks \intersect Proxies = {} /\ Null \notin Items
    /\ Restricted \subseteq Tasks /\ Untied \subseteq Tasks
ASSUME SizeAssumption == InitialSize \in Nat \ {0} /\ PassLimit \in Nat \ {0}

VARIABLES
    td,         \* td[t]: of thread t's kmp_thread_data_t, td_deque (whether it is
                \*   allocated, and its slots), size, head, tail and ntasks
    enabled,    \* tt_found_tasks: some thread has enabled tasking for the team
    untied,     \* tt_untied_task_encountered
    pc,         \* where thread t is: run, alloc, check, expand, append
    hold,       \* the task thread t is creating
    give,       \* the giver of proxy p: at (idle, look, grow, append), its thread k and pass
    state       \* of every task: new, held, queued, started

vars == <<td, enabled, untied, pc, hold, give, state>>

-----------------------------------------------------------------------------
(* The ring.  The code masks with td_deque_size - 1, a power of two less   *)
(* one; indices go one step beyond the ring at most, so they wrap once.    *)

Wrap(i, size) == IF i >= size THEN i - size ELSE i
WrapBack(i, size) == IF i < 0 THEN i + size ELSE i

IsFull(d) == d.ntasks >= d.size

(* Slot of the i-th oldest task, and the tasks from the oldest to the newest. *)
Slot(d, i) == Wrap(d.head + i - 1, d.size)
Window(d) == [i \in 1..d.ntasks |-> d.slots[Slot(d, i)]]

(* A store at the tail.  A tail beyond the allocation overwrites something  *)
(* else; the deque never sees that task.                                    *)
PutTail(d, k) ==
    [d EXCEPT !.slots = [i \in DOMAIN @ |-> IF i = d.tail THEN k ELSE @[i]],
              !.tail = Wrap(d.tail + 1, d.size),
              !.ntasks = d.ntasks + 1]

(* Mutant: the owner reads the free slot behind its newest task. *)
NewestAtTail(d) == d.slots[d.tail]

Newest(d) == d.slots[WrapBack(d.tail - 1, d.size)]
Oldest(d) == d.slots[d.head]

DropNewest(d) ==
    [d EXCEPT !.tail = WrapBack(d.tail - 1, d.size), !.ntasks = d.ntasks - 1]

DropOldest(d) ==
    [d EXCEPT !.head = Wrap(d.head + 1, d.size), !.ntasks = d.ntasks - 1]

(* Mutant: the tasks behind the stolen one stay where they are. *)
DropInsideNoShift(d, i) ==
    [d EXCEPT !.tail = Slot(d, d.ntasks), !.ntasks = d.ntasks - 1]

(* A thief that walked to the i-th task shifts the ones behind it left.     *)
DropInside(d, i) ==
    [d EXCEPT !.slots = [s \in DOMAIN @ |->
                            IF \E j \in i..(d.ntasks - 1) : s = Slot(d, j)
                            THEN @[Wrap(s + 1, d.size)] ELSE @[s]],
              !.tail = Slot(d, d.ntasks),
              !.ntasks = d.ntasks - 1]

(* Mutant: the copy starts at slot 0. *)
ReallocFromZero(d) ==
    [d EXCEPT !.slots = [i \in 0..(2 * d.size - 1) |-> IF i < d.size THEN @[i] ELSE Null],
              !.size = 2 * d.size,
              !.head = 0,
              !.tail = d.size]

(* __kmp_realloc_task_deque copies size entries from the head on, however   *)
(* many tasks there are.                                                    *)
Realloc(d) ==
    [d EXCEPT !.slots = [i \in 0..(2 * d.size - 1) |->
                            IF i < d.size THEN @[Wrap(d.head + i, d.size)] ELSE Null],
              !.size = 2 * d.size,
              !.head = 0,
              !.tail = d.size]

(* Mutant: the second look, under the lock, is missing. *)
RoomUnchecked(d) == d

Room(d) == IF IsFull(d) THEN Realloc(d) ELSE d

(* __kmp_alloc_task_deque: the pointer is stored, then the size.            *)
NoDeque == [allocated |-> FALSE, slots |-> <<>>, size |-> 0, head |-> 0, tail |-> 0, ntasks |-> 0]
StorePointer(d) ==
    [d EXCEPT !.allocated = TRUE, !.slots = [i \in 0..(InitialSize - 1) |-> Null]]
StoreSize(d) == [d EXCEPT !.size = InitialSize]

-----------------------------------------------------------------------------

Init ==
    /\ td = [t \in Thread |-> NoDeque]
    /\ enabled = FALSE
    /\ untied = FALSE
    /\ pc = [t \in Thread |-> "run"]
    /\ hold = [t \in Thread |-> Null]
    /\ give = [p \in Proxies |-> [at |-> "idle", k |-> 0, pass |-> 1]]
    /\ state = [k \in Items |-> "new"]

Goto(t, where) == pc' = [pc EXCEPT ![t] = where]

(* The task leaves the thread that created it: its push ends here.          *)
EndPush(t, where) ==
    /\ state' = [state EXCEPT ![hold[t]] = where]
    /\ hold' = [hold EXCEPT ![t] = Null]
    /\ Goto(t, "run")

(* Only the owner allocates its deque, the first time it needs it.          *)
CreateItem(t, k, allocates, next) ==
    /\ pc[t] = "run"
    /\ state[k] = "new"
    /\ state' = [state EXCEPT ![k] = "held"]
    /\ enabled' = TRUE
    /\ IF allocates /\ ~td[t].allocated
       THEN /\ td' = [td EXCEPT ![t] = StorePointer(@)]
            /\ hold' = [hold EXCEPT ![t] = k]
            /\ Goto(t, "alloc")
       ELSE /\ UNCHANGED td
            /\ hold' = [hold EXCEPT ![t] = IF next = "run" THEN Null ELSE k]
            /\ Goto(t, next)

(* __kmp_push_task of a task just created.                                  *)
BeginPush(t, k) ==
    /\ k \in Tasks
    /\ CreateItem(t, k, TRUE, "check")
    /\ untied' = (untied \/ k \in Untied)
    /\ UNCHANGED give

(* The proxy task is executed at once and completes elsewhere; its creator  *)
(* has a deque only if it is the one that enables tasking.                  *)
CreateProxy(t, p) ==
    /\ p \in Proxies
    /\ CreateItem(t, p, ~enabled, "run")
    /\ give' = [give EXCEPT ![p].at = IF pc'[t] = "run" THEN "look" ELSE "idle"]
    /\ UNCHANGED untied

FinishAlloc(t) ==
    /\ pc[t] = "alloc"
    /\ td' = [td EXCEPT ![t] = StoreSize(@)]
    /\ \/ /\ hold[t] \in Tasks
          /\ Goto(t, "check")
          /\ UNCHANGED <<hold, give>>
       \/ /\ hold[t] \in Proxies
          /\ Goto(t, "run")
          /\ give' = [give EXCEPT ![hold[t]].at = "look"]
          /\ hold' = [hold EXCEPT ![t] = Null]
    /\ UNCHANGED <<enabled, untied, state>>

(* Is the deque full?  Without the lock.                                    *)
PushCheck(t) ==
    /\ pc[t] = "check"
    /\ IF ~IsFull(td[t])
       THEN Goto(t, "append") /\ UNCHANGED <<hold, state>>
       ELSE \/ EndPush(t, "started")
            \/ hold[t] \in Restricted /\ Goto(t, "expand") /\ UNCHANGED <<hold, state>>
    /\ UNCHANGED <<td, enabled, untied, give>>

(* The deque was full and the task may not be executed here: the deque is   *)
(* expanded under the lock without another look.                            *)
PushExpand(t) ==
    /\ pc[t] = "expand"
    /\ td' = [td EXCEPT ![t] = PutTail(Realloc(@), hold[t])]
    /\ EndPush(t, "queued")
    /\ UNCHANGED <<enabled, untied, give>>

(* There was room: look again under the lock, as a proxy task may have come. *)
PushAppend(t) ==
    /\ pc[t] = "append"
    /\ \/ /\ IsFull(td[t]) => hold[t] \in Restricted
          /\ td' = [td EXCEPT ![t] = PutTail(Room(@), hold[t])]
          /\ EndPush(t, "queued")
       \/ /\ IsFull(td[t])
          /\ EndPush(t, "started")
          /\ UNCHANGED td
    /\ UNCHANGED <<enabled, untied, give>>

(* __kmp_remove_my_task.  A refusal, like an empty deque, changes nothing.  *)
RemoveMyTask(t) ==
    /\ pc[t] = "run"
    /\ td[t].ntasks > 0
    /\ state' = [state EXCEPT ![Newest(td[t])] = "started"]
    /\ td' = [td EXCEPT ![t] = DropNewest(@)]
    /\ UNCHANGED <<enabled, untied, pc, hold, give>>

(* __kmp_steal_task by another thread: the oldest task or, when there are   *)
(* untied tasks in the team, the first one that is not refused.             *)
StealOldest(v) ==
    /\ \E t \in Thread \ {v} : pc[t] = "run"
    /\ td[v].ntasks > 0
    /\ state' = [state EXCEPT ![Oldest(td[v])] = "started"]
    /\ td' = [td EXCEPT ![v] = DropOldest(@)]
    /\ UNCHANGED <<enabled, untied, pc, hold, give>>

StealInside(v, i) ==
    /\ \E t \in Thread \ {v} : pc[t] = "run"
    /\ untied
    /\ i \in 2..td[v].ntasks
    /\ \A j \in 1..(i - 1) : Window(td[v])[j] \in Restricted
    /\ state' = [state EXCEPT ![Window(td[v])[i]] = "started"]
    /\ td' = [td EXCEPT ![v] = DropInside(@, i)]
    /\ UNCHANGED <<enabled, untied, pc, hold, give>>

-----------------------------------------------------------------------------
(* The thread that completes a proxy task (__kmpc_proxy_task_completed_ooo) *)
(* goes round the team until one deque takes the task (__kmp_give_task).   *)

(* Mutant: the giver does not go on to the next thread. *)
NextThreadSame(k) == k

NextThread(k) == IF k = NProc - 1 THEN 0 ELSE k + 1
NextPass(pass) == IF 2 * pass >= PassLimit THEN 0 ELSE 2 * pass

(* A deque expanded already gives the other threads a chance first.         *)
IsTooLarge(d, pass) == d.size \div InitialSize >= pass

GiveLook(p) ==
    /\ give[p].at = "look"
    /\ LET k == NextThread(give[p].k)
           pass == IF k = 0 THEN NextPass(give[p].pass) ELSE give[p].pass
           at == IF \/ ~td[k].allocated
                    \/ IsFull(td[k]) /\ IsTooLarge(td[k], pass) THEN "look"
                 ELSE IF IsFull(td[k]) THEN "grow" ELSE "append"
       IN  give' = [give EXCEPT ![p] = [at |-> at, k |-> k, pass |-> pass]]
    /\ UNCHANGED <<td, enabled, untied, pc, hold, state>>

Given(p) ==
    /\ give' = [give EXCEPT ![p].at = "idle"]
    /\ state' = [state EXCEPT ![p] = "queued"]

(* The deque was full: expanded under the lock without another look.        *)
GiveGrow(p) ==
    /\ give[p].at = "grow"
    /\ td' = [td EXCEPT ![give[p].k] = PutTail(Realloc(@), p)]
    /\ Given(p)
    /\ UNCHANGED <<enabled, untied, pc, hold>>

GiveAppend(p) ==
    /\ give[p].at = "append"
    /\ LET d == td[give[p].k]
       IN  IF IsFull(d) /\ IsTooLarge(d, give[p].pass)
           THEN /\ give' = [give EXCEPT ![p].at = "look"]
                /\ UNCHANGED <<td, state>>
           ELSE /\ td' = [td EXCEPT ![give[p].k] = PutTail(Room(@), p)]
                /\ Given(p)
    /\ UNCHANGED <<enabled, untied, pc, hold>>

-----------------------------------------------------------------------------

Push(t) == FinishAlloc(t) \/ PushCheck(t) \/ PushExpand(t) \/ PushAppend(t)
Steal(v) == StealOldest(v) \/ \E i \in 2..td[v].ntasks : StealInside(v, i)
Give(p) == GiveLook(p) \/ GiveGrow(p) \/ GiveAppend(p)

Next ==
    \/ \E t \in Thread : \/ \E k \in Tasks : BeginPush(t, k)
                         \/ \E p \in Proxies : CreateProxy(t, p)
                         \/ Push(t) \/ RemoveMyTask(t) \/ Steal(t)
    \/ \E p \in Proxies : Give(p)

(* A thread does not stop in the middle of a push, nor a giver before its   *)
(* task is taken over; a thread comes to a barrier, where it executes the   *)
(* tasks of its own deque.                                                  *)
Fairness ==
    /\ \A t \in Thread : WF_vars(Push(t)) /\ WF_vars(RemoveMyTask(t))
    /\ \A p \in Proxies : WF_vars(Give(p))

Spec == Init /\ [][Next]_vars /\ Fairness

(* The schedules on which a look without the lock still holds under it: no  *)
(* task leaves a deque between the look that found it full and the          *)
(* expansion, and no giver looks at a deque whose size is not yet stored.   *)
LooksHold ==
    /\ \A t \in Thread : pc[t] = "expand" => IsFull(td[t])
    /\ \A p \in Proxies : give[p].at = "grow" =>
          IsFull(td[give[p].k]) /\ td[give[p].k].size > 0

SafeNext ==
    \/ \E t \in Thread : \/ \E k \in Tasks : BeginPush(t, k) /\ LooksHold'
                         \/ \E p \in Proxies : CreateProxy(t, p) /\ LooksHold'
                         \/ FinishAlloc(t) /\ LooksHold'
                         \/ PushCheck(t) /\ LooksHold'
                         \/ PushExpand(t) /\ LooksHold'
                         \/ PushAppend(t) /\ LooksHold'
                         \/ RemoveMyTask(t) /\ LooksHold'
                         \/ StealOldest(t) /\ LooksHold'
                         \/ \E i \in 2..td[t].ntasks : StealInside(t, i) /\ LooksHold'
    \/ \E p \in Proxies : \/ GiveLook(p) /\ LooksHold'
                          \/ GiveGrow(p) /\ LooksHold'
                          \/ GiveAppend(p) /\ LooksHold'

SafeSpec == Init /\ [][SafeNext]_vars /\ Fairness

-----------------------------------------------------------------------------
(* Properties.                                                             *)

Abstract == INSTANCE TaskPool WITH pool <- [t \in Thread |-> Window(td[t])]

IsRing(d) ==
    /\ DOMAIN d = {"allocated", "slots", "size", "head", "tail", "ntasks"}
    /\ d.allocated
    /\ d.size \in Nat \ {0} /\ d.head \in 0..(d.size - 1) /\ d.ntasks \in 0..d.size
    /\ d.tail = Wrap(d.head + d.ntasks, d.size)
    /\ d.slots \in [0..(d.size - 1) -> Items \union {Null}]

(* A deque whose owner is at the given place.                               *)
IsDeque(d, where) ==
    IF ~d.allocated THEN d = NoDeque /\ where = "run"
    ELSE IF where = "alloc" THEN d = StorePointer(NoDeque) ELSE IsRing(d)

(* Types, and the shape of the rings: the tail is ntasks slots behind the   *)
(* head whatever mixture of pushes, steals, gifts and expansions the deque  *)
(* has seen (KMP_DEBUG_ASSERT in __kmp_steal_task).                         *)
TypeOK ==
    /\ DOMAIN td = Thread
    /\ \A t \in Thread : IsDeque(td[t], pc[t])
    /\ enabled \in BOOLEAN /\ untied \in BOOLEAN
    /\ pc \in [Thread -> {"run", "alloc", "check", "expand", "append"}]
    /\ hold \in [Thread -> Items \union {Null}]
    /\ give \in [Proxies -> [at : {"idle", "look", "grow", "append"}, k : Thread, pass : Nat]]
    /\ state \in [Items -> {"new", "held", "queued", "started"}]

(* A task being created or given is in the hands of one thread only, and a  *)
(* gift goes to a deque that exists: the alternation of __kmp_push_task,    *)
(* __kmp_give_task and the threads that take tasks never hands a task twice. *)
Hands ==
    /\ \A t \in Thread : /\ pc[t] = "run" <=> hold[t] = Null
                         /\ pc[t] \in {"check", "expand", "append"} => hold[t] \in Tasks
                         /\ pc[t] # "run" => state[hold[t]] = "held"
    /\ \A t, u \in Thread : hold[t] = hold[u] => t = u \/ hold[t] = Null
    /\ \A p \in Proxies : give[p].at # "idle" =>
          state[p] = "held" /\ \A t \in Thread : hold[t] # p
    /\ \A p \in Proxies : give[p].at = "append" => td[give[p].k].size > 0

(* No task is lost or executed twice: a task is in one slot of one deque    *)
(* exactly from its push or gift until one thread takes it.                 *)
TasksQueuedOnce ==
    /\ \A k \in Items :
          state[k] = "queued" <=> \E t \in Thread : \E i \in 1..td[t].ntasks : Window(td[t])[i] = k
    /\ \A t, u \in Thread : \A i \in 1..td[t].ntasks, j \in 1..td[u].ntasks :
          Window(td[t])[i] = Window(td[u])[j] => t = u /\ i = j

(* Inductive.                                                              *)
IInv == TypeOK /\ Hands /\ LooksHold /\ TasksQueuedOnce

(* The deques are pools: pushes and gifts add the task they say, the owner  *)
(* takes its newest task and thieves an older one, whatever the expansions. *)
ImplementsPool == Abstract!Spec

(* The thread that completes a proxy task finds a deque for it, full or     *)
(* missing deques notwithstanding (__kmpc_proxy_task_completed_ooo).        *)
ProxyIsQueued == \A p \in Proxies : state[p] = "held" ~> state[p] # "held"

(* "copies the content from the old deque and adjusts the necessary data    *)
(* structures": an expansion in __kmp_push_task neither loses a task nor    *)
(* brings one back.                                                         *)
ExpansionKeepsTasks == TasksQueuedOnce

(* "No lock is needed during allocation since each thread allocates its own *)
(* deque": every task of a deque is in a slot that was allocated for it.    *)
SlotsAreAllocated ==
    \A t \in Thread : \A i \in 1..td[t].ntasks :
        Slot(td[t], i) \in DOMAIN td[t].slots
=============================================================================
