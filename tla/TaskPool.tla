------------------------------- MODULE TaskPool -------------------------------
(***************************************************************************)
(* What the task deques of a team promise: every deferred task stays in    *)
(* the queue of one thread until some thread takes it, and exactly one     *)
(* thread does.  A creator that finds no room executes the task itself.    *)
(***************************************************************************)
EXTENDS Integers, SequencesExt

CONSTANTS Thread, Items    \* threads of the team; tasks and completed proxy tasks

VARIABLES
    pool,       \* pool[t]: the tasks queued with thread t, oldest first
    state       \* of every task: new, held by the thread that queues it, queued, started

vars == <<pool, state>>

Init ==
    /\ pool = [t \in Thread |-> <<>>]
    /\ state = [k \in Items |-> "new"]

Create(k) ==
    /\ state[k] = "new"
    /\ state' = [state EXCEPT ![k] = "held"]
    /\ UNCHANGED pool

Queue(t, k) ==
    /\ state[k] = "held"
    /\ pool' = [pool EXCEPT ![t] = Append(@, k)]
    /\ state' = [state EXCEPT ![k] = "queued"]

ExecuteAtOnce(k) ==
    /\ state[k] = "held"
    /\ state' = [state EXCEPT ![k] = "started"]
    /\ UNCHANGED pool

Take(t, i) ==
    /\ state' = [state EXCEPT ![pool[t][i]] = "started"]
    /\ pool' = [pool EXCEPT ![t] = RemoveAt(@, i)]

(* Which task an owner and a thief may take: the owner its newest one, a    *)
(* thief the oldest one it is allowed to execute.                           *)
TakeNewest(t) == pool[t] # <<>> /\ Take(t, Len(pool[t]))
TakeOlder(t) == \E i \in 1..Len(pool[t]) : Take(t, i)

Next ==
    \/ \E k \in Items : Create(k) \/ ExecuteAtOnce(k)
    \/ \E t \in Thread : TakeNewest(t) \/ TakeOlder(t) \/ \E k \in Items : Queue(t, k)

(* A thread that comes to a barrier executes the tasks of its own queue.    *)
Fairness == \A t \in Thread : WF_vars(TakeNewest(t))

Spec == Init /\ [][Next]_vars /\ Fairness
=============================================================================
