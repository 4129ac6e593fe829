------------------------------- MODULE LockSpec -------------------------------
(***************************************************************************)
(* What a user lock promises (omp_set_lock and its relatives): one holder, *)
(* as many releases as the holder has acquired it, and for the kinds of    *)
(* lock that queue their waiters the order of the queue, which nobody      *)
(* overtakes.  A waiter that never queues (a test-and-set lock) may only   *)
(* take the lock when it is free.                                          *)
(***************************************************************************)
EXTENDS Naturals, Sequences

CONSTANTS Thread, None

VARIABLES
    holder,     \* the thread that holds the lock, or None
    depth,      \* how often the holder has acquired it
    queue       \* the threads that wait in order

vars == <<holder, depth, queue>>

Init == holder = None /\ depth = 0 /\ queue = <<>>

Enter(t) ==
    /\ holder # t /\ \A i \in 1..Len(queue) : queue[i] # t
    /\ queue' = Append(queue, t)
    /\ UNCHANGED <<holder, depth>>

Grant ==
    /\ holder = None /\ queue # <<>>
    /\ holder' = Head(queue) /\ depth' = 1 /\ queue' = Tail(queue)

(* No thread overtakes the queue: neither a test nor a late comer.          *)
Take(t) ==
    /\ holder = None /\ queue = <<>>
    /\ holder' = t /\ depth' = 1 /\ UNCHANGED queue

Again(t) ==
    /\ holder = t
    /\ depth' = depth + 1 /\ UNCHANGED <<holder, queue>>

Release(t) ==
    /\ holder = t
    /\ depth' = depth - 1
    /\ holder' = IF depth = 1 THEN None ELSE t
    /\ UNCHANGED queue

Next == Grant \/ \E t \in Thread : Enter(t) \/ Take(t) \/ Again(t) \/ Release(t)

(* Holders release, and a free lock with a queue is handed over.            *)
Fairness == WF_vars(Grant) /\ \A t \in Thread : WF_vars(Release(t))

Spec == Init /\ [][Next]_vars /\ Fairness
=============================================================================
