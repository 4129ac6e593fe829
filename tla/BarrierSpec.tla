----------------------------- MODULE BarrierSpec -----------------------------
(***************************************************************************)
(* What the barriers of a team promise, whatever tree they run on.  The    *)
(* threads of a team go through the same sequence of barriers; a barrier   *)
(* is entered by every thread, gathered, opened by the master and then     *)
(* left by every thread.  Gathering and opening are separate because the   *)
(* master does work of its own in between: a fork barrier is opened by the *)
(* next fork, a split barrier (__kmp_end_split_barrier) after the master   *)
(* block or the last step of a reduction.                                  *)
(*                                                                         *)
(* The threads are born inside their first fork barrier.                   *)
(***************************************************************************)
EXTENDS Integers

CONSTANT Thread

VARIABLES
    entered, left,      \* barriers each thread has entered, and left
    gathered, opened    \* barriers gathered and opened for the team

vars == <<entered, left, gathered, opened>>

Init ==
    /\ entered = [t \in Thread |-> 1]
    /\ left = [t \in Thread |-> 0]
    /\ gathered = 1 /\ opened = 0

Enter(t) ==
    /\ entered[t] = left[t]
    /\ entered' = [entered EXCEPT ![t] = @ + 1]
    /\ UNCHANGED <<left, gathered, opened>>

Gather ==
    /\ \A t \in Thread : entered[t] = gathered + 1
    /\ gathered' = gathered + 1
    /\ UNCHANGED <<entered, left, opened>>

Open ==
    /\ opened < gathered
    /\ opened' = opened + 1
    /\ UNCHANGED <<entered, left, gathered>>

Leave(t) ==
    /\ left[t] < entered[t]
    /\ entered[t] <= opened
    /\ left' = [left EXCEPT ![t] = @ + 1]
    /\ UNCHANGED <<entered, gathered, opened>>

Next == Gather \/ Open \/ \E t \in Thread : Enter(t) \/ Leave(t)

(* A barrier that all have entered is gathered, and one that is open is     *)
(* left.  A thread may compute for ever, and the master may not fork again. *)
Fairness == WF_vars(Gather) /\ \A t \in Thread : WF_vars(Leave(t))

Spec == Init /\ [][Next]_vars /\ Fairness

=============================================================================
