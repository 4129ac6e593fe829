------------------------------ MODULE AtomicSpec ------------------------------
(***************************************************************************)
(* What the atomic constructs promise: a call changes the location in one  *)
(* indivisible step between its invocation and its return, and a capture   *)
(* returns the value from just before or just after that very step.        *)
(***************************************************************************)
EXTENDS Integers

CONSTANTS Thread, Operations, Operands,
          Apply(_, _, _)      \* the new value, for an operation, a value and an operand

VARIABLES x,        \* the location
          call      \* the call each thread is in

vars == <<x, call>>

Idle == [at |-> "idle"]
Called == [at : {"called"}, op : Operations, rhs : Operands, capture : {"none", "old", "new"}]

Init == x \in Nat /\ call = [t \in Thread |-> Idle]

Invoke(t) ==
    /\ call[t] = Idle
    /\ call'[t] \in Called /\ call' = [call EXCEPT ![t] = call'[t]]
    /\ UNCHANGED x

Perform(t) ==
    /\ call[t].at = "called"
    /\ x' = Apply(call[t].op, x, call[t].rhs)
    /\ call' = [call EXCEPT ![t] =
         [at |-> "done", result |-> CASE call[t].capture = "none" -> 0
                                      [] call[t].capture = "old"  -> x
                                      [] call[t].capture = "new"  -> x']]

Return(t) ==
    /\ call[t].at = "done"
    /\ call' = [call EXCEPT ![t] = Idle]
    /\ UNCHANGED x

Next == \E t \in Thread : Invoke(t) \/ Perform(t) \/ Return(t)

(* Every call takes effect and returns, whatever the other threads do.      *)
Fairness == \A t \in Thread : WF_vars(Perform(t)) /\ WF_vars(Return(t))

Spec == Init /\ [][Next]_vars /\ Fairness
=============================================================================
