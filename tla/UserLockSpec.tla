------------------------------ MODULE UserLockSpec ------------------------------
(***************************************************************************)
(* What the lock routines of the OpenMP interface promise.  A lock that is *)
(* initialized is free or set by one thread; a nestable lock counts how    *)
(* often.  The program sets a simple lock once at a time, unsets what it   *)
(* has set, and destroys only what is free.                                *)
(***************************************************************************)
EXTENDS Integers

CONSTANTS Caller, Lock, Nil, MaxDepth

VARIABLES locks,    \* nothing, or the nesting, the owner and the count of each lock
          call      \* the call each thread is in

vars == <<locks, call>>

Idle == [at |-> "idle"]
LockState(nest, owner, count) == [nest |-> nest, owner |-> owner, count |-> count]

Legal(t, l, op) ==
    CASE op \in {"init", "initNest"} -> locks[l] = Nil
      [] op = "destroy" -> locks[l] # Nil /\ locks[l].owner = Nil
      [] op = "set"     -> locks[l] # Nil /\ (locks[l].owner = t => locks[l].nest /\ locks[l].count < MaxDepth)
      [] op = "test"    -> locks[l] # Nil /\ (locks[l].nest => locks[l].count < MaxDepth)
      [] op = "unset"   -> locks[l] # Nil /\ locks[l].owner = t

(* A lock is made and destroyed while no other call is about it.            *)
Invoke(t) ==
    /\ call[t] = Idle
    /\ \E l \in Lock, op \in {"init", "initNest", "destroy", "set", "test", "unset"} :
         /\ Legal(t, l, op)
         /\ \A u \in Caller : call[u].at = "called" /\ call[u].lock = l =>
              {call[u].op, op} \cap {"init", "initNest", "destroy"} = {}
         /\ call' = [call EXCEPT ![t] = [at |-> "called", lock |-> l, op |-> op]]
    /\ UNCHANGED locks

Finish(t, result) == call' = [call EXCEPT ![t] = [at |-> "done", result |-> result]]
Become(t, state) == locks' = [locks EXCEPT ![call[t].lock] = state]
Calls(t, ops) == call[t].at = "called" /\ call[t].op \in ops

Make(t) == /\ Calls(t, {"init", "initNest"}) /\ Become(t, LockState(call[t].op = "initNest", Nil, 0)) /\ Finish(t, 0)
Destroy(t) == Calls(t, {"destroy"}) /\ Become(t, Nil) /\ Finish(t, 0)

(* The first acquisition waits for the lock; a nested one only counts.      *)
Acquire(t) ==
    LET l == locks[call[t].lock] IN
    /\ l.owner = Nil /\ Become(t, LockState(l.nest, t, 1)) /\ Finish(t, 1)
Reacquire(t) ==
    LET l == locks[call[t].lock] IN
    /\ l.owner = t /\ l.nest /\ Become(t, LockState(l.nest, t, l.count + 1))
    /\ Finish(t, IF call[t].op = "set" THEN 0 ELSE l.count + 1)
Refuse(t) ==
    LET l == locks[call[t].lock] IN
    /\ l.owner # Nil /\ (l.nest => l.owner # t) /\ Finish(t, 0) /\ UNCHANGED locks

Release(t) ==
    LET l == locks[call[t].lock] IN
    /\ l.owner = t
    /\ IF l.count = 1 THEN Become(t, LockState(l.nest, Nil, 0)) /\ Finish(t, 1)
       ELSE Become(t, LockState(l.nest, t, l.count - 1)) /\ Finish(t, 0)

Return(t) ==
    /\ call[t].at = "done" /\ call' = [call EXCEPT ![t] = Idle] /\ UNCHANGED locks

Init == locks = [l \in Lock |-> Nil] /\ call = [t \in Caller |-> Idle]
Next == \E t \in Caller :
    \/ Invoke(t) \/ Make(t) \/ Destroy(t) \/ Return(t)
    \/ Calls(t, {"set", "test"}) /\ (Acquire(t) \/ Reacquire(t))
    \/ Calls(t, {"test"}) /\ Refuse(t)
    \/ Calls(t, {"unset"}) /\ Release(t)

Spec == Init /\ [][Next]_vars
=============================================================================
