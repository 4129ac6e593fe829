------------------------------- MODULE MCLocks -------------------------------
(***************************************************************************)
(* Locks, and the atomic constructs, one kind of run at a time.            *)
(***************************************************************************)
EXTENDS Locks

CONSTANTS Parts, AtomicPrograms

VARIABLES part, uses, mem, holder, op, done

Threads3 == {1, 2, 3}

(* Three threads take a ticket each, so that the area grows, and the fourth *)
(* ticket lets its holder free the old area and contract the new one.      *)
Calls == [k \in AllKinds |-> IF k = "drdpa" THEN 4 ELSE 3]

(* Programs that mix routines on one location.  The types stand for the    *)
(* groups that the tables of routines distinguish.                         *)
Uses(types, modes, forms) == [type : types, mode : modes, forms : forms]

MixedPrograms ==
    Uses({"fixed4", "float8"}, {2},
         {{"update", "write", "capture"}, {"read", "swap", "reversed", "captureMixed"},
          {"update", "generic", "mixed", "captureReversed"}})
    \cup Uses({"cmplx8"}, {1, 2},
         {{"update", "write", "capture"}, {"read", "swap", "reversed", "captureReversed"},
          {"update", "generic"}})
    \cup Uses({"cmplx4", "float10", "float16"}, {2}, {{"update", "capture", "read", "region"}})

(* A capture of a maximum or minimum next to another update.               *)
MaxPrograms == Uses({"fixed4"}, {2}, {{"update", "captureMinMax"}})

Atomic == INSTANCE Atomics WITH
    Thread <- {1, 2}, Programs <- AtomicPrograms, Operands <- {2}, Size <- 4, MaxCalls <- 3,
    program <- uses, calls <- done

atomicVars == <<uses, mem, holder, op, done>>

-----------------------------------------------------------------------------
(* What a part does not run is given one of its beginnings.  A plain DRDPA *)
(* lock takes the steps of a checked one without the stores of its owner.  *)
For(name, values) == IF part = name THEN values ELSE {CHOOSE v \in values : TRUE}

MCInit ==
    /\ part \in Parts
    /\ kind \in For("locks", Kinds) /\ mode \in For("locks", Modes) /\ Init
    /\ kind = "drdpa" => mode # "plain"
    /\ uses \in For("atomics", AtomicPrograms) /\ Atomic!Init

MCNext ==
    \/ part = "locks" /\ SafeNext /\ UNCHANGED <<part, atomicVars>>
    \/ part = "atomics" /\ Atomic!Next /\ UNCHANGED <<part, vars>>

(* The fairness of each part, while it runs.                               *)
MCFairness ==
    /\ \A t \in Thread : /\ WF_vars(part = "locks" /\ Advance(t))
                         /\ WF_vars(part = "locks" /\ UnsetCall(t))
    /\ \A t \in {1, 2} : /\ WF_atomicVars(part = "atomics" /\ Atomic!Step(t))
                         /\ SF_atomicVars(part = "atomics" /\ Atomic!Acquire(t))

MCSpec == MCInit /\ [][MCNext]_<<part, vars, atomicVars>> /\ MCFairness

-----------------------------------------------------------------------------
(* See ImplementsAtomic of module Atomics.                                 *)
ImplementsAtomic == Atomic!ImplementsAtomic
=============================================================================
