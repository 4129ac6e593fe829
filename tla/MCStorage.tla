------------------------------ MODULE MCStorage ------------------------------
(***************************************************************************)
(* What the library keeps for the program, one kind of run at a time: the  *)
(* heaps of the threads, the program's allocators, threadprivate data, and *)
(* the table of the program's locks.                                       *)
(***************************************************************************)
EXTENDS Allocators, ThreadPrivate, UserLocks

CONSTANTS Parts, t1, t2, small, large, a1, a2

VARIABLE part

(* Thresholds of the free lists, counted from 0.                           *)
SmallBins == 0 :> 0 @@ 1 :> 3 @@ 2 :> 5
OneClass == <<2>>

(* An allocator with a pool that falls back to another one.                *)
TwoPools == small :> 2 @@ large :> 3
ToTheOther == small :> "allocator" @@ large :> "default"
Other == small :> large

Symmetry == Permutations(Thread) \cup Permutations(Lock)

-----------------------------------------------------------------------------
(* What a part does not run has one of its beginnings.                     *)
MCInit ==
    /\ part \in Parts
    /\ Init /\ AllocatorsInit /\ PrivateInit /\ UserLocksInit
    /\ part # "heaps" => heap.mode = "fifo"
    /\ part # "private" => ~foreignTp /\ objects = {}
    /\ part # "locks" => family = {"hle"}

MCNext ==
    /\ UNCHANGED part
    /\ \/ part = "heaps" /\ Next /\ UNCHANGED <<allocatorVars, privateVars, userLockVars>>
       \/ part = "allocators" /\ AllocatorsNext /\ UNCHANGED <<vars, privateVars, userLockVars>>
       \/ part = "private" /\ PrivateNext /\ UNCHANGED <<vars, allocatorVars, userLockVars>>
       \/ part = "locks" /\ UserLocksNext /\ UNCHANGED <<vars, allocatorVars, privateVars>>

MCSpec == MCInit /\ [][MCNext]_<<vars, allocatorVars, privateVars, userLockVars, part>>

-----------------------------------------------------------------------------
(* The buffers of a heap cover its pools, joined as far as can be and in   *)
(* the right free list, the program's are its own, and an allocator's pool *)
(* counts what the program has from it (kmp_alloc.cpp:300-1290,            *)
(* 1416-1652).                                                             *)
MemoryAccounted ==
    /\ part = "heaps" => HeapIsWhole /\ BuffersAccounted
    /\ part = "allocators" => PoolSizeKept
=============================================================================
