----------------------------- MODULE Allocators -----------------------------
(***************************************************************************)
(* The allocators of OpenMP 5.0 (kmp_alloc.cpp, without the memkind        *)
(* library).  An allocator with a pool size counts the bytes that its      *)
(* blocks take: a thread adds the size of its block first, compares, and   *)
(* takes the size back when the pool does not have it; then it goes on as  *)
(* the fallback trait says.  The descriptor before a block names the       *)
(* allocator that the block is counted for.                                *)
(***************************************************************************)
EXTENDS ThreadMemory, FiniteSetsExt, TLC

CONSTANTS
    Allocator,      \* the allocators of the program
    PoolSize,       \* the pool_size of each; 0: not limited
    Fallback,       \* "default", "null" or "allocator"
    FallbackData,   \* the other allocator, of those that have one
    BlockSizes,     \* the sizes that are asked for, with descriptor and alignment
    MaxBlocks,      \* blocks that the memory has
    Default         \* omp_default_mem_alloc

ASSUME AllocatorsAssumption ==
    /\ Default \notin Allocator
    /\ PoolSize \in [Allocator -> Nat] /\ BlockSizes \subseteq Nat \ {0}
    /\ MaxBlocks \in Nat \ {0}
    /\ Fallback \in [Allocator -> {"default", "null", "allocator"}]
    /\ \A al \in Allocator : Fallback[al] = "allocator" => FallbackData[al] \in Allocator \ {al}

VARIABLES
    pool_used,  \* of each allocator
    blocks,     \* the descriptor of each block that the program has
    call        \* where each thread is in __kmpc_alloc or __kmpc_free

allocatorVars == <<pool_used, blocks, call>>

Block == 1..MaxBlocks
Outside == [op |-> "outside"]

AllocatorsInit ==
    /\ pool_used = [al \in Allocator |-> 0]
    /\ blocks = <<>>
    /\ call = [t \in Thread |-> Outside]


(* The atomic addition to pool_used, before anything is known. *)
Reserve(t, al, size) ==
    /\ call' = [call EXCEPT ![t] =
                  IF PoolSize[al] > 0
                  THEN [op |-> "compare", al |-> al, size |-> size, used |-> pool_used[al]]
                  ELSE [op |-> "malloc", al |-> al, size |-> size]]
    /\ pool_used' = IF PoolSize[al] > 0 THEN [pool_used EXCEPT ![al] = @ + size] ELSE pool_used
    /\ UNCHANGED blocks

Alloc(t) ==
    /\ call[t] = Outside
    /\ \E al \in Allocator, size \in BlockSizes : Reserve(t, al, size)

(* Mutant: the size of the new block is not counted. *)
CompareUsedOnly(t) ==
    /\ call[t].op = "compare"
    /\ call' = [call EXCEPT ![t] = [op |-> IF @.used > PoolSize[@.al] THEN "back" ELSE "malloc",
                                    al |-> @.al, size |-> @.size]]
    /\ UNCHANGED <<pool_used, blocks>>

(* Does the pool have it, after what was used before the addition? *)
Compare(t) ==
    /\ call[t].op = "compare"
    /\ call' = [call EXCEPT ![t] =
                  [op |-> IF @.used + @.size > PoolSize[@.al] THEN "back" ELSE "malloc",
                   al |-> @.al, size |-> @.size]]
    /\ UNCHANGED <<pool_used, blocks>>

(* The addition is taken back, and the fallback tried: the default memory, *)
(* nothing, or another allocator from the start.                           *)
TakeBack(t) ==
    LET al   == call[t].al
        size == call[t].size
    IN  /\ call[t].op = "back"
        /\ pool_used' = [pool_used EXCEPT ![al] = @ - size]
        /\ call' = [call EXCEPT ![t] =
             CASE Fallback[al] = "default"   -> [op |-> "malloc", al |-> Default, size |-> size]
               [] Fallback[al] = "null"      -> Outside
               [] Fallback[al] = "allocator" -> [op |-> "again", al |-> FallbackData[al], size |-> size]]
        /\ UNCHANGED blocks

Again(t) == call[t].op = "again" /\ Reserve(t, call[t].al, call[t].size)

(* __kmp_thread_malloc, which may fail; the size then stays counted. *)
Allocate(t) ==
    /\ call[t].op = "malloc"
    /\ LET desc == [allocator |-> call[t].al, size_a |-> call[t].size]
           free == Block \ DOMAIN blocks
       IN  blocks' = IF free = {} THEN blocks ELSE (Min(free) :> desc) @@ blocks
    /\ call' = [call EXCEPT ![t] = Outside]
    /\ UNCHANGED pool_used

(* __kmpc_free: the size goes back to the allocator of the descriptor, and *)
(* then the memory.                                                        *)
Uncount(t) ==
    /\ call[t] = Outside
    /\ \E b \in DOMAIN blocks :
         LET al == blocks[b].allocator
         IN  /\ \A u \in Thread : call[u].op = "free" => call[u].block # b
             /\ call' = [call EXCEPT ![t] = [op |-> "free", block |-> b]]
             /\ pool_used' = IF al \in Allocator /\ PoolSize[al] > 0
                             THEN [pool_used EXCEPT ![al] = @ - blocks[b].size_a] ELSE pool_used
    /\ UNCHANGED blocks

FreeBlock(t) ==
    /\ call[t].op = "free"
    /\ blocks' = Restrict(blocks, DOMAIN blocks \ {call[t].block})
    /\ call' = [call EXCEPT ![t] = Outside]
    /\ UNCHANGED pool_used

AllocatorsNext == \E t \in Thread :
    \/ Alloc(t) \/ Compare(t) \/ TakeBack(t) \/ Again(t) \/ Allocate(t)
    \/ Uncount(t) \/ FreeBlock(t)

-----------------------------------------------------------------------------
AllocatorsSpec == AllocatorsInit /\ [][AllocatorsNext]_allocatorVars

Freed == {call[t].block : t \in {u \in Thread : call[u].op = "free"}}

(* The bytes that the program has from an allocator, and those for which a *)
(* thread has been let pass and still calls malloc.                        *)
Granted(al) ==
    MapThenSumSet(LAMBDA b : blocks[b].size_a,
                  {b \in DOMAIN blocks \ Freed : blocks[b].allocator = al})
      + MapThenSumSet(LAMBDA t : call[t].size,
                      {t \in Thread : call[t].op = "malloc" /\ call[t].al = al})

(* Whatever threads allocate and free at the same time, the blocks of an   *)
(* allocator never take more than its pool size, and what the count says   *)
(* is never less than what they take.                                      *)
PoolSizeKept ==
    \A al \in Allocator : PoolSize[al] > 0 =>
        /\ Granted(al) <= PoolSize[al]
        /\ Granted(al) <= pool_used[al]

=============================================================================
