--------------------------- MODULE BarrierTopology ---------------------------
(***************************************************************************)
(* The trees along which kmp_barrier.cpp gathers and releases a team: who  *)
(* waits for whom, who wakes whom and who releases whom, for the linear,   *)
(* tree and hyper patterns with branching factor 2^bits.  Each operator is *)
(* the set of threads that the loop of the code visits; levels count the   *)
(* code's "level" in units of branch_bits.                                 *)
(***************************************************************************)
EXTENDS Integers

Pattern == {"linear", "tree", "hyper"}

(* The value of tid at one level: (tid >> level) & (branch_factor - 1). *)
Digit(bits, tid, level) == (tid \div 2^(bits * level)) % 2^bits

LinearKids(tid, nproc) == IF tid = 0 THEN 1..(nproc - 1) ELSE {}

TreeKids(bits, tid, nproc) ==
    {tid * 2^bits + c : c \in 1..2^bits} \cap 0..(nproc - 1)

(* The levels at which thread tid is a parent: the code leaves its loop at  *)
(* the first level where the thread has a non-zero digit.  "offset", 2 to   *)
(* the level, is a 32-bit integer.                                          *)
HyperLevels(bits, tid, nproc) ==
    {level \in 0..(30 \div bits) : /\ 2^(bits * level) < nproc
                                   /\ \A l \in 0..level : Digit(bits, tid, l) = 0}

HyperGatherKids(bits, tid, nproc) ==
    UNION {{tid + c * 2^(bits * level) : c \in 1..(2^bits - 1)} :
               level \in HyperLevels(bits, tid, nproc)} \cap 0..(nproc - 1)

(* The release goes through the children from the highest one, which it     *)
(* computes from the team's size: num_threads >> (level ? level - 1 : 0).   *)
HyperReleaseKids(bits, tid, nproc) ==
    LET highest(level) == nproc \div 2^(IF level = 0 THEN 0 ELSE bits * level - 1)
    IN  UNION {{tid + c * 2^(bits * level) :
                  c \in {k \in 1..(2^bits - 1) : k <= highest(level)}} :
                  level \in HyperLevels(bits, tid, nproc)} \cap 0..(nproc - 1)

GatherKids(pattern, bits, tid, nproc) ==
    CASE pattern = "linear" -> LinearKids(tid, nproc)
      [] pattern = "tree"   -> TreeKids(bits, tid, nproc)
      [] pattern = "hyper"  -> HyperGatherKids(bits, tid, nproc)

ReleaseKids(pattern, bits, tid, nproc) ==
    CASE pattern = "linear" -> LinearKids(tid, nproc)
      [] pattern = "tree"   -> TreeKids(bits, tid, nproc)
      [] pattern = "hyper"  -> HyperReleaseKids(bits, tid, nproc)

(* Mutant: the digit that stops the loop is not cleared. *)
HyperParentOneLevel(bits, tid) ==
    LET level == CHOOSE l \in 0..tid : /\ Digit(bits, tid, l) # 0
                                       /\ \A m \in 0..(l - 1) : Digit(bits, tid, m) = 0
    IN  tid - (tid % 2^(bits * level))

(* tid & ~((1 << (level + branch_bits)) - 1) at the first non-zero digit. *)
HyperParent(bits, tid) ==
    LET level == CHOOSE l \in 0..tid : /\ Digit(bits, tid, l) # 0
                                       /\ \A m \in 0..(l - 1) : Digit(bits, tid, m) = 0
    IN  tid - (tid % 2^(bits * (level + 1)))

(* The thread that a worker wakes after it has stored its arrival. *)
GatherParent(pattern, bits, tid) ==
    CASE pattern = "linear" -> 0
      [] pattern = "tree"   -> (tid - 1) \div 2^bits
      [] pattern = "hyper"  -> HyperParent(bits, tid)

-----------------------------------------------------------------------------
(* Kids, a function from each thread to the set it waits for or releases,   *)
(* is a tree over the team rooted at the master: every other thread has     *)
(* exactly one parent, and the parent's number is the smaller one.          *)
IsTeamTree(Kids, nproc) ==
    /\ Kids \in [0..(nproc - 1) -> SUBSET (1..(nproc - 1))]
    /\ \A tid \in 1..(nproc - 1) :
         \E p \in 0..(tid - 1) :
             \A q \in 0..(nproc - 1) : tid \in Kids[q] <=> q = p

(* Every member of the team is gathered by exactly one thread of lower      *)
(* number, whatever the pattern, the branching and the size: a team whose   *)
(* size is no power of the branching factor loses no thread.                *)
GatherIsTeamTree(pattern, bits, nproc) ==
    IsTeamTree([t \in 0..(nproc - 1) |-> GatherKids(pattern, bits, t, nproc)], nproc)

(* Every member of the team is released by exactly one thread.  A missed    *)
(* one would sleep for ever, and one released twice would find its b_go     *)
(* above KMP_BARRIER_STATE_BUMP.                                            *)
ReleaseIsTeamTree(pattern, bits, nproc) ==
    IsTeamTree([t \in 0..(nproc - 1) |-> ReleaseKids(pattern, bits, t, nproc)], nproc)

(* The thread a worker wakes on arrival is the one that waits for it: the   *)
(* parent may be asleep on the child's b_arrived.                           *)
ParentIsWaiter(pattern, bits, nproc) ==
    \A tid \in 1..(nproc - 1) :
        tid \in GatherKids(pattern, bits, GatherParent(pattern, bits, tid), nproc)
=============================================================================
