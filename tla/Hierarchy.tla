----------------------------- MODULE Hierarchy -----------------------------
(***************************************************************************)
(* The tree that the hierarchical barrier runs along: hierarchy_info       *)
(* (kmp_affinity.h) as it is built without affinity information, grown for *)
(* larger teams, and read by each thread to find its parent and its        *)
(* children (kmp_barrier.cpp).  Level 0 is the leaves; num[i] children     *)
(* below a node of level i + 1, skip[i] threads from one node of level i   *)
(* to the next.                                                            *)
(***************************************************************************)
EXTENDS Integers, FiniteSetsExt

CONSTANTS MaxLeaves, MinBranch, InitialLevels   \* 4, 4 and 7 in the code

ASSUME HierarchyAssumption ==
    MaxLeaves \in Nat \ {0} /\ MinBranch \in Nat \ {0, 1} /\ InitialLevels \in Nat \ {0, 1}

HalfUp(n) == (n + 1) \div 2

(* The loop that optimizes the width from level d up: a node with more     *)
(* than "branch" children gets half of them, and the next level twice as   *)
(* many nodes.                                                             *)
RECURSIVE Narrow(_, _, _)
Narrow(h, d, branch) ==
    IF d >= h.depth - 1 THEN h
    ELSE IF h.num[d] > branch \/ (d = 0 /\ h.num[d] > MaxLeaves)
    THEN Narrow([num |-> [h.num EXCEPT ![d] = HalfUp(@), ![d + 1] = 2 * @],
                 depth |-> IF h.num[d + 1] = 1 THEN h.depth + 1 ELSE h.depth], d, branch)
    ELSE Narrow(h, d + 1, IF h.num[0] = 1 /\ branch \div 2 >= MinBranch
                          THEN branch \div 2 ELSE branch)

Levels == 0..(InitialLevels - 1)

(* Levels up to the highest one with more than one node, and the root.     *)
Depth(num) == LET real == {i \in Levels : num[i] # 1}
              IN  IF real = {} THEN 1 ELSE Max(real) + 2

HierInit(nproc) ==
    LET flat  == [i \in Levels |-> CASE i = 0 -> MaxLeaves
                                     [] i = 1 -> (nproc + MaxLeaves - 1) \div MaxLeaves
                                     [] OTHER -> 1]
        h     == Narrow([num |-> flat, depth |-> Depth(flat)], 0, MinBranch)
        skip[i \in Levels] == IF i = 0 THEN 1
                              ELSE skip[i - 1] * (IF i < h.depth THEN h.num[i - 1] ELSE 2)
    IN  [num |-> h.num, skip |-> skip, depth |-> h.depth,
         maxLevels |-> InitialLevels, base |-> nproc]

(* One more level of twice the threads, in an entry the arrays have; past  *)
(* their end the arrays are made longer and filled the same way.           *)
RECURSIVE Deepen(_, _)
Deepen(h, nproc) ==
    IF nproc <= h.skip[h.depth - 1] THEN [h EXCEPT !.base = nproc]
    ELSE LET d == h.depth
             top == 2 * h.skip[d - 1]
         IN  Deepen(IF d < h.maxLevels
                    THEN [h EXCEPT !.skip[d] = top, !.num[d - 1] = 2 * @, !.depth = d + 1]
                    ELSE [h EXCEPT !.depth = d + 1, !.maxLevels = d + 1,
                            !.skip = [i \in 0..d |-> IF i = d THEN top ELSE h.skip[i]],
                            !.num  = [i \in 0..d |-> IF i = d THEN 1 ELSE h.num[i]]], nproc)

HierResize(h, nproc) == Deepen(h, nproc)

-----------------------------------------------------------------------------
(* The level of thread tid: the highest at which it is a node.             *)
LevelOf(h, tid) ==
    IF tid = 0 THEN h.depth - 1
    ELSE Min({d \in 0..(h.depth - 2) : d = h.depth - 2 \/ tid % h.skip[d + 1] # 0})

ParentOf(h, tid) ==
    LET d == LevelOf(h, tid)
    IN  IF tid = 0 THEN -1 ELSE IF d = h.depth - 2 THEN 0 ELSE tid - (tid % h.skip[d + 1])

LeafKids(h, tid, nproc) ==
    IF LevelOf(h, tid) = 0 THEN 0 ELSE Min({h.num[0] - 1, nproc - tid - 1})

(* The children a node finds at its levels from "from" up.                 *)
KidsFrom(h, tid, nproc, from) ==
    UNION {{k \in (tid + 1)..(Min({tid + h.skip[d + 1], nproc}) - 1) : (k - tid) % h.skip[d] = 0} :
             d \in from..(LevelOf(h, tid) - 1)}

LeafChildren(tid, leafKids) == (tid + 1)..(tid + leafKids)

(* Whom the master of an on-core barrier releases: every node above the leaves. *)
FlatKids(h, nproc) == {k \in 1..(nproc - 1) : k % h.skip[1] = 0}

-----------------------------------------------------------------------------
(* Each thread but the master has one parent, which collects it in either  *)
(* form of the gather, and in either form of the release one thread lets   *)
(* it go.                                                                  *)
HierarchySpans(h, nproc) ==
    LET Team == 0..(nproc - 1)
        leaves == [t \in Team |-> LeafChildren(t, LeafKids(h, t, nproc))]
        upper  == [t \in Team |-> KidsFrom(h, t, nproc, 1)]
        all    == [t \in Team |-> KidsFrom(h, t, nproc, 0)]
    IN  \A t \in Team \ {0} :
            /\ {p \in Team : t \in all[p]} = {ParentOf(h, t)}
            /\ {p \in Team : t \in leaves[p] \cup upper[p]} = {ParentOf(h, t)}
            /\ (t \in FlatKids(h, nproc)) # (\E p \in Team : t \in leaves[p])
            /\ \A p \in Team : leaves[p] \cap upper[p] = {}
=============================================================================
