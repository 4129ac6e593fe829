---------------------------- MODULE HierBarrier ----------------------------
(***************************************************************************)
(* The hierarchical fork-join barrier of a hot team at the first level     *)
(* (kmp_barrier.cpp).  With an infinite blocktime the leaves arrive in a   *)
(* byte of their parent's b_arrived and wait for a byte of its b_go;       *)
(* otherwise every thread waits for its own b_go.  The team changes size   *)
(* between its regions: a thread that leaves is switched to its own flag,  *)
(* one that joins is not yet in the tree, and the tree grows when a team   *)
(* is larger than it was built for.                                        *)
(***************************************************************************)
EXTENDS Hierarchy, Sequences

CONSTANTS MaxTeam,          \* threads 0..MaxTeam - 1, of which 0 is the master
          Environments,     \* [plan, infinite, reserve, others]: the sizes of the regions'
                            \* teams, the blocktime, KMP_HOT_TEAMS_MODE, and the sizes of
                            \* other teams whose masters look the hierarchy up meanwhile
          Calm              \* a team shrinks only when its leaving threads wait already

HThread == 0..(MaxTeam - 1)
Foreign == MaxTeam..(MaxTeam + 1)
Looker  == HThread \cup Foreign

VARIABLES
    env,
    fork,           \* regions forked so far; region i uses the ICVs i
    stage,          \* where each thread is
    bar,            \* its kmp_bstate_t: the place in the tree
    waitFlag,
    arrivedCount, arrivedBytes,     \* b_arrived, the bytes as the leaves' numbers
    goCount, goBytes,               \* b_go
    teamCount,                      \* t_bar[bt].b_arrived
    hier, resizing,                 \* machine_hierarchy
    todo,                           \* children that a thread has yet to release
    ownIcv, sharedIcv               \* td_icvs and th_fixed_icvs

hierVars == <<env, fork, stage, bar, waitFlag, arrivedCount, arrivedBytes, goCount, goBytes,
              teamCount, hier, resizing, todo, ownIcv, sharedIcv>>
tree  == <<hier, resizing>>
words == <<arrivedCount, arrivedBytes, goCount, goBytes, teamCount>>
hicvs == <<ownIcv, sharedIcv>>

Size  == env.plan[fork]
SizeFor(t) == IF t \in HThread THEN Size ELSE env.others[t - MaxTeam + 1]
Hier0 == HierInit(1)
NothingToRelease == [flat |-> {}, bytes |-> {}, flags |-> {}]

(* A thread's bar until it takes part in its first barrier.                *)
NewBar == [team |-> FALSE, nproc |-> 0, tree |-> Hier0, level |-> 0, parent |-> 0, leafKids |-> 0]

HierBarrierInit ==
    /\ env \in Environments
    /\ fork = 0
    /\ stage = [t \in Looker |-> IF t = 0 THEN "serial"
                                 ELSE IF t \in HThread THEN "decide"
                                 ELSE IF t - MaxTeam < Len(env.others) THEN "init" ELSE "done"]
    /\ bar = [t \in HThread |-> NewBar]
    /\ waitFlag = [t \in HThread |-> "none"]
    /\ arrivedCount = [t \in HThread |-> 0] /\ arrivedBytes = [t \in HThread |-> {}]
    /\ goCount = [t \in HThread |-> 0] /\ goBytes = [t \in HThread |-> {}]
    /\ teamCount = 0
    /\ hier = <<>> /\ resizing = FALSE
    /\ todo = [t \in HThread |-> NothingToRelease]
    /\ ownIcv = [t \in HThread |-> 0] /\ sharedIcv = [t \in HThread |-> 0]

Goto(t, s) == stage' = [stage EXCEPT ![t] = s]

-----------------------------------------------------------------------------
(* The master forks: it drops the threads the new region does not need and *)
(* takes the ones it needs more.  A dropped thread that waits for a byte   *)
(* of its parent is told to switch, and in the pool it has no team.        *)
Dropped(old, new) == {t \in HThread : new <= t /\ t < old}

(* Mutant: nobody tells a dropped thread to switch.                        *)
SwitchFlagsNever(gone) == waitFlag

SwitchFlags(gone) ==
    [t \in HThread |-> IF t \in gone /\ waitFlag[t] = "parent" THEN "switch" ELSE waitFlag[t]]

ForkTeam ==
    /\ stage[0] = "serial" /\ fork < Len(env.plan)
    /\ LET old  == IF fork = 0 THEN 1 ELSE Size
           new  == env.plan[fork + 1]
           gone == Dropped(old, new)
       IN  /\ Calm => \A t \in gone : stage[t] = "waiting"
           /\ waitFlag' = SwitchFlags(gone)
           /\ bar' = [t \in HThread |->
                        IF t \in gone
                        THEN [bar[t] EXCEPT !.leafKids = 0, !.team = @ /\ env.reserve] ELSE bar[t]]
           /\ arrivedCount' = [t \in HThread |-> IF t \in Dropped(new, old)
                                                 THEN teamCount ELSE arrivedCount[t]]
           /\ arrivedBytes' = [t \in HThread |-> IF t \in Dropped(new, old)
                                                 THEN {} ELSE arrivedBytes[t]]
    /\ fork' = fork + 1
    /\ ownIcv' = [ownIcv EXCEPT ![0] = fork + 1]
    /\ Goto(0, "init")
    /\ UNCHANGED <<env, goCount, goBytes, teamCount, tree, todo, sharedIcv>>

(* A worker decides which flag to wait for, and then says so.              *)
UsesOwnFlag(t) == ~env.infinite \/ bar[t].level # 0 \/ ~bar[t].team

DecideFlag(t) ==
    /\ t # 0 /\ stage[t] = "decide"
    /\ IF UsesOwnFlag(t)
       THEN Goto(t, "waiting") /\ waitFlag' = [waitFlag EXCEPT ![t] = "own"]
       ELSE Goto(t, "parent") /\ UNCHANGED waitFlag
    /\ UNCHANGED <<env, fork, bar, words, tree, todo, hicvs>>

WaitAtParent(t) ==
    /\ stage[t] = "parent"
    /\ Goto(t, "waiting") /\ waitFlag' = [waitFlag EXCEPT ![t] = "parent"]
    /\ UNCHANGED <<env, fork, bar, words, tree, todo, hicvs>>

SwitchToOwn(t) ==
    /\ stage[t] = "waiting" /\ waitFlag[t] = "switch"
    /\ waitFlag' = [waitFlag EXCEPT ![t] = "switching"]
    /\ UNCHANGED <<env, fork, stage, bar, words, tree, todo, hicvs>>

(* Released: the worker clears the flag it waited for.                     *)
ResetOwn(t) ==
    /\ waitFlag[t] \in {"own", "switching"}
    /\ goCount[t] = 1 /\ goBytes[t] = {}
    /\ goCount' = [goCount EXCEPT ![t] = 0] /\ UNCHANGED goBytes

Offset(t) == t - bar[t].parent

ResetByte(t) ==
    /\ waitFlag[t] = "parent"
    /\ Offset(t) \in goBytes[bar[t].parent]
    /\ goBytes' = [goBytes EXCEPT ![bar[t].parent] = @ \ {Offset(t)}] /\ UNCHANGED goCount

Released(t) ==
    /\ stage[t] = "waiting"
    /\ ResetOwn(t) \/ ResetByte(t)
    /\ waitFlag' = [waitFlag EXCEPT ![t] = "none"]
    /\ Goto(t, "init")
    /\ UNCHANGED <<env, fork, bar, arrivedCount, arrivedBytes, teamCount, tree, todo, hicvs>>

-----------------------------------------------------------------------------
(* A thread new to the team, or in a team of another size, looks the       *)
(* hierarchy up: the first builds it, the first of a larger team grows it. *)
LooksUp(t) == IF t \in Foreign THEN TRUE ELSE ~bar[t].team \/ bar[t].nproc # Size
FreshHierarchy(t) == LooksUp(t) /\ hier = <<>>
NeedsResize(t) == LooksUp(t) /\ hier # <<>> /\ SizeFor(t) > hier.base

BuildHierarchy(t) ==
    /\ stage[t] = "init" /\ FreshHierarchy(t)
    /\ hier' = HierInit(SizeFor(t))
    /\ UNCHANGED <<env, fork, stage, bar, waitFlag, words, resizing, todo, hicvs>>

ResizeBegin(t) ==
    /\ stage[t] = "init" /\ NeedsResize(t)
    /\ Goto(t, "enter")
    /\ UNCHANGED <<env, fork, bar, waitFlag, words, tree, todo, hicvs>>

ResizeEnter(t) ==
    /\ stage[t] = "enter"
    /\ IF resizing THEN Goto(t, "contend") /\ UNCHANGED resizing
       ELSE Goto(t, "resize") /\ resizing' = TRUE
    /\ UNCHANGED <<env, fork, bar, waitFlag, words, hier, todo, hicvs>>

ResizeContend(t) ==
    /\ stage[t] = "contend"
    /\ \/ /\ SizeFor(t) <= hier.base /\ Goto(t, "setup") /\ UNCHANGED resizing
       \/ /\ SizeFor(t) > hier.base /\ ~resizing /\ Goto(t, "resize") /\ resizing' = TRUE
    /\ UNCHANGED <<env, fork, bar, waitFlag, words, hier, todo, hicvs>>

(* Another thread may have grown it in between: nothing is left to do.     *)
Resize(t) ==
    /\ stage[t] = "resize"
    /\ IF SizeFor(t) <= hier.base THEN Goto(t, "setup") /\ UNCHANGED hier
       ELSE hier' = HierResize(hier, SizeFor(t)) /\ Goto(t, "resized")
    /\ UNCHANGED <<env, fork, bar, waitFlag, words, resizing, todo, hicvs>>

ResizeEnd(t) ==
    /\ stage[t] = "resized"
    /\ resizing' = FALSE /\ Goto(t, "setup")
    /\ UNCHANGED <<env, fork, bar, waitFlag, words, hier, todo, hicvs>>

-----------------------------------------------------------------------------
(* The place in the tree, and what is to be released: new leaves by their  *)
(* own flags, those of the previous region by their byte.  The hierarchy   *)
(* is copied; the code keeps a pointer to arrays that a resize frees.       *)
Placed(t) ==
    IF ~LooksUp(t) THEN bar[t]
    ELSE [team |-> TRUE, nproc |-> Size, tree |-> hier, level |-> LevelOf(hier, t),
          parent |-> ParentOf(hier, t), leafKids |-> LeafKids(hier, t, Size)]

OldLeafKids(t) == IF bar[t].team THEN bar[t].leafKids ELSE 0

ToRelease(t, b) ==
    IF b.level = 0 THEN NothingToRelease
    ELSE IF ~env.infinite THEN [NothingToRelease EXCEPT !.flags = KidsFrom(b.tree, t, Size, 0)]
    ELSE [flat  |-> IF t = 0 THEN FlatKids(b.tree, Size) ELSE {},
          bytes |-> 1..Min({OldLeafKids(t), b.leafKids}),
          flags |-> (t + 1 + OldLeafKids(t))..(t + b.leafKids)]

(* The master's ICVs go down the tree: a leaf takes its parent's, and so   *)
(* does a node unless they come with its flag.                             *)
PlaceIcvs(t, b) ==
    CASE t = 0 -> sharedIcv' = [sharedIcv EXCEPT ![0] = ownIcv[0]] /\ UNCHANGED ownIcv
      [] t # 0 /\ b.level = 0 ->
            ownIcv' = [ownIcv EXCEPT ![t] = sharedIcv[b.parent]] /\ UNCHANGED sharedIcv
      [] t # 0 /\ b.level # 0 /\ ~env.infinite ->
            sharedIcv' = [sharedIcv EXCEPT ![t] = sharedIcv[b.parent]] /\ UNCHANGED ownIcv
      [] OTHER -> UNCHANGED hicvs

LookedUp(t) == \/ stage[t] = "setup"
               \/ stage[t] = "init" /\ ~FreshHierarchy(t) /\ ~NeedsResize(t)

(* The master of another team goes its own way.                            *)
ForeignDone(t) ==
    /\ t \in Foreign /\ LookedUp(t) /\ Goto(t, "done")
    /\ UNCHANGED <<env, fork, bar, waitFlag, words, tree, todo, hicvs>>

Setup(t) ==
    /\ t \in HThread /\ LookedUp(t)
    /\ LET b == Placed(t)
       IN  /\ bar' = [bar EXCEPT ![t] = b]
           /\ todo' = [todo EXCEPT ![t] = ToRelease(t, b)]
           /\ PlaceIcvs(t, b)
    /\ Goto(t, "release")
    /\ UNCHANGED <<env, fork, waitFlag, words, tree>>

(* The master's flat release: ICVs and b_go in one store of a cache line.  *)
ReleaseFlat(t) ==
    /\ stage[t] = "release" /\ todo[t].flat # {}
    /\ LET kid == Min(todo[t].flat)
       IN  /\ sharedIcv' = [sharedIcv EXCEPT ![kid] = sharedIcv[t]]
           /\ goCount' = [goCount EXCEPT ![kid] = 1] /\ goBytes' = [goBytes EXCEPT ![kid] = {}]
           /\ todo' = [todo EXCEPT ![t].flat = @ \ {kid}]
    /\ UNCHANGED <<env, fork, stage, bar, waitFlag, arrivedCount, arrivedBytes, teamCount, tree, ownIcv>>

ReleaseBytes(t) ==
    /\ stage[t] = "release" /\ todo[t].flat = {} /\ todo[t].bytes # {}
    /\ goBytes' = [goBytes EXCEPT ![t] = @ \cup todo[t].bytes]
    /\ todo' = [todo EXCEPT ![t].bytes = {}]
    /\ UNCHANGED <<env, fork, stage, bar, waitFlag, arrivedCount, arrivedBytes, goCount, teamCount, tree, hicvs>>

ReleaseFlag(t) ==
    /\ stage[t] = "release" /\ todo[t].flat = {} /\ todo[t].bytes = {} /\ todo[t].flags # {}
    /\ LET kid == Min(todo[t].flags)
       IN  /\ goCount' = [goCount EXCEPT ![kid] = @ + 1]
           /\ todo' = [todo EXCEPT ![t].flags = @ \ {kid}]
    /\ UNCHANGED <<env, fork, stage, bar, waitFlag, arrivedCount, arrivedBytes, goBytes, teamCount, tree, hicvs>>

EnterRegion(t) ==
    /\ stage[t] = "release" /\ todo[t] = NothingToRelease
    /\ ownIcv' = IF t # 0 /\ bar[t].level # 0 THEN [ownIcv EXCEPT ![t] = sharedIcv[t]] ELSE ownIcv
    /\ Goto(t, "region")
    /\ UNCHANGED <<env, fork, bar, waitFlag, words, tree, todo, sharedIcv>>

-----------------------------------------------------------------------------
(* The gather at the end of the region.                                    *)
OnCoreParent(t) == env.infinite /\ bar[t].leafKids > 0

EndRegion(t) ==
    /\ stage[t] = "region"
    /\ Goto(t, CASE bar[t].level = 0 -> "arrive"
                 [] bar[t].level # 0 /\ OnCoreParent(t) -> "leaves"
                 [] OTHER -> "nodes")
    /\ UNCHANGED <<env, fork, bar, waitFlag, words, tree, todo, hicvs>>

GatherLeaves(t) ==
    /\ stage[t] = "leaves"
    /\ arrivedBytes[t] = 1..bar[t].leafKids
    /\ t = 0 \/ arrivedCount[t] = teamCount
    /\ arrivedBytes' = [arrivedBytes EXCEPT ![t] = {}]
    /\ Goto(t, "nodes")
    /\ UNCHANGED <<env, fork, bar, waitFlag, arrivedCount, goCount, goBytes, teamCount, tree, todo, hicvs>>

(* Mutant: the on-core gather skips one level too many.                    *)
CollectedAbove(t) == KidsFrom(bar[t].tree, t, Size, IF env.infinite THEN 2 ELSE 0)

Collected(t) == KidsFrom(bar[t].tree, t, Size, IF env.infinite THEN 1 ELSE 0)

GatherNodes(t) ==
    /\ stage[t] = "nodes"
    /\ \A kid \in Collected(t) : arrivedCount[kid] = teamCount + 1 /\ arrivedBytes[kid] = {}
    /\ Goto(t, "arrive")
    /\ UNCHANGED <<env, fork, bar, waitFlag, words, tree, todo, hicvs>>

ArriveWorker(t) ==
    /\ t # 0 /\ stage[t] = "arrive"
    /\ IF bar[t].level = 0 /\ env.infinite
       THEN /\ arrivedCount' = [arrivedCount EXCEPT ![t] = teamCount + 1]
            /\ arrivedBytes' = [arrivedBytes EXCEPT ![bar[t].parent] = @ \cup {Offset(t)}]
       ELSE arrivedCount' = [arrivedCount EXCEPT ![t] = @ + 1] /\ UNCHANGED arrivedBytes
    /\ Goto(t, "decide")
    /\ UNCHANGED <<env, fork, bar, waitFlag, goCount, goBytes, teamCount, tree, todo, hicvs>>

TeamGathered ==
    /\ stage[0] = "arrive"
    /\ teamCount' = teamCount + 1
    /\ Goto(0, "serial")
    /\ UNCHANGED <<env, fork, bar, waitFlag, arrivedCount, arrivedBytes, goCount, goBytes, tree, todo, hicvs>>

-----------------------------------------------------------------------------
HierStep(t) ==
    \/ DecideFlag(t) \/ WaitAtParent(t) \/ SwitchToOwn(t) \/ Released(t)
    \/ BuildHierarchy(t) \/ ResizeBegin(t) \/ ResizeEnter(t)
    \/ ResizeContend(t) \/ Resize(t) \/ ResizeEnd(t)
    \/ Setup(t) \/ ForeignDone(t) \/ ReleaseFlat(t) \/ ReleaseBytes(t) \/ ReleaseFlag(t) \/ EnterRegion(t)
    \/ EndRegion(t) \/ GatherLeaves(t) \/ GatherNodes(t) \/ ArriveWorker(t)

HierNext == ForkTeam \/ TeamGathered \/ (\E t \in Looker : HierStep(t))

HierFairness ==
    /\ WF_hierVars(ForkTeam) /\ WF_hierVars(TeamGathered)
    /\ \A t \in Looker : WF_hierVars(HierStep(t))

HierSpec == HierBarrierInit /\ [][HierNext]_hierVars /\ HierFairness

-----------------------------------------------------------------------------
(* Only the threads of a region's team run it, with the ICVs of its fork,  *)
(* and when the master is past the join none of them is still in it        *)
(* (kmp_barrier.cpp:861-1254).                                             *)
Inside == {"region", "leaves", "nodes", "arrive"}
RegionsSeparate ==
    \A t \in HThread : stage[t] \in Inside =>
        t < Size /\ ownIcv[t] = fork /\ (t # 0 => stage[0] # "serial")

(* Every region of the plan is run to its end by its whole team.           *)
RegionsComplete ==
    <>(fork = Len(env.plan) /\ stage[0] = "serial" /\ \A t \in Foreign : stage[t] = "done")

(* "0=not resizing, 1=resizing" (kmp_affinity.h:651).                      *)
ResizingIsHeld == resizing => \E t \in Looker : stage[t] \in {"resize", "resized"}

(* "When moving thread to pool, switch thread to wait on own b_go flag"    *)
(* (kmp_runtime.cpp:5650).                                                 *)
PooledWaitOnOwn ==
    \A t \in HThread : (stage[t] = "waiting" /\ waitFlag[t] = "parent") => bar[t].team
=============================================================================
