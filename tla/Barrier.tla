------------------------------- MODULE Barrier -------------------------------
(***************************************************************************)
(* The barriers of one team (kmp_barrier.cpp): every thread gathers its    *)
(* children, stores its arrival, waits for its b_go, clears it and releases *)
(* its children; the master gathers, records the team's arrival and opens  *)
(* the barrier.  The same threads run fork-join regions one after another, *)
(* and inside each region the barriers of Body.                            *)
(*                                                                         *)
(* Modelled per barrier type, as in the code: b_arrived and b_go of every  *)
(* thread and the team's b_arrived, all in units of KMP_BARRIER_STATE_BUMP. *)
(* A wait is a guard here: SuspendResume shows how one returns.            *)
(***************************************************************************)
EXTENDS BarrierTopology, Sequences

CONSTANTS
    NProc,                          \* size of the team
    GatherPattern, GatherBits,      \* __kmp_barrier_gather_pattern, _branch_bits
    ReleasePattern, ReleaseBits,    \* __kmp_barrier_release_pattern, _branch_bits
    Body,                           \* kinds of the barriers in each region
    Icv,                            \* values of the internal control variables
    MaxRegions                      \* bound on the regions forked

Thread == 0..(NProc - 1)

(* plain: __kmpc_barrier; master: __kmpc_barrier_master; reduce and         *)
(* reduceNowait: __kmpc_reduce and its nowait form with a tree reduction.   *)
Kind == {"fork", "plain", "master", "reduce", "reduceNowait"}
BarrierType == {"forkjoin", "plain", "reduction"}

ASSUME NProcAssumption == NProc \in Nat \ {0}
ASSUME BodyAssumption == Body \in Seq(Kind \ {"fork"})
ASSUME PatternAssumption == {GatherPattern, ReleasePattern} \subseteq Pattern
ASSUME IcvAssumption == Icv # {}
ASSUME MaxRegionsAssumption == MaxRegions \in Nat

GKids == [t \in Thread |-> GatherKids(GatherPattern, GatherBits, t, NProc)]
RKids == [t \in Thread |-> ReleaseKids(ReleasePattern, ReleaseBits, t, NProc)]

(* BarrierTopology's runs check this for every team up to a bound.          *)
ASSUME TreeAssumption == IsTeamTree(GKids, NProc) /\ IsTeamTree(RKids, NProc)

VARIABLES
    pc,             \* where each thread is
    passed,         \* barriers each thread has been through
    arrived, go,    \* b_arrived and b_go, per barrier type and thread
    teamArrived,    \* t_bar[bt].b_arrived
    newState,       \* new_state of a gathering thread, 0 while unused
    kids,           \* children gathered or released so far in this phase
    reduceData,     \* th_local.reduce_data: how often each thread is in it
    taskIcv,        \* td_icvs of each thread's implicit task
    fixedIcv,       \* th_fixed_icvs of each thread's fork barrier
    forkIcv         \* history: what the last fork set up for the team

flags == <<arrived, go, teamArrived>>
icvs  == <<taskIcv, fixedIcv, forkIcv>>
vars  == <<pc, passed, arrived, go, teamArrived, newState, kids, reduceData,
           taskIcv, fixedIcv, forkIcv>>

KindAt(k) == LET i == k % (Len(Body) + 1) IN IF i = 0 THEN "fork" ELSE Body[i]
KindOf(t) == KindAt(passed[t])

TypeOf(kind) == IF kind = "fork" THEN "forkjoin"
                ELSE IF kind \in {"plain", "master"} THEN "plain" ELSE "reduction"
BarrierAt(k) == TypeOf(KindAt(k))
BarrierOf(t) == BarrierAt(passed[t])

Reduces(t) == KindOf(t) \in {"reduce", "reduceNowait"}

Init ==
    /\ pc = [t \in Thread |-> IF t = 0 THEN "gathered" ELSE "waitGo"]
    /\ passed = [t \in Thread |-> 0]
    /\ arrived = [bt \in BarrierType |-> [t \in Thread |-> 0]]
    /\ go = [bt \in BarrierType |-> [t \in Thread |-> 0]]
    /\ teamArrived = [bt \in BarrierType |-> 0]
    /\ newState = [t \in Thread |-> 0]
    /\ kids = [t \in Thread |-> {}]
    /\ reduceData = [t \in Thread |-> [u \in Thread |-> 0]]
    /\ \E v \in Icv : /\ taskIcv = [t \in Thread |-> v]
                      /\ fixedIcv = [t \in Thread |-> v]
                      /\ forkIcv = v
-----------------------------------------------------------------------------
(* Entering a barrier and gathering: the three gather functions.            *)

(* The thread comes to its next barrier: __kmp_barrier, or __kmp_join_barrier *)
(* at the end of the region; a reduction brings its own data.               *)
Arrive(t) ==
    /\ pc[t] = "run"
    /\ pc' = [pc EXCEPT ![t] = "gather"]
    /\ newState' = [newState EXCEPT ![t] = 0]
    /\ kids' = [kids EXCEPT ![t] = {}]
    /\ reduceData' = IF Reduces(t)
                       THEN [reduceData EXCEPT ![t] = [u \in Thread |-> IF u = t THEN 1 ELSE 0]]
                       ELSE reduceData
    /\ UNCHANGED <<passed, flags, icvs>>

(* A parent reads what the flags of its children are going to be.           *)
ReadTeamState(t) ==
    /\ pc[t] = "gather" /\ newState[t] = 0
    /\ t = 0 \/ GKids[t] # {}
    /\ newState' = [newState EXCEPT ![t] = teamArrived[BarrierOf(t)] + 1]
    /\ UNCHANGED <<pc, passed, flags, kids, reduceData, icvs>>

(* Mutant: the parent goes on without the child. *)
GatherChildUnseen(t) ==
    /\ pc[t] = "gather" /\ newState[t] # 0
    /\ \E k \in GKids[t] \ kids[t] :
         /\ \A j \in GKids[t] \ kids[t] : k <= j
         /\ kids' = [kids EXCEPT ![t] = @ \cup {k}]
         /\ reduceData' = IF Reduces(t)
                            THEN [reduceData EXCEPT ![t] =
                                    [u \in Thread |-> @[u] + reduceData[k][u]]]
                            ELSE reduceData
    /\ UNCHANGED <<pc, passed, flags, newState, icvs>>

(* The parent waits for its children in turn, and adds each one's data to   *)
(* its own.                                                                 *)
GatherChild(t) ==
    /\ pc[t] = "gather" /\ newState[t] # 0
    /\ \E k \in GKids[t] \ kids[t] :
         /\ \A j \in GKids[t] \ kids[t] : k <= j
         /\ arrived[BarrierOf(t)][k] = newState[t]
         /\ kids' = [kids EXCEPT ![t] = @ \cup {k}]
         /\ reduceData' = IF Reduces(t)
                            THEN [reduceData EXCEPT ![t] =
                                    [u \in Thread |-> @[u] + reduceData[k][u]]]
                            ELSE reduceData
    /\ UNCHANGED <<pc, passed, flags, newState, icvs>>

(* A worker whose children have all arrived signals its parent, and waits.  *)
SignalArrival(t) ==
    /\ pc[t] = "gather" /\ t # 0
    /\ kids[t] = GKids[t]
    /\ arrived' = [arrived EXCEPT ![BarrierOf(t)][t] = @ + 1]
    /\ pc' = [pc EXCEPT ![t] = "waitGo"]
    /\ UNCHANGED <<passed, go, teamArrived, newState, kids, reduceData, icvs>>

(* Mutant: the team's count is not stored. *)
CompleteGatherUnstored ==
    /\ pc[0] = "gather" /\ newState[0] # 0
    /\ kids[0] = GKids[0]
    /\ pc' = [pc EXCEPT ![0] = "gathered"]
    /\ UNCHANGED <<passed, flags, newState, kids, reduceData, icvs>>

(* The master records that the team has arrived.  In a team of one the      *)
(* count goes up all the same.                                              *)
CompleteGather ==
    /\ pc[0] = "gather" /\ newState[0] # 0
    /\ kids[0] = GKids[0]
    /\ teamArrived' = [teamArrived EXCEPT ![BarrierOf(0)] = newState[0]]
    /\ pc' = [pc EXCEPT ![0] = "gathered"]
    /\ UNCHANGED <<passed, arrived, go, newState, kids, reduceData, icvs>>
-----------------------------------------------------------------------------
(* Opening a barrier and releasing: the three release functions.            *)

(* The master goes on to the release: at once, or in __kmp_end_split_barrier *)
(* after the master block or the last step of the reduction.                *)
OpenBarrier ==
    /\ pc[0] = "gathered" /\ KindOf(0) # "fork"
    /\ pc' = [pc EXCEPT ![0] = "release"]
    /\ kids' = [kids EXCEPT ![0] = {}]
    /\ UNCHANGED <<passed, flags, newState, reduceData, icvs>>

(* The next fork sets up the master's implicit task and opens the fork      *)
(* barrier.  The linear release copies its ICVs to every implicit task      *)
(* first; the hyper release keeps a copy of them to hand down.              *)
Fork ==
    /\ pc[0] = "gathered" /\ KindOf(0) = "fork"
    /\ passed[0] < MaxRegions * (Len(Body) + 1)
    /\ \E v \in Icv :
         /\ forkIcv' = v
         /\ taskIcv' = IF ReleasePattern = "linear" THEN [t \in Thread |-> v]
                                                    ELSE [taskIcv EXCEPT ![0] = v]
         /\ fixedIcv' = IF ReleasePattern = "hyper" THEN [fixedIcv EXCEPT ![0] = v]
                                                    ELSE fixedIcv
    /\ pc' = [pc EXCEPT ![0] = "release"]
    /\ kids' = [kids EXCEPT ![0] = {}]
    /\ UNCHANGED <<passed, flags, newState, reduceData>>

(* A worker sees its b_go, stores it back and turns to its own children.    *)
Wake(t) ==
    /\ pc[t] = "waitGo" /\ go[BarrierOf(t)][t] = 1
    /\ go' = [go EXCEPT ![BarrierOf(t)][t] = 0]
    /\ pc' = [pc EXCEPT ![t] = "release"]
    /\ kids' = [kids EXCEPT ![t] = {}]
    /\ UNCHANGED <<passed, arrived, teamArrived, newState, reduceData, icvs>>

(* The order of the children: the hyper release starts with the highest.    *)
NextReleased(t, k) ==
    /\ k \in RKids[t] \ kids[t]
    /\ \A j \in RKids[t] \ kids[t] : IF ReleasePattern = "hyper" THEN j <= k ELSE k <= j

(* Mutant: a worker hands down the ICVs it ran the last region with. *)
PushIcvsStale(t, k) ==
    IF ReleasePattern = "hyper"
      THEN fixedIcv' = [fixedIcv EXCEPT ![k] = taskIcv[t]] /\ UNCHANGED taskIcv
      ELSE UNCHANGED <<taskIcv, fixedIcv>>

(* In the fork barrier a child gets its ICVs before its release: in the     *)
(* tree release those of the implicit task of the master, in the hyper      *)
(* release the fixed ones of its parent.                                    *)
PushIcvs(t, k) ==
    CASE ReleasePattern = "tree" ->
           taskIcv' = [taskIcv EXCEPT ![k] = taskIcv[0]] /\ UNCHANGED fixedIcv
      [] ReleasePattern = "hyper" ->
           fixedIcv' = [fixedIcv EXCEPT ![k] = fixedIcv[t]] /\ UNCHANGED taskIcv
      [] OTHER -> UNCHANGED <<taskIcv, fixedIcv>>

ReleaseChild(t) ==
    /\ pc[t] = "release"
    /\ \E k \in RKids[t] :
         /\ NextReleased(t, k)
         /\ IF KindOf(t) = "fork" THEN PushIcvs(t, k) ELSE UNCHANGED <<taskIcv, fixedIcv>>
         /\ go' = [go EXCEPT ![BarrierOf(t)][k] = @ + 1]
         /\ kids' = [kids EXCEPT ![t] = @ \cup {k}]
    /\ UNCHANGED <<pc, passed, arrived, teamArrived, newState, reduceData, forkIcv>>

(* The thread leaves the barrier; after a hyper release of a fork barrier a *)
(* worker takes its fixed ICVs over into its implicit task.                 *)
LeaveBarrier(t) ==
    /\ pc[t] = "release" /\ kids[t] = RKids[t]
    /\ pc' = [pc EXCEPT ![t] = "run"]
    /\ passed' = [passed EXCEPT ![t] = @ + 1]
    /\ taskIcv' = IF KindOf(t) = "fork" /\ ReleasePattern = "hyper" /\ t # 0
                    THEN [taskIcv EXCEPT ![t] = fixedIcv[t]] ELSE taskIcv
    /\ UNCHANGED <<flags, newState, kids, reduceData, fixedIcv, forkIcv>>

(* A thread in the region calls omp_set_num_threads or the like, which      *)
(* changes the ICVs of its implicit task only.                              *)
SetIcv(t) ==
    /\ pc[t] = "run"
    /\ \E v \in Icv : taskIcv' = [taskIcv EXCEPT ![t] = v]
    /\ UNCHANGED <<pc, passed, flags, newState, kids, reduceData, fixedIcv, forkIcv>>

Gather(t)  == ReadTeamState(t) \/ GatherChild(t) \/ SignalArrival(t)
Release(t) == Wake(t) \/ ReleaseChild(t) \/ LeaveBarrier(t)

Next ==
    \/ CompleteGather \/ OpenBarrier \/ Fork
    \/ \E t \in Thread : Arrive(t) \/ Gather(t) \/ Release(t) \/ SetIcv(t)

(* A thread inside a barrier keeps taking steps, and the master comes to    *)
(* the end of what it does between gathering and opening a barrier of a     *)
(* region.  The program owes neither an arrival nor another fork.           *)
Fairness ==
    /\ WF_vars(CompleteGather) /\ WF_vars(OpenBarrier)
    /\ \A t \in Thread : WF_vars(Gather(t)) /\ WF_vars(Release(t))

Spec == Init /\ [][Next]_vars /\ Fairness
-----------------------------------------------------------------------------
At == {"run", "gather", "gathered", "waitGo", "release"}

(* What every variable may hold: in particular b_go is never raised twice,  *)
(* so a wait for "== KMP_BARRIER_STATE_BUMP" is never stepped over.         *)
TypeOK ==
    /\ pc \in [Thread -> At]
    /\ passed \in [Thread -> Nat]
    /\ arrived \in [BarrierType -> [Thread -> Nat]]
    /\ go \in [BarrierType -> [Thread -> {0, 1}]]
    /\ teamArrived \in [BarrierType -> Nat]
    /\ newState \in [Thread -> Nat]
    /\ kids \in [Thread -> SUBSET Thread]
    /\ reduceData \in [Thread -> [Thread -> Nat]]
    /\ taskIcv \in [Thread -> Icv] /\ fixedIcv \in [Thread -> Icv] /\ forkIcv \in Icv

(* When the master has gathered a barrier, every worker's count agrees with *)
(* the team's and every b_go is clear, as __kmp_fork_barrier asserts: no    *)
(* flag of an earlier barrier or region is left over.                       *)
GatheredIsClean ==
    pc[0] = "gathered" =>
        \A t \in Thread \ {0} :
            /\ arrived[BarrierOf(0)][t] = teamArrived[BarrierOf(0)]
            /\ go[BarrierOf(0)][t] = 0

(* The master finishes a tree reduction with the data of every thread of    *)
(* the team, each exactly once.                                             *)
ReductionIsComplete ==
    pc[0] = "gathered" /\ Reduces(0) => \A u \in Thread : reduceData[0][u] = 1

(* A thread starts its part of a region with the ICVs the master forked the *)
(* region with, whatever the other threads have set since.                  *)
IcvsAsForked ==
    [][\A t \in Thread : LeaveBarrier(t) /\ t # 0 /\ KindOf(t) = "fork" => taskIcv'[t] = forkIcv]_vars

(* No thread is through a barrier that another one has not entered.         *)
NobodyLeavesEarly ==
    \A t, u \in Thread : passed[t] <= passed[u] + IF pc[u] = "run" THEN 0 ELSE 1

(* The barrier that the team is entering; the one before it is being left.  *)
Entering == IF pc[0] \in {"run", "gather"} THEN passed[0] ELSE passed[0] + 1

HasArrived(t) == t # 0 /\ passed[t] = Entering /\ pc[t] = "waitGo"

(* A thread has been let go from the barrier that the team is leaving.      *)
IsLetGo(t) == \/ passed[t] = Entering
              \/ pc[t] = "release"
              \/ t # 0 /\ go[BarrierAt(Entering - 1)][t] = 1

(* Where the threads can be: nobody is more than one barrier ahead.         *)
Positions ==
    /\ Entering > 0 /\ pc[0] # "waitGo"
    /\ \A t \in Thread \ {0} :
         \/ passed[t] = Entering /\ pc[t] \in {"run", "gather", "waitGo"}
         \/ passed[t] + 1 = Entering /\ pc[t] \in {"waitGo", "release"}

(* A worker's count is the team's, and one more once it has arrived.        *)
ArrivalCounts ==
    \A bt \in BarrierType : \A t \in Thread \ {0} :
        arrived[bt][t] = teamArrived[bt]
                         + IF HasArrived(t) /\ bt = BarrierAt(Entering) THEN 1 ELSE 0

(* A thread arrives after the threads below it in the gather tree.          *)
SubtreesArrive ==
    \A t \in Thread :
        /\ HasArrived(t) => \A k \in GKids[t] : HasArrived(k)
        /\ pc[t] = "gather" =>
             /\ newState[t] \in {0, teamArrived[BarrierAt(Entering)] + 1}
             /\ kids[t] \subseteq GKids[t]
             /\ \A k \in kids[t] : HasArrived(k)

(* A b_go is set only for a worker that waits for it in the open barrier.   *)
GoIsAwaited ==
    \A bt \in BarrierType : \A t \in Thread :
        go[bt][t] = 1 => /\ t # 0 /\ pc[t] = "waitGo" /\ passed[t] + 1 = Entering
                         /\ bt = BarrierAt(passed[t])

(* A worker is let go by its parent in the release tree, and only by it.    *)
LetGoByParent ==
    \A t \in Thread :
        /\ pc[t] = "release" => kids[t] \subseteq RKids[t]
        /\ \A k \in RKids[t] :
             IsLetGo(k) <=> passed[t] = Entering \/ (pc[t] = "release" /\ k \in kids[t])

(* Nobody is let go before the master opens the barrier.                    *)
ClosedWhileGathered ==
    pc[0] = "gathered" => \A t \in Thread : ~IsLetGo(t)

(* The inductive invariant of the barrier.                                  *)
IInv == /\ TypeOK /\ Positions /\ ArrivalCounts /\ SubtreesArrive
        /\ GoIsAwaited /\ LetGoByParent /\ ClosedWhileGathered

(* Whose data reach thread u's: the least set that holds u and, with every  *)
(* thread, the parent it arrives at.                                        *)
Ancestors(u) ==
    {t \in Thread : \A S \in SUBSET Thread :
        u \in S /\ (\A p \in Thread : GKids[p] \cap S # {} => p \in S) => t \in S}

(* In a reduction a thread holds its own data and, once each, those of the  *)
(* threads below the children it has gathered.                              *)
DataGathered ==
    /\ KindAt(Entering) \in {"reduce", "reduceNowait"} =>
         \A t, u \in Thread :
            /\ pc[t] = "gather" => reduceData[t][u] =
                  IF u = t \/ kids[t] \cap Ancestors(u) # {} THEN 1 ELSE 0
            /\ HasArrived(t) => reduceData[t][u] = IF t \in Ancestors(u) THEN 1 ELSE 0
    /\ ReductionIsComplete

(* Only the master releases others.                                         *)
ReleasesAlone == \A t \in Thread \ {0} : RKids[t] = {}

(* While a fork barrier is being left, a thread that is still in it and has *)
(* been handed the master's ICVs has those of the fork.  The tree release   *)
(* hands down the master's current ones, which are still those of the fork  *)
(* only while the master itself releases.                                   *)
IcvsHanded ==
    pc[0] # "gathered" /\ KindAt(Entering - 1) = "fork" =>
        \A t \in Thread : passed[t] # Entering =>
            /\ ReleasePattern = "linear" => taskIcv[t] = forkIcv
            /\ ReleasePattern = "hyper" /\ IsLetGo(t) => fixedIcv[t] = forkIcv
            /\ ReleasePattern = "tree" /\ ReleasesAlone /\ IsLetGo(t) => taskIcv[t] = forkIcv

(* Every barrier of the team, over its tree, keeps what BarrierSpec says:   *)
(* nobody leaves before all have entered, and once all have, everybody is   *)
(* let go.                                                                  *)
Entered  == [t \in Thread |-> passed[t] + IF pc[t] = "run" THEN 0 ELSE 1]
Gathered == passed[0] + IF pc[0] \in {"gathered", "release"} THEN 1 ELSE 0
Opened   == passed[0] + IF pc[0] = "release" THEN 1 ELSE 0
Abstract == INSTANCE BarrierSpec WITH
    entered <- Entered, left <- passed, gathered <- Gathered, opened <- Opened

ImplementsBarrier == Abstract!Spec
=============================================================================
