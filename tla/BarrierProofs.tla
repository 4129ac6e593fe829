---------------------------- MODULE BarrierProofs ----------------------------
(***************************************************************************)
(* The safety of Barrier for a team of any size, any sequence of barriers  *)
(* in its regions and any gather and release patterns whose trees span the *)
(* team (TreeAssumption).                                                  *)
(***************************************************************************)
EXTENDS Barrier, WellFoundedInduction, TLAPS

(* What TreeAssumption gives the steps: the children are workers, and two   *)
(* threads have no child in common.                                         *)
LEMMA Children ==
    /\ GKids \in [Thread -> SUBSET (Thread \ {0})]
    /\ RKids \in [Thread -> SUBSET (Thread \ {0})]
    /\ \A p, q \in Thread : \A k \in RKids[p] : k \in RKids[q] => p = q
  <1>1. 1..(NProc - 1) = Thread \ {0} /\ 0..(NProc - 1) = Thread
    BY NProcAssumption DEF Thread
  <1>2. ASSUME NEW p \in Thread, NEW q \in Thread, NEW k \in RKids[p], k \in RKids[q]
        PROVE  p = q
    BY <1>1, <1>2, TreeAssumption DEF IsTeamTree
  <1> QED BY <1>1, <1>2, TreeAssumption DEF IsTeamTree

(* A set of threads that holds, with every thread, the thread's children,   *)
(* and that holds the children of the master, holds every worker: the least *)
(* worker outside would have its parent inside.                             *)
LEMMA TreeInduction ==
    ASSUME NEW S, \A k \in GKids[0] : k \in S,
           \A t \in Thread \ {0} : t \in S => \A k \in GKids[t] : k \in S
    PROVE  Thread \ {0} \subseteq S
  <1> DEFINE Out == {t \in Thread \ {0} : t \notin S}
  <1>1. Thread \subseteq Nat /\ 0 \in Thread
    BY NProcAssumption DEF Thread
  <1>2. SUFFICES ASSUME Out # {} PROVE FALSE
    OBVIOUS
  <1>3. PICK t \in Out : \A u \in Out : ~(<<u, t>> \in OpToRel(<, Nat))
    <2>1. Out \subseteq Nat
      BY <1>1
    <2> HIDE DEF Out
    <2> QED BY <1>2, <2>1, NatLessThanWellFounded, WFMin
  <1>4. \A u \in Out : ~(u < t)
    BY <1>1, <1>3 DEF OpToRel
  <1>5. PICK p \in 0..(t - 1) : t \in GKids[p]
    <2>1. t \in 1..(NProc - 1)
      BY <1>1, NProcAssumption DEF Thread
    <2>2. PICK p \in 0..(t - 1) : \A q \in 0..(NProc - 1) : t \in GKids[q] <=> q = p
      BY <2>1, TreeAssumption DEF IsTeamTree
    <2>3. p \in 0..(NProc - 1)
      BY <2>1, <2>2, NProcAssumption
    <2> QED BY <2>2, <2>3
  <1>6. p \in Thread /\ p < t
    BY <1>1, <1>5, NProcAssumption DEF Thread
  <1>7. p \notin Out
    BY <1>4, <1>6
  <1> QED BY <1>5, <1>6, <1>7

LEMMA Zero == 0 \in Thread /\ Thread \subseteq Nat
  BY NProcAssumption DEF Thread

LEMMA BarrierTypes == \A k : BarrierAt(k) \in BarrierType
  BY DEF BarrierAt, TypeOf, BarrierType

LEMMA InitInv == Init => IInv
  <1> SUFFICES ASSUME Init PROVE IInv
    OBVIOUS
  <1>1. TypeOK
    BY Zero DEF Init, TypeOK, At
  <1>2. Entering = 1
    BY Zero DEF Init, Entering
  <1>3. \A t \in Thread : ~HasArrived(t) /\ ~IsLetGo(t)
    BY <1>2, Zero, BarrierTypes DEF Init, HasArrived, IsLetGo
  <1>4. Positions /\ ArrivalCounts /\ SubtreesArrive /\ GoIsAwaited
    BY <1>2, <1>3, Zero DEF Init, Positions, ArrivalCounts, SubtreesArrive, GoIsAwaited
  <1>5. LetGoByParent /\ ClosedWhileGathered
    BY <1>2, <1>3, Zero, Children DEF Init, LetGoByParent, ClosedWhileGathered
  <1> QED BY <1>1, <1>4, <1>5 DEF IInv

LEMMA ArriveInv == ASSUME NEW t \in Thread, IInv, Arrive(t) PROVE IInv'
  <1> USE DEF IInv
  <1>1. TypeOK'
    BY Zero DEF TypeOK, Arrive, flags, icvs, At
  <1>2. Entering' = Entering /\ passed[t] = Entering
    BY Zero DEF TypeOK, Positions, Arrive, Entering
  <1>3. \A u \in Thread : HasArrived(u)' <=> HasArrived(u)
    BY <1>2 DEF TypeOK, Arrive, HasArrived
  <1>4. \A u \in Thread : IsLetGo(u)' <=> IsLetGo(u)
    BY <1>2 DEF TypeOK, Arrive, IsLetGo, flags
  <1>5. Positions'
    BY <1>2, Zero DEF TypeOK, Positions, Arrive
  <1>6. ArrivalCounts'
    BY <1>2, <1>3 DEF TypeOK, ArrivalCounts, Arrive, flags
  <1>7. SubtreesArrive'
    BY <1>2, <1>3, Children DEF TypeOK, SubtreesArrive, Arrive, flags
  <1>8. GoIsAwaited'
    BY <1>2 DEF TypeOK, GoIsAwaited, Arrive, flags
  <1>9. LetGoByParent'
    BY <1>2, <1>4, Children DEF TypeOK, LetGoByParent, Arrive
  <1>10. ClosedWhileGathered'
    BY <1>4, Zero DEF TypeOK, ClosedWhileGathered, Arrive
  <1> QED BY <1>1, <1>5, <1>6, <1>7, <1>8, <1>9, <1>10

LEMMA ReadTeamStateInv == ASSUME NEW t \in Thread, IInv, ReadTeamState(t) PROVE IInv'
  <1> USE DEF IInv
  <1>1. TypeOK'
    BY BarrierTypes DEF TypeOK, ReadTeamState, BarrierOf, flags, icvs
  <1>2. Entering' = Entering /\ passed[t] = Entering
    BY Zero DEF TypeOK, Positions, ReadTeamState, Entering
  <1>3. \A u \in Thread : HasArrived(u)' <=> HasArrived(u)
    BY <1>2 DEF TypeOK, ReadTeamState, HasArrived
  <1>4. \A u \in Thread : IsLetGo(u)' <=> IsLetGo(u)
    BY <1>2 DEF TypeOK, ReadTeamState, IsLetGo, flags
  <1>5. Positions' /\ ArrivalCounts'
    BY <1>2, <1>3 DEF TypeOK, Positions, ArrivalCounts, ReadTeamState, flags
  <1>6. SubtreesArrive'
    BY <1>2, <1>3, Children DEF TypeOK, SubtreesArrive, ReadTeamState, flags, BarrierOf
  <1>7. GoIsAwaited'
    BY <1>2 DEF TypeOK, GoIsAwaited, ReadTeamState, flags
  <1>8. LetGoByParent' /\ ClosedWhileGathered'
    BY <1>2, <1>4, Children DEF TypeOK, LetGoByParent, ClosedWhileGathered, ReadTeamState
  <1> QED BY <1>1, <1>5, <1>6, <1>7, <1>8

LEMMA GatherChildInv == ASSUME NEW t \in Thread, IInv, GatherChild(t) PROVE IInv'
  <1> USE DEF IInv
  <1>1. PICK k \in GKids[t] : /\ arrived[BarrierOf(t)][k] = newState[t]
                             /\ kids' = [kids EXCEPT ![t] = @ \cup {k}]
                             /\ reduceData' \in {reduceData, [reduceData EXCEPT ![t] =
                                     [u \in Thread |-> @[u] + reduceData[k][u]]]}
    BY DEF GatherChild
  <1>2. k \in Thread \ {0}
    BY Children
  <1>3. TypeOK'
    <2> DEFINE sum == [u \in Thread |-> reduceData[t][u] + reduceData[k][u]]
    <2>1. sum \in [Thread -> Nat]
      <3>1. \A u \in Thread : reduceData[t][u] \in Nat /\ reduceData[k][u] \in Nat
        BY <1>2 DEF TypeOK
      <3> QED BY <3>1
    <2>3. reduceData' \in {reduceData, [reduceData EXCEPT ![t] = sum]}
      BY <1>1
    <2> HIDE DEF sum
    <2>4. reduceData' \in [Thread -> [Thread -> Nat]]
      BY <2>1, <2>3 DEF TypeOK
    <2>2. kids' \in [Thread -> SUBSET Thread]
      BY <1>1, <1>2 DEF TypeOK
    <2> QED BY <2>2, <2>4 DEF TypeOK, GatherChild, flags, icvs
  <1>4. Entering' = Entering /\ passed[t] = Entering
    BY Zero DEF TypeOK, Positions, GatherChild, Entering
  <1>5. \A u \in Thread : HasArrived(u)' <=> HasArrived(u)
    BY <1>4 DEF TypeOK, GatherChild, HasArrived
  <1>6. \A u \in Thread : IsLetGo(u)' <=> IsLetGo(u)
    BY <1>4 DEF TypeOK, GatherChild, IsLetGo, flags
  <1>7. Positions' /\ ArrivalCounts'
    BY <1>4, <1>5 DEF TypeOK, Positions, ArrivalCounts, GatherChild, flags
  <1>8. HasArrived(k)
    <2>1. newState[t] = teamArrived[BarrierAt(Entering)] + 1
      BY DEF TypeOK, SubtreesArrive, GatherChild
    <2>2. teamArrived[BarrierAt(Entering)] \in Nat
      BY BarrierTypes DEF TypeOK
    <2> QED BY <1>1, <1>2, <1>4, <2>1, <2>2, BarrierTypes DEF ArrivalCounts, BarrierOf
  <1>9. SubtreesArrive'
    <2>1. ASSUME NEW v \in Thread, HasArrived(v)' PROVE \A j \in GKids[v] : HasArrived(j)'
      BY <1>5, <2>1, Children DEF SubtreesArrive
    <2>2. ASSUME NEW v \in Thread, pc'[v] = "gather"
          PROVE  /\ newState'[v] \in {0, (teamArrived[BarrierAt(Entering)] + 1)'}
                 /\ kids'[v] \subseteq GKids[v]
      BY <1>1, <1>4, <2>2 DEF TypeOK, SubtreesArrive, GatherChild, flags, BarrierAt, KindAt
    <2>3. ASSUME NEW v \in Thread, pc'[v] = "gather", NEW j \in kids'[v]
          PROVE  HasArrived(j)'
      <3>1. j = k \/ j \in kids[v]
        BY <1>1, <2>3 DEF TypeOK
      <3>2. HasArrived(j)
        BY <1>8, <2>3, <3>1 DEF SubtreesArrive, GatherChild
      <3>3. j \in Thread
        BY <1>2, <3>1 DEF TypeOK
      <3> QED BY <1>5, <3>2, <3>3
    <2> QED BY <2>1, <2>2, <2>3 DEF SubtreesArrive
  <1>10. GoIsAwaited'
    BY <1>4 DEF TypeOK, GoIsAwaited, GatherChild, flags
  <1>11. LetGoByParent'
    <2>1. ASSUME NEW v \in Thread
          PROVE  pc'[v] = pc[v] /\ passed'[v] = passed[v] /\ (pc[v] = "release" => kids'[v] = kids[v])
      BY <1>1 DEF TypeOK, GatherChild
    <2> QED BY <1>4, <1>6, <2>1, Children DEF LetGoByParent
  <1>12. ClosedWhileGathered'
    BY <1>6 DEF ClosedWhileGathered, GatherChild
  <1> QED BY <1>3, <1>7, <1>9, <1>10, <1>11, <1>12

LEMMA SignalArrivalInv == ASSUME NEW t \in Thread, IInv, SignalArrival(t) PROVE IInv'
  <1> USE DEF IInv
  <1>1. TypeOK'
    BY BarrierTypes DEF TypeOK, SignalArrival, BarrierOf, icvs, At
  <1>2. Entering' = Entering /\ passed[t] = Entering /\ ~HasArrived(t) /\ HasArrived(t)'
    BY Zero DEF TypeOK, Positions, SignalArrival, Entering, HasArrived
  <1>3. \A u \in Thread \ {t} : HasArrived(u)' <=> HasArrived(u)
    BY <1>2 DEF TypeOK, SignalArrival, HasArrived
  <1>4. \A u \in Thread : IsLetGo(u)' <=> IsLetGo(u)
    BY <1>2 DEF TypeOK, SignalArrival, IsLetGo, BarrierAt, KindAt
  <1>5. Positions'
    BY <1>2, Zero DEF TypeOK, Positions, SignalArrival
  <1>6. ArrivalCounts'
    <2>1. ASSUME NEW bt \in BarrierType, NEW u \in Thread \ {0}
          PROVE  arrived'[bt][u] = arrived[bt][u]
                                   + IF u = t /\ bt = BarrierAt(Entering) THEN 1 ELSE 0
      BY <1>2, BarrierTypes DEF TypeOK, SignalArrival, BarrierOf
    <2>2. teamArrived' = teamArrived /\ BarrierAt(Entering)' = BarrierAt(Entering)
      BY <1>2 DEF SignalArrival, BarrierAt, KindAt
    <2>3. \A bt \in BarrierType : teamArrived[bt] \in Nat
      BY DEF TypeOK
    <2> QED BY <1>2, <1>3, <2>1, <2>2, <2>3 DEF ArrivalCounts
  <1>7. SubtreesArrive'
    <2>1. \A u \in Thread : HasArrived(u) => HasArrived(u)'
      BY <1>2, <1>3
    <2>2. \A k \in GKids[t] : HasArrived(k)'
      BY <2>1, Children DEF SubtreesArrive, SignalArrival
    <2>3. ASSUME NEW u \in Thread, HasArrived(u)' PROVE \A k \in GKids[u] : HasArrived(k)'
      BY <1>3, <2>1, <2>2, <2>3, Children DEF SubtreesArrive
    <2>4. ASSUME NEW u \in Thread, pc'[u] = "gather"
          PROVE  pc[u] = "gather" /\ kids'[u] = kids[u] /\ newState'[u] = newState[u]
      BY <2>4 DEF TypeOK, SignalArrival
    <2>5. teamArrived'[BarrierAt(Entering)'] = teamArrived[BarrierAt(Entering)]
      BY <1>2 DEF SignalArrival, BarrierAt, KindAt
    <2>6. ASSUME NEW u \in Thread PROVE kids[u] \subseteq Thread
      BY DEF TypeOK
    <2> QED BY <2>1, <2>3, <2>4, <2>5, <2>6 DEF SubtreesArrive
  <1>8. GoIsAwaited'
    BY <1>2 DEF TypeOK, GoIsAwaited, SignalArrival, BarrierAt, KindAt
  <1>9. LetGoByParent'
    <2>1. ASSUME NEW v \in Thread
          PROVE  /\ pc'[v] = "release" <=> pc[v] = "release"
                 /\ passed'[v] = passed[v] /\ kids'[v] = kids[v]
      BY DEF TypeOK, SignalArrival
    <2> QED BY <1>2, <1>4, <2>1, Children DEF LetGoByParent
  <1>10. ClosedWhileGathered'
    BY <1>4, Zero DEF TypeOK, ClosedWhileGathered, SignalArrival
  <1> QED BY <1>1, <1>5, <1>6, <1>7, <1>8, <1>9, <1>10

(* When the master has gathered its children the whole team has arrived.    *)
LEMMA TeamHasArrived ==
    ASSUME IInv, CompleteGather
    PROVE  \A t \in Thread \ {0} : HasArrived(t)
  <1> DEFINE S == {t \in Thread : HasArrived(t)}
  <1>1. \A k \in GKids[0] : k \in S
    BY Zero, Children DEF IInv, SubtreesArrive, CompleteGather
  <1>2. \A t \in Thread \ {0} : t \in S => \A k \in GKids[t] : k \in S
    BY Children DEF IInv, SubtreesArrive
  <1>3. Thread \ {0} \subseteq S
    <2> HIDE DEF S
    <2> QED BY <1>1, <1>2, TreeInduction
  <1> QED BY <1>3

LEMMA CompleteGatherInv == ASSUME IInv, CompleteGather PROVE IInv'
  <1> USE DEF IInv
  <1>1. TypeOK'
    BY Zero, BarrierTypes DEF TypeOK, CompleteGather, BarrierOf, icvs, At
  <1>2. passed[0] = Entering /\ Entering' = Entering + 1 /\ Entering \in Nat
    BY Zero DEF TypeOK, CompleteGather, Entering
  <1>3. \A t \in Thread : passed'[t] = Entering /\ (t # 0 => pc'[t] = "waitGo")
    BY <1>2, Zero, TeamHasArrived DEF TypeOK, CompleteGather, HasArrived
  <1>4. pc'[0] = "gathered" /\ pc[0] = "gather"
    BY Zero DEF TypeOK, CompleteGather
  <1>5. \A t \in Thread : ~HasArrived(t)'
    BY <1>2, <1>3 DEF HasArrived
  <1>6. \A bt \in BarrierType, t \in Thread : go'[bt][t] = 0
    BY <1>2, <1>3 DEF TypeOK, GoIsAwaited, CompleteGather
  <1>7. \A t \in Thread : ~IsLetGo(t)'
    BY <1>2, <1>3, <1>4, <1>6, BarrierTypes DEF IsLetGo
  <1>8. Positions'
    BY <1>2, <1>3, <1>4, Zero DEF TypeOK, Positions
  <1>9. ArrivalCounts'
    <2>1. newState[0] = teamArrived[BarrierAt(Entering)] + 1
      BY Zero DEF TypeOK, SubtreesArrive, CompleteGather
    <2>2. \A bt \in BarrierType :
              teamArrived'[bt] = teamArrived[bt] + IF bt = BarrierAt(Entering) THEN 1 ELSE 0
      BY <1>2, <2>1, BarrierTypes DEF TypeOK, CompleteGather, BarrierOf
    <2>3. arrived' = arrived /\ \A bt \in BarrierType : teamArrived'[bt] \in Nat
      BY <1>1 DEF CompleteGather, TypeOK
    <2> QED BY <1>5, <2>2, <2>3, TeamHasArrived DEF ArrivalCounts
  <1>10. SubtreesArrive'
    BY <1>3, <1>4, <1>5 DEF SubtreesArrive
  <1>11. GoIsAwaited'
    BY <1>6 DEF GoIsAwaited
  <1>12. LetGoByParent'
    BY <1>2, <1>3, <1>4, <1>7, Children DEF LetGoByParent
  <1>13. ClosedWhileGathered'
    BY <1>7 DEF ClosedWhileGathered
  <1> QED BY <1>1, <1>8, <1>9, <1>10, <1>11, <1>12, <1>13

(* OpenBarrier and Fork: the master starts to release.                      *)
LEMMA OpeningInv ==
    ASSUME IInv, TypeOK', pc[0] = "gathered", pc' = [pc EXCEPT ![0] = "release"],
           kids' = [kids EXCEPT ![0] = {}], UNCHANGED <<passed, flags, newState>>
    PROVE  IInv'
  <1> USE DEF IInv
  <1>1. Entering' = Entering /\ Entering = passed[0] + 1 /\ passed[0] \in Nat
    BY Zero DEF TypeOK, Entering
  <1>2. \A u \in Thread \ {0} : pc'[u] = pc[u] /\ kids'[u] = kids[u]
    BY DEF TypeOK
  <1>3. pc'[0] = "release" /\ kids'[0] = {}
    BY Zero DEF TypeOK
  <1>4. \A u \in Thread : HasArrived(u)' <=> HasArrived(u)
    BY <1>1, <1>2 DEF HasArrived
  <1>5. \A u \in Thread \ {0} : IsLetGo(u)' <=> IsLetGo(u)
    BY <1>1, <1>2 DEF IsLetGo, flags, BarrierAt, KindAt
  <1>6. Positions' /\ ArrivalCounts'
    BY <1>1, <1>2, <1>3, <1>4 DEF Positions, ArrivalCounts, flags, BarrierAt, KindAt
  <1>7. SubtreesArrive'
    <2>1. teamArrived'[BarrierAt(Entering)'] = teamArrived[BarrierAt(Entering)]
      BY <1>1 DEF flags, BarrierAt, KindAt
    <2>2. ASSUME NEW u \in Thread, pc'[u] = "gather"
          PROVE  pc[u] = "gather" /\ kids'[u] = kids[u] /\ newState'[u] = newState[u]
      BY <1>2, <1>3, <2>2
    <2>3. ASSUME NEW u \in Thread PROVE kids[u] \subseteq Thread
      BY DEF TypeOK
    <2> QED BY <1>4, <2>1, <2>2, <2>3, Children DEF SubtreesArrive
  <1>8. GoIsAwaited'
    BY <1>1, <1>2 DEF GoIsAwaited, flags, BarrierAt, KindAt
  <1>9. LetGoByParent'
    <2>1. \A k \in RKids[0] : ~IsLetGo(k)'
      BY <1>5, Zero, Children DEF ClosedWhileGathered
    <2>2. \A u \in Thread : passed'[u] = passed[u]
      OBVIOUS
    <2> QED BY <1>1, <1>2, <1>3, <1>5, <2>1, <2>2, Children DEF LetGoByParent
  <1>10. ClosedWhileGathered'
    BY <1>3 DEF ClosedWhileGathered
  <1> QED BY <1>6, <1>7, <1>8, <1>9, <1>10

LEMMA OpenBarrierInv == IInv /\ OpenBarrier => IInv'
  <1> SUFFICES ASSUME IInv, OpenBarrier PROVE IInv'
    OBVIOUS
  <1>1. TypeOK'
    BY DEF IInv, TypeOK, OpenBarrier, flags, icvs, At
  <1> QED BY <1>1, OpeningInv DEF OpenBarrier

LEMMA ForkInv == IInv /\ Fork => IInv'
  <1> SUFFICES ASSUME IInv, Fork PROVE IInv'
    OBVIOUS
  <1>1. TypeOK'
    BY Zero DEF IInv, TypeOK, Fork, flags, At
  <1> QED BY <1>1, OpeningInv DEF Fork

LEMMA Releasing ==
    ASSUME NEW t \in Thread, IInv, pc[t] = "release"
    PROVE  passed[t] + 1 = Entering /\ passed[t] = Entering - 1 /\ passed[t] # Entering
  <1>1. passed[t] \in Nat /\ passed[0] \in Nat
    BY Zero DEF IInv, TypeOK
  <1>2. CASE t = 0
    BY <1>1, <1>2 DEF Entering
  <1>3. CASE t # 0
    <2>1. passed[t] + 1 = Entering
      BY <1>3 DEF IInv, Positions
    <2> QED BY <1>1, <2>1
  <1> QED BY <1>2, <1>3

LEMMA WakeInv == ASSUME NEW t \in Thread, IInv, Wake(t) PROVE IInv'
  <1> USE DEF IInv
  <1>1. TypeOK'
    BY BarrierTypes DEF TypeOK, Wake, BarrierOf, icvs, At
  <1>2. /\ t # 0 /\ pc[t] = "waitGo" /\ pc'[t] = "release" /\ kids'[t] = {}
        /\ passed[t] + 1 = Entering /\ go[BarrierAt(passed[t])][t] = 1
    BY BarrierTypes DEF TypeOK, GoIsAwaited, Wake, BarrierOf
  <1>3. \A u \in Thread \ {t} : pc'[u] = pc[u] /\ kids'[u] = kids[u]
    BY DEF TypeOK, Wake
  <1>4. Entering' = Entering /\ passed' = passed /\ Entering \in Nat
    BY <1>2, <1>3, Zero DEF TypeOK, Wake, Entering
  <1>5. \A bt \in BarrierType, u \in Thread :
            /\ u # t => go'[bt][u] = go[bt][u]
            /\ go'[bt][t] = 1 => go[bt][t] = 1 /\ bt # BarrierAt(passed[t])
    BY <1>2, BarrierTypes DEF TypeOK, Wake, BarrierOf
  <1>6. \A u \in Thread : HasArrived(u)' <=> HasArrived(u)
    BY <1>2, <1>3, <1>4 DEF HasArrived
  <1>7. \A u \in Thread : IsLetGo(u)' <=> IsLetGo(u)
    <2>1. IsLetGo(t) /\ IsLetGo(t)'
      <3>1. Entering - 1 = passed[t]
        <4>1. passed[t] \in Nat
          BY DEF TypeOK
        <4> QED BY <1>2, <4>1
      <3> QED BY <1>2, <3>1 DEF IsLetGo
    <2>2. ASSUME NEW u \in Thread \ {t} PROVE IsLetGo(u)' <=> IsLetGo(u)
      BY <1>3, <1>4, <1>5, BarrierTypes DEF IsLetGo, BarrierAt, KindAt
    <2> QED BY <2>1, <2>2
  <1>8. Positions'
    BY <1>2, <1>3, <1>4, Zero DEF Positions
  <1>9. ArrivalCounts'
    BY <1>4, <1>6 DEF ArrivalCounts, Wake, BarrierAt, KindAt
  <1>10. SubtreesArrive'
    <2>1. teamArrived'[BarrierAt(Entering)'] = teamArrived[BarrierAt(Entering)]
      BY <1>4 DEF Wake, BarrierAt, KindAt
    <2>2. ASSUME NEW u \in Thread, pc'[u] = "gather"
          PROVE  pc[u] = "gather" /\ kids'[u] = kids[u] /\ newState'[u] = newState[u]
      BY <1>2, <1>3, <2>2 DEF Wake
    <2>3. ASSUME NEW u \in Thread PROVE kids[u] \subseteq Thread
      BY DEF TypeOK
    <2> QED BY <1>6, <2>1, <2>2, <2>3, Children DEF SubtreesArrive
  <1>11. GoIsAwaited'
    BY <1>2, <1>3, <1>4, <1>5 DEF GoIsAwaited, BarrierAt, KindAt
  <1>12. LetGoByParent'
    <2>1. passed[t] # Entering
      BY <1>2, <1>4 DEF TypeOK
    <2> QED BY <1>2, <1>3, <1>4, <1>7, <2>1, Children DEF LetGoByParent
  <1>13. ClosedWhileGathered'
    BY <1>2, <1>3, <1>7, Zero DEF ClosedWhileGathered
  <1> QED BY <1>1, <1>8, <1>9, <1>10, <1>11, <1>12, <1>13

LEMMA ReleaseChildInv == ASSUME NEW t \in Thread, IInv, ReleaseChild(t) PROVE IInv'
  <1> USE DEF IInv
  <1>1. PICK k \in RKids[t] \ kids[t] :
            /\ go' = [go EXCEPT ![BarrierOf(t)][k] = @ + 1]
            /\ kids' = [kids EXCEPT ![t] = @ \cup {k}]
            /\ IF KindOf(t) = "fork" THEN PushIcvs(t, k) ELSE UNCHANGED <<taskIcv, fixedIcv>>
    BY DEF ReleaseChild, NextReleased
  <1>2. k \in Thread \ {0}
    BY <1>1, Children
  <1>3. /\ pc[t] = "release" /\ passed[t] + 1 = Entering /\ passed[t] # Entering
        /\ passed[t] = Entering - 1
    BY Releasing DEF ReleaseChild
  <1>4. ~IsLetGo(k)
    BY <1>1, <1>3, Children DEF LetGoByParent
  <1>5. pc[k] = "waitGo" /\ passed[k] + 1 = Entering /\ passed[k] = passed[t]
    BY <1>2, <1>3, <1>4 DEF TypeOK, Positions, IsLetGo
  <1>6. go[BarrierAt(passed[t])][k] = 0
    BY <1>2, <1>3, <1>4, BarrierTypes DEF TypeOK, IsLetGo
  <1>7. TypeOK'
    <2>1. go' \in [BarrierType -> [Thread -> {0, 1}]]
      BY <1>1, <1>2, <1>6, BarrierTypes DEF TypeOK, BarrierOf
    <2>2. kids' \in [Thread -> SUBSET Thread]
      BY <1>1, <1>2 DEF TypeOK
    <2>3. taskIcv' \in [Thread -> Icv] /\ fixedIcv' \in [Thread -> Icv]
      BY <1>1, <1>2, Zero DEF TypeOK, PushIcvs
    <2> QED BY <2>1, <2>2, <2>3 DEF TypeOK, ReleaseChild
  <1>8. Entering' = Entering /\ pc' = pc /\ passed' = passed
    BY DEF ReleaseChild, Entering
  <1>9. \A bt \in BarrierType, u \in Thread :
            /\ u # k \/ bt # BarrierAt(passed[t]) => go'[bt][u] = go[bt][u]
            /\ go'[BarrierAt(passed[t])][k] = 1
    BY <1>1, <1>2, <1>6, BarrierTypes DEF TypeOK, BarrierOf
  <1>10. \A u \in Thread : HasArrived(u)' <=> HasArrived(u)
    BY <1>8 DEF HasArrived
  <1>11. \A u \in Thread : IsLetGo(u)' <=> IsLetGo(u) \/ u = k
    <2>1. BarrierAt(Entering - 1)' = BarrierAt(passed[t]) /\ BarrierAt(Entering - 1) = BarrierAt(passed[t])
      BY <1>3, <1>8 DEF BarrierAt, KindAt
    <2>2. ASSUME NEW u \in Thread, u # k PROVE IsLetGo(u)' <=> IsLetGo(u)
      BY <1>8, <1>9, <2>1, <2>2, BarrierTypes DEF IsLetGo
    <2>3. IsLetGo(k)'
      <3>1. go'[BarrierAt(passed[t])][k] = 1
        BY <1>2, <1>9, BarrierTypes
      <3> QED BY <1>2, <2>1, <3>1 DEF IsLetGo
    <2> QED BY <2>2, <2>3
  <1>12. Positions' /\ ArrivalCounts'
    BY <1>8, <1>10 DEF Positions, ArrivalCounts, ReleaseChild, BarrierAt, KindAt
  <1>13. SubtreesArrive'
    <2>1. teamArrived'[BarrierAt(Entering)'] = teamArrived[BarrierAt(Entering)]
      BY <1>8 DEF ReleaseChild, BarrierAt, KindAt
    <2>2. ASSUME NEW u \in Thread, pc'[u] = "gather"
          PROVE  pc[u] = "gather" /\ kids'[u] = kids[u] /\ newState'[u] = newState[u]
      BY <1>1, <1>3, <1>8, <2>2 DEF TypeOK, ReleaseChild
    <2>3. ASSUME NEW u \in Thread PROVE kids[u] \subseteq Thread
      BY DEF TypeOK
    <2> QED BY <1>10, <2>1, <2>2, <2>3, Children DEF SubtreesArrive
  <1>14. GoIsAwaited'
    BY <1>2, <1>5, <1>8, <1>9 DEF GoIsAwaited, BarrierAt, KindAt
  <1>15. LetGoByParent'
    <2>1. ASSUME NEW u \in Thread
          PROVE  kids'[u] = IF u = t THEN kids[u] \cup {k} ELSE kids[u]
      BY <1>1 DEF TypeOK
    <2>2. ASSUME NEW u \in Thread, k \in RKids[u] PROVE u = t
      BY <1>1, <2>2, Children
    <2>3. ASSUME NEW u \in Thread, pc'[u] = "release" PROVE kids'[u] \subseteq RKids[u]
      BY <1>1, <1>8, <2>1, <2>3 DEF LetGoByParent
    <2>4. ASSUME NEW u \in Thread, NEW j \in RKids[u]
          PROVE  IsLetGo(j)' <=> passed[u] = Entering \/ (pc[u] = "release" /\ j \in kids'[u])
      <3>1. IsLetGo(j) <=> passed[u] = Entering \/ (pc[u] = "release" /\ j \in kids[u])
        BY DEF LetGoByParent
      <3>2. j \in Thread
        BY Children
      <3>3. CASE j = k
        BY <1>3, <1>11, <2>1, <2>2, <3>2, <3>3
      <3>4. CASE j # k
        BY <1>11, <2>1, <3>1, <3>2, <3>4
      <3> QED BY <3>3, <3>4
    <2> QED BY <1>8, <2>3, <2>4 DEF LetGoByParent
  <1>16. ClosedWhileGathered'
    BY <1>3, <1>8 DEF ClosedWhileGathered, IsLetGo
  <1> QED BY <1>7, <1>12, <1>13, <1>14, <1>15, <1>16

LEMMA LeaveBarrierInv == ASSUME NEW t \in Thread, IInv, LeaveBarrier(t) PROVE IInv'
  <1> USE DEF IInv
  <1>1. TypeOK'
    BY DEF TypeOK, LeaveBarrier, flags, At
  <1>2. /\ pc[t] = "release" /\ kids[t] = RKids[t] /\ passed[t] + 1 = Entering
        /\ passed[t] # Entering
    BY Releasing DEF LeaveBarrier
  <1>3. /\ pc'[t] = "run" /\ passed'[t] = Entering
        /\ \A u \in Thread \ {t} : pc'[u] = pc[u] /\ passed'[u] = passed[u]
    BY <1>2 DEF TypeOK, LeaveBarrier
  <1>4. Entering' = Entering
    BY <1>2, <1>3, Zero DEF Entering
  <1>5. \A u \in Thread : HasArrived(u)' <=> HasArrived(u)
    BY <1>2, <1>3, <1>4 DEF HasArrived
  <1>6. \A u \in Thread : IsLetGo(u)' <=> IsLetGo(u)
    BY <1>2, <1>3, <1>4 DEF IsLetGo, LeaveBarrier, flags, BarrierAt, KindAt
  <1>7. Positions'
    BY <1>2, <1>3, <1>4, Zero DEF Positions
  <1>8. ArrivalCounts'
    BY <1>4, <1>5 DEF ArrivalCounts, LeaveBarrier, flags, BarrierAt, KindAt
  <1>9. SubtreesArrive'
    <2>1. teamArrived'[BarrierAt(Entering)'] = teamArrived[BarrierAt(Entering)]
      BY <1>4 DEF LeaveBarrier, flags, BarrierAt, KindAt
    <2>2. ASSUME NEW u \in Thread, pc'[u] = "gather"
          PROVE  pc[u] = "gather" /\ kids'[u] = kids[u] /\ newState'[u] = newState[u]
      BY <1>3, <2>2 DEF LeaveBarrier
    <2>3. ASSUME NEW u \in Thread PROVE kids[u] \subseteq Thread
      BY DEF TypeOK
    <2> QED BY <1>5, <2>1, <2>2, <2>3, Children DEF SubtreesArrive
  <1>10. GoIsAwaited'
    BY <1>2, <1>3, <1>4 DEF GoIsAwaited, LeaveBarrier, flags, BarrierAt, KindAt
  <1>11. LetGoByParent'
    <2>1. kids' = kids
      BY DEF LeaveBarrier
    <2> QED BY <1>2, <1>3, <1>4, <1>6, <2>1, Children DEF LetGoByParent
  <1>12. ClosedWhileGathered'
    BY <1>2, <1>3, <1>6, Zero DEF ClosedWhileGathered
  <1> QED BY <1>1, <1>7, <1>8, <1>9, <1>10, <1>11, <1>12

(* The parts of the invariant that the ICVs do not appear in.               *)
LEMMA IcvInv ==
    ASSUME IInv, TypeOK', UNCHANGED <<pc, passed, flags, newState, kids, reduceData>>
    PROVE  IInv'
  <1>1. Entering' = Entering /\ \A k : BarrierAt(k)' = BarrierAt(k)
    BY DEF Entering, BarrierAt, KindAt
  <1>2. \A t \in Thread : (HasArrived(t)' <=> HasArrived(t)) /\ (IsLetGo(t)' <=> IsLetGo(t))
    BY <1>1 DEF HasArrived, IsLetGo, flags
  <1>3. \A t \in Thread : kids[t] \subseteq Thread
    BY DEF IInv, TypeOK
  <1>4. Positions' /\ ArrivalCounts' /\ GoIsAwaited' /\ ClosedWhileGathered'
    BY <1>1, <1>2 DEF IInv, Positions, ArrivalCounts, GoIsAwaited, ClosedWhileGathered, flags
  <1>5. SubtreesArrive'
    BY <1>1, <1>2, <1>3, Children DEF IInv, SubtreesArrive, flags
  <1>6. LetGoByParent'
    BY <1>1, <1>2, <1>3, Children DEF IInv, LetGoByParent
  <1> QED BY <1>4, <1>5, <1>6 DEF IInv

LEMMA SetIcvInv == ASSUME NEW t \in Thread, IInv, SetIcv(t) PROVE IInv'
  <1>1. TypeOK'
    BY DEF IInv, TypeOK, SetIcv, flags
  <1> QED BY <1>1, IcvInv DEF SetIcv

LEMMA StepInv == IInv /\ [Next]_vars => IInv'
  <1>1. IInv /\ UNCHANGED vars => IInv'
    <2> SUFFICES ASSUME IInv, UNCHANGED vars PROVE IInv'
      OBVIOUS
    <2>1. TypeOK'
      BY DEF IInv, TypeOK, vars
    <2> QED BY <2>1, IcvInv DEF vars, flags
  <1> QED BY <1>1, CompleteGatherInv, OpenBarrierInv, ForkInv, ArriveInv, ReadTeamStateInv,
             GatherChildInv, SignalArrivalInv, WakeInv, ReleaseChildInv, LeaveBarrierInv,
             SetIcvInv DEF Next, Gather, Release

(* The inductive invariant holds in every reachable state.                  *)
THEOREM Inductive == Spec => []IInv
  BY InitInv, StepInv, PTL DEF Spec

(* Type correctness; in particular no b_go is raised twice.                 *)
THEOREM TypeCorrect == Spec => []TypeOK
  BY Inductive, PTL DEF IInv

(* No thread leaves a barrier that another has not entered.                 *)
THEOREM BarrierHolds == Spec => []NobodyLeavesEarly
  <1>1. IInv => NobodyLeavesEarly
    <2> SUFFICES ASSUME IInv, NEW t \in Thread, NEW u \in Thread
                 PROVE  passed[t] <= passed[u] + IF pc[u] = "run" THEN 0 ELSE 1
      BY DEF NobodyLeavesEarly
    <2>1. /\ passed[t] \in Nat /\ passed[u] \in Nat /\ passed[0] \in Nat
      BY Zero DEF IInv, TypeOK
    <2>2. Entering \in Nat
      BY <2>1 DEF Entering
    <2>3. passed[t] <= Entering
      BY <2>1, <2>2 DEF IInv, Positions, Entering
    <2>4. Entering <= passed[u] + 1
      BY <2>1, <2>2 DEF IInv, Positions, Entering
    <2>5. pc[u] = "run" => Entering = passed[u]
      BY <2>1, <2>2 DEF IInv, Positions, Entering
    <2> QED BY <2>1, <2>2, <2>3, <2>4, <2>5
  <1> QED BY <1>1, Inductive, PTL

(* When the master has gathered a barrier, every count and flag agrees.     *)
THEOREM FlagsAreClean == Spec => []GatheredIsClean
  <1>1. IInv => GatheredIsClean
    <2> SUFFICES ASSUME IInv, pc[0] = "gathered", NEW t \in Thread \ {0}
                 PROVE  /\ arrived[BarrierOf(0)][t] = teamArrived[BarrierOf(0)]
                        /\ go[BarrierOf(0)][t] = 0
      BY DEF GatheredIsClean
    <2>1. ~IsLetGo(t) /\ passed[0] = Entering - 1 /\ BarrierOf(0) \in BarrierType
      BY Zero, BarrierTypes DEF IInv, TypeOK, ClosedWhileGathered, Entering, BarrierOf
    <2>2. ~HasArrived(t)
      BY <2>1 DEF IsLetGo, HasArrived
    <2>3. teamArrived[BarrierOf(0)] \in Nat /\ go[BarrierOf(0)][t] \in {0, 1}
      BY <2>1 DEF IInv, TypeOK
    <2> QED BY <2>1, <2>2, <2>3 DEF IInv, ArrivalCounts, IsLetGo, BarrierOf
  <1> QED BY <1>1, Inductive, PTL

(* Every action is a step of BarrierSpec or leaves its variables alone.     *)
LEMMA InitRefines == Init => Abstract!Init
  BY Zero DEF Init, Abstract!Init, Entered, Gathered, Opened

LEMMA SameBarrier ==
    ASSUME IInv, passed' = passed, pc'[0] = pc[0],
           \A t \in Thread : pc'[t] = "run" <=> pc[t] = "run"
    PROVE  UNCHANGED Abstract!vars
  BY DEF Abstract!vars, Entered, Gathered, Opened

LEMMA ArriveRefines == ASSUME NEW t \in Thread, IInv, Arrive(t) PROVE Abstract!Enter(t)
  <1>1. /\ pc[t] = "run" /\ passed' = passed /\ pc \in [Thread -> At]
        /\ pc' = [pc EXCEPT ![t] = "gather"] /\ passed[t] \in Nat
    BY DEF Arrive, IInv, TypeOK
  <1>2. Entered[t] = passed[t]
    BY <1>1 DEF Entered
  <1>3. Entered' = [Entered EXCEPT ![t] = @ + 1]
    <2>1. \A u \in Thread : pc'[u] = IF u = t THEN "gather" ELSE pc[u]
      BY <1>1
    <2>2. Entered' = [u \in Thread |-> IF u = t THEN Entered[u] + 1 ELSE Entered[u]]
      <3>1. \A u \in Thread : passed'[u] + (IF pc'[u] = "run" THEN 0 ELSE 1)
                              = IF u = t THEN Entered[u] + 1 ELSE Entered[u]
        BY <1>1, <1>2, <2>1 DEF Entered
      <3> QED BY <3>1 DEF Entered
    <2>3. Entered = [u \in Thread |-> Entered[u]]
      BY DEF Entered
    <2> QED BY <2>2, <2>3
  <1>4. Gathered' = Gathered /\ Opened' = Opened
    BY <1>1, Zero DEF Gathered, Opened
  <1> QED BY <1>1, <1>2, <1>3, <1>4 DEF Abstract!Enter

LEMMA CompleteGatherRefines == IInv /\ CompleteGather => Abstract!Gather
  <1> SUFFICES ASSUME IInv, CompleteGather PROVE Abstract!Gather
    OBVIOUS
  <1>1. /\ pc[0] = "gather" /\ pc'[0] = "gathered" /\ passed' = passed
        /\ \A t \in Thread : pc'[t] = "run" <=> pc[t] = "run"
    BY Zero DEF CompleteGather, IInv, TypeOK
  <1>2. Gathered = passed[0] /\ passed[0] = Entering /\ passed[0] \in Nat
    BY <1>1, Zero DEF Gathered, Entering, IInv, TypeOK
  <1>3. \A t \in Thread : Entered[t] = Gathered + 1
    BY <1>1, <1>2, TeamHasArrived DEF Entered, HasArrived
  <1>4. Entered' = Entered /\ Gathered' = Gathered + 1 /\ Opened' = Opened
    BY <1>1, <1>2 DEF Entered, Gathered, Opened
  <1> QED BY <1>1, <1>3, <1>4 DEF Abstract!Gather

LEMMA OpeningRefines == IInv /\ (OpenBarrier \/ Fork) => Abstract!Open
  <1> SUFFICES ASSUME IInv, OpenBarrier \/ Fork PROVE Abstract!Open
    OBVIOUS
  <1>1. /\ pc[0] = "gathered" /\ pc'[0] = "release" /\ passed' = passed /\ passed[0] \in Nat
        /\ \A t \in Thread : pc'[t] = "run" <=> pc[t] = "run"
    BY Zero DEF OpenBarrier, Fork, IInv, TypeOK
  <1>2. Entered' = Entered
    BY <1>1 DEF Entered
  <1> QED BY <1>1, <1>2 DEF Gathered, Opened, Abstract!Open

LEMMA LeaveBarrierRefines ==
    ASSUME NEW t \in Thread, IInv, LeaveBarrier(t) PROVE Abstract!Leave(t)
  <1>1. /\ pc[t] = "release" /\ pc' = [pc EXCEPT ![t] = "run"]
        /\ passed' = [passed EXCEPT ![t] = @ + 1]
        /\ pc \in [Thread -> At] /\ passed \in [Thread -> Nat]
    BY DEF LeaveBarrier, IInv, TypeOK
  <1>2. passed[t] + 1 = Entering
    BY <1>1, Releasing
  <1>3. Entered[t] = passed[t] + 1
    BY <1>1 DEF Entered
  <1>4. pc[0] # "gathered"
    BY <1>1 DEF IInv, ClosedWhileGathered, IsLetGo
  <1>5. Opened = Entering
    BY <1>1, <1>4, Zero DEF Opened, Entering, IInv, Positions, At
  <1>6. Entered' = Entered
    <2>1. \A u \in Thread : /\ pc'[u] = IF u = t THEN "run" ELSE pc[u]
                            /\ passed'[u] = IF u = t THEN passed[u] + 1 ELSE passed[u]
      BY <1>1
    <2> QED BY <1>1, <2>1 DEF Entered
  <1>7. Gathered' = Gathered /\ Opened' = Opened
    BY <1>1, Zero DEF Gathered, Opened
  <1> QED BY <1>1, <1>2, <1>3, <1>5, <1>6, <1>7 DEF Abstract!Leave

LEMMA InsideRefines ==
    ASSUME IInv, \/ UNCHANGED vars
                 \/ \E t \in Thread : \/ ReadTeamState(t) \/ GatherChild(t) \/ SignalArrival(t)
                                      \/ Wake(t) \/ ReleaseChild(t) \/ SetIcv(t)
    PROVE  UNCHANGED Abstract!vars
  <1>1. pc[0] # "waitGo"
    BY DEF IInv, Positions
  <1>2. passed' = passed
    BY DEF vars, ReadTeamState, GatherChild, SignalArrival, Wake, ReleaseChild, SetIcv
  <1>3. pc'[0] = pc[0] /\ \A u \in Thread : pc'[u] = "run" <=> pc[u] = "run"
    BY <1>1, Zero DEF vars, ReadTeamState, GatherChild, SignalArrival, Wake, ReleaseChild,
                      SetIcv, IInv, TypeOK
  <1> QED BY <1>2, <1>3, SameBarrier

LEMMA StepRefines == IInv /\ [Next]_vars => [Abstract!Next]_Abstract!vars
  BY ArriveRefines, CompleteGatherRefines, OpeningRefines, LeaveBarrierRefines, InsideRefines
     DEF Next, Gather, Release, Abstract!Next

(* The barrier over its trees implements the abstract barrier: the safety   *)
(* part of ImplementsBarrier.                                               *)
THEOREM Refinement == Spec => Abstract!Init /\ [][Abstract!Next]_Abstract!vars
  BY InitRefines, StepRefines, Inductive, PTL DEF Spec
-----------------------------------------------------------------------------
(* Who is at the gather or further back keeps the others where they are.    *)
LEMMA GatheringSame ==
    ASSUME NEW t \in Thread, IInv,
           Arrive(t) \/ ReadTeamState(t) \/ GatherChild(t) \/ SignalArrival(t)
    PROVE  /\ Entering' = Entering /\ passed[t] = Entering /\ passed' = passed
           /\ pc[0] # "gathered" /\ pc'[0] # "gathered"
           /\ \A u \in Thread : IsLetGo(u)' <=> IsLetGo(u)
  <1>1. /\ pc[t] \in {"run", "gather"} /\ passed' = passed /\ go' = go
        /\ \A u \in Thread : u # t => pc'[u] = pc[u]
        /\ pc'[t] \in {"gather", "waitGo"} /\ (t = 0 => pc'[t] = "gather")
    BY DEF IInv, TypeOK, Arrive, ReadTeamState, GatherChild, SignalArrival, flags
  <1>2. Entering' = Entering /\ passed[t] = Entering
    BY <1>1, Zero DEF IInv, Positions, TypeOK, Entering
  <1>3. \A u \in Thread : IsLetGo(u)' <=> IsLetGo(u)
    BY <1>1, <1>2 DEF IsLetGo, BarrierAt, KindAt
  <1>4. pc[0] # "gathered" /\ pc'[0] # "gathered"
    BY <1>1, <1>2, Zero DEF IInv, ClosedWhileGathered, IsLetGo
  <1> QED BY <1>1, <1>2, <1>3, <1>4

(* The ICVs on their way through the fork barrier.                          *)
LEMMA IcvsSame ==
    ASSUME IcvsHanded, UNCHANGED icvs, Entering' = Entering, passed' = passed,
           pc[0] # "gathered", \A u \in Thread : IsLetGo(u)' => IsLetGo(u)
    PROVE  IcvsHanded'
  BY DEF IcvsHanded, icvs, KindAt, ReleasesAlone

LEMMA ForkIcvs == IInv /\ Fork => IcvsHanded'
  <1> SUFFICES ASSUME IInv, Fork PROVE IcvsHanded'
    OBVIOUS
  <1>1. Entering' = Entering /\ Entering = passed[0] + 1 /\ passed[0] \in Nat /\ passed' = passed
    BY Zero DEF IInv, TypeOK, Fork, Entering
  <1>2. \A u \in Thread \ {0} : ~IsLetGo(u)'
    <2>1. \A u \in Thread \ {0} : pc'[u] = pc[u] /\ ~IsLetGo(u)
      BY DEF IInv, TypeOK, ClosedWhileGathered, Fork
    <2> QED BY <1>1, <2>1 DEF IsLetGo, Fork, flags, BarrierAt, KindAt
  <1>3. \A u \in Thread : ReleasePattern = "linear" => taskIcv'[u] = forkIcv'
    BY DEF Fork
  <1>4. /\ ReleasePattern = "hyper" => fixedIcv'[0] = forkIcv'
        /\ ReleasePattern = "tree" => taskIcv'[0] = forkIcv'
    BY Zero DEF Fork, IInv, TypeOK
  <1> QED BY <1>2, <1>3, <1>4 DEF IcvsHanded

LEMMA ReleaseChildIcvs ==
    ASSUME NEW t \in Thread, IInv, IcvsHanded, ReleaseChild(t) PROVE IcvsHanded'
  <1>1. PICK k \in RKids[t] \ kids[t] :
            /\ go' = [go EXCEPT ![BarrierOf(t)][k] = @ + 1]
            /\ IF KindOf(t) = "fork" THEN PushIcvs(t, k) ELSE UNCHANGED <<taskIcv, fixedIcv>>
    BY DEF ReleaseChild, NextReleased
  <1>2. k \in Thread \ {0}
    BY <1>1, Children
  <1>3. /\ pc[t] = "release" /\ passed[t] + 1 = Entering /\ passed[t] # Entering
        /\ passed[t] = Entering - 1
    BY Releasing DEF ReleaseChild
  <1>4. Entering' = Entering /\ passed' = passed /\ pc' = pc /\ forkIcv' = forkIcv
    BY DEF ReleaseChild, Entering
  <1>5. pc[0] # "gathered" /\ IsLetGo(t)
    BY <1>3 DEF IInv, ClosedWhileGathered, IsLetGo
  <1>6. SUFFICES ASSUME KindAt(Entering - 1) = "fork", NEW u \in Thread, passed[u] # Entering
                 PROVE  /\ ReleasePattern = "linear" => taskIcv'[u] = forkIcv
                        /\ ReleasePattern = "hyper" /\ IsLetGo(u)' => fixedIcv'[u] = forkIcv
                        /\ ReleasePattern = "tree" /\ ReleasesAlone /\ IsLetGo(u)'
                              => taskIcv'[u] = forkIcv
    BY <1>4 DEF IcvsHanded, KindAt, ReleasesAlone
  <1>7. PushIcvs(t, k)
    BY <1>1, <1>3, <1>6 DEF KindOf
  <1>8. u # k => (IsLetGo(u)' <=> IsLetGo(u))
    BY <1>1, <1>2, <1>4, BarrierTypes DEF IsLetGo, IInv, TypeOK, BarrierAt, KindAt, BarrierOf
  <1>9. ReleasePattern = "linear" => taskIcv'[u] = forkIcv
    BY <1>5, <1>6, <1>7 DEF IcvsHanded, PushIcvs
  <1>10. ReleasePattern = "hyper" /\ IsLetGo(u)' => fixedIcv'[u] = forkIcv
    <2>1. ReleasePattern = "hyper" => fixedIcv[t] = forkIcv
      BY <1>3, <1>5, <1>6 DEF IcvsHanded
    <2>2. u # k /\ ReleasePattern = "hyper" /\ IsLetGo(u) => fixedIcv[u] = forkIcv
      BY <1>5, <1>6 DEF IcvsHanded
    <2>3. ReleasePattern = "hyper" => fixedIcv' = [fixedIcv EXCEPT ![k] = fixedIcv[t]]
      BY <1>7 DEF PushIcvs
    <2> QED BY <1>2, <1>8, <2>1, <2>2, <2>3 DEF IInv, TypeOK
  <1>11. ReleasePattern = "tree" /\ ReleasesAlone /\ IsLetGo(u)' => taskIcv'[u] = forkIcv
    <2> SUFFICES ASSUME ReleasePattern = "tree", ReleasesAlone, IsLetGo(u)'
                 PROVE  taskIcv'[u] = forkIcv
      OBVIOUS
    <2>1. t = 0
      BY <1>1 DEF ReleasesAlone
    <2>2. taskIcv[0] = forkIcv
      BY <1>3, <1>5, <1>6, <2>1 DEF IcvsHanded
    <2>3. u # k /\ IsLetGo(u) => taskIcv[u] = forkIcv
      BY <1>5, <1>6 DEF IcvsHanded
    <2>4. taskIcv' = [taskIcv EXCEPT ![k] = taskIcv[0]]
      BY <1>7 DEF PushIcvs
    <2> QED BY <1>2, <1>8, <2>2, <2>3, <2>4 DEF IInv, TypeOK
  <1> QED BY <1>9, <1>10, <1>11

LEMMA LeaveBarrierIcvs ==
    ASSUME NEW t \in Thread, IInv, IcvsHanded, LeaveBarrier(t) PROVE IcvsHanded'
  <1>1. pc[t] = "release" /\ passed[t] + 1 = Entering /\ IsLetGo(t)
    BY Releasing DEF LeaveBarrier, IsLetGo
  <1>2. pc[0] # "gathered"
    BY <1>1 DEF IInv, ClosedWhileGathered
  <1>3. /\ passed'[t] = Entering /\ pc'[t] = "run"
        /\ \A u \in Thread \ {t} : passed'[u] = passed[u] /\ pc'[u] = pc[u]
    BY <1>1 DEF LeaveBarrier, IInv, TypeOK
  <1>4. Entering' = Entering
    BY <1>1, <1>3, Zero DEF Entering, IInv, TypeOK
  <1>5. \A u \in Thread \ {t} :
            /\ IsLetGo(u)' <=> IsLetGo(u)
            /\ taskIcv'[u] = taskIcv[u] /\ fixedIcv'[u] = fixedIcv[u]
    BY <1>3, <1>4 DEF IsLetGo, LeaveBarrier, flags, BarrierAt, KindAt, IInv, TypeOK
  <1>6. forkIcv' = forkIcv /\ KindAt(Entering - 1)' = KindAt(Entering - 1)
    BY <1>4 DEF LeaveBarrier, KindAt
  <1> QED BY <1>2, <1>3, <1>4, <1>5, <1>6 DEF IcvsHanded, ReleasesAlone

LEMMA SetIcvIcvs ==
    ASSUME NEW t \in Thread, IInv, IcvsHanded, SetIcv(t) PROVE IcvsHanded'
  <1>1. passed[t] = Entering /\ Entering' = Entering /\ pc[0] # "gathered"
    BY Zero DEF SetIcv, IInv, TypeOK, Positions, ClosedWhileGathered, IsLetGo, Entering
  <1>2. \A u \in Thread \ {t} : taskIcv'[u] = taskIcv[u]
    BY DEF SetIcv, IInv, TypeOK
  <1>3. \A u \in Thread : IsLetGo(u)' <=> IsLetGo(u)
    BY <1>1 DEF SetIcv, IsLetGo, flags, BarrierAt, KindAt
  <1>4. UNCHANGED <<passed, fixedIcv, forkIcv, pc>> /\ KindAt(Entering - 1)' = KindAt(Entering - 1)
    BY <1>1 DEF SetIcv, KindAt
  <1> QED BY <1>1, <1>2, <1>3, <1>4 DEF IcvsHanded, ReleasesAlone

LEMMA IcvsStep == IInv /\ IcvsHanded /\ [Next]_vars => IcvsHanded'
  <1> SUFFICES ASSUME IInv, IcvsHanded, [Next]_vars PROVE IcvsHanded'
    OBVIOUS
  <1>1. ASSUME NEW t \in Thread,
               Arrive(t) \/ ReadTeamState(t) \/ GatherChild(t) \/ SignalArrival(t)
        PROVE  IcvsHanded'
    <2>1. UNCHANGED icvs
      BY <1>1 DEF Arrive, ReadTeamState, GatherChild, SignalArrival
    <2> QED BY <1>1, <2>1, GatheringSame, IcvsSame
  <1>2. CASE CompleteGather
    BY <1>2, Zero DEF CompleteGather, IInv, TypeOK, IcvsHanded
  <1>3. CASE OpenBarrier
    <2>1. KindAt(Entering')  = KindAt(Entering) /\ Entering' = passed[0] + 1 /\ passed[0] \in Nat
      BY <1>3, Zero DEF OpenBarrier, IInv, TypeOK, Entering
    <2>2. KindAt(Entering' - 1) # "fork"
      <3>1. Entering' - 1 = passed[0]
        BY <2>1
      <3> QED BY <1>3, <3>1 DEF OpenBarrier, KindOf
    <2> QED BY <2>2 DEF IcvsHanded, KindAt
  <1>4. ASSUME NEW t \in Thread, Wake(t) PROVE IcvsHanded'
    <2>1. pc[t] = "waitGo" /\ pc'[t] = "release" /\ go[BarrierAt(passed[t])][t] = 1
      BY <1>4 DEF Wake, IInv, TypeOK, BarrierOf
    <2>2. t # 0 /\ passed[t] + 1 = Entering
      BY <2>1, BarrierTypes DEF IInv, GoIsAwaited
    <2>3. Entering' = Entering /\ passed' = passed /\ icvs' = icvs
          /\ \A u \in Thread \ {t} : pc'[u] = pc[u]
      BY <1>4, <2>2, Zero DEF Wake, IInv, TypeOK, Entering, icvs
    <2>4. passed[t] = Entering - 1 /\ IsLetGo(t)
      <3>1. passed[t] \in Nat
        BY DEF IInv, TypeOK
      <3>2. passed[t] = Entering - 1
        BY <2>2, <3>1
      <3> QED BY <2>1, <2>2, <3>2 DEF IsLetGo
    <2>5. pc[0] # "gathered"
      BY <2>4 DEF IInv, ClosedWhileGathered
    <2>6. ASSUME NEW u \in Thread, IsLetGo(u)' PROVE IsLetGo(u)
      <3>1. u # t => \A bt \in BarrierType : go'[bt][u] = go[bt][u]
        BY <1>4, BarrierTypes DEF Wake, IInv, TypeOK, BarrierOf
      <3> QED BY <2>3, <2>4, <2>6, <3>1, BarrierTypes DEF IsLetGo, BarrierAt, KindAt
    <2> QED BY <2>3, <2>5, <2>6, IcvsSame
  <1>5. CASE UNCHANGED vars
    BY <1>5 DEF vars, IcvsHanded, Entering, IsLetGo, KindAt, BarrierAt, ReleasesAlone
  <1> QED BY <1>1, <1>2, <1>3, <1>4, <1>5, ForkIcvs, ReleaseChildIcvs, LeaveBarrierIcvs, SetIcvIcvs
             DEF Next, Gather, Release

(* A thread starts its part of a region with the ICVs that the master       *)
(* forked it with, whatever the others have set since: always with the      *)
(* linear and the hyper release, and with the tree release as long as only  *)
(* the master releases.                                                     *)
THEOREM IcvsArrive ==
    Spec /\ (ReleasePattern = "tree" => ReleasesAlone) => IcvsAsForked
  <1> DEFINE Leaves(t) ==
        LeaveBarrier(t) /\ t # 0 /\ KindOf(t) = "fork" => taskIcv'[t] = forkIcv
  <1>1. Init => IcvsHanded
    BY DEF Init, IcvsHanded
  <1>2. IInv /\ IcvsHanded /\ (ReleasePattern = "tree" => ReleasesAlone)
        => \A t \in Thread : Leaves(t)
    <2> SUFFICES ASSUME IInv, IcvsHanded, ReleasePattern = "tree" => ReleasesAlone,
                        NEW t \in Thread, LeaveBarrier(t), t # 0, KindOf(t) = "fork"
                 PROVE  taskIcv'[t] = forkIcv
      OBVIOUS
    <2>1. /\ pc[t] = "release" /\ passed[t] = Entering - 1 /\ passed[t] # Entering
          /\ IsLetGo(t)
      BY Releasing DEF LeaveBarrier, IsLetGo
    <2>2. pc[0] # "gathered" /\ KindAt(Entering - 1) = "fork"
      BY <2>1 DEF IInv, ClosedWhileGathered, KindOf
    <2>3. /\ ReleasePattern = "linear" => taskIcv[t] = forkIcv
          /\ ReleasePattern = "hyper" => fixedIcv[t] = forkIcv
          /\ ReleasePattern = "tree" => taskIcv[t] = forkIcv
      BY <2>1, <2>2 DEF IcvsHanded
    <2>4. ReleasePattern \in {"linear", "tree", "hyper"}
      BY PatternAssumption DEF Pattern
    <2> QED BY <2>3, <2>4 DEF LeaveBarrier, IInv, TypeOK
  <1>3. (ReleasePattern = "tree" => ReleasesAlone) =>
          (IInv /\ IcvsHanded /\ [Next]_vars => [\A t \in Thread : Leaves(t)]_vars)
    BY <1>2
  <1> HIDE DEF Leaves
  <1>4. CASE ~(ReleasePattern = "tree" => ReleasesAlone)
    BY <1>4
  <1>5. CASE ReleasePattern = "tree" => ReleasesAlone
    <2>1. IInv /\ IcvsHanded /\ [Next]_vars => [\A t \in Thread : Leaves(t)]_vars
      BY <1>3, <1>5
    <2>2. Spec => [][\A t \in Thread : Leaves(t)]_vars
      BY <1>1, <2>1, IcvsStep, Inductive, PTL DEF Spec
    <2> QED BY <2>2 DEF Leaves, IcvsAsForked
  <1> QED BY <1>4, <1>5
-----------------------------------------------------------------------------
(* The data of a reduction.  Below a thread are those it is an ancestor of; *)
(* each is below at most one of its children.                               *)
LEMMA Parents ==
    \A p, q \in Thread : \A k \in GKids[p] : p < k /\ (k \in GKids[q] => p = q)
  <1>1. 1..(NProc - 1) = Thread \ {0} /\ 0..(NProc - 1) = Thread
    BY NProcAssumption DEF Thread
  <1>2. SUFFICES ASSUME NEW p \in Thread, NEW q \in Thread, NEW k \in GKids[p]
                 PROVE  p < k /\ (k \in GKids[q] => p = q)
    OBVIOUS
  <1>3. k \in 1..(NProc - 1)
    BY <1>1, Children
  <1>4. PICK r \in 0..(k - 1) : \A s \in 0..(NProc - 1) : k \in GKids[s] <=> s = r
    BY <1>3, TreeAssumption DEF IsTeamTree
  <1>5. p = r /\ (k \in GKids[q] => q = r)
    BY <1>1, <1>4
  <1>6. r < k
    <2>1. k \in Nat /\ k > 0
      BY <1>1, <1>3, Zero
    <2> QED BY <1>4, <2>1
  <1> QED BY <1>5, <1>6

LEMMA AncestorsConst == \A u : Ancestors(u)' = Ancestors(u)
  BY DEF Ancestors

LEMMA AncestorsClosed ==
    ASSUME NEW u \in Thread
    PROVE  /\ Ancestors(u) \subseteq Thread /\ u \in Ancestors(u)
           /\ \A p \in Thread : \A k \in GKids[p] : k \in Ancestors(u) => p \in Ancestors(u)
  <1>1. u \in Ancestors(u) /\ Ancestors(u) \subseteq Thread
    BY DEF Ancestors
  <1>2. ASSUME NEW p \in Thread, NEW k \in GKids[p], k \in Ancestors(u),
               NEW S \in SUBSET Thread, u \in S,
               \A q \in Thread : GKids[q] \cap S # {} => q \in S
        PROVE  p \in S
    BY <1>2 DEF Ancestors
  <1> QED BY <1>1, <1>2 DEF Ancestors

LEMMA AncestorsLeast ==
    ASSUME NEW u \in Thread, NEW S \in SUBSET Thread, u \in S,
           \A p \in Thread : GKids[p] \cap S # {} => p \in S
    PROVE  Ancestors(u) \subseteq S
  BY DEF Ancestors

LEMMA AncestorsBefore == \A u \in Thread : \A t \in Ancestors(u) : t <= u
  <1> SUFFICES ASSUME NEW u \in Thread PROVE \A t \in Ancestors(u) : t <= u
    OBVIOUS
  <1> DEFINE S == {t \in Thread : t <= u}
  <1>1. S \in SUBSET Thread /\ u \in S
    BY Zero
  <1>2. \A p \in Thread : GKids[p] \cap S # {} => p \in S
    <2> SUFFICES ASSUME NEW p \in Thread, NEW k \in GKids[p], k <= u PROVE p <= u
      OBVIOUS
    <2> QED BY Zero, Parents, Children
  <1>3. Ancestors(u) \subseteq S
    <2> HIDE DEF S
    <2> QED BY <1>1, <1>2, AncestorsLeast
  <1> QED BY <1>3

(* An ancestor is the thread itself or has a child that is one.             *)
LEMMA AncestorsByChild ==
    ASSUME NEW u \in Thread, NEW t \in Thread
    PROVE  t \in Ancestors(u) <=> u = t \/ GKids[t] \cap Ancestors(u) # {}
  <1> DEFINE S == {u} \cup {p \in Thread : GKids[p] \cap Ancestors(u) # {}}
  <1>1. u = t \/ GKids[t] \cap Ancestors(u) # {} => t \in Ancestors(u)
    BY AncestorsClosed
  <1>2. S \subseteq Ancestors(u)
    BY AncestorsClosed
  <1>3. S \in SUBSET Thread /\ u \in S
    OBVIOUS
  <1>4. \A p \in Thread : GKids[p] \cap S # {} => p \in S
    BY <1>2
  <1>5. Ancestors(u) \subseteq S
    <2> HIDE DEF S
    <2> QED BY <1>3, <1>4, AncestorsLeast
  <1> QED BY <1>1, <1>5

(* The other ancestors of a child are those of its parent.                  *)
LEMMA AncestorsOfParent ==
    ASSUME NEW p \in Thread, NEW k \in GKids[p] PROVE Ancestors(k) \subseteq {k} \cup Ancestors(p)
  <1> DEFINE S == {k} \cup Ancestors(p)
  <1>1. k \in Thread
    BY Children
  <1>2. S \in SUBSET Thread /\ k \in S
    BY <1>1, AncestorsClosed
  <1>3. \A q \in Thread : GKids[q] \cap S # {} => q \in S
    <2> SUFFICES ASSUME NEW q \in Thread, NEW j \in GKids[q], j \in S PROVE q \in Ancestors(p)
      OBVIOUS
    <2> QED BY Parents, AncestorsClosed
  <1>4. Ancestors(k) \subseteq S
    <2> HIDE DEF S
    <2> QED BY <1>1, <1>2, <1>3, AncestorsLeast
  <1> QED BY <1>4

LEMMA MasterIsAncestor == \A u \in Thread : 0 \in Ancestors(u)
  <1> DEFINE S == {u \in Thread : 0 \in Ancestors(u)}
  <1>1. \A k \in GKids[0] : k \in S
    BY Zero, Children, AncestorsClosed
  <1>2. ASSUME NEW t \in Thread \ {0}, t \in S, NEW k \in GKids[t] PROVE k \in S
    <2>1. k \in Thread
      BY Children
    <2>2. t \in Ancestors(k)
      BY <2>1, AncestorsClosed
    <2>3. ASSUME NEW X \in SUBSET Thread, k \in X,
                 \A p \in Thread : GKids[p] \cap X # {} => p \in X
          PROVE  0 \in X
      <3>1. t \in X
        BY <2>3, <2>2 DEF Ancestors
      <3>2. Ancestors(t) \subseteq X
        BY <2>3, <3>1, AncestorsLeast
      <3> QED BY <1>2, <3>2
    <2> QED BY <2>1, <2>3, Zero DEF Ancestors
  <1>3. Thread \ {0} \subseteq S
    <2> HIDE DEF S
    <2> QED BY <1>1, <1>2, TreeInduction
  <1> QED BY <1>3, Zero, AncestorsClosed

LEMMA BelowOneChild ==
    \A u, t \in Thread : \A j, k \in GKids[t] :
        j \in Ancestors(u) /\ k \in Ancestors(u) => j = k
  <1> DEFINE One(u) == \A t \in Thread : \A j, k \in GKids[t] :
                          j \in Ancestors(u) /\ k \in Ancestors(u) => j = k
             S == {u \in Thread : One(u)}
  <1>1. One(0)
    <2> SUFFICES ASSUME NEW t \in Thread, NEW j \in GKids[t], j \in Ancestors(0) PROVE FALSE
      OBVIOUS
    <2> QED BY Zero, Children, Parents, AncestorsBefore
  <1>2. ASSUME NEW p \in Thread, One(p), NEW c \in GKids[p] PROVE c \in S
    <2>1. c \in Thread
      BY Children
    <2>2. SUFFICES ASSUME NEW t \in Thread, NEW j \in GKids[t], NEW k \in GKids[t],
                          j \in Ancestors(c), k \in Ancestors(c)
                   PROVE  j = k
      BY <2>1
    <2>3. j \in {c} \cup Ancestors(p) /\ k \in {c} \cup Ancestors(p)
      BY <2>2, AncestorsOfParent
    <2>4. ASSUME c \in GKids[t] PROVE \A i \in GKids[t] : i \notin Ancestors(p)
      <3>1. t = p
        BY <2>4, Parents
      <3>2. ASSUME NEW i \in GKids[p] PROVE i \notin Ancestors(p)
        BY Zero, Children, Parents, AncestorsBefore
      <3> QED BY <3>1, <3>2
    <2> QED BY <1>2, <2>3, <2>4
  <1>3. (\A k \in GKids[0] : k \in S)
        /\ (\A t \in Thread \ {0} : t \in S => \A k \in GKids[t] : k \in S)
    BY <1>1, <1>2, Zero
  <1>4. Thread \ {0} \subseteq S
    <2> HIDE DEF S
    <2> QED BY <1>3, TreeInduction
  <1> QED BY <1>1, <1>4

LEMMA DataSame ==
    ASSUME IInv, DataGathered, reduceData' = reduceData, Entering' = Entering,
           \A t \in Thread : pc'[t] = "gather" => pc[t] = "gather" /\ kids'[t] = kids[t],
           \A t \in Thread : HasArrived(t)' => HasArrived(t),
           pc'[0] = "gathered" => pc[0] = "gathered" /\ passed'[0] = passed[0]
    PROVE  DataGathered'
  <1>1. ReductionIsComplete'
    BY DEF DataGathered, ReductionIsComplete, Reduces, KindOf, KindAt
  <1>2. KindAt(Entering)' = KindAt(Entering)
    BY DEF KindAt
  <1>3. ASSUME KindAt(Entering) \in {"reduce", "reduceNowait"}, NEW t \in Thread, NEW u \in Thread
        PROVE  /\ pc'[t] = "gather" => reduceData'[t][u] =
                     IF u = t \/ kids'[t] \cap Ancestors(u) # {} THEN 1 ELSE 0
               /\ HasArrived(t)' => reduceData'[t][u] = IF t \in Ancestors(u) THEN 1 ELSE 0
    BY <1>3 DEF DataGathered
  <1> QED BY <1>1, <1>2, <1>3, AncestorsConst DEF DataGathered

LEMMA ArriveData ==
    ASSUME NEW t \in Thread, IInv, DataGathered, Arrive(t) PROVE DataGathered'
  <1>1. Entering' = Entering /\ passed[t] = Entering /\ pc'[0] # "gathered" /\ passed' = passed
    BY GatheringSame
  <1>2. KindAt(Entering)' = KindAt(Entering)
    BY <1>1 DEF KindAt
  <1>3. pc'[t] = "gather" /\ kids'[t] = {} /\ \A v \in Thread \ {t} : pc'[v] = pc[v] /\ kids'[v] = kids[v]
    BY DEF Arrive, IInv, TypeOK
  <1>4. \A v \in Thread : HasArrived(v)' => HasArrived(v) /\ v # t
    BY <1>1, <1>3 DEF HasArrived
  <1>5. ASSUME KindAt(Entering) \in {"reduce", "reduceNowait"}
        PROVE  reduceData' = [reduceData EXCEPT ![t] = [u \in Thread |-> IF u = t THEN 1 ELSE 0]]
    BY <1>1, <1>5 DEF Arrive, Reduces, KindOf
  <1>6. ASSUME KindAt(Entering) \in {"reduce", "reduceNowait"}, NEW v \in Thread, NEW u \in Thread
        PROVE  /\ pc'[v] = "gather" => reduceData'[v][u] =
                     IF u = v \/ kids'[v] \cap Ancestors(u) # {} THEN 1 ELSE 0
               /\ HasArrived(v)' => reduceData'[v][u] = IF v \in Ancestors(u) THEN 1 ELSE 0
    <2>1. CASE v = t
      BY <1>3, <1>4, <1>5, <1>6, <2>1 DEF IInv, TypeOK
    <2>2. CASE v # t
      <3>1. reduceData'[v] = reduceData[v]
        BY <1>5, <1>6, <2>2 DEF IInv, TypeOK
      <3> QED BY <1>3, <1>4, <1>6, <2>2, <3>1 DEF DataGathered
    <2> QED BY <2>1, <2>2
  <1>7. ReductionIsComplete'
    BY <1>1 DEF ReductionIsComplete
  <1> QED BY <1>2, <1>6, <1>7, AncestorsConst DEF DataGathered

LEMMA GatherChildData ==
    ASSUME NEW t \in Thread, IInv, DataGathered, GatherChild(t) PROVE DataGathered'
  <1>1. Entering' = Entering /\ passed[t] = Entering /\ pc'[0] # "gathered"
        /\ pc' = pc /\ passed' = passed /\ pc[t] = "gather"
    BY GatheringSame DEF GatherChild
  <1>2. KindAt(Entering)' = KindAt(Entering)
    BY <1>1 DEF KindAt
  <1>3. PICK k \in GKids[t] \ kids[t] :
            /\ arrived[BarrierOf(t)][k] = newState[t]
            /\ kids' = [kids EXCEPT ![t] = @ \cup {k}]
            /\ reduceData' = IF Reduces(t)
                               THEN [reduceData EXCEPT ![t] =
                                       [u \in Thread |-> @[u] + reduceData[k][u]]]
                               ELSE reduceData
    BY DEF GatherChild
  <1>4. k \in Thread \ {0} /\ kids[t] \subseteq GKids[t]
    BY <1>1, <1>3, Children DEF IInv, SubtreesArrive
  <1>5. HasArrived(k)
    <2>1. newState[t] = teamArrived[BarrierAt(Entering)] + 1
      BY <1>1 DEF IInv, TypeOK, SubtreesArrive, GatherChild
    <2>2. teamArrived[BarrierAt(Entering)] \in Nat
      BY BarrierTypes DEF IInv, TypeOK
    <2> QED BY <1>1, <1>3, <1>4, <2>1, <2>2, BarrierTypes DEF IInv, ArrivalCounts, BarrierOf
  <1>6. \A v \in Thread : HasArrived(v)' <=> HasArrived(v)
    BY <1>1 DEF HasArrived
  <1>7. ASSUME KindAt(Entering) \in {"reduce", "reduceNowait"}, NEW v \in Thread, NEW u \in Thread
        PROVE  /\ pc'[v] = "gather" => reduceData'[v][u] =
                     IF u = v \/ kids'[v] \cap Ancestors(u) # {} THEN 1 ELSE 0
               /\ HasArrived(v)' => reduceData'[v][u] = IF v \in Ancestors(u) THEN 1 ELSE 0
    <2>1. Reduces(t)
      BY <1>1, <1>7 DEF Reduces, KindOf
    <2>2. CASE v # t
      <3>1. reduceData'[v] = reduceData[v] /\ kids'[v] = kids[v]
        BY <1>3, <2>1, <2>2 DEF IInv, TypeOK
      <3> QED BY <1>1, <1>6, <1>7, <3>1 DEF DataGathered
    <2>3. CASE v = t
      <3>1. reduceData'[t][u] = reduceData[t][u] + reduceData[k][u]
        BY <1>3, <2>1 DEF IInv, TypeOK
      <3>2. kids'[t] = kids[t] \cup {k}
        BY <1>3 DEF IInv, TypeOK
      <3>3. reduceData[t][u] = IF u = t \/ kids[t] \cap Ancestors(u) # {} THEN 1 ELSE 0
        BY <1>1, <1>7 DEF DataGathered
      <3>4. reduceData[k][u] = IF k \in Ancestors(u) THEN 1 ELSE 0
        BY <1>4, <1>5, <1>7 DEF DataGathered
      <3>5. ~HasArrived(t)
        BY <1>1 DEF HasArrived
      <3>6. CASE k \in Ancestors(u)
        <4>1. u # t
          <5>1. t < k /\ k <= u
            BY <1>3, <3>6, Parents, AncestorsBefore
          <5> QED BY <1>4, <5>1, Zero
        <4>2. kids[t] \cap Ancestors(u) = {}
          BY <1>3, <1>4, <3>6, BelowOneChild
        <4>3. kids'[t] \cap Ancestors(u) # {}
          BY <3>2, <3>6
        <4> QED BY <1>6, <2>3, <3>1, <3>3, <3>4, <3>5, <3>6, <4>1, <4>2, <4>3
      <3>7. CASE k \notin Ancestors(u)
        <4>1. kids'[t] \cap Ancestors(u) = kids[t] \cap Ancestors(u)
          BY <3>2, <3>7
        <4> QED BY <1>6, <2>3, <3>1, <3>3, <3>4, <3>5, <3>7, <4>1
      <3> QED BY <3>6, <3>7
    <2> QED BY <2>2, <2>3
  <1>8. ReductionIsComplete'
    BY <1>1 DEF ReductionIsComplete
  <1> QED BY <1>2, <1>7, <1>8, AncestorsConst DEF DataGathered

LEMMA SignalArrivalData ==
    ASSUME NEW t \in Thread, IInv, DataGathered, SignalArrival(t) PROVE DataGathered'
  <1>1. Entering' = Entering /\ passed[t] = Entering /\ pc'[0] # "gathered" /\ passed' = passed
    BY GatheringSame
  <1>2. KindAt(Entering)' = KindAt(Entering)
    BY <1>1 DEF KindAt
  <1>3. /\ reduceData' = reduceData /\ kids' = kids /\ kids[t] = GKids[t] /\ pc[t] = "gather"
        /\ pc'[t] = "waitGo" /\ \A v \in Thread \ {t} : pc'[v] = pc[v]
    BY DEF SignalArrival, IInv, TypeOK
  <1>4. ASSUME KindAt(Entering) \in {"reduce", "reduceNowait"}, NEW v \in Thread, NEW u \in Thread
        PROVE  /\ pc'[v] = "gather" => reduceData'[v][u] =
                     IF u = v \/ kids'[v] \cap Ancestors(u) # {} THEN 1 ELSE 0
               /\ HasArrived(v)' => reduceData'[v][u] = IF v \in Ancestors(u) THEN 1 ELSE 0
    <2>1. CASE v = t
      <3>1. reduceData[t][u] = IF u = t \/ GKids[t] \cap Ancestors(u) # {} THEN 1 ELSE 0
        BY <1>3, <1>4 DEF DataGathered
      <3>2. t \in Ancestors(u) <=> u = t \/ GKids[t] \cap Ancestors(u) # {}
        BY AncestorsByChild
      <3> QED BY <1>3, <2>1, <3>1, <3>2
    <2>2. CASE v # t
      <3>1. HasArrived(v)' <=> HasArrived(v)
        BY <1>1, <1>3, <2>2 DEF HasArrived
      <3> QED BY <1>3, <1>4, <2>2, <3>1 DEF DataGathered
    <2> QED BY <2>1, <2>2
  <1>5. ReductionIsComplete'
    BY <1>1 DEF ReductionIsComplete
  <1> QED BY <1>2, <1>4, <1>5, AncestorsConst DEF DataGathered

LEMMA CompleteGatherData == IInv /\ DataGathered /\ CompleteGather => DataGathered'
  <1> SUFFICES ASSUME IInv, DataGathered, CompleteGather PROVE DataGathered'
    OBVIOUS
  <1>1. passed[0] = Entering /\ Entering' = Entering + 1 /\ Entering \in Nat /\ passed' = passed
    BY Zero DEF IInv, TypeOK, CompleteGather, Entering
  <1>2. \A t \in Thread : passed'[t] = Entering /\ pc'[t] # "gather"
    BY <1>1, Zero, TeamHasArrived DEF IInv, TypeOK, CompleteGather, HasArrived
  <1>3. \A t \in Thread : ~HasArrived(t)'
    BY <1>1, <1>2 DEF HasArrived
  <1>4. ASSUME Reduces(0)', NEW u \in Thread PROVE reduceData'[0][u] = 1
    <2>1. KindAt(Entering) \in {"reduce", "reduceNowait"}
      BY <1>1, <1>4 DEF Reduces, KindOf, KindAt
    <2>2. reduceData[0][u] = IF u = 0 \/ GKids[0] \cap Ancestors(u) # {} THEN 1 ELSE 0
      BY <2>1, Zero DEF DataGathered, CompleteGather
    <2> QED BY <2>2, Zero, AncestorsByChild, MasterIsAncestor DEF CompleteGather
  <1>5. ReductionIsComplete'
    BY <1>4 DEF ReductionIsComplete
  <1> QED BY <1>2, <1>3, <1>5 DEF DataGathered

LEMMA DataStep == IInv /\ DataGathered /\ [Next]_vars => DataGathered'
  <1> SUFFICES ASSUME IInv, DataGathered, [Next]_vars PROVE DataGathered'
    OBVIOUS
  <1>1. ASSUME NEW t \in Thread, ReadTeamState(t) PROVE DataGathered'
    BY <1>1, GatheringSame, DataSame DEF ReadTeamState, HasArrived
  <1>2. CASE OpenBarrier \/ Fork
    <2>1. /\ Entering' = Entering /\ passed' = passed /\ reduceData' = reduceData
          /\ pc'[0] = "release" /\ \A t \in Thread \ {0} : pc'[t] = pc[t] /\ kids'[t] = kids[t]
      BY <1>2, Zero DEF OpenBarrier, Fork, Entering, IInv, TypeOK
    <2>2. \A t \in Thread : HasArrived(t)' => HasArrived(t)
      BY <2>1 DEF HasArrived
    <2> QED BY <2>1, <2>2, DataSame
  <1>3. ASSUME NEW t \in Thread, Wake(t) \/ ReleaseChild(t) \/ LeaveBarrier(t) PROVE DataGathered'
    <2>1. /\ reduceData' = reduceData /\ pc'[t] \in {"release", "run"}
          /\ pc'[0] = "gathered" => t # 0
          /\ \A u \in Thread \ {t} : pc'[u] = pc[u] /\ kids'[u] = kids[u] /\ passed'[u] = passed[u]
      BY <1>3 DEF Wake, ReleaseChild, LeaveBarrier, IInv, TypeOK
    <2>2. Entering' = Entering
      <3>1. CASE Wake(t)
        BY <3>1, <2>1, Zero DEF Wake, IInv, Positions, TypeOK, Entering
      <3>2. CASE ReleaseChild(t)
        BY <3>2 DEF ReleaseChild, Entering
      <3>3. CASE LeaveBarrier(t)
        BY <3>3, <2>1, Zero DEF LeaveBarrier, IInv, TypeOK, Entering
      <3> QED BY <1>3, <3>1, <3>2, <3>3
    <2>3. \A u \in Thread : HasArrived(u)' => HasArrived(u)
      BY <2>1, <2>2 DEF HasArrived
    <2> QED BY <2>1, <2>2, <2>3, Zero, DataSame
  <1>4. ASSUME UNCHANGED <<pc, passed, kids, reduceData>> PROVE DataGathered'
    BY <1>4, DataSame DEF HasArrived, Entering
  <1>5. ASSUME NEW t \in Thread, SetIcv(t) PROVE DataGathered'
    BY <1>4, <1>5 DEF SetIcv
  <1>6. CASE UNCHANGED vars
    BY <1>4, <1>6 DEF vars
  <1> QED BY <1>1, <1>2, <1>3, <1>5, <1>6, ArriveData, GatherChildData, SignalArrivalData,
             CompleteGatherData DEF Next, Gather, Release

LEMMA InitData == Init => DataGathered
  <1> SUFFICES ASSUME Init PROVE DataGathered
    OBVIOUS
  <1>1. Entering = 1 /\ \A t \in Thread : ~HasArrived(t) /\ pc[t] # "gather"
    BY Zero DEF Init, Entering, HasArrived
  <1>2. ~Reduces(0)
    <2>1. 0 % (Len(Body) + 1) = 0
      BY BodyAssumption
    <2> QED BY <2>1, Zero DEF Init, Reduces, KindOf, KindAt
  <1> QED BY <1>1, <1>2 DEF DataGathered, ReductionIsComplete

(* Whatever the tree, the master ends the gather of a reduction with the    *)
(* data of every thread of the team, each exactly once.                     *)
THEOREM ReductionComplete == Spec => []ReductionIsComplete
  <1>1. DataGathered => ReductionIsComplete
    BY DEF DataGathered
  <1> QED BY <1>1, InitData, DataStep, Inductive, PTL DEF Spec
=============================================================================
