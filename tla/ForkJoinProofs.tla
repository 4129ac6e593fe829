---------------------------- MODULE ForkJoinProofs ----------------------------
(***************************************************************************)
(* The safety properties of SuspendResume for any number of wakers and of  *)
(* regions, with finite or infinite blocktime.  The program must not ask   *)
(* for an explicit resume of a soft pause when the blocktime is infinite:  *)
(* in that case sleepers are not woken (run pause_resume_request).         *)
(* Then those of Cancellation, for any number of threads and programs.     *)
(***************************************************************************)
EXTENDS SuspendResume, Cancellation, TLAPS

USE WakersAssumption, BlocktimeAssumption, RegionsAssumption

(* The initial state: the worker waits in the fork barrier of a team that   *)
(* has just been created.                                                   *)
LEMMA InitInv == Init => IInv
  BY DEF Init, IInv, TypeOK, MutexHolder, SleepState, Phases, ReleaseSeesSleeper,
         PoolCountCovers, Blocked, InRegion, InFork, Ending, MasterOwesWakeup,
         Resumers, WorkerAt, MasterAt

(* The definitions every step below reasons about. *)
USE DEF IInv, TypeOK, MutexHolder, SleepState, Phases, ReleaseSeesSleeper,
        PoolCountCovers, Blocked, InRegion, InFork, Ending, MasterOwesWakeup,
        Resumers, WorkerAt, MasterAt, flag, pool, program

(* One lemma per part of the code, one step per action. *)
LEMMA WaitInv == IInv /\ Wait => IInv'
  <1> SUFFICES ASSUME IInv, Wait PROVE IInv'
      OBVIOUS
  <1>1. CASE CheckFlag
    BY <1>1 DEF CheckFlag, FlagDone
  <1>2. CASE HelpOrIdle
    BY <1>2 DEF HelpOrIdle
  <1>3. CASE Decide
    BY <1>3 DEF Decide, MaySleep
  <1>4. CASE AfterSuspend
    BY <1>4 DEF AfterSuspend
  <1>5. CASE LeaveWait
    BY <1>5 DEF LeaveWait
  <1>6. CASE ArriveAtJoin
    BY <1>6 DEF ArriveAtJoin
  <1> QED BY <1>1, <1>2, <1>3, <1>4, <1>5, <1>6 DEF Wait

LEMMA SuspendInv == IInv /\ Suspend => IInv'
  <1> SUFFICES ASSUME IInv, Suspend PROVE IInv'
      OBVIOUS
  <1>1. CASE SuspendLock
    BY <1>1 DEF SuspendLock
  <1>2. CASE SetSleeping
    BY <1>2 DEF SetSleeping, FlagDone
  <1>3. CASE UnsetSleeping
    BY <1>3 DEF UnsetSleeping, MaySleep
  <1>4. CASE PublishSleepLoc
    BY <1>4 DEF PublishSleepLoc, MaySleep
  <1>5. CASE CondWait
    BY <1>5 DEF CondWait
  <1>6. CASE Reacquire
    BY <1>6 DEF Reacquire
  <1>7. CASE WakeUp
    BY <1>7 DEF WakeUp
  <1> QED BY <1>1, <1>2, <1>3, <1>4, <1>5, <1>6, <1>7 DEF Suspend

LEMMA ForkJoinInv == IInv /\ ForkJoin => IInv'
  <1> SUFFICES ASSUME IInv, ForkJoin PROVE IInv'
      OBVIOUS
  <1>1. CASE Fork
    BY <1>1 DEF Fork, MasterStep
  <1>2. CASE WakePaused
    BY <1>2 DEF WakePaused, MasterStep, StartResume
  <1>3. CASE TrySuspendLock
    BY <1>3 DEF TrySuspendLock, MasterStep
  <1>4. CASE Allocate
    BY <1>4 DEF Allocate, MasterStep
  <1>5. CASE AllocateUncount
    BY <1>5 DEF AllocateUncount, MasterStep
  <1>6. CASE Release
    BY <1>6 DEF Release, MasterStep
  <1>7. CASE ReleaseCheck
    BY <1>7 DEF ReleaseCheck, MasterStep, ResumeIfSleeping, StartResume
  <1>8. CASE Join
    BY <1>8 DEF Join, MasterStep
  <1> QED BY <1>1, <1>2, <1>3, <1>4, <1>5, <1>6, <1>7, <1>8 DEF ForkJoin

LEMMA FreeAndReapInv == IInv /\ FreeAndReap => IInv'
  <1> SUFFICES ASSUME IInv, FreeAndReap PROVE IInv'
      OBVIOUS
  <1>1. CASE FreeTeam
    BY <1>1 DEF FreeTeam, MasterStep
  <1>2. CASE ReapPoll
    BY <1>2 DEF ReapPoll, MasterStep
  <1>3. CASE ReapWake
    BY <1>3 DEF ReapWake, MasterStep, StartResume
  <1>4. CASE PoolInsert
    BY <1>4 DEF PoolInsert, MasterStep
  <1>5. CASE PoolCount
    BY <1>5 DEF PoolCount, MasterStep
  <1> QED BY <1>1, <1>2, <1>3, <1>4, <1>5 DEF FreeAndReap

LEMMA PauseInv == SafeCalls /\ IInv /\ Pause => IInv'
  <1> SUFFICES ASSUME SafeCalls, IInv, Pause PROVE IInv'
      OBVIOUS
  <1>1. CASE SoftPause
    BY <1>1 DEF SoftPause, MasterStep
  <1>2. CASE ResumeRequest
    BY <1>2 DEF SafeCalls, ResumeRequest, MasterStep
  <1> QED BY <1>1, <1>2 DEF Pause

LEMMA EndInv == IInv /\ End => IInv'
  <1> SUFFICES ASSUME IInv, End PROVE IInv'
      OBVIOUS
  <1>1. CASE Shutdown
    BY <1>1 DEF Shutdown, MasterStep
  <1>2. CASE TakeFromPool
    BY <1>2 DEF TakeFromPool, MasterStep
  <1>3. CASE ExitRelease
    BY <1>3 DEF ExitRelease, MasterStep
  <1>4. CASE ExitCheck
    BY <1>4 DEF ExitCheck, MasterStep, ResumeIfSleeping, StartResume
  <1>5. CASE OsJoin
    BY <1>5 DEF OsJoin, MasterStep
  <1> QED BY <1>1, <1>2, <1>3, <1>4, <1>5 DEF End

LEMMA ResumeInv == ASSUME NEW a \in Resumers, IInv, Resume(a) PROVE IInv'
  <1>1. CASE ResumeLock(a)
    BY <1>1 DEF ResumeLock
  <1>2. CASE ResumeUnset(a)
    BY <1>2 DEF ResumeUnset, AlreadyAwake
  <1>3. CASE ResumeSignal(a)
    BY <1>3 DEF ResumeSignal
  <1> QED BY <1>1, <1>2, <1>3 DEF Resume

LEMMA WakersInv == IInv /\ (SpuriousWakeup \/ EnableTasking) => IInv'
  <1> SUFFICES ASSUME IInv, SpuriousWakeup \/ EnableTasking PROVE IInv'
      OBVIOUS
  <1>1. CASE SpuriousWakeup
    BY <1>1 DEF SpuriousWakeup
  <1>2. CASE EnableTasking
    BY <1>2 DEF EnableTasking
  <1> QED BY <1>1, <1>2

LEMMA WakeSleeperInv ==
    ASSUME NEW k \in Wakers, IInv, WakeSleeper(k) PROVE IInv'
  BY DEF WakeSleeper, StartResume

LEMMA StutterInv == IInv /\ UNCHANGED vars => IInv'
  BY DEF vars

HIDE DEF IInv, TypeOK, MutexHolder, SleepState, Phases, ReleaseSeesSleeper,
         PoolCountCovers, Blocked, InRegion, InFork, Ending, MasterOwesWakeup,
         Resumers, WorkerAt, MasterAt, flag, pool, program

LEMMA StepInv == SafeCalls /\ IInv /\ [Next]_vars => IInv'
  BY WaitInv, SuspendInv, ForkJoinInv, FreeAndReapInv, PauseInv, EndInv,
     ResumeInv, WakersInv, WakeSleeperInv, StutterInv DEF Next

(* The strengthened invariant holds in every reachable state. *)
THEOREM Inductive == ASSUME SafeCalls PROVE Spec => []IInv
  BY InitInv, StepInv, PTL DEF Spec, Safety

(* Type correctness. *)
THEOREM TypeCorrect == ASSUME SafeCalls PROVE Spec => []TypeOK
  BY Inductive, PTL DEF IInv

(* Outside the suspend mutex, th_sleep_loc and the sleep bit agree. *)
THEOREM SleepLocCorrect == ASSUME SafeCalls PROVE Spec => []SleepLocAgrees
  <1>1. IInv => SleepLocAgrees
    BY DEF IInv, TypeOK, MutexHolder, SleepState, SleepLocAgrees, Blocked, Resumers
  <1> QED BY <1>1, Inductive, PTL

(* No wakeup is lost between __kmp_suspend_template and                     *)
(* __kmp_release_template.                                                  *)
THEOREM NoWakeupIsLost == ASSUME SafeCalls PROVE Spec => []NoLostWakeup
  <1>1. IInv => NoLostWakeup
    BY DEF IInv, SleepState, ReleaseSeesSleeper, NoLostWakeup, Blocked
  <1> QED BY <1>1, Inductive, PTL

(* The worker is inside a region only when the master has released it into *)
(* that region and has not joined it yet.                                   *)
THEOREM WorkIsReleased == ASSUME SafeCalls PROVE Spec => []WorksOnlyWhenReleased
  <1>1. IInv => WorksOnlyWhenReleased
    BY DEF IInv, Phases, WorksOnlyWhenReleased, InRegion
  <1> QED BY <1>1, Inductive, PTL

(* The assertion on the count of active pool threads. *)
THEOREM PoolCountHolds == ASSUME SafeCalls PROVE Spec => []PoolCountNotNegative
  <1>1. IInv => PoolCountNotNegative
    BY DEF IInv, TypeOK, PoolCountCovers, PoolCountNotNegative
  <1> QED BY <1>1, Inductive, PTL

-----------------------------------------------------------------------------
(* Cancellation, for every team size and every set of programs in which    *)
(* GOMP threads cancel a region in its first segment only: a later cancel  *)
(* meets threads that are still on their way out of the barrier before     *)
(* (the README's finding).                                                 *)
EarlyCancelled ==
    \A p \in CancelPrograms : p.gomp => \A s \in p.cancels : p.segments[s] = "parallel" => s = 1

Worker == CThread \ {0}

(* The region is cancelled and waits let threads go.                       *)
Stopped == prog.gomp /\ request = "parallel"
Gathers == cpc[0] \in {"gather", "gatherSpin"}
Waiting(w) == cpc[w] \in {"wait", "waitSpin"}

(* Arrived in the barrier that is not complete; the barriers complete.     *)
Came(t) == IF t = 0 THEN IF Gathers THEN 1 ELSE 0 ELSE arrivals[t] - teamArrivals
Complete == IF Gathers THEN entered[0] - 1 ELSE entered[0]

Places == {"run", "arrive", "gather", "gatherSpin", "release", "wait", "waitSpin", "past", "look",
           "join"}

CWords ==
    /\ arrivals \in [CThread -> Nat] /\ gos \in [CThread -> Nat] /\ teamArrivals \in Nat
    /\ next \in Worker
    /\ entered \in [CThread -> Nat] /\ left \in [CThread -> Nat]

CPlaces ==
    /\ cpc \in [CThread -> Places]
    /\ cpc[0] \notin {"wait", "waitSpin"}
    /\ \A w \in Worker : cpc[w] \notin {"gather", "gatherSpin", "release"}
    /\ prog.gomp => \A t \in CThread : cpc[t] # "look"

CProgram ==
    /\ prog \in CancelPrograms
    /\ request \in {"noreq", "parallel", "loop"}
    /\ segment \in [CThread -> 1..Len(prog.segments)]

CType == CWords /\ CPlaces /\ CProgram

(* A worker outside the barrier is in step with the team; one that waits   *)
(* has arrived, and is not released, or the barrier is complete, and it is *)
(* released once the master has passed it.                                 *)
WorkerRight(w) ==
    \/ /\ ~Waiting(w)
       /\ arrivals[w] = teamArrivals /\ gos[w] = 0
       /\ cpc[0] = "release" => w < next
       /\ Gathers /\ ~Stopped => w >= next
    \/ /\ Waiting(w)
       /\ arrivals[w] = teamArrivals + 1 /\ gos[w] = 0
       /\ cpc[0] = "release" => w < next
    \/ /\ Waiting(w) /\ ~Stopped
       /\ arrivals[w] = teamArrivals
       /\ gos[w] = IF cpc[0] = "release" /\ w >= next THEN 0 ELSE 1
       /\ Gathers => w >= next

(* Until the region is cancelled all have entered the complete barriers,   *)
(* and those that came one more, and nobody has left another.              *)
Counted ==
    ~Stopped => \A t \in CThread : entered[t] = Complete + Came(t) /\ left[t] <= Complete

(* A GOMP thread enters one barrier for each segment.                      *)
GompCounted ==
    prog.gomp /\ ~Stopped =>
        \A t \in CThread : entered[t] = IF cpc[t] \in {"run", "arrive"} THEN segment[t] - 1
                                        ELSE segment[t]

(* The first barrier of a cancelled region is never complete: a thread     *)
(* that the master has still to gather has gone to the join.               *)
SomebodyLeft == \E c \in CThread : cpc[c] = "join" /\ (c = 0 \/ ~Gathers \/ next <= c)

StoppedRight ==
    Stopped => /\ \A t \in CThread : left[t] = 0 /\ segment[t] = 1 /\ cpc[t] # "past"
               /\ cpc[0] # "release"
               /\ SomebodyLeft

CInv == CType /\ (\A w \in Worker : WorkerRight(w)) /\ Counted /\ GompCounted /\ StoppedRight

USE CancelTeamAssumption

LEMMA Team ==
    /\ 0 \in CThread /\ CancelTeam \in Nat /\ CThread \subseteq Nat
    /\ \A w \in Worker : w \in CThread /\ w \in Nat /\ w # 0 /\ w >= 1 /\ w <= CancelTeam - 1
    /\ 1 \in Worker /\ \A w \in Worker : w < CancelTeam - 1 => w + 1 \in Worker
    /\ \A t \in CThread : t # 0 => t \in Worker
  BY CancelTeamAssumption DEF CThread, Worker

USE DEF Stands, To, cwords, history


LEMMA ProgramRight == CProgram => /\ prog.gomp \in BOOLEAN /\ Len(prog.segments) \in Nat \ {0}
                               /\ \A t \in CThread : /\ SegmentKind(t) \in SegmentKinds
                                                      /\ segment[t] \in Nat \ {0}
                                                      /\ segment[t] <= Len(prog.segments)
  <1> SUFFICES ASSUME CProgram PROVE /\ prog.gomp \in BOOLEAN /\ Len(prog.segments) \in Nat \ {0}
                               /\ \A t \in CThread : /\ SegmentKind(t) \in SegmentKinds
                                                      /\ segment[t] \in Nat \ {0}
                                                      /\ segment[t] <= Len(prog.segments)
    OBVIOUS
  <1>1. prog.segments \in Seq(SegmentKinds) /\ Len(prog.segments) > 0 /\ prog.gomp \in BOOLEAN
    BY CancelProgramsAssumption DEF CProgram
  <1>2. \A t \in CThread : segment[t] \in 1..Len(prog.segments)
    BY DEF CProgram
  <1> QED BY <1>1, <1>2 DEF SegmentKind

(* Who arrived in a barrier that is not complete. *)
LEMMA CameRight ==
    ASSUME CWords, CPlaces, \A w \in Worker : WorkerRight(w), NEW t \in CThread
    PROVE  /\ Came(t) \in {0, 1}
           /\ cpc[t] \in {"run", "arrive", "past", "look", "join", "release"} => Came(t) = 0
           /\ cpc[t] \in {"gather", "gatherSpin"} => Came(t) = 1
           /\ Waiting(t) => (Came(t) = 1 <=> arrivals[t] = teamArrivals + 1)
  <1>1. CASE t = 0
    BY <1>1, Team DEF CWords, CPlaces, Came, Gathers, Waiting
  <1>2. CASE t \in Worker
    <2>1. WorkerRight(t)
      BY <1>2
    <2> QED BY <1>2, <2>1, Team DEF CWords, CPlaces, Came, WorkerRight, Waiting
  <1> QED BY <1>1, <1>2, Team

LEMMA CompleteType == CWords /\ CPlaces => Complete \in Int
  BY Team DEF CWords, Complete

(* A region is cancelled before anybody is past its first barrier. *)
LEMMA StopsEarly ==
    ASSUME CWords, CPlaces, CProgram, \A w \in Worker : WorkerRight(w), Counted, GompCounted,
           ~Stopped, prog.gomp, NEW t \in CThread, cpc[t] = "run", segment[t] = 1
    PROVE  /\ cpc[0] # "release"
           /\ \A u \in CThread : /\ left[u] = 0 /\ segment[u] = 1
                                 /\ cpc[u] \notin {"past", "look", "join"}
           /\ \A w \in Worker : Waiting(w) => arrivals[w] = teamArrivals + 1 /\ gos[w] = 0
  <1>1. Complete = 0
    <2>1. entered[t] = 0
      BY DEF GompCounted
    <2>2. Came(t) = 0
      BY CameRight
    <2> QED BY <2>1, <2>2, CompleteType DEF Counted
  <1>2. ASSUME NEW u \in CThread
        PROVE  /\ left[u] = 0 /\ segment[u] = 1 /\ cpc[u] \notin {"past", "look", "join", "release"}
               /\ Waiting(u) => Came(u) = 1
    <2>1. left[u] \in Nat /\ left[u] <= Complete /\ entered[u] = Came(u)
      BY <1>1, CameRight DEF CWords, CPlaces, Counted
    <2>2. segment[u] \in Nat \ {0}
      BY ProgramRight
    <2>3. entered[u] = IF cpc[u] \in {"run", "arrive"} THEN segment[u] - 1 ELSE segment[u]
      BY DEF GompCounted
    <2>4. /\ Came(u) \in {0, 1}
          /\ cpc[u] \in {"run", "arrive", "past", "look", "join", "release"} => Came(u) = 0
      BY CameRight
    <2>5. CASE cpc[u] \in {"run", "arrive"}
      BY <1>1, <2>1, <2>2, <2>3, <2>4, <2>5 DEF Waiting
    <2>6. CASE cpc[u] \notin {"run", "arrive"}
      <3>1. segment[u] = Came(u)
        BY <2>1, <2>3, <2>6
      <3>2. segment[u] = 1 /\ Came(u) = 1
        BY <2>2, <2>4, <3>1
      <3> QED BY <1>1, <2>1, <2>4, <3>2
    <2> QED BY <2>5, <2>6
  <1>3. \A w \in Worker : Waiting(w) => arrivals[w] = teamArrivals + 1 /\ gos[w] = 0
    <2> SUFFICES ASSUME NEW w \in Worker, Waiting(w)
                 PROVE  arrivals[w] = teamArrivals + 1 /\ gos[w] = 0
      OBVIOUS
    <2>1. WorkerRight(w)
      OBVIOUS
    <2>2. arrivals[w] = teamArrivals + 1
      BY <1>2, CameRight, Team
    <2> QED BY <2>1, <2>2, Team DEF WorkerRight, CWords
  <1> QED BY <1>2, <1>3, Team

LEMMA CancelInv == ASSUME EarlyCancelled, NEW t \in CThread, CInv, Cancel(t) PROVE CInv'
  <1>p. /\ CWords /\ CPlaces /\ CProgram /\ \A w \in Worker : WorkerRight(w)
        /\ Counted /\ GompCounted /\ StoppedRight
    BY DEF CInv, CType
  <1> USE <1>p
  <1>a. ~Stopped /\ Stopped' => segment[t] = 1 /\ prog.gomp
    BY ProgramRight DEF Cancel, Stopped, EarlyCancelled, CProgram, SegmentKind
  <1>b. /\ UNCHANGED <<prog, segment, arrivals, gos, teamArrivals, next, entered, left>>
        /\ cpc[t] = "run"
    BY DEF Cancel
  <1>c. cpc' = cpc \/ cpc' = [cpc EXCEPT ![t] =
                             IF prog.gomp /\ SegmentKind(t) = "parallel" THEN "join" ELSE "arrive"]
    BY DEF Cancel, LeaveConstruct
  <1>d. Stopped => Stopped'
    BY ProgramRight DEF Cancel, Stopped
  <1>e. request' \in {"noreq", "parallel", "loop"}
    BY ProgramRight DEF Cancel, CProgram, SegmentKinds
  <1>f. ~Stopped /\ Stopped' => cpc' = [cpc EXCEPT ![t] = "join"]
    BY ProgramRight DEF Cancel, LeaveConstruct, CProgram, Stopped
  <1>g. cpc' = cpc \/ cpc' = [cpc EXCEPT ![t] = "join"] \/ cpc' = [cpc EXCEPT ![t] = "arrive"]
    BY <1>c
  <1>1. CType'
    <2>1. CWords'
      BY <1>b DEF CWords
    <2>2. CPlaces'
      BY <1>b, <1>g, Team DEF CPlaces, Places
    <2>3. CProgram'
      BY <1>b, <1>e DEF CProgram
    <2> QED BY <2>1, <2>2, <2>3 DEF CType
  <1>2. \A w \in Worker : WorkerRight(w)'
    <2> TAKE w \in Worker
    <2>1. WorkerRight(w)
      OBVIOUS
    <2>2. CASE ~Stopped /\ Stopped'
      <3>1. Waiting(w) => arrivals[w] = teamArrivals + 1 /\ gos[w] = 0
        BY <1>a, <1>b, <2>2, StopsEarly
      <3>2. cpc[0] # "release"
        BY <1>a, <1>b, <2>2, StopsEarly
      <3> QED BY <1>b, <1>f, <2>1, <2>2, <3>1, <3>2, Team DEF CWords, CPlaces, WorkerRight,
                 Waiting, Gathers
    <2>3. CASE Stopped' <=> Stopped
      BY <1>b, <1>c, <2>1, <2>3, Team DEF CWords, CPlaces, WorkerRight, Waiting, Gathers
    <2> QED BY <1>d, <2>2, <2>3
  <1>3. Counted'
    BY <1>b, <1>c, <1>d, Team DEF CWords, CPlaces, Counted, Came, Complete, Gathers
  <1>4. GompCounted'
    BY <1>b, <1>c, <1>d, <1>f, Team DEF CWords, CPlaces, GompCounted, Stopped, Cancel,
       LeaveConstruct
  <1>5. StoppedRight'
    <2>1. CASE ~Stopped /\ Stopped'
      <3>1. t = 0 \/ ~Gathers \/ next <= t
        <4>1. CASE t \in Worker
          <5>1. WorkerRight(t)
            BY <4>1
          <5> QED BY <1>b, <2>1, <5>1, <4>1 DEF WorkerRight, Waiting
        <4> QED BY <4>1, Team
      <3>2. SomebodyLeft'
        BY <1>b, <1>f, <2>1, <3>1, Team DEF CWords, CPlaces, SomebodyLeft, Gathers
      <3> QED BY <1>a, <1>b, <1>f, <2>1, <3>2, StopsEarly, Team DEF CWords, CPlaces, StoppedRight
    <2>2. CASE Stopped
      BY <1>b, <1>c, <2>2, Team DEF CWords, CPlaces, StoppedRight, SomebodyLeft, Gathers
    <2> QED BY <2>1, <2>2 DEF StoppedRight
  <1> QED BY <1>1, <1>2, <1>3, <1>4, <1>5 DEF CInv, CType

LEMMA CancellationPointInv ==
    ASSUME EarlyCancelled, NEW t \in CThread, CInv, CancellationPoint(t) PROVE CInv'
  <1>p. /\ CWords /\ CPlaces /\ CProgram /\ \A w \in Worker : WorkerRight(w)
        /\ Counted /\ GompCounted /\ StoppedRight
    BY DEF CInv, CType
  <1> USE <1>p
  <1>b. /\ UNCHANGED <<prog, request, segment, arrivals, gos, teamArrivals, next, entered, left>>
        /\ cpc[t] = "run"
    BY DEF CancellationPoint
  <1>c. cpc' = cpc \/ cpc' = [cpc EXCEPT ![t] =
                             IF prog.gomp /\ SegmentKind(t) = "parallel" THEN "join" ELSE "arrive"]
    BY DEF CancellationPoint, LeaveConstruct
  <1>g. cpc' = cpc \/ cpc' = [cpc EXCEPT ![t] = "join"] \/ cpc' = [cpc EXCEPT ![t] = "arrive"]
    BY <1>c
  <1>1. CType'
    <2>1. CWords'
      BY <1>b DEF CWords
    <2>2. CPlaces'
      BY <1>b, <1>g, Team DEF CPlaces, Places
    <2>3. CProgram'
      BY <1>b DEF CProgram
    <2> QED BY <2>1, <2>2, <2>3 DEF CType
  <1>2. \A w \in Worker : WorkerRight(w)'
    <2> TAKE w \in Worker
    <2>1. WorkerRight(w)
      OBVIOUS
    <2> QED BY <2>1, Team DEF CWords, CPlaces, CancellationPoint, LeaveConstruct, WorkerRight,
               Waiting, Gathers, Stopped
  <1>3. Counted'
    BY Team DEF CWords, CPlaces, CancellationPoint, LeaveConstruct, Counted, Came, Complete,
       Gathers, Stopped
  <1>4. GompCounted'
    BY Team DEF CWords, CPlaces, CancellationPoint, LeaveConstruct, GompCounted, Stopped
  <1>5. StoppedRight'
    BY Team DEF CWords, CPlaces, CancellationPoint, LeaveConstruct, StoppedRight, SomebodyLeft,
       Gathers, Stopped
  <1> QED BY <1>1, <1>2, <1>3, <1>4, <1>5 DEF CInv, CType

LEMMA EndSegmentInv ==
    ASSUME EarlyCancelled, NEW t \in CThread, CInv, EndSegment(t) PROVE CInv'
  <1>p. /\ CWords /\ CPlaces /\ CProgram /\ \A w \in Worker : WorkerRight(w)
        /\ Counted /\ GompCounted /\ StoppedRight
    BY DEF CInv, CType
  <1> USE <1>p
  <1>1. CType'
    <2>1. CWords'
      BY Team DEF CWords, CPlaces, EndSegment
    <2>2. CPlaces'
      BY Team DEF CPlaces, Places, EndSegment
    <2>3. CProgram'
      BY Team, ProgramRight DEF CProgram, CPlaces, EndSegment
    <2> QED BY <2>1, <2>2, <2>3 DEF CType
  <1>2. \A w \in Worker : WorkerRight(w)'
    <2> TAKE w \in Worker
    <2>1. WorkerRight(w)
      OBVIOUS
    <2> QED BY <2>1, Team DEF CWords, CPlaces, EndSegment, WorkerRight, Waiting, Gathers, Stopped
  <1>3. Counted'
    BY Team DEF CWords, CPlaces, EndSegment, Counted, Came, Complete, Gathers, Stopped
  <1>4. GompCounted'
    BY Team DEF CWords, CPlaces, EndSegment, GompCounted, Stopped
  <1>5. StoppedRight'
    BY Team DEF CWords, CPlaces, EndSegment, StoppedRight, SomebodyLeft, Gathers, Stopped
  <1> QED BY <1>1, <1>2, <1>3, <1>4, <1>5 DEF CInv, CType

LEMMA ArriveAtBarrierInv ==
    ASSUME EarlyCancelled, NEW t \in CThread, CInv, ArriveAtBarrier(t) PROVE CInv'
  <1>p. /\ CWords /\ CPlaces /\ CProgram /\ \A w \in Worker : WorkerRight(w)
        /\ Counted /\ GompCounted /\ StoppedRight
    BY DEF CInv, CType
  <1> USE <1>p
  <1>b. UNCHANGED <<prog, request, segment, gos, teamArrivals, left>> /\ cpc[t] = "arrive"
    BY DEF ArriveAtBarrier
  <1>c. entered' = [entered EXCEPT ![t] = @ + 1]
    BY DEF ArriveAtBarrier
  <1>d. t = 0 => cpc' = [cpc EXCEPT ![t] = "gather"] /\ next' = 1 /\ arrivals' = arrivals
    BY DEF ArriveAtBarrier
  <1>e. t # 0 => cpc' = [cpc EXCEPT ![t] = "wait"] /\ next' = next
                /\ arrivals' = [arrivals EXCEPT ![t] = @ + 1]
    BY DEF ArriveAtBarrier
  <1>f. t # 0 => t \in Worker /\ WorkerRight(t)
    BY Team
  <1>1. CType'
    <2>1. CWords'
      BY <1>b, <1>c, <1>d, <1>e, Team DEF CWords, CPlaces
    <2>2. CPlaces'
      BY <1>b, <1>d, <1>e, Team DEF CPlaces, Places
    <2>3. CProgram'
      BY <1>b DEF CProgram
    <2> QED BY <2>1, <2>2, <2>3 DEF CType
  <1>2. \A w \in Worker : WorkerRight(w)'
    <2> TAKE w \in Worker
    <2>1. WorkerRight(w)
      OBVIOUS
    <2>2. CASE t = 0
      <3>1. cpc'[0] = "gather" /\ cpc'[w] = cpc[w] /\ next' = 1
        BY <1>d, <2>2, Team DEF CPlaces
      <3>2. cpc[0] = "arrive"
        BY <1>b, <2>2
      <3>3. w >= 1
        BY Team
      <3> QED BY <1>b, <1>d, <2>1, <2>2, <3>1, <3>2, <3>3 DEF WorkerRight, Waiting, Gathers,
                 Stopped
    <2>3. CASE t # 0
      <3>1. cpc'[0] = cpc[0] /\ next' = next
        BY <1>e, <2>3, Team DEF CPlaces
      <3>2. CASE w = t
        <4>1. cpc'[w] = "wait" /\ arrivals'[w] = arrivals[w] + 1
          BY <1>e, <2>3, <3>2, Team DEF CWords, CPlaces
        <4> QED BY <1>b, <2>1, <3>1, <3>2, <4>1 DEF WorkerRight, Waiting, Gathers, Stopped
      <3>3. CASE w # t
        <4>1. cpc'[w] = cpc[w] /\ arrivals'[w] = arrivals[w]
          BY <1>e, <2>3, <3>3, Team DEF CWords, CPlaces
        <4> QED BY <1>b, <2>1, <3>1, <4>1 DEF WorkerRight, Waiting, Gathers, Stopped
      <3> QED BY <3>2, <3>3
    <2> QED BY <2>2, <2>3
  <1>3. Counted'
    <2>1. CASE t = 0
      BY <1>b, <1>c, <1>d, <2>1, Team DEF CWords, CPlaces, Counted, Came, Complete, Gathers,
         Stopped
    <2>2. CASE t # 0
      BY <1>b, <1>c, <1>e, <2>2, Team DEF CWords, CPlaces, Counted, Came, Complete, Gathers,
         Stopped
    <2> QED BY <2>1, <2>2
  <1>4. GompCounted'
    <2> SUFFICES ASSUME prog.gomp, ~Stopped, NEW u \in CThread
                 PROVE  entered'[u] = IF cpc'[u] \in {"run", "arrive"} THEN segment[u] - 1
                                      ELSE segment[u]
      BY <1>b DEF GompCounted, Stopped
    <2>1. entered[u] = IF cpc[u] \in {"run", "arrive"} THEN segment[u] - 1 ELSE segment[u]
      BY DEF GompCounted
    <2>2. CASE u = t
      <3>1. cpc'[u] \in {"gather", "wait"} /\ entered'[u] = entered[u] + 1
        BY <1>c, <1>d, <1>e, <2>2 DEF CWords, CPlaces
      <3> QED BY <1>b, <2>1, <2>2, <3>1, ProgramRight
    <2>3. CASE u # t
      BY <1>c, <1>d, <1>e, <2>1, <2>3 DEF CWords, CPlaces
    <2> QED BY <2>2, <2>3
  <1>5. StoppedRight'
    <2> SUFFICES ASSUME Stopped PROVE StoppedRight'
      BY <1>b DEF StoppedRight, Stopped
    <2>1. PICK c \in CThread : cpc[c] = "join" /\ (c = 0 \/ ~Gathers \/ next <= c)
      BY DEF StoppedRight, SomebodyLeft
    <2>2. cpc'[c] = "join" /\ (c = 0 \/ ~Gathers' \/ next' <= c)
      BY <1>b, <1>d, <1>e, <2>1, Team DEF CWords, CPlaces, Gathers
    <2>3. SomebodyLeft'
      BY <2>2 DEF SomebodyLeft
    <2> QED BY <1>b, <1>d, <1>e, <2>3, Team DEF CWords, CPlaces, StoppedRight
  <1> QED BY <1>1, <1>2, <1>3, <1>4, <1>5 DEF CInv, CType

LEMMA SpinWaitInv ==
    ASSUME EarlyCancelled, NEW t \in CThread, CInv, SpinWait(t) PROVE CInv'
  <1>p. /\ CWords /\ CPlaces /\ CProgram /\ \A w \in Worker : WorkerRight(w)
        /\ Counted /\ GompCounted /\ StoppedRight
    BY DEF CInv, CType
  <1> USE <1>p
  <1>1. CType'
    <2>1. CWords'
      BY Team DEF CWords, CPlaces, SpinWait, Spin
    <2>2. CPlaces'
      BY Team DEF CPlaces, Places, SpinWait, Spin
    <2>3. CProgram'
      BY Team, ProgramRight DEF CProgram, CPlaces, SpinWait, Spin
    <2> QED BY <2>1, <2>2, <2>3 DEF CType
  <1>2. \A w \in Worker : WorkerRight(w)'
    <2> TAKE w \in Worker
    <2>1. WorkerRight(w)
      OBVIOUS
    <2> QED BY <2>1, Team DEF CWords, CPlaces, SpinWait, Spin, WorkerRight, Waiting, Gathers,
               Stopped
  <1>3. Counted'
    BY Team DEF CWords, CPlaces, SpinWait, Spin, Counted, Came, Complete, Gathers, Stopped
  <1>4. GompCounted'
    BY Team DEF CWords, CPlaces, SpinWait, Spin, GompCounted, Stopped
  <1>5. StoppedRight'
    BY Team DEF CWords, CPlaces, SpinWait, Spin, StoppedRight, SomebodyLeft, Gathers, Stopped
  <1> QED BY <1>1, <1>2, <1>3, <1>4, <1>5 DEF CInv, CType

LEMMA LeaveReleaseInv ==
    ASSUME EarlyCancelled, NEW t \in CThread, CInv, LeaveRelease(t) PROVE CInv'
  <1>p. /\ CWords /\ CPlaces /\ CProgram /\ \A w \in Worker : WorkerRight(w)
        /\ Counted /\ GompCounted /\ StoppedRight
    BY DEF CInv, CType
  <1> USE <1>p
  <1>a. t \in Worker /\ WorkerRight(t) /\ Waiting(t)
    BY Team DEF LeaveRelease, CPlaces, Waiting
  <1>b. UNCHANGED <<prog, request, segment, arrivals, teamArrivals, next, entered>>
    BY DEF LeaveRelease
  <1>c. /\ gos' = [gos EXCEPT ![t] = 0] /\ left' = [left EXCEPT ![t] = entered[t]]
        /\ \/ cpc' = [cpc EXCEPT ![t] = "past"] /\ prog.gomp
           \/ cpc' = [cpc EXCEPT ![t] = "look"] /\ ~prog.gomp
    BY DEF LeaveRelease, PastBarrier
  <1>d. /\ ~Stopped /\ arrivals[t] = teamArrivals /\ gos[t] = 1
        /\ cpc[0] = "release" => t < next
        /\ Gathers => t >= next
    BY <1>a, Team DEF LeaveRelease, WaitPasses, WorkerRight, CWords
  <1>e. cpc'[0] = cpc[0]
    BY <1>a, <1>c, Team DEF CPlaces
  <1>1. CType'
    <2>1. CWords'
      BY Team DEF CWords, CPlaces, LeaveRelease, WaitPasses, ParallelCancelled, PastBarrier
    <2>2. CPlaces'
      BY Team DEF CPlaces, Places, LeaveRelease, WaitPasses, ParallelCancelled, PastBarrier
    <2>3. CProgram'
      BY Team, ProgramRight DEF CProgram, CPlaces, LeaveRelease, WaitPasses, ParallelCancelled,
         PastBarrier
    <2> QED BY <2>1, <2>2, <2>3 DEF CType
  <1>2. \A w \in Worker : WorkerRight(w)'
    <2> TAKE w \in Worker
    <2>1. WorkerRight(w)
      OBVIOUS
    <2>2. CASE w = t
      <3>1. cpc'[w] \in {"past", "look"} /\ gos'[w] = 0
        BY <1>c, <2>2, Team DEF CWords, CPlaces
      <3> QED BY <1>b, <1>d, <1>e, <2>2, <3>1 DEF WorkerRight, Waiting, Gathers, Stopped
    <2>3. CASE w # t
      <3>1. cpc'[w] = cpc[w] /\ gos'[w] = gos[w]
        BY <1>c, <2>3, Team DEF CWords, CPlaces
      <3> QED BY <1>b, <1>e, <2>1, <3>1 DEF WorkerRight, Waiting, Gathers, Stopped
    <2> QED BY <2>2, <2>3
  <1>3. Counted'
    <2>1. entered[t] = Complete
      <3>1. Came(t) = 0 /\ entered[t] = Complete + Came(t)
        BY <1>a, <1>d, Team DEF Came, Counted, CWords
      <3> QED BY <3>1, CompleteType
    <2>2. Complete' = Complete /\ \A u \in CThread : Came(u)' = Came(u)
      BY <1>b, <1>e DEF Complete, Came, Gathers
    <2>3. \A u \in CThread : left'[u] <= Complete
      <3> TAKE u \in CThread
      <3> QED BY <1>c, <1>d, <2>1, CompleteType DEF CWords, Counted
    <2> QED BY <1>b, <1>d, <2>2, <2>3 DEF Counted, Stopped
  <1>4. GompCounted'
    BY Team DEF CWords, CPlaces, LeaveRelease, WaitPasses, ParallelCancelled, PastBarrier,
       GompCounted, Stopped
  <1>5. StoppedRight'
    BY <1>b, <1>d DEF StoppedRight, Stopped
  <1> QED BY <1>1, <1>2, <1>3, <1>4, <1>5 DEF CInv

LEMMA WaitCancelledInv ==
    ASSUME EarlyCancelled, NEW t \in CThread, CInv, WaitCancelled(t) PROVE CInv'
  <1>p. /\ CWords /\ CPlaces /\ CProgram /\ \A w \in Worker : WorkerRight(w)
        /\ Counted /\ GompCounted /\ StoppedRight
    BY DEF CInv, CType
  <1> USE <1>p
  <1>a. t \in Worker /\ WorkerRight(t) /\ Waiting(t) /\ Stopped
    BY Team DEF WaitCancelled, WaitCancels, ParallelCancelled, CPlaces, Waiting, Stopped
  <1>b. arrivals[t] = teamArrivals + 1 /\ gos[t] = 0
    BY <1>a DEF WorkerRight
  <1>1. CType'
    <2>1. CWords'
      <3>1. arrivals[t] - 1 = teamArrivals /\ teamArrivals \in Nat
        BY <1>b DEF CWords
      <3> QED BY <3>1 DEF CWords, WaitCancelled, RevertArrival
    <2>2. CPlaces'
      BY Team DEF CPlaces, Places, WaitCancelled, WaitCancels, ParallelCancelled, RevertArrival
    <2>3. CProgram'
      BY Team, ProgramRight DEF CProgram, CPlaces, WaitCancelled, WaitCancels,
         ParallelCancelled, RevertArrival
    <2> QED BY <2>1, <2>2, <2>3 DEF CType
  <1>2. \A w \in Worker : WorkerRight(w)'
    <2> TAKE w \in Worker
    <2>1. WorkerRight(w)
      OBVIOUS
    <2> QED BY <2>1, Team DEF CWords, CPlaces, WaitCancelled, WaitCancels, ParallelCancelled,
               RevertArrival, WorkerRight, Waiting, Gathers, Stopped
  <1>3. Counted'
    BY Team DEF CWords, CPlaces, WaitCancelled, WaitCancels, ParallelCancelled, RevertArrival,
       Counted, Came, Complete, Gathers, Stopped
  <1>4. GompCounted'
    BY Team DEF CWords, CPlaces, WaitCancelled, WaitCancels, ParallelCancelled, RevertArrival,
       GompCounted, Stopped
  <1>5. StoppedRight'
    BY Team DEF CWords, CPlaces, WaitCancelled, WaitCancels, ParallelCancelled, RevertArrival,
       StoppedRight, SomebodyLeft, Gathers, Stopped
  <1> QED BY <1>1, <1>2, <1>3, <1>4, <1>5 DEF CInv, CType

LEMMA GoOnInv == ASSUME EarlyCancelled, NEW t \in CThread, CInv, GoOn(t) PROVE CInv'
  <1>p. /\ CWords /\ CPlaces /\ CProgram /\ \A w \in Worker : WorkerRight(w)
        /\ Counted /\ GompCounted /\ StoppedRight
    BY DEF CInv, CType
  <1> USE <1>p
  <1>a. UNCHANGED <<prog, request, arrivals, gos, teamArrivals, next, entered, left>>
    BY DEF GoOn
  <1>b. /\ cpc[t] = "past" /\ cpc'[t] \in {"run", "join", "arrive"}
        /\ \A u \in CThread : u # t => cpc'[u] = cpc[u]
    BY DEF GoOn, NextSegment, CPlaces
  <1>1. CType'
    <2>1. CWords'
      BY Team DEF CWords, CPlaces, GoOn, NextSegment
    <2>2. CPlaces'
      BY Team DEF CPlaces, Places, GoOn, NextSegment
    <2>3. CProgram'
      BY Team, ProgramRight DEF CProgram, CPlaces, GoOn, NextSegment
    <2> QED BY <2>1, <2>2, <2>3 DEF CType
  <1>2. \A w \in Worker : WorkerRight(w)'
    <2> TAKE w \in Worker
    <2>1. WorkerRight(w)
      OBVIOUS
    <2> QED BY <1>a, <1>b, <2>1, Team DEF WorkerRight, Waiting, Gathers, Stopped
  <1>3. Counted'
    BY <1>a, <1>b, Team DEF Counted, Came, Complete, Gathers, Stopped
  <1>4. GompCounted'
    <2> SUFFICES ASSUME prog.gomp, ~Stopped, NEW u \in CThread
                 PROVE  entered[u] = IF cpc'[u] \in {"run", "arrive"} THEN segment'[u] - 1
                                     ELSE segment'[u]
      BY DEF GoOn, GompCounted, Stopped
    <2>1. entered[u] = IF cpc[u] \in {"run", "arrive"} THEN segment[u] - 1 ELSE segment[u]
      BY DEF GompCounted
    <2>2. CASE u = t
      <3>1. \/ cpc'[u] = "run" /\ segment'[u] = segment[u] + 1
            \/ cpc'[u] = "join" /\ segment'[u] = segment[u]
        BY <2>2 DEF GoOn, NextSegment, CPlaces, CProgram
      <3>2. entered[u] = segment[u]
        BY <2>1, <2>2 DEF GoOn
      <3> QED BY <3>1, <3>2, ProgramRight
    <2>3. CASE u # t
      BY <2>1, <2>3 DEF GoOn, NextSegment, CPlaces, CProgram
    <2> QED BY <2>2, <2>3
  <1>5. StoppedRight'
    BY Team DEF CWords, CPlaces, GoOn, NextSegment, StoppedRight, SomebodyLeft, Gathers, Stopped
  <1> QED BY <1>1, <1>2, <1>3, <1>4, <1>5 DEF CInv, CType

LEMMA LookAtRequestInv ==
    ASSUME EarlyCancelled, NEW t \in CThread, CInv, LookAtRequest(t) PROVE CInv'
  <1>p. /\ CWords /\ CPlaces /\ CProgram /\ \A w \in Worker : WorkerRight(w)
        /\ Counted /\ GompCounted /\ StoppedRight
    BY DEF CInv, CType
  <1> USE <1>p
  <1>a. UNCHANGED <<prog, request, arrivals, gos, teamArrivals, next, entered, left>>
    BY DEF LookAtRequest
  <1>b. /\ cpc[t] = "look" /\ cpc'[t] \in {"run", "join", "arrive"}
        /\ \A u \in CThread : u # t => cpc'[u] = cpc[u]
    BY DEF LookAtRequest, NextSegment, CPlaces
  <1>1. CType'
    <2>1. CWords'
      BY Team DEF CWords, CPlaces, LookAtRequest, NextSegment
    <2>2. CPlaces'
      BY Team DEF CPlaces, Places, LookAtRequest, NextSegment
    <2>3. CProgram'
      BY Team, ProgramRight DEF CProgram, CPlaces, LookAtRequest, NextSegment
    <2> QED BY <2>1, <2>2, <2>3 DEF CType
  <1>2. \A w \in Worker : WorkerRight(w)'
    <2> TAKE w \in Worker
    <2>1. WorkerRight(w)
      OBVIOUS
    <2> QED BY <1>a, <1>b, <2>1, Team DEF WorkerRight, Waiting, Gathers, Stopped
  <1>3. Counted'
    BY <1>a, <1>b, Team DEF Counted, Came, Complete, Gathers, Stopped
  <1>4. GompCounted'
    BY Team DEF CWords, CPlaces, LookAtRequest, NextSegment, GompCounted, Stopped
  <1>5. StoppedRight'
    BY Team DEF CWords, CPlaces, LookAtRequest, NextSegment, StoppedRight, SomebodyLeft,
       Gathers, Stopped
  <1> QED BY <1>1, <1>2, <1>3, <1>4, <1>5 DEF CInv, CType

LEMMA AfterExtraBarrierInv ==
    ASSUME EarlyCancelled, NEW t \in CThread, CInv, AfterExtraBarrier(t) PROVE CInv'
  <1>p. /\ CWords /\ CPlaces /\ CProgram /\ \A w \in Worker : WorkerRight(w)
        /\ Counted /\ GompCounted /\ StoppedRight
    BY DEF CInv, CType
  <1> USE <1>p
  <1>1. CType'
    <2>1. CWords'
      BY Team DEF CWords, CPlaces, AfterExtraBarrier
    <2>2. CPlaces'
      BY Team DEF CPlaces, Places, AfterExtraBarrier
    <2>3. CProgram'
      BY Team, ProgramRight DEF CProgram, CPlaces, AfterExtraBarrier
    <2> QED BY <2>1, <2>2, <2>3 DEF CType
  <1>2. \A w \in Worker : WorkerRight(w)'
    <2> TAKE w \in Worker
    <2>1. WorkerRight(w)
      OBVIOUS
    <2> QED BY <2>1, Team DEF CWords, CPlaces, AfterExtraBarrier, WorkerRight, Waiting,
               Gathers, Stopped
  <1>3. Counted'
    BY Team DEF CWords, CPlaces, AfterExtraBarrier, Counted, Came, Complete, Gathers, Stopped
  <1>4. GompCounted'
    BY Team DEF CWords, CPlaces, AfterExtraBarrier, GompCounted, Stopped
  <1>5. StoppedRight'
    BY Team DEF CWords, CPlaces, AfterExtraBarrier, StoppedRight, SomebodyLeft, Gathers, Stopped
  <1> QED BY <1>1, <1>2, <1>3, <1>4, <1>5 DEF CInv, CType

LEMMA SpinGatherInv == ASSUME EarlyCancelled, CInv, SpinGather PROVE CInv'
  <1>p. /\ CWords /\ CPlaces /\ CProgram /\ \A w \in Worker : WorkerRight(w)
        /\ Counted /\ GompCounted /\ StoppedRight
    BY DEF CInv, CType
  <1> USE <1>p
  <1>1. CType'
    <2>1. CWords'
      BY Team DEF CWords, CPlaces, SpinGather, Spin
    <2>2. CPlaces'
      BY Team DEF CPlaces, Places, SpinGather, Spin
    <2>3. CProgram'
      BY Team, ProgramRight DEF CProgram, CPlaces, SpinGather, Spin
    <2> QED BY <2>1, <2>2, <2>3 DEF CType
  <1>2. \A w \in Worker : WorkerRight(w)'
    <2> TAKE w \in Worker
    <2>1. WorkerRight(w)
      OBVIOUS
    <2> QED BY <2>1, Team DEF CWords, CPlaces, SpinGather, Spin, WorkerRight, Waiting, Gathers,
               Stopped
  <1>3. Counted'
    BY Team DEF CWords, CPlaces, SpinGather, Spin, Counted, Came, Complete, Gathers, Stopped
  <1>4. GompCounted'
    BY Team DEF CWords, CPlaces, SpinGather, Spin, GompCounted, Stopped
  <1>5. StoppedRight'
    BY Team DEF CWords, CPlaces, SpinGather, Spin, StoppedRight, SomebodyLeft, Gathers, Stopped
  <1> QED BY <1>1, <1>2, <1>3, <1>4, <1>5 DEF CInv, CType

LEMMA GatherWorkerInv == ASSUME EarlyCancelled, CInv, GatherWorker PROVE CInv'
  <1>p. /\ CWords /\ CPlaces /\ CProgram /\ \A w \in Worker : WorkerRight(w)
        /\ Counted /\ GompCounted /\ StoppedRight
    BY DEF CInv, CType
  <1> USE <1>p
  <1>a. Gathers /\ next \in Worker /\ WorkerRight(next) /\ arrivals[next] = teamArrivals + 1
    BY DEF GatherWorker, WaitPasses, WorkerArrived, Gathers, CWords
  <1>b. UNCHANGED <<prog, segment, arrivals, gos, entered, left>>
    BY DEF GatherWorker
  <1>c. Stopped => \E c \in Worker : cpc[c] = "join" /\ next < c
    <2> SUFFICES ASSUME Stopped PROVE \E c \in Worker : cpc[c] = "join" /\ next < c
      OBVIOUS
    <2>1. PICK c \in CThread : cpc[c] = "join" /\ (c = 0 \/ next <= c)
      BY <1>a DEF StoppedRight, SomebodyLeft
    <2>2. c \in Worker /\ WorkerRight(c)
      BY <1>a, <2>1, Team DEF Gathers
    <2>3. c # next
      BY <1>a, <2>1, <2>2 DEF WorkerRight, Waiting, CWords
    <2> QED BY <1>a, <2>1, <2>2, <2>3, Team
  <1>d. CASE next < CancelTeam - 1
    <2>1. /\ UNCHANGED <<teamArrivals, request>> /\ next' = next + 1
          /\ cpc' = [cpc EXCEPT ![0] = "gather"]
      BY <1>d DEF GatherWorker
    <2>2. cpc'[0] = "gather" /\ \A w \in Worker : cpc'[w] = cpc[w]
      BY <2>1, Team DEF CPlaces
    <2>3. CType'
      <3>1. CWords'
        BY <1>a, <1>b, <1>d, <2>1, Team DEF CWords
      <3>2. CPlaces'
        BY <1>b, <2>1, Team DEF CPlaces, Places
      <3>3. CProgram'
        BY <1>b, <2>1 DEF CProgram
      <3> QED BY <3>1, <3>2, <3>3 DEF CType
    <2>4. ASSUME NEW w \in Worker PROVE WorkerRight(w)'
      <3>1. WorkerRight(w) /\ (w = next \/ w < next \/ w >= next + 1) /\ next \in Nat
        BY <1>a, Team
      <3>2. w = next => ~(arrivals[w] = teamArrivals)
        BY <1>a DEF CWords
      <3> QED BY <1>a, <1>b, <2>1, <2>2, <3>1, <3>2 DEF WorkerRight, Waiting, Gathers, Stopped
    <2>5. Counted'
      BY <1>a, <1>b, <2>1, <2>2 DEF Counted, Complete, Came, Gathers, Stopped
    <2>6. GompCounted'
      BY <1>a, <1>b, <2>1, Team DEF GompCounted, Stopped, Gathers, CPlaces
    <2>7. StoppedRight'
      <3> SUFFICES ASSUME Stopped PROVE StoppedRight'
        BY <1>b, <2>1 DEF StoppedRight, Stopped
      <3>1. PICK c \in Worker : cpc[c] = "join" /\ next < c
        BY <1>c
      <3>2. c \in CThread /\ cpc'[c] = "join" /\ next' <= c
        BY <1>a, <2>1, <2>2, <3>1, Team
      <3>3. SomebodyLeft'
        BY <3>2 DEF SomebodyLeft
      <3> QED BY <1>b, <2>1, <2>2, <3>3, Team DEF StoppedRight, CPlaces
    <2> QED BY <2>3, <2>4, <2>5, <2>6, <2>7 DEF CInv
  <1>e. CASE ~(next < CancelTeam - 1)
    <2>1. /\ teamArrivals' = teamArrivals + 1 /\ next' = 1 /\ request' = LoopRequestReset
          /\ cpc' = [cpc EXCEPT ![0] = "release"]
      BY <1>e DEF GatherWorker
    <2>2. cpc'[0] = "release" /\ \A w \in Worker : cpc'[w] = cpc[w]
      BY <2>1, Team DEF CPlaces
    <2>3. ~Stopped /\ ~Stopped' /\ \A w \in Worker : w <= next /\ w >= 1
      BY <1>a, <1>b, <1>c, <1>e, <2>1, Team DEF Stopped, LoopRequestReset
    <2>4. CType'
      <3>1. CWords'
        BY <1>b, <2>1, Team DEF CWords
      <3>2. CPlaces'
        BY <1>b, <2>1, Team DEF CPlaces, Places
      <3>3. CProgram'
        BY <1>b, <2>1 DEF CProgram, LoopRequestReset
      <3> QED BY <3>1, <3>2, <3>3 DEF CType
    <2>5. ASSUME NEW w \in Worker PROVE WorkerRight(w)'
      <3>1. WorkerRight(w) /\ (w = next \/ ~(w >= next)) /\ w >= 1
        BY <1>a, <2>3, Team
      <3>2. w = next => ~(arrivals[w] = teamArrivals)
        BY <1>a DEF CWords
      <3>3. Waiting(w) /\ arrivals[w] = teamArrivals + 1 /\ gos[w] = 0
        BY <1>a, <2>3, <3>1, <3>2 DEF WorkerRight
      <3> QED BY <1>b, <2>1, <2>2, <2>3, <3>1, <3>3 DEF WorkerRight, Waiting, Gathers
    <2>6. Counted'
      <3>1. Complete' = Complete + 1
        BY <1>a, <1>b, <2>2, Team DEF Complete, Gathers, CWords
      <3> SUFFICES ASSUME NEW u \in CThread
                   PROVE  entered[u] = Complete' + Came(u)' /\ left[u] <= Complete'
        BY <1>b DEF Counted
      <3>2. Came(u)' = Came(u) - 1
        BY <1>a, <1>b, <2>1, <2>2, Team DEF Came, Gathers, CWords
      <3>3. entered[u] = Complete + Came(u) /\ left[u] <= Complete /\ Came(u) \in {0, 1}
        BY <2>3, CameRight DEF Counted
      <3> QED BY <3>1, <3>2, <3>3, CompleteType DEF CWords
    <2>7. GompCounted'
      BY <1>a, <1>b, <2>1, <2>3, Team DEF GompCounted, Gathers, CPlaces
    <2>8. StoppedRight'
      BY <2>3 DEF StoppedRight
    <2> QED BY <2>4, <2>5, <2>6, <2>7, <2>8 DEF CInv
  <1> QED BY <1>d, <1>e

LEMMA GatherCancelledInv == ASSUME EarlyCancelled, CInv, GatherCancelled PROVE CInv'
  <1>p. /\ CWords /\ CPlaces /\ CProgram /\ \A w \in Worker : WorkerRight(w)
        /\ Counted /\ GompCounted /\ StoppedRight
    BY DEF CInv, CType
  <1> USE <1>p
  <1>1. CType'
    <2>1. CWords'
      BY Team DEF CWords, CPlaces, GatherCancelled, WaitCancels, ParallelCancelled
    <2>2. CPlaces'
      BY Team DEF CPlaces, Places, GatherCancelled, WaitCancels, ParallelCancelled
    <2>3. CProgram'
      BY Team, ProgramRight DEF CProgram, CPlaces, GatherCancelled, WaitCancels, ParallelCancelled
    <2> QED BY <2>1, <2>2, <2>3 DEF CType
  <1>2. \A w \in Worker : WorkerRight(w)'
    <2> TAKE w \in Worker
    <2>1. WorkerRight(w)
      OBVIOUS
    <2> QED BY <2>1, Team DEF CWords, CPlaces, GatherCancelled, WaitCancels, ParallelCancelled,
               WorkerRight, Waiting, Gathers, Stopped
  <1>3. Counted'
    BY Team DEF CWords, CPlaces, GatherCancelled, WaitCancels, ParallelCancelled, Counted,
       Came, Complete, Gathers, Stopped
  <1>4. GompCounted'
    BY Team DEF CWords, CPlaces, GatherCancelled, WaitCancels, ParallelCancelled, GompCounted,
       Stopped
  <1>5. StoppedRight'
    BY Team DEF CWords, CPlaces, GatherCancelled, WaitCancels, ParallelCancelled, StoppedRight,
       SomebodyLeft, Gathers, Stopped
  <1> QED BY <1>1, <1>2, <1>3, <1>4, <1>5 DEF CInv, CType

LEMMA ReleaseWorkerInv == ASSUME EarlyCancelled, CInv, ReleaseWorker PROVE CInv'
  <1>p. /\ CWords /\ CPlaces /\ CProgram /\ \A w \in Worker : WorkerRight(w)
        /\ Counted /\ GompCounted /\ StoppedRight
    BY DEF CInv, CType
  <1> USE <1>p
  <1>a. cpc[0] = "release" /\ next \in Worker /\ WorkerRight(next) /\ ~Stopped /\ ~Gathers
    BY DEF ReleaseWorker, StoppedRight, CWords, Gathers
  <1>b. UNCHANGED <<prog, request, segment, arrivals, teamArrivals, entered>>
    BY DEF ReleaseWorker
  <1>c. Waiting(next) /\ arrivals[next] = teamArrivals /\ gos[next] = 0
    <2>1. ~(next < next) /\ next >= next
      BY <1>a, Team
    <2> QED BY <1>a, <2>1 DEF WorkerRight
  <1>d. /\ gos' = [gos EXCEPT ![next] = @ + 1]
        /\ \A w \in Worker : cpc'[w] = cpc[w]
        /\ cpc'[0] \in {"release", "past", "look"}
        /\ cpc'[0] = "release" => next' = next + 1 /\ cpc' = cpc /\ left' = left
                                /\ next < CancelTeam - 1
        /\ cpc'[0] # "release" => next' = next /\ left' = [left EXCEPT ![0] = entered[0]]
                                  /\ ~(next < CancelTeam - 1)
    BY <1>a, Team DEF ReleaseWorker, PastBarrier, CPlaces
  <1>1. CType'
    <2>1. CWords'
      <3>1. next' \in Worker
        BY <1>a, <1>d, Team
      <3> QED BY <1>b, <1>d, <3>1, Team DEF CWords
    <2>2. CPlaces'
      BY <1>b, Team DEF CPlaces, Places, ReleaseWorker, PastBarrier
    <2>3. CProgram'
      BY <1>b DEF CProgram
    <2> QED BY <2>1, <2>2, <2>3 DEF CType
  <1>2. \A w \in Worker : WorkerRight(w)'
    <2> TAKE w \in Worker
    <2>1. WorkerRight(w) /\ w \in Nat /\ next \in Nat
      BY <1>a, Team
    <2>2. CASE w = next
      <3>1. gos'[w] = 1
        BY <1>c, <1>d, <2>2, Team DEF CWords
      <3>2. cpc'[0] = "release" => ~(w >= next')
        BY <1>d, <2>1, <2>2
      <3> QED BY <1>a, <1>b, <1>c, <1>d, <2>2, <3>1, <3>2 DEF WorkerRight, Waiting, Gathers,
                 Stopped
    <2>3. CASE w # next
      <3>1. gos'[w] = gos[w]
        BY <1>d, <2>3, Team DEF CWords
      <3>2. /\ cpc'[0] = "release" => (w < next <=> w < next') /\ (w >= next <=> w >= next')
            /\ cpc'[0] # "release" => w < next
        BY <1>a, <1>d, <2>1, <2>3, Team
      <3> QED BY <1>a, <1>b, <1>d, <2>1, <3>1, <3>2 DEF WorkerRight, Waiting, Gathers, Stopped
    <2> QED BY <2>2, <2>3
  <1>3. Counted'
    <2>1. Complete' = Complete /\ Complete = entered[0] /\ \A u \in CThread : Came(u)' = Came(u)
      BY <1>a, <1>b, <1>d DEF Complete, Came, Gathers
    <2>2. \A u \in CThread : left'[u] <= Complete
      <3> TAKE u \in CThread
      <3> QED BY <1>a, <1>d, <2>1, Team DEF CWords, Counted
    <2> QED BY <1>a, <1>b, <2>1, <2>2 DEF Counted, Stopped
  <1>4. GompCounted'
    BY <1>a, <1>b, <1>d, Team DEF GompCounted, Stopped
  <1>5. StoppedRight'
    BY <1>a, <1>b DEF StoppedRight, Stopped
  <1> QED BY <1>1, <1>2, <1>3, <1>4, <1>5 DEF CInv

LEMMA NextRegionInv == ASSUME EarlyCancelled, CInv, NextRegion PROVE CInv'
  <1>p. /\ CWords /\ CPlaces /\ CProgram /\ \A w \in Worker : WorkerRight(w)
        /\ Counted /\ GompCounted /\ StoppedRight
    BY DEF CInv, CType
  <1> USE <1>p
  <1>1. CType'
    <2>1. CWords'
      BY Team DEF CWords, CPlaces, NextRegion
    <2>2. CPlaces'
      BY Team DEF CPlaces, Places, NextRegion
    <2>3. CProgram'
      BY Team, ProgramRight DEF CProgram, CPlaces, NextRegion
    <2> QED BY <2>1, <2>2, <2>3 DEF CType
  <1>2. \A w \in Worker : WorkerRight(w)'
    <2> TAKE w \in Worker
    <2>1. WorkerRight(w)
      OBVIOUS
    <2> QED BY <2>1, Team DEF CWords, CPlaces, NextRegion, WorkerRight, Waiting, Gathers, Stopped
  <1>3. Counted'
    <2>1. \A w \in Worker : arrivals[w] = teamArrivals
      <3> TAKE w \in Worker
      <3>1. WorkerRight(w) /\ cpc[w] = "join"
        BY Team DEF NextRegion
      <3> QED BY <3>1 DEF WorkerRight, Waiting
    <2>2. Complete' = 0
      BY Team DEF NextRegion, Complete, Gathers
    <2>3. \A u \in CThread : Came(u)' = 0
      BY <2>1, Team DEF NextRegion, Came, Gathers, CWords
    <2> QED BY <2>2, <2>3 DEF NextRegion, Counted
  <1>4. GompCounted'
    BY Team DEF CWords, CPlaces, NextRegion, GompCounted, Stopped
  <1>5. StoppedRight'
    BY Team DEF CWords, CPlaces, NextRegion, StoppedRight, SomebodyLeft, Gathers, Stopped
  <1> QED BY <1>1, <1>2, <1>3, <1>4, <1>5 DEF CInv, CType

LEMMA CInitInv == CancelInit => CInv
  <1> SUFFICES ASSUME CancelInit PROVE CInv
    OBVIOUS
  <1>1. prog \in CancelPrograms /\ 1 \in 1..Len(prog.segments)
    BY CancelProgramsAssumption DEF CancelInit
  <1>2. CType
    <2>1. CWords
      BY Team DEF CancelInit, CWords
    <2>2. CPlaces
      BY Team DEF CancelInit, CPlaces, Places
    <2>3. CProgram
      BY <1>1 DEF CancelInit, CProgram
    <2> QED BY <2>1, <2>2, <2>3 DEF CType
  <1>3. \A w \in Worker : WorkerRight(w)
    BY Team DEF CancelInit, WorkerRight, Waiting, Gathers
  <1>4. Counted
    BY Team DEF CancelInit, Counted, Complete, Came, Gathers
  <1>5. GompCounted /\ StoppedRight
    BY DEF CancelInit, GompCounted, StoppedRight, Stopped
  <1> QED BY <1>2, <1>3, <1>4, <1>5 DEF CInv

LEMMA CStutterInv == CInv /\ UNCHANGED cancelVars => CInv'
  BY DEF cancelVars, CInv, CType, CWords, CPlaces, CProgram, WorkerRight, Counted, GompCounted,
         StoppedRight, SomebodyLeft, Stopped, Gathers, Waiting, Came, Complete

LEMMA CStepInv == EarlyCancelled /\ CInv /\ [CancelNext]_cancelVars => CInv'
  <1> SUFFICES ASSUME EarlyCancelled, CInv, CancelNext PROVE CInv'
    BY CStutterInv
  <1>1. CASE CancelMaster
    BY <1>1, SpinGatherInv, GatherWorkerInv, GatherCancelledInv, ReleaseWorkerInv DEF CancelMaster
  <1>2. CASE NextRegion
    BY <1>2, NextRegionInv
  <1>3. ASSUME NEW t \in CThread, CancelStep(t) PROVE CInv'
    BY <1>3, CancelInv, CancellationPointInv, EndSegmentInv, ArriveAtBarrierInv, SpinWaitInv,
       LeaveReleaseInv, WaitCancelledInv, GoOnInv, LookAtRequestInv, AfterExtraBarrierInv
       DEF CancelStep
  <1> QED BY <1>1, <1>2, <1>3 DEF CancelNext

(* The invariant of the cancellable barrier holds in every reachable state. *)
THEOREM CancelInductive == ASSUME EarlyCancelled PROVE CancelSpec => []CInv
  BY CInitInv, CStepInv, PTL DEF CancelSpec

(* No thread gets past a barrier that another has not entered, whoever is   *)
(* let go by a cancelled wait: the cancellation half of BarriersHold.       *)
THEOREM CancelledBarriers == ASSUME EarlyCancelled PROVE CancelSpec => []CancelledBarriersHold
  <1>1. CInv => CancelledBarriersHold
    <2> SUFFICES ASSUME CInv, NEW t \in CThread, NEW u \in CThread PROVE left[t] <= entered[u]
      BY DEF CancelledBarriersHold
    <2>1. /\ CWords /\ CPlaces /\ \A w \in Worker : WorkerRight(w)
      BY DEF CInv, CType
    <2>2. left[t] \in Nat /\ entered[u] \in Nat
      BY <2>1 DEF CWords
    <2>3. CASE Stopped
      BY <2>2, <2>3 DEF CInv, StoppedRight
    <2>4. CASE ~Stopped
      <3>1. entered[u] = Complete + Came(u) /\ left[t] <= Complete
        BY <2>4 DEF CInv, Counted
      <3>2. Came(u) \in {0, 1} /\ Complete \in Int
        BY <2>1, CameRight, CompleteType
      <3> QED BY <2>2, <3>1, <3>2
    <2> QED BY <2>3, <2>4
  <1> QED BY <1>1, CancelInductive, PTL

(* When all threads are at the join, every worker's arrival agrees with the *)
(* team's, cancelled or not, and no release is pending: the next barrier    *)
(* starts clean.                                                            *)
THEOREM ArrivalsAreReverted == ASSUME EarlyCancelled PROVE CancelSpec => []ArrivalsReverted
  <1>1. CInv => ArrivalsReverted
    BY Team DEF CInv, WorkerRight, Waiting, ArrivalsReverted, Worker
  <1> QED BY <1>1, CancelInductive, PTL
=============================================================================
