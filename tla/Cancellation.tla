---------------------------- MODULE Cancellation ----------------------------
(***************************************************************************)
(* Cancellation of a parallel region or of a loop in a team                *)
(* (kmp_cancel.cpp), by way of the team's t_cancel_request, and the        *)
(* barriers that let cancelled threads go: the GOMP entry points wait in   *)
(* a linear barrier that a waiting thread leaves as soon as the region is  *)
(* cancelled (kmp_barrier.cpp, kmp_wait_release.h), the KMPC ones go       *)
(* through whole barriers and look at the request in between.              *)
(*                                                                         *)
(* A region is a sequence of segments, each ended by such a barrier; a     *)
(* cancelled thread leaves for the join.  The join and the fork of the     *)
(* next region are one step: their barrier is of another type.             *)
(***************************************************************************)
EXTENDS Naturals, Sequences, FiniteSetsExt

CONSTANTS CancelTeam,       \* number of threads
          CancelPrograms    \* [gomp, segments, cancels, points, regions]: the entry points,
                            \* each segment "parallel" or "loop", the segments that may
                            \* cancel their kind, the kinds of their cancellation points

SegmentKinds == {"parallel", "loop"}

ASSUME CancelTeamAssumption == CancelTeam \in Nat \ {0, 1}
ASSUME CancelProgramsAssumption ==
    \A p \in CancelPrograms :
        p.gomp \in BOOLEAN /\ p.segments \in Seq(SegmentKinds) /\ Len(p.segments) > 0

CThread == 0..(CancelTeam - 1)

VARIABLES
    prog,
    region,         \* regions forked
    request,        \* t_cancel_request
    cpc,            \* where each thread is
    segment,        \* its segment
    round,          \* which of the barriers of a cancel barrier it is in
    arrivals, gos, teamArrivals,    \* b_arrived and b_go of bs_plain_barrier
    next,           \* the worker that the master gathers or releases
    entered, left,  \* history: barriers of this region entered, and left uncancelled
    aborted         \* KMP_ASSERT(0) was reached

cancelVars == <<prog, region, request, cpc, segment, round, arrivals, gos, teamArrivals, next,
                entered, left, aborted>>
cwords  == <<arrivals, gos, teamArrivals>>
history == <<entered, left>>

CancelInit ==
    /\ prog \in CancelPrograms
    /\ region = 1 /\ request = "noreq" /\ aborted = FALSE
    /\ cpc = [t \in CThread |-> "run"]
    /\ segment = [t \in CThread |-> 1] /\ round = [t \in CThread |-> 1]
    /\ arrivals = [t \in CThread |-> 0] /\ gos = [t \in CThread |-> 0] /\ teamArrivals = 0
    /\ next = 1
    /\ entered = [t \in CThread |-> 0] /\ left = [t \in CThread |-> 0]

Stands(t, c) == cpc[t] = c
To(t, c) == cpc' = [cpc EXCEPT ![t] = c]
SegmentKind(t)  == prog.segments[segment[t]]

-----------------------------------------------------------------------------
(* A cancelled thread goes to the end of its construct: of the loop, where *)
(* its barrier is, or of the region, for KMPC by way of a cancel barrier.  *)
LeaveConstruct(t, kind) ==
    To(t, IF kind = "parallel" /\ prog.gomp THEN "join" ELSE "arrive")

Cancel(t) ==
    /\ Stands(t, "run") /\ segment[t] \in prog.cancels
    /\ request' = IF request = "noreq" THEN SegmentKind(t) ELSE request
    /\ IF request \in {"noreq", SegmentKind(t)} THEN LeaveConstruct(t, SegmentKind(t))
       ELSE UNCHANGED cpc
    /\ UNCHANGED <<prog, region, segment, round, cwords, next, history, aborted>>

(* A request of another kind than the point's is an assertion failure.     *)
CancellationPoint(t) ==
    /\ Stands(t, "run") /\ request # "noreq"
    /\ SegmentKind(t) \in prog.points
    /\ IF request = SegmentKind(t) THEN LeaveConstruct(t, SegmentKind(t)) /\ UNCHANGED aborted
       ELSE aborted' = TRUE /\ UNCHANGED cpc
    /\ UNCHANGED <<prog, region, request, segment, round, cwords, next, history>>

(* The end of the segment.                                                 *)
EndSegment(t) ==
    /\ Stands(t, "run") /\ To(t, "arrive")
    /\ UNCHANGED <<prog, region, request, segment, round, cwords, next, history, aborted>>

-----------------------------------------------------------------------------
(* The linear barrier.  Only the one of the GOMP entry points may be       *)
(* cancelled.                                                              *)
ArriveAtBarrier(t) ==
    /\ Stands(t, "arrive")
    /\ entered' = [entered EXCEPT ![t] = @ + 1]
    /\ IF t = 0 THEN To(t, "gather") /\ next' = 1 /\ UNCHANGED arrivals
       ELSE To(t, "wait") /\ arrivals' = [arrivals EXCEPT ![t] = @ + 1] /\ UNCHANGED next
    /\ UNCHANGED <<prog, region, request, segment, round, gos, teamArrivals, left, aborted>>

ParallelCancelled == prog.gomp /\ request = "parallel"

(* What __kmp_wait_template returns: a flag that is set when the wait      *)
(* begins counts, later a cancelled region does.                           *)
WaitPasses(t, spinning, flag)  == flag /\ (Stands(t, spinning) => ~ParallelCancelled)
(* Mutant: a wait that nothing cancels.                                    *)
WaitCancelsNever(t, spinning, flag) == FALSE

WaitCancels(t, spinning, flag) == ParallelCancelled /\ (flag => Stands(t, spinning))

Spin(t, from, spinning, flag) ==
    /\ Stands(t, from) /\ ~flag /\ ~ParallelCancelled
    /\ To(t, spinning)
    /\ UNCHANGED <<prog, region, request, segment, round, cwords, next, history, aborted>>

WorkerArrived(i) == arrivals[i] = teamArrivals + 1

SpinGather == Spin(0, "gather", "gatherSpin", WorkerArrived(next))

(* The request to cancel a loop ends with the barrier at the loop's end.   *)
LoopRequestReset == IF request = "loop" THEN "noreq" ELSE request

GatherWorker ==
    /\ Stands(0, "gather") \/ Stands(0, "gatherSpin")
    /\ WaitPasses(0, "gatherSpin", WorkerArrived(next))
    /\ IF next < CancelTeam - 1
       THEN To(0, "gather") /\ next' = next + 1 /\ UNCHANGED <<teamArrivals, request>>
       ELSE /\ teamArrivals' = teamArrivals + 1
            /\ request' = LoopRequestReset
            /\ To(0, "release") /\ next' = 1
    /\ UNCHANGED <<prog, region, segment, round, arrivals, gos, history, aborted>>

GatherCancelled ==
    /\ Stands(0, "gather") \/ Stands(0, "gatherSpin")
    /\ WaitCancels(0, "gatherSpin", WorkerArrived(next))
    /\ To(0, "join")
    /\ UNCHANGED <<prog, region, request, segment, round, cwords, next, history, aborted>>

(* Past a barrier: a GOMP thread goes on, a KMPC thread looks further.     *)
PastBarrier(t) == To(t, IF prog.gomp THEN "past" ELSE "look")

ReleaseWorker ==
    /\ Stands(0, "release")
    /\ gos' = [gos EXCEPT ![next] = @ + 1]
    /\ IF next < CancelTeam - 1 THEN next' = next + 1 /\ UNCHANGED <<cpc, left>>
       ELSE PastBarrier(0) /\ left' = [left EXCEPT ![0] = entered[0]] /\ UNCHANGED next
    /\ UNCHANGED <<prog, region, request, segment, round, arrivals, teamArrivals, entered, aborted>>

SpinWait(t) == t # 0 /\ Spin(t, "wait", "waitSpin", gos[t] = 1)

LeaveRelease(t) ==
    /\ Stands(t, "wait") \/ Stands(t, "waitSpin")
    /\ WaitPasses(t, "waitSpin", gos[t] = 1)
    /\ gos' = [gos EXCEPT ![t] = 0]
    /\ left' = [left EXCEPT ![t] = entered[t]]
    /\ PastBarrier(t)
    /\ UNCHANGED <<prog, region, request, segment, round, arrivals, teamArrivals, next, entered, aborted>>

(* Mutant: a cancelled worker leaves its arrival standing.                 *)
RevertArrivalNever(t) == arrivals

(* A cancelled worker takes its arrival back.                              *)
RevertArrival(t) == [arrivals EXCEPT ![t] = @ - 1]

WaitCancelled(t) ==
    /\ Stands(t, "wait") \/ Stands(t, "waitSpin")
    /\ WaitCancels(t, "waitSpin", gos[t] = 1)
    /\ arrivals' = RevertArrival(t)
    /\ To(t, "join")
    /\ UNCHANGED <<prog, region, request, segment, round, gos, teamArrivals, next, history, aborted>>

-----------------------------------------------------------------------------
NextSegment(t) ==
    IF segment[t] < Len(prog.segments)
    THEN segment' = [segment EXCEPT ![t] = @ + 1] /\ To(t, "run")
    ELSE To(t, "join") /\ UNCHANGED segment

GoOn(t) ==
    /\ Stands(t, "past") /\ NextSegment(t)
    /\ UNCHANGED <<prog, region, request, round, cwords, next, history, aborted>>

(* __kmpc_cancel_barrier: the request read after the first barrier; a      *)
(* second one, so that all have read it before it is reset, and for a loop *)
(* a third.                                                                *)
LookAtRequest(t) ==
    /\ Stands(t, "look") /\ round[t] = 1
    /\ IF request = "noreq" THEN NextSegment(t) /\ UNCHANGED round
       ELSE /\ round' = [round EXCEPT ![t] = IF request = "parallel" THEN 2 ELSE 3]
            /\ To(t, "arrive") /\ UNCHANGED segment
    /\ UNCHANGED <<prog, region, request, cwords, next, history, aborted>>

AfterExtraBarrier(t) ==
    /\ Stands(t, "look") /\ round[t] # 1
    /\ request' = IF round[t] = 4 THEN request ELSE "noreq"
    /\ To(t, IF round[t] = 3 THEN "arrive" ELSE "join")
    /\ round' = [round EXCEPT ![t] = IF round[t] = 3 THEN 4 ELSE 1]
    /\ UNCHANGED <<prog, region, segment, cwords, next, history, aborted>>

(* All have joined: the next region is forked, its team without a request. *)
NextRegion ==
    /\ \A t \in CThread : Stands(t, "join")
    /\ region < prog.regions
    /\ region' = region + 1 /\ request' = "noreq"
    /\ cpc' = [t \in CThread |-> "run"]
    /\ segment' = [t \in CThread |-> 1]
    /\ entered' = [t \in CThread |-> 0] /\ left' = [t \in CThread |-> 0]
    /\ UNCHANGED <<prog, round, cwords, next, aborted>>

CancelStep(t) ==
    \/ Cancel(t) \/ CancellationPoint(t) \/ EndSegment(t) \/ ArriveAtBarrier(t)
    \/ SpinWait(t) \/ LeaveRelease(t) \/ WaitCancelled(t)
    \/ GoOn(t) \/ LookAtRequest(t) \/ AfterExtraBarrier(t)

CancelMaster == SpinGather \/ GatherWorker \/ GatherCancelled \/ ReleaseWorker

CancelNext == ~aborted /\ (CancelMaster \/ NextRegion \/ \E t \in CThread : CancelStep(t))

CancelFairness ==
    /\ WF_cancelVars(CancelMaster) /\ WF_cancelVars(NextRegion)
    /\ \A t \in CThread : WF_cancelVars(CancelStep(t))

CancelSpec == CancelInit /\ [][CancelNext]_cancelVars /\ CancelFairness

-----------------------------------------------------------------------------
(* Also with threads that leave barriers half-way and take their arrivals  *)
(* back, no thread gets past a barrier that another has not entered, in    *)
(* this region or in a later one (kmp_barrier.cpp:1609-1628).              *)
CancelledBarriersHold == \A t, u \in CThread : left[t] <= entered[u]

(* A region ends also when it, or a loop in it, is cancelled: nobody stays *)
(* behind in a barrier (kmp_cancel.cpp:245-293).                           *)
CancelledRegionsEnd == <>(region = prog.regions /\ \A t \in CThread : Stands(t, "join"))

(* "Workers need to revert their private b_arrived flag"                   *)
(* (kmp_barrier.cpp:1619): then it agrees with the team's for the next     *)
(* barrier, and no release is pending.                                     *)
ArrivalsReverted ==
    (\A t \in CThread : Stands(t, "join"))
        => \A t \in CThread \ {0} : arrivals[t] = teamArrivals /\ gos[t] = 0

(* "returns true if a matching cancellation request has been flagged in    *)
(* the RTL" (kmp_cancel.cpp:132): without one it returns.                  *)
PointsReturn == ~aborted
=============================================================================
