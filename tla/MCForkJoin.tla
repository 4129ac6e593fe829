----------------------------- MODULE MCForkJoin -----------------------------
(***************************************************************************)
(* A worker that sleeps between regions and is woken; regions on the       *)
(* hierarchical fork-join barrier; regions and loops that are cancelled:   *)
(* one kind of run at a time.                                              *)
(***************************************************************************)
EXTENDS SuspendResume, HierBarrier, Cancellation

CONSTANTS Parts, k1, k2

VARIABLE part

TwoWakers == {k1, k2}
AllCalls  == ApiCall

(* Teams of up to five threads that grow, shrink and grow again, with both *)
(* blocktimes, with and without a reserve of threads, and beside the       *)
(* master of another team that grows the hierarchy at the same time.       *)
Env(plan, infinite, reserve, others) ==
    [plan |-> plan, infinite |-> infinite, reserve |-> reserve, others |-> others]

Envs == { Env(<<3, 5, 2, 5>>, TRUE, FALSE, <<>>), Env(<<3, 5, 2>>, FALSE, FALSE, <<>>),
          Env(<<4, 2, 3>>, FALSE, TRUE, <<>>), Env(<<4, 3>>, TRUE, TRUE, <<>>),
          Env(<<2, 3>>, TRUE, FALSE, <<3>>) }

(* Nobody cancels a region after its first barrier: a thread that does so  *)
(* meets others that are still on their way out of it (README, section 5). *)
CancelProgram(gomp, segments, cancels, points) ==
    [gomp |-> gomp, segments |-> segments, cancels |-> cancels, points |-> points, regions |-> 2]

EarlyCancels ==
    { CancelProgram(TRUE, <<"parallel", "parallel">>, {1}, {"parallel"}),
      CancelProgram(TRUE, <<"loop", "loop">>, {1, 2}, {"loop"}),
      CancelProgram(FALSE, <<"parallel", "parallel">>, {1}, {"parallel"}),
      CancelProgram(FALSE, <<"loop", "parallel">>, {1}, {"loop"}) }

-----------------------------------------------------------------------------
(* What a part does not run is given one of its values.                    *)
For(name, values) == IF part = name THEN values ELSE {CHOOSE v \in values : TRUE}

MCInit ==
    /\ part \in Parts
    /\ Init
    /\ env \in For("hierarchy", Environments) /\ HierBarrierInit
    /\ prog \in For("cancellation", CancelPrograms) /\ CancelInit

MCNext ==
    \/ part = "sleep" /\ Next /\ UNCHANGED <<part, hierVars, cancelVars>>
    \/ part = "hierarchy" /\ HierNext /\ UNCHANGED <<part, vars, cancelVars>>
    \/ part = "cancellation" /\ CancelNext /\ UNCHANGED <<part, vars, hierVars>>

(* The fairness of each part, while it runs.                               *)
MCFairness ==
    /\ WF_vars(part = "sleep" /\ (Wait \/ Suspend))
    /\ \A a \in Resumers : /\ WF_vars(part = "sleep" /\ Resume(a))
                           /\ SF_vars(part = "sleep" /\ ResumeLock(a))
    /\ WF_vars(part = "sleep" /\ (WakePaused \/ TrySuspendLock \/ Allocate \/ AllocateUncount
                                  \/ Release \/ ReleaseCheck \/ Join))
    /\ WF_vars(part = "sleep" /\ (ReapPoll \/ ReapWake \/ PoolInsert \/ PoolCount))
    /\ WF_vars(part = "sleep" /\ (TakeFromPool \/ ExitRelease \/ ExitCheck \/ OsJoin))
    /\ WF_hierVars(part = "hierarchy" /\ ForkTeam)
    /\ WF_hierVars(part = "hierarchy" /\ TeamGathered)
    /\ \A t \in Looker : WF_hierVars(part = "hierarchy" /\ HierStep(t))
    /\ WF_cancelVars(part = "cancellation" /\ CancelMaster)
    /\ WF_cancelVars(part = "cancellation" /\ NextRegion)
    /\ \A t \in CThread : WF_cancelVars(part = "cancellation" /\ CancelStep(t))

MCSpec == MCInit /\ [][MCNext]_<<part, vars, hierVars, cancelVars>> /\ MCFairness

-----------------------------------------------------------------------------
(* On the hierarchical barrier only the threads of a region's team run it, *)
(* with the ICVs of its fork, and the master passes its join after all of  *)
(* them; in a region that is cancelled, too, no thread gets past a barrier *)
(* that another has not entered (kmp_barrier.cpp:861-1254, 1609-1628).     *)
BarriersHold == RegionsSeparate /\ CancelledBarriersHold

(* Every region comes to its end with its whole team, whether the teams    *)
(* grow and shrink on the hierarchical barrier or somebody cancels.        *)
RegionsEnd ==
    /\ part = "hierarchy" => RegionsComplete
    /\ part = "cancellation" => CancelledRegionsEnd
=============================================================================
