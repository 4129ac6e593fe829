---------------------------- MODULE SuspendResume ----------------------------
(***************************************************************************)
(* How a worker sleeps on its barrier flag b_go and how it is woken: the   *)
(* wait and release templates of kmp_wait_release.h, the suspend and       *)
(* resume templates of z_Linux_util.cpp, soft pause, and the thread pool's *)
(* count of active threads, which suspend and resume maintain.             *)
(*                                                                         *)
(* One worker waits on its own b_go (plain linear release).  The master    *)
(* forks and joins regions, frees the worker to the thread pool and takes  *)
(* it back, pauses the runtime and shuts it down.  The Wakers are the      *)
(* other threads of the team: they find tasks and wake the worker through  *)
(* its th_sleep_loc (__kmp_null_resume_wrapper).                           *)
(*                                                                         *)
(* b_go is split into its release count "go" (in units of                  *)
(* KMP_BARRIER_STATE_BUMP) and its sleep bit "sleepBit"; the flag is done  *)
(* when the whole word equals the checker, so only while the bit is clear. *)
(***************************************************************************)
EXTENDS Integers, FiniteSets

CONSTANTS
    Wakers,             \* threads that wake the worker to share their tasks
    InfiniteBlocktime,  \* __kmp_dflt_blocktime = KMP_MAX_BLOCKTIME
    ApiCalls,           \* which of ApiCall the program makes
    MaxRegions          \* bound on the parallel regions forked

ApiCall == {"softPause", "resume", "shrink", "shutdown"}

ASSUME WakersAssumption == Wakers \cap {"worker", "master", "free"} = {}
ASSUME BlocktimeAssumption == InfiniteBlocktime \in BOOLEAN
ASSUME ApiAssumption == ApiCalls \subseteq ApiCall
ASSUME RegionsAssumption == MaxRegions \in Nat

Resumers == Wakers \cup {"master"}

VARIABLES
    go, sleepBit,     \* b_go of the worker: release count and sleep bit
    sleepLoc,         \* th_sleep_loc points at that flag
    mx,               \* owner of th_suspend_mx, or "free"
    worker,           \* where the worker is
    master,           \* where the master is
    resuming,         \* progress of each resumer inside __kmp_resume_template
    reap,             \* th_reap_state = KMP_SAFE_TO_REAP
    active, inPool, activeInPool,   \* th_active, th_in_pool, th_active_in_pool
    poolActive,       \* __kmp_thread_pool_active_nth
    soft,             \* __kmp_pause_status = kmp_soft_paused
    done,             \* __kmp_global.g.g_done
    foundTasks,       \* tt_found_tasks of the team's task team
    arrived,          \* the worker has entered the join barrier
    regions           \* regions forked so far

flag    == <<go, sleepBit, sleepLoc, mx>>
pool    == <<active, inPool, activeInPool, poolActive>>
program == <<soft, done, foundTasks, arrived, regions>>
vars == <<go, sleepBit, sleepLoc, mx, worker, master, resuming, reap, active,
          inPool, activeInPool, poolActive, soft, done, foundTasks, arrived,
          regions>>

WorkerAt == {"check", "loop", "decide", "lock", "setDone", "setWait", "set",
             "while", "waiting", "reacquire", "awake", "exit", "working",
             "terminated"}
MasterAt == {"serial", "wake", "tryLock", "allocate", "allocateLock",
             "release", "releaseCheck", "join", "reap", "reapWake", "poolInsert",
             "poolCount", "reapThread", "exitRelease", "exitCheck", "osJoin",
             "ended"}

(* The blocktime and pause tests that allow a thread to suspend at all. *)
MaySleep == ~InfiniteBlocktime \/ soft = 1

(* flag->done_check(): the whole word equals KMP_BARRIER_STATE_BUMP. *)
FlagDone == go = 1 /\ sleepBit = 0

Init ==
    /\ go = 0 /\ sleepBit = 0 /\ sleepLoc = 0 /\ mx = "free"
    /\ worker = "check" /\ master = "serial"
    /\ resuming = [a \in Resumers |-> "no"]
    /\ reap = 0
    /\ active = 1 /\ inPool = 0 /\ activeInPool = 0 /\ poolActive = 0
    /\ soft = 0 /\ done = 0 /\ foundTasks = 0
    /\ arrived = 1 /\ regions = 0

-----------------------------------------------------------------------------
(* __kmp_wait_template, as the worker runs it on b_go. *)

CheckFlag ==
    /\ worker = "check"
    /\ worker' = IF FlagDone THEN "exit" ELSE "loop"
    /\ UNCHANGED <<flag, master, resuming, reap, pool, program>>

(* The thread executes tasks of the team, or it is idle and safe to reap. *)
HelpOrIdle ==
    /\ worker = "loop"
    /\ \/ foundTasks = 1 /\ reap' = 0
       \/ foundTasks = 0 /\ reap' = 1
    /\ worker' = "decide"
    /\ UNCHANGED <<flag, master, resuming, pool, program>>

(* The rest of the spin loop: leave when the library is done, spin on while *)
(* tasks may appear or the blocktime has not passed, else suspend.          *)
Decide ==
    /\ worker = "decide"
    /\ \/ done = 1 /\ worker' = "exit"
       \/ done = 0 /\ worker' = "check"
       \/ done = 0 /\ MaySleep /\ foundTasks = 0 /\ worker' = "lock"
    /\ UNCHANGED <<flag, master, resuming, reap, pool, program>>

(* Mutant: a thread back from suspend takes its flag for released. *)
AfterSuspendUnchecked ==
    /\ worker = "awake"
    /\ worker' = "exit"
    /\ UNCHANGED <<flag, master, resuming, reap, pool, program>>

AfterSuspend ==
    /\ worker = "awake"
    /\ IF done = 1 THEN worker' = "exit" /\ UNCHANGED reap
               ELSE worker' = "check" /\ reap' = 0
    /\ UNCHANGED <<flag, master, resuming, pool, program>>

(* A thread that leaves the wait of the fork barrier because the library is *)
(* done keeps its flag; otherwise b_go is stored back to its initial state. *)
LeaveWait ==
    /\ worker = "exit"
    /\ IF done = 1
         THEN worker' = "terminated" /\ UNCHANGED <<go, sleepBit>>
         ELSE worker' = "working" /\ go' = 0 /\ sleepBit' = 0
    /\ UNCHANGED <<sleepLoc, mx, master, resuming, reap, pool, program>>

(* The microtask returns; the worker arrives at the join barrier and goes   *)
(* on to wait in the fork barrier.                                          *)
ArriveAtJoin ==
    /\ worker = "working"
    /\ worker' = "check"
    /\ arrived' = 1
    /\ UNCHANGED <<flag, master, resuming, reap, pool, soft, done, foundTasks,
                   regions>>

-----------------------------------------------------------------------------
(* __kmp_suspend_template. *)

SuspendLock ==
    /\ worker = "lock" /\ mx = "free"
    /\ mx' = "worker"
    /\ worker' = "set"
    /\ UNCHANGED <<go, sleepBit, sleepLoc, master, resuming, reap, pool, program>>

(* Mutant: the old value of the flag is not tested after the bit is set. *)
SetSleepingUntested ==
    /\ worker = "set"
    /\ sleepBit' = 1
    /\ worker' = "setWait"
    /\ UNCHANGED <<go, sleepLoc, mx, master, resuming, reap, pool, program>>

SetSleeping ==
    /\ worker = "set"
    /\ sleepBit' = 1
    /\ worker' = IF FlagDone THEN "setDone" ELSE "setWait"
    /\ UNCHANGED <<go, sleepLoc, mx, master, resuming, reap, pool, program>>

(* The bit is taken back when suspension is off or the flag was already     *)
(* released (a false alarm).                                                *)
UnsetSleeping ==
    /\ \/ worker = "setDone"
       \/ worker = "setWait" /\ ~MaySleep
    /\ sleepBit' = 0
    /\ mx' = "free"
    /\ worker' = "awake"
    /\ UNCHANGED <<go, sleepLoc, master, resuming, reap, pool, program>>

PublishSleepLoc ==
    /\ worker = "setWait" /\ MaySleep
    /\ sleepLoc' = 1
    /\ worker' = "while"
    /\ UNCHANGED <<go, sleepBit, mx, master, resuming, reap, pool, program>>

(* pthread_cond_wait; only the first iteration marks the thread inactive. *)
CondWait ==
    /\ worker = "while" /\ sleepBit = 1
    /\ active' = 0
    /\ IF active = 1 /\ activeInPool = 1
         THEN activeInPool' = 0 /\ poolActive' = poolActive - 1
         ELSE UNCHANGED <<activeInPool, poolActive>>
    /\ mx' = "free"
    /\ worker' = "waiting"
    /\ UNCHANGED <<go, sleepBit, sleepLoc, master, resuming, reap, inPool,
                   program>>

SpuriousWakeup ==
    /\ worker = "waiting"
    /\ worker' = "reacquire"
    /\ UNCHANGED <<flag, master, resuming, reap, pool, program>>

Reacquire ==
    /\ worker = "reacquire" /\ mx = "free"
    /\ mx' = "worker"
    /\ worker' = "while"
    /\ UNCHANGED <<go, sleepBit, sleepLoc, master, resuming, reap, pool, program>>

WakeUp ==
    /\ worker = "while" /\ sleepBit = 0
    /\ active' = 1
    /\ IF active = 0 /\ inPool = 1
         THEN activeInPool' = 1 /\ poolActive' = poolActive + 1
         ELSE UNCHANGED <<activeInPool, poolActive>>
    /\ mx' = "free"
    /\ worker' = "awake"
    /\ UNCHANGED <<go, sleepBit, sleepLoc, master, resuming, reap, inPool,
                   program>>

-----------------------------------------------------------------------------
(* __kmp_resume_template, run by the master on b_go and by a waker on       *)
(* whatever flag th_sleep_loc names once the mutex is held.                 *)

StartResume(a) == resuming' = [resuming EXCEPT ![a] = "lock"]

ResumeLock(a) ==
    /\ resuming[a] = "lock" /\ mx = "free"
    /\ mx' = a
    /\ resuming' = [resuming EXCEPT ![a] = "unset"]
    /\ UNCHANGED <<go, sleepBit, sleepLoc, worker, master, reap, pool, program>>

AlreadyAwake(a) == (a \in Wakers /\ sleepLoc = 0) \/ sleepBit = 0

ResumeUnset(a) ==
    /\ resuming[a] = "unset"
    /\ IF AlreadyAwake(a)
         THEN /\ mx' = "free"
              /\ resuming' = [resuming EXCEPT ![a] = "no"]
              /\ UNCHANGED sleepBit
         ELSE /\ sleepBit' = 0
              /\ resuming' = [resuming EXCEPT ![a] = "signal"]
              /\ UNCHANGED mx
    /\ UNCHANGED <<go, sleepLoc, worker, master, reap, pool, program>>

(* Mutant: th_sleep_loc keeps the flag. *)
ResumeSignalKeepsLoc(a) ==
    /\ resuming[a] = "signal"
    /\ worker' = IF worker = "waiting" THEN "reacquire" ELSE worker
    /\ mx' = "free"
    /\ resuming' = [resuming EXCEPT ![a] = "no"]
    /\ UNCHANGED <<go, sleepBit, sleepLoc, master, reap, pool, program>>

ResumeSignal(a) ==
    /\ resuming[a] = "signal"
    /\ sleepLoc' = 0
    /\ worker' = IF worker = "waiting" THEN "reacquire" ELSE worker
    /\ mx' = "free"
    /\ resuming' = [resuming EXCEPT ![a] = "no"]
    /\ UNCHANGED <<go, sleepBit, master, reap, pool, program>>

-----------------------------------------------------------------------------
(* The other threads of the team, while the region is open. *)

EnableTasking ==
    /\ Wakers # {}
    /\ master = "join" /\ foundTasks = 0
    /\ foundTasks' = 1
    /\ UNCHANGED <<flag, worker, master, resuming, reap, pool, soft, done,
                   arrived, regions>>

WakeSleeper(k) ==
    /\ resuming[k] = "no"
    /\ foundTasks = 1 /\ ~InfiniteBlocktime /\ sleepLoc = 1
    /\ StartResume(k)
    /\ UNCHANGED <<flag, worker, master, reap, pool, program>>

-----------------------------------------------------------------------------
(* The master.  It takes no step of its own while it is inside a resume.    *)

MasterStep(from, to) ==
    /\ master = from
    /\ resuming["master"] = "no"
    /\ master' = to

(* __kmp_fork_call begins: a soft pause ends and its sleepers are woken. *)
Fork ==
    /\ MasterStep("serial", IF soft = 1 THEN "wake" ELSE "allocate")
    /\ regions < MaxRegions
    /\ regions' = regions + 1
    /\ soft' = 0
    /\ UNCHANGED <<flag, worker, resuming, reap, pool, done, foundTasks, arrived>>

WakePaused ==
    /\ MasterStep("wake", IF sleepBit = 1 THEN "allocate" ELSE "tryLock")
    /\ IF sleepBit = 1 THEN StartResume("master") ELSE UNCHANGED resuming
    /\ UNCHANGED <<flag, worker, reap, pool, program>>

(* __kmp_try_suspend_mx succeeds: the thread will not sleep; otherwise look *)
(* at its flag again.                                                       *)
TrySuspendLock ==
    /\ MasterStep("tryLock", IF mx = "free" THEN "allocate" ELSE "wake")
    /\ UNCHANGED <<flag, worker, resuming, reap, pool, program>>

(* __kmp_allocate_thread: take the worker from the pool if it is there. *)
Allocate ==
    /\ MasterStep("allocate", IF inPool = 1 THEN "allocateLock" ELSE "release")
    /\ inPool' = 0
    /\ UNCHANGED <<flag, worker, resuming, reap, active, activeInPool, poolActive,
                   program>>

AllocateUncount ==
    /\ MasterStep("allocateLock", "release")
    /\ mx = "free"
    /\ activeInPool' = 0
    /\ poolActive' = poolActive - activeInPool
    /\ UNCHANGED <<flag, worker, resuming, reap, active, inPool, program>>

(* __kmp_release_template on b_go. *)
Release ==
    /\ MasterStep("release", "releaseCheck")
    /\ go' = go + 1
    /\ arrived' = 0
    /\ UNCHANGED <<sleepBit, sleepLoc, mx, worker, resuming, reap, pool, soft,
                   done, foundTasks, regions>>

ResumeIfSleeping ==
    IF ~InfiniteBlocktime /\ sleepBit = 1 THEN StartResume("master")
                                          ELSE UNCHANGED resuming

(* Mutant: the release does not look for a sleeper. *)
ReleaseCheckBlind ==
    /\ MasterStep("releaseCheck", "join")
    /\ UNCHANGED <<flag, worker, resuming, reap, pool, program>>

ReleaseCheck ==
    /\ MasterStep("releaseCheck", "join")
    /\ ResumeIfSleeping
    /\ UNCHANGED <<flag, worker, reap, pool, program>>

Join ==
    /\ MasterStep("join", "serial")
    /\ arrived = 1
    /\ foundTasks' = 0
    /\ UNCHANGED <<flag, worker, resuming, reap, pool, soft, done, arrived, regions>>

(* __kmp_free_team: wait until every thread is safe to reap, waking the     *)
(* ones that sleep.  The wakers are not safe while they execute tasks.      *)
FreeTeam ==
    /\ "shrink" \in ApiCalls
    /\ inPool = 0
    /\ MasterStep("serial", "reap")
    /\ UNCHANGED <<flag, worker, resuming, reap, pool, program>>

ReapPoll ==
    /\ MasterStep("reap", IF reap = 1 /\ \A k \in Wakers : resuming[k] = "no"
                            THEN "poolInsert" ELSE "reapWake")
    /\ UNCHANGED <<flag, worker, resuming, reap, pool, program>>

ReapWake ==
    /\ MasterStep("reapWake", "reap")
    /\ IF sleepBit = 1 THEN StartResume("master") ELSE UNCHANGED resuming
    /\ UNCHANGED <<flag, worker, reap, pool, program>>

(* __kmp_free_thread: th_in_pool is stored before the suspend mutex is      *)
(* taken for the count.                                                     *)
PoolInsert ==
    /\ MasterStep("poolInsert", "poolCount")
    /\ inPool' = 1
    /\ reap' = 1
    /\ UNCHANGED <<flag, worker, resuming, active, activeInPool, poolActive,
                   program>>

PoolCount ==
    /\ MasterStep("poolCount", "serial")
    /\ mx = "free"
    /\ IF active = 1
         THEN activeInPool' = 1 /\ poolActive' = poolActive + 1
         ELSE UNCHANGED <<activeInPool, poolActive>>
    /\ UNCHANGED <<flag, worker, resuming, reap, active, inPool, program>>

(* __kmp_pause_resource *)
SoftPause ==
    /\ "softPause" \in ApiCalls
    /\ MasterStep("serial", "serial")
    /\ soft = 0 /\ soft' = 1
    /\ UNCHANGED <<flag, worker, resuming, reap, pool, done, foundTasks, arrived,
                   regions>>

ResumeRequest ==
    /\ "resume" \in ApiCalls
    /\ MasterStep("serial", "serial")
    /\ soft = 1 /\ soft' = 0
    /\ UNCHANGED <<flag, worker, resuming, reap, pool, done, foundTasks, arrived,
                   regions>>

(* __kmp_internal_end and __kmp_reap_thread: the hot team has been freed.   *)
Shutdown ==
    /\ "shutdown" \in ApiCalls
    /\ inPool = 1
    /\ MasterStep("serial", "reapThread")
    /\ done' = 1
    /\ UNCHANGED <<flag, worker, resuming, reap, pool, soft, foundTasks, arrived,
                   regions>>

TakeFromPool ==
    /\ MasterStep("reapThread", IF InfiniteBlocktime THEN "osJoin" ELSE "exitRelease")
    /\ inPool' = 0
    /\ activeInPool' = 0
    /\ poolActive' = poolActive - 1
    /\ UNCHANGED <<flag, worker, resuming, reap, active, program>>

ExitRelease ==
    /\ MasterStep("exitRelease", "exitCheck")
    /\ go' = go + 1
    /\ UNCHANGED <<sleepBit, sleepLoc, mx, worker, resuming, reap, pool, program>>

(* Mutant: the release for the reap does not look for a sleeper. *)
ExitCheckBlind ==
    /\ MasterStep("exitCheck", "osJoin")
    /\ UNCHANGED <<flag, worker, resuming, reap, pool, program>>

ExitCheck ==
    /\ MasterStep("exitCheck", "osJoin")
    /\ ResumeIfSleeping
    /\ UNCHANGED <<flag, worker, reap, pool, program>>

OsJoin ==
    /\ MasterStep("osJoin", "ended")
    /\ worker = "terminated"
    /\ activeInPool' = 0
    /\ poolActive' = poolActive - activeInPool
    /\ UNCHANGED <<flag, worker, resuming, reap, active, inPool, program>>

-----------------------------------------------------------------------------
Wait    == CheckFlag \/ HelpOrIdle \/ Decide \/ AfterSuspend \/ LeaveWait
           \/ ArriveAtJoin
Suspend == SuspendLock \/ SetSleeping \/ UnsetSleeping \/ PublishSleepLoc
           \/ CondWait \/ Reacquire \/ WakeUp
Resume(a) == ResumeLock(a) \/ ResumeUnset(a) \/ ResumeSignal(a)
ForkJoin  == Fork \/ WakePaused \/ TrySuspendLock \/ Allocate \/ AllocateUncount
             \/ Release \/ ReleaseCheck \/ Join
FreeAndReap == FreeTeam \/ ReapPoll \/ ReapWake \/ PoolInsert \/ PoolCount
Pause     == SoftPause \/ ResumeRequest
End       == Shutdown \/ TakeFromPool \/ ExitRelease \/ ExitCheck \/ OsJoin

Next ==
    \/ Wait \/ Suspend \/ SpuriousWakeup
    \/ \E a \in Resumers : Resume(a)
    \/ EnableTasking
    \/ \E k \in Wakers : WakeSleeper(k)
    \/ ForkJoin \/ FreeAndReap \/ Pause \/ End

Safety == Init /\ [][Next]_vars

(* Every thread that can run runs.  Nothing obliges the program to call the *)
(* runtime, a waker to look for sleepers, or the C library to wake a thread *)
(* spuriously.  The suspend mutex is given in the end to a resumer that     *)
(* waits for it: only endless spurious wakeups could keep it away.          *)
Fairness ==
    /\ WF_vars(Wait \/ Suspend)
    /\ \A a \in Resumers : WF_vars(Resume(a)) /\ SF_vars(ResumeLock(a))
    /\ WF_vars(WakePaused \/ TrySuspendLock \/ Allocate \/ AllocateUncount
               \/ Release \/ ReleaseCheck \/ Join)
    /\ WF_vars(ReapPoll \/ ReapWake \/ PoolInsert \/ PoolCount)
    /\ WF_vars(TakeFromPool \/ ExitRelease \/ ExitCheck \/ OsJoin)

Spec == Safety /\ Fairness

-----------------------------------------------------------------------------
TypeOK ==
    /\ go \in 0..1 /\ sleepBit \in 0..1 /\ sleepLoc \in 0..1
    /\ mx \in Resumers \cup {"worker", "free"}
    /\ worker \in WorkerAt /\ master \in MasterAt
    /\ resuming \in [Resumers -> {"no", "lock", "unset", "signal"}]
    /\ reap \in 0..1 /\ active \in 0..1 /\ inPool \in 0..1
    /\ activeInPool \in 0..1 /\ poolActive \in Int
    /\ soft \in 0..1 /\ done \in 0..1 /\ foundTasks \in 0..1
    /\ arrived \in 0..1 /\ regions \in 0..MaxRegions

(* Outside the suspend mutex th_sleep_loc names the flag exactly when the   *)
(* flag's sleep bit is set, so a thread that wakes a sleeper through        *)
(* th_sleep_loc neither misses it nor clears a bit nobody sleeps on.        *)
SleepLocAgrees == mx = "free" => sleepLoc = sleepBit

(* No wakeup is lost: a worker that is blocked on its condition variable    *)
(* while its flag has been released is about to be resumed by the master,   *)
(* which has still to test the sleep bit or is already in the resume.       *)
MasterOwesWakeup ==
    \/ master \in {"releaseCheck", "exitCheck"}
    \/ resuming["master"] \in {"lock", "unset"}

NoLostWakeup ==
    worker = "waiting" =>
        /\ sleepBit = 1 /\ go = 1 => MasterOwesWakeup
        /\ sleepBit = 0 => \E a \in Resumers : resuming[a] = "signal"

(* However late a resume comes, it never lets the worker into a region that *)
(* has not been released, nor past a release that is not its own.           *)
WorksOnlyWhenReleased ==
    worker = "working" =>
        master \in {"releaseCheck", "join"} /\ go = 0 /\ arrived = 0

(* __kmp_suspend_template asserts that the pool's count of active threads   *)
(* does not go below zero when a pooled thread falls asleep.                *)
PoolCountNotNegative == done = 0 => poolActive >= 0

(* th_active_in_pool says that the thread is included in the count of       *)
(* active threads in the pool; with one worker the count is then 0 or 1.    *)
PoolCountExact ==
    mx = "free" /\ done = 0 => poolActive = activeInPool

(* __kmp_internal_end asserts that a thread it takes from the pool is safe  *)
(* to reap.                                                                 *)
PooledThreadIsReapable == master = "reapThread" => reap = 1

(* With infinite blocktime the properties rest on the program never asking  *)
(* for the explicit resume of a soft pause, which wakes nobody.             *)
SafeCalls == InfiniteBlocktime => "resume" \notin ApiCalls

(* The strengthening that makes the properties above inductive: who holds   *)
(* the suspend mutex where, what the sleep bit and th_sleep_loc are at each *)
(* point of suspend and resume, and in which phase of the master the flag   *)
(* can be released or the runtime soft paused.                              *)
MutexHolder ==
    /\ mx = "worker" <=> worker \in {"set", "setDone", "setWait", "while"}
    /\ \A a \in Resumers : mx = a <=> resuming[a] \in {"unset", "signal"}

Blocked == worker \in {"waiting", "reacquire"}

SleepState ==
    /\ ~Blocked /\ worker \notin {"setDone", "setWait", "while"} =>
           sleepBit = 0 /\ sleepLoc = 0
    /\ worker \in {"setDone", "setWait"} => sleepBit = 1 /\ sleepLoc = 0
    /\ worker = "while" => sleepLoc = sleepBit
    /\ \A a \in Resumers :
          resuming[a] = "signal" => Blocked /\ sleepBit = 0 /\ sleepLoc = 1
    /\ Blocked => \/ sleepLoc = sleepBit
                  \/ \E a \in Resumers : resuming[a] = "signal"
    /\ worker = "waiting" /\ sleepBit = 0 =>
           \E a \in Resumers : resuming[a] = "signal"

InRegion == master \in {"releaseCheck", "join"}
Ending   == master \in {"reapThread", "exitRelease", "exitCheck", "osJoin", "ended"}
InFork   == master \in {"wake", "tryLock", "allocate", "allocateLock", "release"}

Phases ==
    /\ go = 1 => \/ InRegion /\ arrived = 0
                 \/ ~InfiniteBlocktime /\ master \in {"exitCheck", "osJoin", "ended"}
    /\ ~InRegion => arrived = 1
    /\ done = 1 <=> Ending
    /\ soft = 1 => ~InRegion /\ ~InFork
    /\ InfiniteBlocktime => master \notin {"exitRelease", "exitCheck"}
    /\ worker = "exit" => done = 1 \/ go = 1
    /\ worker = "working" => InRegion /\ go = 0 /\ arrived = 0

(* A sleep bit set before the release is seen by the master after it.       *)
ReleaseSeesSleeper ==
    /\ /\ sleepBit = 1 /\ go = 1
       /\ \/ Blocked \/ worker = "while"
          \/ worker = "setWait" /\ ~InfiniteBlocktime
       => MasterOwesWakeup
    /\ InfiniteBlocktime /\ soft = 0 /\ sleepBit = 1 /\ (Blocked \/ worker = "while")
       => master = "wake" \/ resuming["master"] \in {"lock", "unset"}

PoolCountCovers ==
    done = 0 => poolActive >= activeInPool

IInv == TypeOK /\ MutexHolder /\ SleepState /\ Phases /\ ReleaseSeesSleeper
        /\ PoolCountCovers

(* A worker that has been released starts its region. *)
ReleasedWorkerRuns == (go = 1 /\ done = 0) ~> (worker = "working")

(* A shutdown that has begun joins the worker thread and ends. *)
ShutdownEnds == done = 1 ~> (master = "ended")
=============================================================================
