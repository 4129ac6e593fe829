# A TLA+ model of the VxWorks OpenMP runtime

The repository is the VxWorks port of the LLVM OpenMP runtime (libomp 5.0): a
library that a compiler calls to run parallel regions, barriers, worksharing
loops, tasks and locks. This directory models it in TLA+, checks the models with
TLC on small instances, and proves what matters most for every instance with
TLAPS. Every definition is translated from the source; `PROJECT.json` names the
lines. Line numbers below are those of `src/src/`.

The models are of the build that the repository's own build files make for
VxWorks: no affinity (`KMP_AFFINITY_SUPPORTED` is 0), no hierarchical scheduling,
no OMPT, statistics or debug assertions, dynamic locks, nested hot teams and
static stealing compiled in, GOMP compatibility on, no futex, no fork, no monitor
thread. `KMP_ASSERT` is an assertion of that build; `KMP_DEBUG_ASSERT` is not.

## 1. Inventory

| Component | Source | State | Operations | What makes it correct |
|---|---|---|---|---|
| Suspend and resume | `kmp_wait_release.h`, `z_Linux_util.cpp` | the waited flag with its sleep bit, `th_sleep_loc`, suspend mutex and condition, `th_active`, `th_reap_state` | wait, release, suspend, resume, soft pause | no wakeup is lost, no stray wakeup is taken for a release |
| Team barriers | `kmp_barrier.cpp`, `kmp_affinity.h` | per barrier type: `b_arrived` and `b_go` of each thread, `t_bar[bt].b_arrived` of the team; `reduce_data`; ICVs; the machine hierarchy | gather, release, split barrier, fork and join barrier, hierarchical barrier and its growth | nobody leaves before all have entered, everybody is released, reduction complete, ICVs of the fork |
| Cancellation | `kmp_cancel.cpp`, `kmp_barrier.cpp` 1609-1628 | `t_cancel_request` | cancel, cancellation point, cancel barrier | one kind at a time, the request is reset for the next construct, barriers hold all the same |
| Task deques | `kmp_tasking.cpp` 256-430, 2351-2548, 3424-3497 | `td_deque`, head, tail, count, size, lock of each thread | push, pop own, steal, give, grow | a task is executed once, task scheduling constraint |
| Task life cycle | `kmp_tasking.cpp` 495-957, 1159-1368, 1826-2347, 3516-4186 | `td_incomplete_child_tasks`, `td_allocated_child_tasks`, task flags, taskgroup count, reduction items | allocate, start, finish, free, taskwait, taskgroup, taskloop, task reduction, proxy halves | nothing freed while in use, waits see every child |
| Task teams | `kmp_tasking.cpp` 2562-3414 | two task teams per team, `th_task_state` and its memo stack, `tt_unfinished_threads`, `tt_active`, `tt_found_tasks` | set up, sync, wait, enable tasking, execute tasks | the barrier waits for all tasks, all threads of a team use the same task team |
| Task dependences | `kmp_taskdeps.cpp`, `kmp_taskdeps.h` | hash of addresses, `npredecessors`, successors, node references, mutexinoutset locks | process deps, release deps, taskwait deps | order of conflicting tasks, each successor started once, nodes live while used |
| Locks | `kmp_lock.cpp` | TAS word, ticket counters, queue head and tail with `th_next_waiting`, polls of DRDPA; nest depth, owner; the table of indirect locks | make, acquire, test, release, destroy | mutual exclusion, order, no lost hand-over, no false alarm of the checks |
| Atomics | `kmp_atomic.cpp`, `kmp_atomic.h` | the location, the atomic locks, `__kmp_atomic_mode` | update, capture, read, write, swap | each call is one indivisible step |
| Loop scheduling | `kmp_dispatch.cpp`, `kmp_sched.cpp` | ring of shared buffers, `iteration`, `num_done`, `ordered_iteration`, private trip data | init, next, finish, static partition | every iteration is run once, a buffer is reused only when done |
| Constructs | `kmp_csupport.cpp` | `t_construct`, `t_copypriv_data`, `doacross_flags`, critical words, reduction method | single, copyprivate, ordered, critical, doacross, reduce | one thread runs a single, data arrives, waits end |
| GCC's entry points | `kmp_gsupport.cpp` | the bounds as GCC holds them, the thread's part of its loop | `GOMP_parallel*`, `GOMP_loop*`, `GOMP_sections*`, `GOMP_single*`, `GOMP_task*` ... | the same promises over half-open bounds |
| Fork, join, teams | `kmp_runtime.cpp` | hot teams, team and thread pools, serial teams, `th_task_state_memo_stack` | fork call, join call, allocate/free team and thread | hierarchy and counts consistent across resize |
| Regions and controls | `kmp_runtime.cpp`, `kmp_csupport.cpp`, `kmp_ftn_entry.h` | chain of teams, `t_serialized`, the control stack, ICVs | serialized, active, teams regions; `omp_set_*`, `omp_get_*` | what a region sets ends with it, enquiries tell the truth |
| Registration | `kmp_runtime.cpp` | `__kmp_threads`, capacity, counts, init flags, `g_done` | register, end, pause, shut down | the library goes down only with the last root, comes up clean, every call returns |
| Memory | `kmp_alloc.cpp` | per-thread heaps (bget), fast lists by size, `bget_list`, `pool_used` | allocate, free, free from another thread | a block is on one list, counted once |
| Threadprivate | `kmp_threadprivate.cpp` | templates, tables per thread, the compiler's caches | cached lookup, insert, resize, destroy | one copy per thread, initialised from the template |
| Settings | `kmp_settings.cpp` | the `__kmp_*` globals | environment, `kmp_set_defaults`, display | precedence decides, not order; what is shown reads back |
| Consistency checks | `kmp_error.cpp` | one stack with three lists through it | check, push, pop | stops exactly the wrong nestings |

Left out because there is no state or protocol to check: affinity discovery (not
built), message catalogues and output, statistics and tool interfaces, assembly
support, vendored code (all listed in `PROJECT.json`).

The parts meet at the barrier: `__kmp_fork_call` opens the fork barrier of a
team that `__kmp_allocate_team` made from pooled threads; a thread that waits
in a barrier spins in `__kmp_wait_template`, where it executes tasks of its
task team and at last suspends; the thread that changes the flag tests the
sleep bit and resumes it; a thread that creates the first task of a region
looks for sleepers and resumes them too. Memory, threadprivate data and teams
share the arrays indexed by gtid, which grow when threads register.

## 2. Behaviours that are hard

Each is listed with its line in `PROJECT.json` ("hazards"). They fall in these
groups:

- *A flag and a sleep bit share a word.* The waiter sets the bit and tests the
  value it replaced; the releaser bumps the value and tests the bit. Between
  them are a mutex, a condition variable and `th_sleep_loc`, which third
  threads read without a lock.
- *Barrier counts outlive the barrier.* `b_arrived` is never reset; it is
  compared with the team's count plus one, per barrier type, over regions that
  use different trees. `b_go` is reset by the thread that waits. In the
  hierarchical barrier one byte of a word is one child's, and the tree grows.
- *A test outside a lock, an action under it.* `__kmp_push_task`,
  `__kmp_give_task`, `__kmp_free_thread`, `__kmp_remove_my_task` and
  `__kmp_parallel_initialize` look first and lock later; some look again and
  some do not. Locks that queue do the same with ticket, tail and link.
- *Counts that end a wait.* Unfinished threads of a task team, incomplete
  children, taskgroup counts, `npredecessors`, `num_done` of a dispatch buffer:
  one decrement too early ends a wait with work in flight.
- *Things used again.* Two task teams in turn, seven dispatch buffers in turn,
  hot teams, pooled threads, destroyed locks, freed memory, gtids of roots that
  left: what the last user leaves in them must be what the next one expects.
- *Arithmetic at the edge.* Bounds of loops that wrap, halves and extras of
  chunks, half-open bounds, rings that grow, headers that name their neighbours.
- *Long sequences of legal calls.* Nested serialized regions share one task,
  leagues share none, rival settings come in any order, three lists share a
  stack.

## 3. Modules

| Component | Modules | Checked by | Proved in |
|---|---|---|---|
| suspend and resume, pool | `SuspendResume` | `MCForkJoin` | `ForkJoinProofs` |
| barriers | `BarrierTopology`, `Barrier` (refines `BarrierSpec`) | `MCBarrier` | `BarrierProofs` |
| hierarchical barrier | `Hierarchy`, `HierBarrier` | `MCForkJoin` | |
| cancellation | `Cancellation` | `MCForkJoin` | `ForkJoinProofs` |
| deques | `TaskDeque` (refines `TaskPool`) | itself | `TaskDequeProofs` |
| tasks, task teams | `Tasking` | `MCTasks` | `TaskingProofs` |
| taskloops, task reductions | `Taskloop` | `MCTasks` | |
| dependences | `TaskDeps` | `MCTasks` | `TaskDepsProofs` |
| lock kinds | `Locks` (refines `LockSpec`) | `MCLocks` | `LocksProofs` |
| lock interface | `UserLocks` (refines `UserLockSpec`) | `MCStorage` | `StorageProofs` |
| atomics | `Atomics` (refines `AtomicSpec`) | `MCLocks` | `StorageProofs` |
| loop schedules | `LoopSchedules` | `MCBarrier` | |
| loops and constructs | `Worksharing`, `Collectives` | `MCWorksharing` | `WorksharingProofs` |
| GCC's entry points | `Gomp` | `MCWorksharing` | |
| fork, join, teams | `Teams` | `MCThreads` | |
| registration, shutdown | `Lifecycle` | `MCThreads` | |
| regions and controls | `Regions` | `MCControls` | |
| settings | `Settings` | `MCControls` | |
| consistency checks | `Consistency` | `MCControls` | |
| memory, allocators | `ThreadMemory`, `Allocators` | `MCStorage` | |
| threadprivate data | `ThreadPrivate` | `MCStorage` | `StorageProofs` |

An abstract specification (`*Spec`, `TaskPool`) says what a component promises;
the detailed module maps its state to it in an `INSTANCE ... WITH` at its end.
Elsewhere a component meets another one through that promise only: a wait in
`Barrier` is a guard, and `SuspendResume` shows that a wait with spinning,
suspending and resuming returns; `Tasking` keeps its deques as sequences, and
`TaskDeque` shows that the rings implement them; `Worksharing`, `Collectives`
and `Gomp` use barriers that work.

Operators whose comment begins with "Mutant:" are faulty variants of the
definition that follows them; nothing uses them. `PROJECT.json` says which
property tells each one from the real definition.

Most MC modules put several components side by side. The variable `part` is
chosen in the initial state and only that part runs; the variables of the others
keep one of their initial values. Each part has its own actions, fairness and
properties, so that a run says of each part what a run of its own would say.

### SuspendResume

State: `go` and `sleepBit` are the two parts of the worker's
`th_bar[bs_forkjoin_barrier].bb.b_go`, `sleepLoc` is `th_sleep_loc`, `mx` the
holder of `th_suspend_mx`; `active`, `inPool`, `activeInPool` and `poolActive`
are `th_active`, `th_in_pool`, `th_active_in_pool` and
`__kmp_thread_pool_active_nth`; `reap` is `th_reap_state`; `worker`, `master`
and `resuming` are program counters.

| Actions | Code |
|---|---|
| `CheckFlag`, `HelpOrIdle`, `Decide`, `AfterSuspend`, `LeaveWait` | the loop of `__kmp_wait_template`, `kmp_wait_release.h` |
| `SuspendLock`, `SetSleeping`, `UnsetSleeping`, `PublishSleepLoc`, `CondWait`, `SpuriousWakeup`, `Reacquire`, `WakeUp` | `__kmp_suspend_template`, `z_Linux_util.cpp` |
| `ResumeLock`, `ResumeUnset`, `ResumeSignal` | `__kmp_resume_template` |
| `EnableTasking`, `WakeSleeper` | `__kmp_enable_tasking`, `__kmp_null_resume_wrapper` |
| `Fork` .. `Join` | `__kmp_fork_call`, `__kmp_allocate_thread`, `__kmp_release_template`, `__kmp_join_barrier` |
| `FreeTeam` .. `PoolCount` | `__kmp_free_team`, `__kmp_free_thread` |
| `SoftPause`, `ResumeRequest`, `Shutdown` .. `OsJoin` | `__kmp_pause_resource`, `__kmp_internal_end`, `__kmp_reap_thread` |

Abstracted: the blocktime's clock (the worker may decide to sleep in any turn of
the loop), what a task does, other flag types.

### Barriers and cancellation

`BarrierTopology` computes, for a pattern, a number of branch bits and a team
size, the children of every thread in the gather and in the release, and the
parent to which the code sends an arrival. `Barrier` takes the two trees from it
under `TreeAssumption`: they are trees of the whole team rooted at the master.

`Barrier` has `arrived` and `go` per barrier type and thread, `teamArrived` per
type, the private variables of a gather (`newState`, `kids`), the reduction data
as a count of how often each thread's contribution is in it, and the ICVs.

| Action | Code |
|---|---|
| `Arrive` | entry of `__kmp_barrier_template` and of `__kmp_join_barrier` |
| `ReadTeamState`, `GatherChild`, `SignalArrival`, `CompleteGather` | the gather functions; a parent reads the team's count once, in a step of its own (the hypercube gather does so at its first child) |
| `OpenBarrier` | the master going on, at once or by `__kmp_end_split_barrier` |
| `Fork` | `__kmp_fork_call` up to `__kmp_fork_barrier`: sets the ICVs of the team |
| `Wake`, `PushIcvs`, `ReleaseChild`, `LeaveBarrier` | the release functions |
| `SetIcv` | a user's call such as `omp_set_num_threads` inside the region |

`BarrierSpec` counts how many barriers each thread has entered and left and how
many have been gathered and opened; `Barrier` maps its program counters to
these counts.

`Hierarchy` is `hierarchy_info` of `kmp_affinity.h` as pure operators (the
initial levels, their narrowing, `resize`); `HierBarrier` is the hierarchical
fork-join barrier of the outermost hot team on it: `DecideFlag`, `WaitAtParent`,
`Setup`, `ReleaseBytes`, `GatherLeaves` and the rest are the branches of
`__kmp_hierarchical_barrier_release` and `_gather`, `SwitchFlags` is what
`__kmp_free_thread` does to the threads that leave a team, and `ResizeBegin` to
`ResizeEnd` are the compare-and-store loop of `resize`, whose body is one step.
The leaves' bytes of a word are sets of leaf numbers.

`Cancellation` has `t_cancel_request`, the linear barrier whose wait a
cancelled thread leaves (the GOMP pattern) and the pattern of two or three whole
barriers (the KMPC one, as the comments of the code describe the generated code).

### Tasks

`TaskDeque`: `td[t]` is the `kmp_base_thread_data_t` of thread t. A critical
section of `td_deque_lock` is one action. What happens outside the lock is not:
the allocation of a deque is two steps (`BeginPush` or `CreateProxy` stores the
pointer, `FinishAlloc` the size), and the look at whether a deque is full is a
step before the one that acts on it.

| Action | Code |
|---|---|
| `BeginPush`, `FinishAlloc`, `PushCheck`, `PushExpand`, `PushAppend` | `__kmp_push_task` |
| `CreateProxy` | `__kmp_task_alloc` of a proxy task |
| `RemoveMyTask` | `__kmp_remove_my_task` |
| `StealOldest`, `StealInside` | `__kmp_steal_task`, at the head and in the walk |
| `GiveLook`, `GiveGrow`, `GiveAppend` | `__kmpc_proxy_task_completed_ooo` and `__kmp_give_task` |

The pure operators (`PutTail`, `DropNewest`, `DropOldest`, `DropInside`,
`Realloc`, `Room`) are the ring arithmetic; `Window` reads the tasks of a ring
from the oldest to the newest and is the refinement mapping to the pool, where a
push appends, an owner takes the last, a thief removes any. A task of
`Restricted` may be refused by `__kmp_task_is_allowed` at any time: it stands for
a tied task under the scheduling constraint and for a task with mutexinoutset
locks. `LooksHold` says that the two looks without a lock are still right when
they are acted on; section 5 shows the schedules where they are not. `SafeSpec`
is the specification restricted to the schedules where `LooksHold`.

`Tasking`: a thread is a stack of frames, its implicit task at the bottom and
above it the tasks it has begun while an older one waits. A frame is the task,
what it is doing (`run`; `taskwait`, `endgroup`, `gather`, `release`, `teamwait`
and the master's `letgo`; the steps of a task's end and of the halves of a proxy
task) and where in the wait loop it is.

| Actions | Code |
|---|---|
| `CreateDeferred`, `CreateUndeferred`, `CreateProxy` | `__kmp_task_alloc`, `__kmp_omp_task`, `__kmp_push_task`, `__kmpc_omp_task_begin_if0` |
| `Taskwait`, `StartGroup`, `EndGroup` | `__kmpc_omp_taskwait`, `__kmpc_taskgroup`, `__kmpc_end_taskgroup` |
| `End`, `CountParent`, `CountGroup`, `FreeTask` | `__kmp_task_finish`, `__kmp_free_task_and_ancestors`, one decrement a step |
| `ProxyTopHalf`, `BottomHalf`, `Ext*` | `__kmpc_proxy_task_completed` and `_ooo`, with the halves inside and outside the team |
| `WaitTurn`, `TakeOwn`, `Steal`, `GiveUp` | `__kmp_execute_tasks_template` |
| `MasterArrives`, `WorkerArrives`, `Gathered`, `Deactivate`, `LetGo`, `MasterLeaves`, `WorkerLeaves` | the barrier with `__kmp_task_team_setup`, `_wait`, `_sync` |

`TaskDeps` has the hash entry of each variable, the nodes with their counts and
references, and the locks of mutexinoutset dependences; the parent goes through a
program, each child is run by a thread of its own. The lists of a hash entry are
sets, since a step is in each at most once and the order is that of the program. `Taskloop` has the recursive
and the linear splitting of `__kmp_taskloop_recur` and `_linear` with every clause,
and the reduction items of nested taskgroups.

### Locks and atomics

`Locks` has one program counter per thread over the loads, stores and
compare-and-swaps of test-and-set, ticket, queuing and DRDPA locks in their three
modes (plain, with the checks of `KMP_CONSISTENCY_CHECK`, nestable); the
variables `holder`, `depth` and `queue` of `LockSpec` are computed from program
counters, tickets and the queue read through head and links. `UserLocks` is the
interface above: the program's word, the table of indirect locks that is read
without a lock and doubles under one, the pools of destroyed entries, nestable
locks as a base lock with owner and depth. The word is that of a build for Linux,
an index; for VxWorks it is the entry's address (`kmp_lock.h:53-59`) and the
lookup does not read the table. Those behaviours are among the model's: the ones
where no thread is lost, with the two steps of the lookup taken as one. `Atomics` is the table of routines:
each type, mode and form gets its atomicity from an instruction, a
compare-and-swap loop or one of the atomic locks; values count modulo a bound.

### Worksharing

`LoopSchedules` has the static schedules, the chunks of the dispatched ones and
GCC's conversion of bounds as operators over variables of `Width` bits that wrap.
`Worksharing` has `th_dispatch`, the ring of `t_disp_buffer` and the steps of
`__kmp_dispatch_init`, `_next` and `_finish`, ordered sections, stealing, single,
critical, barrier and one-dimensional doacross; `Collectives` the reduce blocks in
every method, copyprivate, and doacross over two dimensions with a negative stride.
`Gomp` has the regions as GCC compiles them: what is called is taken as promised,
what the entry points themselves compute (bounds, signs, strides, which barrier,
which buffer) is modelled.

### Threads and controls

`Teams`: `rt` is what `__kmp_forkjoin_lock` protects; each action is one call
(`Fork`, `Serialize`, `Join`, `EndSerialized`, `Register`, `Unregister`) made of
operators for `__kmp_allocate_team`, `__kmp_allocate_thread`, `__kmp_free_team`,
`__kmp_reserve_threads`, `__kmp_task_team_setup` and the memo stack.
`Lifecycle`: initialisation, registration, pause, shutdown with their two locks
and the flags read outside them. `Regions`: the teams around one thread, from the
root's implicit task down, with ICVs, control stacks, serial teams and leagues.
`Settings`: one record of globals, one operator per parser, sessions of
`__kmp_env_initialize`. `Consistency`: the construct stack with its three lists,
beside the nesting the program really is in.

### Storage

`ThreadMemory`: heaps of units with headers that name size and neighbour, free
lists by size, lists of other threads' releases, fast lists. `Allocators`: the
count of a pool with its add, compare and take back. `ThreadPrivate`: templates,
tables, caches, the copy of a cache entry by entry, shutdown and restart.

## 4. Runs

| Run | Instance | Shows |
|---|---|---|
| `forkjoin` | a worker with two wakers and every call, 3 regions, finite blocktime; hot teams of up to 5 threads that grow and shrink, beside another team; a team of 3 that cancels regions or loops | no lost wakeup, no stray release; the hierarchical and the cancelled barriers hold; a released worker runs, a shutdown ends, every region ends |
| `forkjoin_resize` | the same hierarchy | violation: the mark of a resize is kept by nobody |
| `barrier` | 4 threads on hypercube barriers, split barrier with a reduction, 2 regions; every pattern up to 4 branch bits and teams up to 32; static loops over 4-bit variables, up to 4 sharers; dispatched loops of up to 20 iterations in chunks of 1 to 3 | the refinement of the split barrier, the reduction, the ICVs of the fork; barrier trees span the team; every schedule divides the loop |
| `deque` | 2 threads, 4 tasks, 2 of them restricted, one untied, a proxy task, rings of 2 slots | no task lost or repeated, the refinement of the pool, every gift finds a deque |
| `tasks` | 2 threads, 3 tasks, one of them a proxy, a taskgroup, 4 creations or barriers; 8 dependence graphs; 11 taskloops | a barrier, a taskwait and a taskgroup end after their tasks, no use after free, nothing leaks, dependent tasks are apart, taskloops cover their loop, and all of it ends |
| `locks` | 3 threads, 3 calls (4 on DRDPA), every kind and mode; 2 threads, 3 calls of atomic routines | every kind implements the abstract lock, with its order and liveness; no false alarm; atomics are atomic |
| `locks_max` | captures of a maximum or minimum | violation: the captured value |
| `worksharing` | 15 shared regions of 2 or 3 threads with 2 buffers; 6 programs that combine data, 4 forced methods; 9 programs of GCC | iterations once and in order, data combined, GCC's constructs, every thread finishes |
| `worksharing_down` | GCC's unsigned loop downwards | violation: the loop is skipped |
| `threads` | 5 environments of hot teams, nesting and roots; 2 callers, array of 2 growing to 4, 5 entries | teams, serial teams and pools hang together, all threads of a team use one task team, counts match the array, every call returns |
| `controls` | 3 regions deep, 2 calls that set controls, list `3,2`; stack of 5 constructs; environments of up to 4 related settings in every order | enquiries, controls, checks and settings are right |
| `storage` | 2 threads, heaps of 6 units; 2 allocators that fall back to each other; 1 variable, growth and one restart; 2 locks, made twice | heaps whole, pools counted, copies private, the table of locks implements the interface |

Bounds. Two wakers give two resumes at once beside the master's; three regions
let a late resume of the first meet the sleep of the third. Four threads are a
full hypercube with an inner node of each dimension; two regions reuse every
barrier type after the others. Trees of up to 32 threads have two full levels for
the branching factors 2 and 4 and an incomplete one for 8 and 16. Hierarchies
have two leaves a node and two branches instead of four, so that teams of five
need a level more than teams of three; all the plans of `Envs` pass through a
size twice. A ring of two slots wraps after two pushes and is expanded by the
third; four tasks and a gift fill the expanded ring again. `INITIAL_TASK_DEQUE_SIZE`
is 256 in the code; `PassLimit`, 4 here, is 2^31 there, where the pass of a giver
wraps and every deque is too large to be expanded for ever after. Three
tasks are a parent, its child and a proxy beside them; `MaxWork` 4 with two
barriers uses both task teams and comes back to the first. `MaxOutside` says how
many barriers a program with a proxy task completed outside the team may have:
2, since with more a defect of the code shows (section 5). The dependence graphs
have every kind of dependence after every other, on one variable and on two,
aliases, more locks than `MAX_MTX_DEPS` and a parent that ends first. A queue of
locks needs three threads for a middle element; the fourth ticket of a DRDPA lock
frees the old area and contracts the new one. Two dispatch buffers (7 in the code)
are used again by the third loop of a region. Loops of eight 4-bit or 8-bit values
reach both ends of their type. Two callers, one growing array and five entries
let one shut the library down while the other registers. The theorems of
section 6 remove the bounds for the safety part of what they state.

Symmetry is used in `storage` only, over threads and locks, which the modules do
not compare. Deadlock is not checked in any run: a program may end, or call
nothing more, and the bounds stop it too. Progress is stated by the liveness
properties and by the fairness part of the abstract specifications.

Fairness.

- `SuspendResume`: every thread that is inside the runtime goes on (weak
  fairness per thread), and a resumer that waits for the suspend mutex gets it
  eventually (strong fairness of `ResumeLock`, as of a fair operating system
  mutex); none for the program's calls or the wakers' decision to wake.
- `HierBarrier`, `Cancellation`: weak fairness of each thread's next step and
  of the master's fork and join, since the threads run on and poll their words.
- `Barrier`: a thread inside a gather or a release goes on; a thread that
  computes between barriers need not.
- `TaskDeque`: a thread inside a push and a giver go on; a thread with tasks in
  its deque comes to a barrier, where the scheduling constraint does not apply,
  and executes them (weak fairness of `RemoveMyTask`); no thread need steal.
- `Tasking`: weak fairness of each thread (it executes, waits or reaches its
  barrier) and of the completion of each proxy task, which OpenMP asks of whoever
  has it. `TaskDeps`, `Taskloop`: of the parent and each child; of the one program.
- `Locks`: a thread inside a call goes on, and a thread that holds a lock
  releases it; the waits are loops of the thread itself. `Atomics`: as well,
  with strong fairness of taking an atomic lock, which is a fair queue.
- `Worksharing`, `Collectives`, `Gomp`: weak fairness of the part as a whole: a
  thread waits by not being able to step, so some thread that can does.
- `Lifecycle`: weak fairness of each call, strong of taking the two bootstrap
  locks, which serve tickets in order.

## 5. Findings

Three runs expect a violation; their counterexamples are the findings of
`PROJECT.json`.

1. `forkjoin_resize`: the thread that wins the compare-and-store of `resizing`
   and then finds the hierarchy large enough returns with the mark set
   (`kmp_affinity.h:772`); every thread of the next larger team spins for ever.
2. `locks_max`: the capture of a minimum or maximum reads the location up to
   three times and can return a value of none of them (`kmp_atomic.cpp:2599, 2624`).
3. `worksharing_down`: GCC's unsigned loops downwards run no iteration
   (`kmp_gsupport.cpp:813` tests the unsigned stride).

The modules show more that no run is kept for. For each the runs exclude the
schedule or the environment by a named constant or definition, given with it.

Waking and barriers:

- An explicit resume of a soft pause wakes nobody when the blocktime is infinite,
  and no later fork does (`kmp_runtime.cpp:8387`; the comment at 8348 says that it
  wakes all threads). A shutdown during such a pause joins a worker that nobody
  wakes (`kmp_runtime.cpp:5958`). The run has a finite blocktime; the theorems
  assume `SafeCalls`.
- `PoolCountExact`: a worker that wakes while it is freed to the pool is counted
  twice (`kmp_runtime.cpp:5727` stores `th_in_pool` before the mutex is taken,
  5731 counts again). `PooledThreadIsReapable`: the assertion of
  `kmp_runtime.cpp:6126` fails for a worker just back from a suspend
  (`kmp_wait_release.h:436`).
- The tree release copies the ICVs the master has at that moment, not those of
  the fork (`kmp_barrier.cpp:484`, against 2166 and `kmp.h:1839`): an ICV set in
  the region can reach a worker that is about to start it. The theorem
  `IcvsArrive` assumes `ReleasesAlone` for the tree pattern.
- A pooled thread that has not yet waited on its own flag when its team shrinks
  is not switched to it (`kmp_runtime.cpp:5650` against `kmp_barrier.cpp:1057`) and
  hangs: hence `Calm`. With `KMP_HOT_TEAMS_MODE=1` the place in the tree of a
  thread in reserve is not computed anew.
- A growing hierarchy frees its arrays (`kmp_affinity.h:816`) while a thread whose
  team keeps its size still points into them (`kmp_affinity.cpp:44`, read at
  `kmp_barrier.cpp:937` and 1224). `Placed` of `HierBarrier` copies the hierarchy
  instead: what the arrays held at that moment.
- A cancel right after a cancellable barrier races with the threads still leaving
  it: an arrival is taken back that the master had counted (`kmp_barrier.cpp:1620`
  against 1619), and with the KMPC pattern the second and third barriers can
  hang. Hence `EarlyCancels`. `__kmpc_cancellationpoint` asserts when another
  kind is requested (`kmp_cancel.cpp:184` against 130).

Tasks:

- A full deque is expanded after a look without the lock; a theft in between
  makes the expansion bring back a stale entry and hide the pushed task
  (`kmp_tasking.cpp:387`, comment 298; the same at 3459). A giver that sees a deque between
  the two stores of its allocation (2940) expands it from zero to zero slots and
  writes outside it. Hence `SafeSpec` of `TaskDeque`.
- The bottom half of a proxy task that is completed outside may still be in a
  deque when its barrier ends. A thread that comes late to that task team takes
  it, sees itself finished and counts itself unfinished again after the team was
  set up for a later barrier, which then ends early
  (`kmp_tasking.cpp:2528` against 2747 and 3352; the comment at 2517 says that
  the count keeps threads from being released early). TLC finds it with 2
  threads, `Tasks = {2, 3}`, `Proxies = {3}`, `MaxWork = 6` and `MaxOutside = 4`;
  the run has 2, the theorem `BarrierWaits` has `TimelySpec`.
- A thread whose deque holds only tasks blocked by a mutexinoutset lock can count
  itself finished; with `Anywhere = TRUE` (such tasks or proxy tasks created by
  an explicit task that does not wait for them) a barrier may end before them. The
  run has `FALSE`, the theorems have `Direct`.
- A taskloop of no iterations outside a nogroup returns inside its taskgroup
  (`kmp_tasking.cpp:4176`); a taskwait between them is not what 1941 says (3894).
  A task reduction looked up outside any group dereferences NULL before its
  assertion (2165).
- A waiter with dependences may leave its node, on its stack, to a predecessor that
  still dereferences it (`kmp_taskdeps.h:116`), and in `last_ins`
  (`kmp_taskdeps.cpp:302`); an explicit parent frees its hash with locks that its
  children hold (`kmp_taskdeps.h:66, 94`): the graphs have none of these.

Worksharing:

- Stealing without a barrier after the loop robs a thread of the next loop
  (`kmp_dispatch.cpp:1300`, 947, 1311): the shared regions have the barrier, and
  `RobsTheSameLoop` states it. A doacross loop of GCC with no flags reads NULL
  (`kmp_gsupport.cpp:1780` against `kmp_csupport.cpp:3924`). `GOMP_task` with if(0)
  and depend ignores the dependences (`kmp_gsupport.cpp:1178`).
- Products in the schedules are not checked (`plower + span * tid`, `chunk *
  counter`, `*pupper + incr` of an empty share): `LoopsDivided` is about loops
  whose shares fit their type (`Fit`, `ChunksFit`, `SharesFit` in `MCBarrier`).
- A critical with an uncontended hint and its end disagree about the kind of lock
  (`kmp_csupport.cpp:1527`).

Locks and atomics:

- `drdpa_test` looks at an area that the holder may have freed
  (`kmp_lock.cpp:2394` against 2258), and a contraction publishes the smaller area
  before the smaller mask (2300-2345). Hence `PollsInsideArea` and `SafeSpec` of
  `Locks`.
- The table of indirect locks is freed under unlocked lookups when it grows
  (`kmp_lock.cpp:3040-3060`); a thread that meets that is lost in the model. Only
  a build for Linux with `KMP_GOMP_COMPAT` looks locks up by index; in the build
  for VxWorks the word holds the entry's address (`kmp_lock.h:53-59`,
  `kmp_lock.cpp:3097, 3107`) and this does not occur. The
  test of an RTM lock returns 1 without acquiring (2819).
- In mode 1 and for types that mix routines the atomic lock is not the same
  one (`kmp_atomic.cpp:1847` and 1298 against 2129, 2792, 1530 and 3305; 16c against
  16r for the generic routine); 2501 and 2557 return uninitialised values.

Threads and controls:

- With `KMP_HOT_TEAMS_MAX_LEVEL=0` the task state of a joining master is not
  restored (`kmp_runtime.cpp:2130` against `kmp_tasking.cpp:3270`), and with mode
  1 a team that grows gives task states to the wrong threads (5175, 5178, 5235):
  the settings of `MCThreads` have neither. The memo stack is one entry short
  (2133, 2163). A limit of threads counts one thread of a hot team only.
- A thread that enters while the last root leaves goes on without a gtid
  (`kmp_runtime.cpp:254, 6185, 7575`); a hard pause with sibling roots leaves
  `__kmp_init_parallel` set (8341); a caller of `__kmp_parallel_initialize` after
  the end spins with the lock held.
- `LeagueRight` fails for `num_teams` above the league (`kmp_runtime.cpp:7805`)
  and `SchedulesReadBack` for static_steal (`kmp_global.cpp:212`, 2901): the run
  has `SoloInTeams = FALSE` and `OpenMPKinds`. Device, library and nproc of a
  nested serialized region are set without saving (`kmp_ftn_entry.h:941`,
  `kmp_runtime.cpp:1364`, 1574); allocator and blocktime likewise (1335, 8131).
- A root that reuses a gtid finds the copies of the one that left
  (`kmp_runtime.cpp:6024`, `kmp_threadprivate.cpp:646`): `LeaveAfterUse = FALSE`.
  A second cache of a variable stays at its old size (686-726).
- An allocation that a pool refuses through its fall-back leaks what it counted
  (`kmp_alloc.cpp:1493, 1549`); adding first and taking back makes another thread
  be refused (1477); allocators that fall back in a cycle recurse for ever. A
  reaped thread frees pools by their first buffer alone (`kmp_runtime.cpp:5994`).
- Settings: an empty place in OMP_NUM_THREADS is filled only in the middle
  (`kmp_settings.cpp:1137` against `kmp_runtime.cpp:6913`); OMP_NESTED and
  KMP_TASKLOOP_MIN_TASKS with a wrong value read an uninitialised local (976, 1300);
  KMP_ALL_THREADPRIVATE is overwritten (`kmp_runtime.cpp:6771`); a wrong barrier
  pattern is reported as linear but kept (1600); OMP_SCHEDULE=guided is not
  shown (3809), KMP_ABORT_DELAY is shown in other units (1653), stack sizes are
  cut (919), an infinite blocktime reads back one less (204, 687);
  `kmp_set_defaults` reaches the caller for four settings only (5270).
- Dispatched loops are never pushed on the construct stack, contrary to
  `kmp_gsupport.cpp:513`, so that their ordered checks do not run
  (`DispatchedTracked`).

## 6. Proofs

All theorems hold for every value of the constants within the named assumptions
of the modules. A property of section 4 whose theorem is listed here holds of
every instance; the run is then the check that the model does something.

- `ForkJoinProofs`. Of suspend and resume, `IInv` is inductive under `SafeCalls` (with infinite
  blocktime the program makes no explicit resume, section 5). The properties
  alone are not inductive: one has to say who holds the mutex at each point of
  suspend and resume, what the bit and `th_sleep_loc` are there, in which phase
  the flag can be released, and that a sleeper that was there before the release
  is one the master will still look at (`ReleaseSeesSleeper`). From it:
  `TypeCorrect`, `SleepLocCorrect`, `NoWakeupIsLost`, `WorkIsReleased`,
  `PoolCountHolds`, for any number of wakers.
  Of cancellation, `CInv`. A worker outside a barrier is in step with the team; one
  that waits has arrived in a barrier not yet complete, or in a complete one and is
  released once the master has passed it (`WorkerRight`). Every thread has entered
  the barriers that are complete and nobody has left another (`Counted`). When the
  request lets waits go, this says nothing any more; what does is that it was made
  by a thread in its first segment, which has gone to the join and which the master
  has still to gather (`SomebodyLeft`): the barrier is never complete, and nobody
  gets past it. `GompCounted`, one barrier for each segment, shows that nobody was
  past one when the request came (`StopsEarly`). From it `CancelledBarriers` and
  `ArrivalsAreReverted`, for every team and all programs that are `EarlyCancelled`;
  the others are a finding of section 5. TLC checked `CInv` for teams of 3 and 4.
- `BarrierProofs`. `IInv` says how far threads are apart (`Positions`), that a
  worker's count is the team's or one more (`ArrivalCounts`), that subtrees
  arrive before their root (`SubtreesArrive`), and that a `b_go` is set only for
  the thread that awaits it, by its parent (`GoIsAwaited`, `LetGoByParent`). It
  is inductive for every team size, sequence of barriers and pair of trees that
  satisfies `TreeAssumption`, which the run `barrier` checks for the patterns of
  the code. From it: `TypeCorrect`, `BarrierHolds`, `FlagsAreClean` and
  `Refinement`, the safety part of `ImplementsBarrier`. Two further inductions
  rest on it. `ReductionComplete` follows the contributions up the tree: the data
  of a thread that has gathered is that of its subtree (`DataGathered`), where
  the subtree is given without recursion, as the threads in every parent-closed
  set. `IcvsArrive` follows the ICVs down (`IcvsHanded`); for the tree release it
  needs `ReleasesAlone`, that a parent lets one child go at a time, since without
  it the property is false (section 5).
- `TaskDequeProofs`. First the ring operations: on a ring whose tail is `ntasks`
  slots behind its head each one yields such a ring, and its effect on the window
  is an append, a removal, or nothing (an expansion). Then `IInv`: the shape of
  every deque at every point of its owner, a task being pushed or given is in one
  thread's hands (`Hands`), `LooksHold`, and `TasksQueuedOnce`. From it, for
  `SafeSpec`: `Inductive`, `QueuedOnce`, and `Refinement`, the safety part of
  `ImplementsPool`. `PlainQueuedOnce` is about `Spec` itself when there are
  neither restricted tasks nor proxy tasks: there no deque is expanded on an old
  look, so the restriction of `SafeSpec` is a consequence.
- `LocksProofs`. `IInv` has a part per kind: the tickets of a ticket lock are
  distinct and the one served is the oldest; the queue of a queuing lock can be
  read from its head through `th_next_waiting` to its tail, at each of the points
  where head, tail and link disagree; the areas of a DRDPA lock contain a slot for
  every ticket that polls, and old areas are freed after the tickets that used
  them (`PollsInsideArea`). Above the kinds it says which threads own, what
  `owner_id` and `depth_locked` are, and what a legal program holds. From it:
  `LockTypes`, `OneHolder`, `ChecksAreSound` on the schedules of `SafeSpec`,
  and `OtherLocks` for the other three kinds with no restriction.
- `TaskingProofs`. `CountInv` and `Attached` together are inductive: the stacks
  are stacks of attached tasks over one implicit task (`Shape`, `Unique`,
  `Known`), every task on one is alive, and `Counts`: `td_incomplete_child_tasks`
  is, for every task, the number of children it is owed, which are those queued,
  on some stack and not yet counted, or with someone outside. Each kind of step
  has one lemma that says which child it adds or takes. `CountsAreRight` states
  it, `TaskwaitsWait` that a step that ends a taskwait finds every child over,
  the taskwait half of `WaitsForItsTasks`. With `FreeInv` the memory of tasks is
  inductive as well: `td_allocated_child_tasks` is the number of `Holders` of a
  task, which are the frames on stacks that run or free it, its children not yet
  freed, the deque it is in, and the thread outside that has still to give it
  back. That needs that a task is in at most one place of one deque
  (`QueuedAlone`), and, since a proxy task is freed by its bottom half while
  another thread runs the top one, that the imaginary child keeps the bottom half
  waiting until the top half is done (`ProxyRight`). `NothingIsUsedAfterFree` is
  the tasks' half of `NothingUsedAfterFree`, `NothingIsLost` is `NothingLeaks`.
  Of barriers, `BarrierInv`, with `CountInv`, gives `BarrierWaitsForTasks`. A
  thread that has counted itself as finished owes nothing: its stack holds only frames that free tasks, its implicit task has no
  incomplete child and no task that is not a proxy task is in its deque
  (`FinishedRight`). That is stable because a thread that has looked through its
  own deque left there only tasks behind one that its own lock forbids
  (`LookedRight`), and that one is its own child, so that it may not count itself
  yet (`QueuedRight`). `Spent` and `IsOpen` say of which barrier a task team and a
  thread are; the team counts the threads not yet finished (`TeamCounts`), the
  workers of an opened barrier are finished or never looked (`OpenedRight`), and
  while no task was created nobody looks (`QuietRight`). Two restrictions, each a
  defect of section 5: `Direct`, where explicit tasks create tasks too none is a
  mutexinoutset or proxy task; and `TimelySpec`, no finished thread counts itself
  in again after its barrier was opened. Without proxy tasks the second is a
  consequence, so `BarrierWaitsAlways` is about every interleaving. The module
  ends with `NothingFreedIsUsed`, which joins the two halves of
  `NothingUsedAfterFree` for the specification that the run `tasks` checks.
- `TaskDepsProofs`. `DepsInv` has a part for each thing the property leaves
  unsaid. `DepsShape`: what the nodes look like at each point of a task and of the
  parent. `HashGood`: an entry names only steps that name its variable, with the
  right kind. `DepCounts`: `npredecessors`, with the parent's own count while it
  links, is the number of places in the lists of others that have yet to be
  notified, which is why starting at -1 keeps the task from being queued early.
  `Order`: an earlier step that x depends on is over, or an unfinished step that
  it leads to has x in its list; and (`HashCovers`) every earlier step of a variable
  is named by its entry or leads to one that is. This is the one that is not about
  neighbours: an out after several readers is linked to these only, so the step before them has
  to be reached through one of them. `LockInv`, `RefsInv` and `CleanInv` are about
  the locks, the references and the race for the mark of the implicit task.
  `DependencesAreKept` and `ReferencesAreCounted` follow, for every program.
- `WorksharingProofs`. `Inv` gives, beside types (`Types`) and the place of each
  thread (`PlaceRight`), two facts about every loop. `RingRight`: which loop a shared
  buffer serves. A buffer with a larger index than a loop's means that all threads
  are through with the loop, one with a smaller index that nobody has entered it,
  and in between `num_done` is the number of threads that are through; only the
  last of them resets the buffer, and until it publishes the new index nobody is
  in another loop of that buffer. This is what keeps a fast thread, `Buffers` loops
  ahead, from counting into a loop that others are in. `PartRight`: an iteration
  that has been given out (`Gone`) has been run or is pending with exactly one
  thread, one that has not is neither, and a thread that leaves the loop knows that
  everything is out, or everything of its share. Gone is below a frontier for
  the schedules with a shared counter (`Reach`), and by turns for those that deal
  by the thread's number (`Turn`), for which the lemmas `NextDynamic`,
  `NextGuided`, `NextTrapezoid`, `SharesCover` and `OwnTurns` show that what the
  arithmetic of `LoopSchedules` hands out next starts where the last one ended.
  Doacross loops deal by thread numbers too (`DoacrossRight`). `IterationsOnce`
  assumes `Supported`: the loops of the programs are dynamic, guided (plain or
  simd), trapezoidal, balanced, greedy or static with a chunk. It holds for any
  trip count, chunk, number of threads and of buffers, and with single sections,
  critical sections and barriers in between.
- `StorageProofs`. Of the lock interface, `UserLocksInv` says that each entry of the table belongs to
  one lock or is once in one pool (`EntriesLeft`, `EntriesApart`, `WordsRight`),
  that a lock being made or destroyed has one routine (`MadeAlone`), and that the
  holder, depth and owner of every base lock are those that the routines in flight
  account for (`RoutinesRight`, `BasesRight`). `UserLocksImplement` then maps each
  step of each routine to a step of `UserLockSpec` or a stutter.
  Of threadprivate data, `PrivateInv`: the compiler's pointer is to the newest
  cache, which has an entry for every thread there is, and so has the copy being
  made (`CacheRight`, `ResizingRight`); an entry that is not empty holds the
  address that the thread's own table holds, or the original for the initial
  thread, and nobody writes the original before its template was taken (`Mine`,
  `Taken`, `OriginalRight`); a thread that inserts has no copy yet
  (`AccessRight`). `EveryThreadItsOwn` needs `LeaveAfterUse = FALSE`: otherwise
  a root finds the copies of the one whose gtid it has (section 5).
  Of atomics, `AtomicInv` says which lock a thread inside a routine holds and that
  nobody else is then inside one or writes the location (`RoutinesExclude`), what
  a thread that swaps has read, and what the call has to return. `AtomicsImplement`
  maps each step to the one step of its construct or to a stutter, the safety part
  of `ImplementsAtomic`. Both assume `Sound` programs: all routines that a program
  uses on the location use no lock or all the same one (`Compatible`), and none
  captures a minimum or maximum. The other programs are findings of section 5.
  `ProgramsSound` evaluates the tables of routines: sound are all forms of the
  small types in both modes; in mode 2, where GNU's common lock is taken, those of
  the wide types and `GOMP_atomic_start` with them; in mode 1 those of the types
  whose generic routine takes the type's own lock. Mixed operands of the wide types
  but float10, and the generic routine of cmplx4, are not.

Only model-checked:

- every liveness property, the fairness part of the refinements, and `ENABLED`:
  out of the prover's reach;
- `TreesSpanTeam`, `LoopsDivided` and whatever rests on recursion over a tree, a
  loop or a hierarchy: induction over data is out of reach too. `TreeAssumption`
  is what the first of them gives to the proofs;
- the taskgroup half of `WaitsForItsTasks`: it is about all descendants, which is
  such an induction; of the other properties of `tasks`, the shares of taskloops;
- `ImplementsLock`: the growth of a DRDPA area is a power of two by recursion;
- `EachIterationOnce` for the stealing and the analytical guided schedule: the
  first needs an invariant over ranges that are split while their owner counts
  down, the second one facts about powers, an induction. Of the other
  properties of `worksharing`, `RegionsInOrder`, `DataCombined` and `GompConstructs`;
- the components without a proof module.

## 7. Not modelled

Every component's entry in `PROJECT.json` names what its modules leave out. In
short:

- Memory is sequentially consistent in every model; a step is one load, store or
  atomic operation where another thread can see between, and one locked section
  where it cannot.
- Of waiting: 32-bit and on-core flags outside the hierarchical barrier, hard
  pause of a sleeper, the lazy initialisation of the suspend mutex
  (`z_Linux_util.cpp:1382`), the dereference of a stale `th_sleep_loc`
  (`kmp_wait_release.h:924`), the hierarchical barrier in nested teams.
- Of tasks: final and priority clauses, tied and untied parts, the choice of a
  thief's victim, the copy and the freeing of deques when teams grow and at shutdown,
  cancellation of taskgroups, collisions and resizing of the hash of dependences,
  noalias lists.
- Of loops: stealing over 8-byte bounds (it locks), hierarchical scheduling (not
  built), hints on critical sections.
- Of locks: futex locks (not built), adaptive and RTM locks beyond their fall-back.
- Of teams: the dynamic adjustment of sizes, the growth of the memo stack, the
  registration of copies of the library, load balancing. Regions leave out thread
  limits, proc_bind, blocktime and explicit tasks; `MaxRegions` deep.
- Of memory: memkind, aligned direct buffers, the release of pools at shutdown.
  Of threadprivate data: vectors and the chains of the hash tables.
- Of settings: affinity variables, KMP_HW_SUBSET, the storage map, debug variables;
  spelling and wording of every value.
- Entry points that only forward: Fortran, version symbols, target entry points.

## 8. Plan

What is left for these modules:

1. The stealing schedule in `WorksharingProofs`.
2. A refinement of `HierBarrier` to `BarrierSpec`, as `Barrier` has it.
