---------------------------- MODULE Consistency ----------------------------
(***************************************************************************)
(* The construct stack of one thread under KMP_CONSISTENCY_CHECK             *)
(* (kmp_error.cpp) and the entry points that keep it (kmp_csupport.cpp,     *)
(* kmp_runtime.cpp, kmp_sched.cpp).                                          *)
(*                                                                          *)
(* The stack is one array in which three lists are threaded: the parallel,  *)
(* the worksharing and the synchronisation constructs, each entry with the  *)
(* index of the one below it in its list.  The checks look only at the      *)
(* heads of the lists.  nest is what the program really is in: the module   *)
(* says that the checks stop exactly the programs whose nesting is wrong.   *)
(***************************************************************************)
EXTENDS Integers, SequencesExt

CONSTANTS Names,       \* names of critical sections
          MinStack,    \* entries of a new stack (100)
          MaxDepth     \* bound: constructs open at once

Growth == MinStack     \* the stack grows to twice its size and this
Me == "me"
Free == "free"

None == [type |-> "none", prev |-> 0, name |-> Free]

VARIABLES data,        \* stack_data, from 0 to stack_size
          top, pTop, wTop, sTop,
          failed,      \* a fatal error has been reported
          owner,       \* the owner of the lock of each critical name
          asked,       \* a critical whose lock the thread waits for
          nest,        \* the constructs the program is in
          wrong        \* the program has done what the rules forbid

vars == <<data, top, pTop, wTop, sTop, failed, owner, asked, nest, wrong>>

Size == Len(data) - 1
At(i) == data[i + 1]

Worksharing == {"pdo", "psingle"}
Synchronising == {"critical", "ordered", "master", "reduce"}

-----------------------------------------------------------------------------
(* kmp_error.cpp.                                                           *)

\* __kmp_expand_cons_stack, when the stack is full.
Expanded ==
  IF top < Size THEN data
  ELSE SubSeq(data, 1, top + 1) \o [i \in 1 .. Size + Growth |-> None]

Entry(type, below, name) == [type |-> type, prev |-> below, name |-> name]

Put(entry) == data' = [Expanded EXCEPT ![top + 2] = entry]

\* The constructs of the innermost parallel region are above its entry.
InWorkshare == wTop > pTop
InSync == sTop > pTop

\* As WorkshareError, were the heads not compared with the parallel region's.
WorkshareErrorAnywhere == wTop > 0 \/ sTop > 0

WorkshareError == InWorkshare \/ InSync
BarrierError == InWorkshare \/ InSync

\* An ordered region in a loop that is not ordered, or in a critical or
\* another ordered region of the same loop.
OrderedError ==
  \/ InWorkshare /\ At(wTop).type # "pdoOrdered"
  \/ InSync /\ sTop > wTop /\ At(sTop).type \in {"critical", "ordered"}

MasterError == InWorkshare
ReduceError == InWorkshare \/ InSync

\* A critical section whose lock the thread has.
CriticalError(name) == owner[name] = Me

SyncError(ct, name) ==
  CASE ct = "ordered"  -> OrderedError
    [] ct = "critical" -> CriticalError(name)
    [] ct = "master"   -> MasterError
    [] ct = "reduce"   -> ReduceError

Fatal == failed' = TRUE /\ UNCHANGED <<data, top, pTop, wTop, sTop>>

PushParallel ==
  /\ Put(Entry("parallel", pTop, Free))
  /\ top' = top + 1
  /\ pTop' = top + 1
  /\ UNCHANGED <<wTop, sTop, failed>>

PushWorkshare(ct) ==
  IF WorkshareError THEN Fatal
  ELSE /\ Put(Entry(ct, wTop, Free))
       /\ top' = top + 1
       /\ wTop' = top + 1
       /\ UNCHANGED <<pTop, sTop, failed>>

PushSync(ct, name) ==
  IF SyncError(ct, name) THEN Fatal
  ELSE /\ Put(Entry(ct, sTop, name))
       /\ top' = top + 1
       /\ sTop' = top + 1
       /\ UNCHANGED <<pTop, wTop, failed>>

\* A check that pushes nothing may still expand the stack.
CheckOnly(error, expands) ==
  IF error THEN Fatal
  ELSE /\ data' = IF expands THEN Expanded ELSE data
       /\ UNCHANGED <<top, pTop, wTop, sTop, failed>>

\* The entry on top is taken off when it heads its list and has the type the
\* end is for; what the code leaves in it is never read again.
Cleared == data' = [data EXCEPT ![top + 1] = None]

\* As Below, were the head left where the entry was.
BelowStale(head) == head

\* The new head of a list whose topmost entry is taken off.
Below(head) == At(head).prev

PopParallel ==
  IF pTop = 0 \/ top # pTop \/ At(top).type # "parallel" THEN Fatal
  ELSE /\ Cleared
       /\ top' = top - 1
       /\ pTop' = Below(pTop)
       /\ UNCHANGED <<wTop, sTop, failed>>

PopWorkshare(ct) ==
  IF \/ wTop = 0
     \/ top # wTop
     \/ At(top).type # ct /\ ~(At(top).type = "pdoOrdered" /\ ct = "pdo")
  THEN Fatal
  ELSE /\ Cleared
       /\ top' = top - 1
       /\ wTop' = Below(wTop)
       /\ UNCHANGED <<pTop, sTop, failed>>

PopSync(ct) ==
  IF sTop = 0 \/ top # sTop \/ At(top).type # ct THEN Fatal
  ELSE /\ Cleared
       /\ top' = top - 1
       /\ sTop' = Below(sTop)
       /\ UNCHANGED <<pTop, wTop, failed>>

-----------------------------------------------------------------------------
(* The rules of the language over the constructs the runtime sees: a loop   *)
(* that is dispatched is not entered in the stack at all.                   *)

Seen == SelectSeq(nest, LAMBDA c : c.ct # "dispatched")

\* The constructs of the innermost parallel region.
OpenRegion ==
  LET parallels == {i \in DOMAIN Seen : Seen[i].ct = "parallel"}
      base == IF parallels = {} THEN 0 ELSE CHOOSE i \in parallels :
                                              \A j \in parallels : j <= i
  IN  SubSeq(Seen, base + 1, Len(Seen))

Has(kinds) == \E i \in DOMAIN OpenRegion : OpenRegion[i].ct \in kinds

\* The synchronisation constructs inside the innermost worksharing one.
Innermost ==
  LET works == {i \in DOMAIN OpenRegion : OpenRegion[i].ct \in Worksharing}
      base == IF works = {} THEN 0 ELSE CHOOSE i \in works : \A j \in works : j <= i
  IN  SelectSeq(SubSeq(OpenRegion, base + 1, Len(OpenRegion)),
                LAMBDA c : c.ct \in Synchronising)

Legal(ct, name) ==
  CASE ct \in Worksharing \union {"barrier", "reduce"} ->
         ~Has(Worksharing) /\ ~Has(Synchronising)
    [] ct = "master" -> ~Has(Worksharing)
    [] ct = "critical" ->
         \A i \in DOMAIN nest : nest[i].ct = "critical" => nest[i].name # name
    [] ct = "ordered" ->
         /\ ~Has(Worksharing)
         /\ Innermost # <<>> => Last(Innermost).ct \notin {"critical", "ordered"}
    [] OTHER -> TRUE

-----------------------------------------------------------------------------
Init ==
  /\ data = [i \in 1 .. MinStack + 1 |-> None]
  /\ top = 0 /\ pTop = 0 /\ wTop = 0 /\ sTop = 0
  /\ failed = FALSE
  /\ owner = [n \in Names |-> Free]
  /\ asked = Free
  /\ nest = <<>>
  /\ wrong = FALSE

Running == ~failed /\ asked = Free

Enters(ct, name) ==
  /\ Running
  /\ Len(nest) < MaxDepth
  /\ nest' = Append(nest, [ct |-> ct, name |-> name])
  /\ wrong' = ~Legal(ct, name)

\* __kmp_run_before_invoked_task and __kmp_serialized_parallel.
EnterParallel == Enters("parallel", Free) /\ PushParallel /\ UNCHANGED <<owner, asked>>

\* __kmpc_for_static_init, and __kmp_enter_single in the thread that gets it.
EnterWorkshare(ct) == Enters(ct, Free) /\ PushWorkshare(ct) /\ UNCHANGED <<owner, asked>>

\* __kmp_dispatch_init ignores push_ws: pushed_ws stays ct_none.
EnterDispatched ==
  /\ Enters("dispatched", Free)
  /\ UNCHANGED <<data, top, pTop, wTop, sTop, failed, owner, asked>>

\* __kmpc_critical: the entry is pushed before the lock is taken.
EnterCritical(name) ==
  /\ Enters("critical", name)
  /\ PushSync("critical", name)
  /\ asked' = IF CriticalError(name) THEN asked ELSE name
  /\ UNCHANGED owner

TakeLock ==
  /\ asked # Free
  /\ owner[asked] = Free
  /\ owner' = [owner EXCEPT ![asked] = Me]
  /\ asked' = Free
  /\ UNCHANGED <<data, top, pTop, wTop, sTop, failed, nest, wrong>>

\* __kmpc_master in a master, __kmpc_reduce, and __kmp_parallel_deo in an
\* active root.
EnterSync(ct) == Enters(ct, Free) /\ PushSync(ct, Free) /\ UNCHANGED <<owner, asked>>

\* A barrier, and a master or single construct the thread has no part in.
Pass(ct) ==
  /\ Running
  /\ CASE ct = "barrier" -> CheckOnly(BarrierError, FALSE)
       [] ct = "psingle" -> CheckOnly(WorkshareError, TRUE)
       [] ct = "master"  -> CheckOnly(MasterError, TRUE)
  /\ wrong' = ~Legal(ct, Free)
  /\ UNCHANGED <<owner, asked, nest>>

\* The program ends a construct; what it ends should be what it is in.
Leaves(ct) ==
  /\ Running
  /\ nest # <<>>
  /\ Last(nest).ct = "dispatched" => ct = "dispatched"
  /\ wrong' = (Last(nest).ct # ct)
  /\ nest' = Front(nest)
  /\ UNCHANGED asked

LeaveParallel == Leaves("parallel") /\ PopParallel /\ UNCHANGED owner

LeaveWorkshare(ct) == Leaves(ct) /\ PopWorkshare(ct) /\ UNCHANGED owner

LeaveDispatched ==
  /\ Leaves("dispatched")
  /\ Last(nest).ct = "dispatched"
  /\ UNCHANGED <<data, top, pTop, wTop, sTop, failed, owner>>

LeaveSync(ct) ==
  /\ Leaves(ct)
  /\ PopSync(ct)
  /\ owner' = IF ct = "critical" /\ Last(nest).ct = "critical"
              THEN [owner EXCEPT ![Last(nest).name] = Free] ELSE owner

\* Other threads take and give back the locks.
OtherThread(name) ==
  /\ ~failed
  /\ owner[name] # Me
  /\ owner' = [owner EXCEPT ![name] = IF @ = Free THEN "other" ELSE Free]
  /\ UNCHANGED <<data, top, pTop, wTop, sTop, failed, asked, nest, wrong>>

Next ==
  \/ EnterParallel \/ LeaveParallel \/ EnterDispatched \/ LeaveDispatched
  \/ TakeLock
  \/ \E ct \in Worksharing : EnterWorkshare(ct) \/ LeaveWorkshare(ct)
  \/ \E name \in Names : EnterCritical(name) \/ OtherThread(name)
  \/ \E ct \in Synchronising \ {"critical"} : EnterSync(ct)
  \/ \E ct \in Synchronising : LeaveSync(ct)
  \/ \E ct \in {"barrier", "psingle", "master"} : Pass(ct)

Spec == Init /\ [][Next]_vars

-----------------------------------------------------------------------------
\* A program is stopped exactly when it breaks a rule: no legal nesting is
\* refused and, of the constructs the runtime is told of, no illegal one and
\* no end that does not match passes, however deep in regions and lists.
StopsTheWrong == failed = wrong

\* The array holds the constructs the program is in, the heads are the topmost
\* entry of each list, and the stack never outgrows its array.
HeadOf(kinds) ==
  LET own == {i \in DOMAIN Seen : Seen[i].ct \in kinds}
  IN  IF own = {} THEN 0 ELSE CHOOSE i \in own : \A j \in own : j <= i

TracksNest ==
  ~failed =>
    /\ top = Len(Seen) /\ top <= Size
    /\ \A i \in DOMAIN Seen : At(i).type = Seen[i].ct
    /\ pTop = HeadOf({"parallel"})
    /\ wTop = HeadOf(Worksharing)
    /\ sTop = HeadOf(Synchronising)

ChecksAreRight == StopsTheWrong /\ TracksNest

\* kmp_gsupport.cpp:513-518 has it that of the loops only the unordered static
\* ones cannot be checked: a thread in a dispatched loop has it on its stack.
DispatchedTracked ==
  ~failed /\ nest # <<>> /\ Last(nest).ct = "dispatched" => top = Len(nest)
=============================================================================
