------------------------------- MODULE Lifecycle -------------------------------
(***************************************************************************)
(* The library comes up when a thread first calls it and goes down when    *)
(* the last root thread leaves.  Threads that the program created by       *)
(* itself become roots by calling in, form teams with workers, end, pause  *)
(* the library or exit, all at the same time.  Two locks order this: the   *)
(* initialization lock, taken first, and the fork-join lock, which guards  *)
(* the array of threads and its counters.  The flags and g_done are also   *)
(* read without a lock.                                                    *)
(***************************************************************************)
EXTENDS Integers, FiniteSets

CONSTANTS
    Thread,             \* threads of the program
    None,
    InitialCapacity,    \* the first size of the array of threads
    SysMaxNth,          \* __kmp_sys_max_nth, the largest size
    TeamSizes,          \* the sizes that regions ask for
    MaxEntries          \* bound: calls of the program

VARIABLES
    init,           \* __kmp_init_serial, _middle, _parallel and _gtid
    global,         \* g_done, g_abort and __kmp_pause_status
    capacity,       \* __kmp_threads_capacity
    threads,        \* __kmp_threads: nothing, a root or a worker in each slot
    all_nth, nth,   \* threads in the array, and those not in the pool
    pool,           \* slots of the threads in the pool
    hot,            \* slots of the workers in each root's hot team
    tls,            \* the gtid in the thread's local storage
    initz, forkjoin,\* the holders of the two locks
    pc,             \* what each thread of the program is doing
    entries

lifecycleVars == <<init, global, capacity, threads, all_nth, nth, pool, hot, tls,
                   initz, forkjoin, pc, entries>>
array == <<capacity, threads, all_nth, nth, pool, hot, tls>>

Slot == 0 .. SysMaxNth - 1
Down == [serial |-> FALSE, middle |-> FALSE, parallel |-> FALSE, gtid |-> FALSE]
Out == [at |-> "out", inside |-> FALSE, purpose |-> None]

LifecycleInit ==
    /\ init = Down
    /\ global = [done |-> FALSE, abort |-> FALSE, pause |-> "none"]
    /\ capacity = 0 /\ threads = [s \in Slot |-> None] /\ all_nth = 0 /\ nth = 0
    /\ pool = {} /\ hot = [t \in Thread |-> {}] /\ tls = [t \in Thread |-> None]
    /\ initz = None /\ forkjoin = None
    /\ pc = [t \in Thread |-> Out] /\ entries = 0

At(t, where) == pc[t].at = where
Goto(t, where) == pc' = [pc EXCEPT ![t].at = where]
IsRoot(s) == threads[s] \in Thread
Lowest(S) == CHOOSE s \in S : \A r \in S : s <= r
LowestOf(S, n) == {s \in S : Cardinality({r \in S : r < s}) < n}

-----------------------------------------------------------------------------
(* The array of threads, under the fork-join lock.                          *)

(* The capacity after an attempt to add slots: doubled until it is enough,  *)
(* and no larger than the limit.                                            *)
ExpandThreads(need) ==
    IF SysMaxNth - capacity < need THEN capacity
    ELSE Lowest({c \in {capacity * 2^k : k \in 1 .. SysMaxNth} \cup {SysMaxNth} :
                   c >= capacity + need /\ c <= SysMaxNth})

(* Mutant: slot 0 counts as free for any root.                              *)
UsableWithFirst == capacity

(* Slot 0 is kept for the thread that initializes the library.              *)
Usable == IF threads[0] = None THEN capacity - 1 ELSE capacity

CapacityToRegister(initial) ==
    IF all_nth >= (IF initial THEN capacity ELSE Usable) THEN ExpandThreads(1) ELSE capacity
FreeSlots(from) == {s \in Slot : s >= from /\ threads[s] = None}

RegisterRoot(t, initial) ==
    LET slot == IF initial THEN 0 ELSE Lowest(FreeSlots(1)) IN
    /\ capacity' = CapacityToRegister(initial)
    /\ threads' = [threads EXCEPT ![slot] = t]
    /\ all_nth' = all_nth + 1 /\ nth' = nth + 1
    /\ tls' = [tls EXCEPT ![t] = slot]
    /\ UNCHANGED <<pool, hot>>

(* How many threads the team may have, and the capacity then.               *)
Reserve(t, n) ==
    LET required == nth + n - (1 + Cardinality(hot[t])) - Usable
        added == IF required > 0 THEN ExpandThreads(required) - capacity ELSE 0
    IN [n |-> IF added < required THEN n - (required - added) ELSE n,
        capacity |-> capacity + added]

(* A hot team grows by threads of the pool, then by new ones, and gives     *)
(* back those that it has too many.                                         *)
FormTeam(t, n) ==
    LET want == n - 1 - Cardinality(hot[t])
        pooled == LowestOf(pool, want)
        fresh == LowestOf(FreeSlots(1), want - Cardinality(pooled))
        kept == LowestOf(hot[t], n - 1)
    IN IF want >= 0
       THEN /\ threads' = [s \in Slot |-> IF s \in fresh THEN "worker" ELSE threads[s]]
            /\ all_nth' = all_nth + Cardinality(fresh) /\ nth' = nth + want
            /\ pool' = pool \ pooled /\ hot' = [hot EXCEPT ![t] = @ \cup pooled \cup fresh]
       ELSE /\ nth' = nth + want /\ pool' = pool \cup (hot[t] \ kept)
            /\ hot' = [hot EXCEPT ![t] = kept] /\ UNCHANGED <<threads, all_nth>>

(* The root's workers go to the pool and its slot becomes free.             *)
ResetRoot(t) ==
    /\ threads' = [threads EXCEPT ![tls[t]] = None]
    /\ all_nth' = all_nth - 1 /\ nth' = nth - 1 - Cardinality(hot[t])
    /\ pool' = pool \cup hot[t] /\ hot' = [hot EXCEPT ![t] = {}]
    /\ tls' = [tls EXCEPT ![t] = None]
    /\ UNCHANGED capacity

-----------------------------------------------------------------------------
(* A thread calls the library, to form a team or for anything else; first   *)
(* it looks up who it is, without a lock.                                   *)
Enter(t) ==
    /\ At(t, "out") /\ entries < MaxEntries /\ entries' = entries + 1
    /\ \E purpose \in {"use", "fork"} :
         pc' = [pc EXCEPT ![t] = [at |-> "look", inside |-> FALSE, purpose |-> purpose]]
    /\ UNCHANGED <<init, global, array, initz, forkjoin>>

LookSerial(t) ==
    /\ At(t, "look") /\ Goto(t, IF init.serial THEN "lookTls" ELSE "wait")
    /\ UNCHANGED <<init, global, array, initz, forkjoin, entries>>

Entered(t) == Goto(t, IF pc[t].purpose = "fork" THEN "parallel" ELSE "out")

(* While the library goes down the look-up answers KMP_GTID_SHUTDOWN, with  *)
(* which the caller is lost.                                                *)
LookTls(t) ==
    /\ At(t, "lookTls")
    /\ CASE ~init.gtid -> Goto(t, "lost")
         [] init.gtid /\ tls[t] = None -> Goto(t, "wait")
         [] OTHER -> Entered(t)
    /\ UNCHANGED <<init, global, array, initz, forkjoin, entries>>

AcquireInitz(t) ==
    /\ At(t, "wait") /\ initz = None /\ initz' = t
    /\ Goto(t, IF init.serial THEN "register" ELSE "serial")
    /\ UNCHANGED <<init, global, array, forkjoin, entries>>

SerialInitialize(t) ==
    /\ At(t, "serial") /\ Goto(t, "registerInitial")
    /\ global' = [global EXCEPT !.done = FALSE, !.abort = FALSE]
    /\ forkjoin' = None
    /\ capacity' = InitialCapacity /\ threads' = [s \in Slot |-> None]
    /\ all_nth' = 0 /\ nth' = 0 /\ pool' = {}
    /\ UNCHANGED <<init, hot, tls, initz, entries>>

(* No room for another root ends the program.                               *)
Register(t) ==
    /\ At(t, "register") \/ At(t, "registerInitial")
    /\ forkjoin = None
    /\ LET initial == At(t, "registerInitial") IN
       IF all_nth >= (IF initial THEN capacity ELSE Usable) /\ ExpandThreads(1) = capacity
         THEN Goto(t, "fatal") /\ UNCHANGED <<array, init>>
         ELSE /\ RegisterRoot(t, initial) /\ Goto(t, "registered")
              /\ init' = [init EXCEPT !.gtid = TRUE]
    /\ UNCHANGED <<global, initz, forkjoin, entries>>

(* Mutant: the lock of the initialization is kept.                          *)
FinishRegisterKeeps(t) ==
    /\ At(t, "registered") /\ init' = [init EXCEPT !.serial = TRUE]
    /\ Entered(t)
    /\ UNCHANGED <<global, array, initz, forkjoin, entries>>

FinishRegister(t) ==
    /\ At(t, "registered") /\ init' = [init EXCEPT !.serial = TRUE]
    /\ initz' = None /\ Entered(t)
    /\ UNCHANGED <<global, array, forkjoin, entries>>

-----------------------------------------------------------------------------
(* A region: the first one completes the initialization.                    *)
LookParallel(t) ==
    /\ At(t, "parallel") /\ Goto(t, IF init.parallel THEN "fork" ELSE "waitParallel")
    /\ UNCHANGED <<init, global, array, initz, forkjoin, entries>>

AcquireInitzParallel(t) ==
    /\ At(t, "waitParallel") /\ initz = None
    /\ IF init.parallel THEN Goto(t, "fork") /\ UNCHANGED initz
       ELSE Goto(t, "initialize") /\ initz' = t
    /\ UNCHANGED <<init, global, array, forkjoin, entries>>

(* After an abort the thread loops for ever, with the lock.                 *)
ParallelInitialize(t) ==
    /\ At(t, "initialize")
    /\ IF global.done THEN Goto(t, "stuck") /\ UNCHANGED <<init, global, initz>>
       ELSE /\ init' = [init EXCEPT !.middle = TRUE, !.parallel = TRUE]
            /\ global' = [global EXCEPT !.pause = IF @ = "hard" THEN "none" ELSE @]
            /\ initz' = None /\ Goto(t, "fork")
    /\ UNCHANGED <<array, forkjoin, entries>>

Fork(t) ==
    /\ At(t, "fork") /\ forkjoin = None
    /\ \E n \in TeamSizes :
         LET r == Reserve(t, n) IN
         /\ capacity' = r.capacity
         /\ IF r.n > 1 THEN FormTeam(t, r.n) /\ Goto(t, "region")
            ELSE Goto(t, "out") /\ UNCHANGED <<threads, all_nth, nth, pool, hot>>
    /\ UNCHANGED <<init, global, tls, initz, forkjoin, entries>>

Join(t) ==
    /\ At(t, "region") /\ Goto(t, "out")
    /\ UNCHANGED <<init, global, array, initz, forkjoin, entries>>

-----------------------------------------------------------------------------
(* A thread ends its use of the library: by __kmpc_end, by a hard pause or  *)
(* by exiting, when the destructor of its local storage calls.              *)
End(t) ==
    /\ entries < MaxEntries /\ entries' = entries + 1
    /\ \E purpose \in {"end", "pause", "exit"} :
         /\ At(t, "out") \/ (At(t, "region") /\ purpose # "exit")
         /\ purpose = "exit" => tls[t] # None
         /\ purpose = "pause" => global.pause = "none"
         /\ pc' = [pc EXCEPT ![t] =
              [at |-> "end", inside |-> At(t, "region"), purpose |-> purpose]]
         /\ global' = [global EXCEPT !.pause = IF purpose = "pause" THEN "hard" ELSE @]
    /\ UNCHANGED <<init, array, initz, forkjoin>>

Ended(t) == Goto(t, CASE pc[t].purpose = "exit" -> "gone"
                      [] pc[t].inside -> "region"
                      [] OTHER -> "out")
Finished == global.abort \/ global.done \/ ~init.serial

LookFinished(t) ==
    /\ At(t, "end") /\ (IF Finished THEN Ended(t) ELSE Goto(t, "who"))
    /\ UNCHANGED <<init, global, array, initz, forkjoin, entries>>

(* A root that is still in a region aborts the library.                     *)
LookWho(t) ==
    /\ At(t, "who")
    /\ CASE ~init.gtid \/ tls[t] = None -> Ended(t) /\ UNCHANGED global
         [] init.gtid /\ tls[t] # None /\ pc[t].inside ->
              Ended(t) /\ global' = [global EXCEPT !.abort = TRUE, !.done = TRUE]
         [] OTHER -> Goto(t, "unregister") /\ UNCHANGED global
    /\ UNCHANGED <<init, array, initz, forkjoin, entries>>

Unregister(t) ==
    /\ At(t, "unregister") /\ forkjoin = None
    /\ IF global.done \/ ~init.serial
         THEN Goto(t, "waitEnd") /\ UNCHANGED forkjoin
         ELSE Goto(t, "reset") /\ forkjoin' = t
    /\ UNCHANGED <<init, global, array, initz, entries>>

Reset(t) ==
    /\ At(t, "reset") /\ ResetRoot(t)
    /\ forkjoin' = None /\ Goto(t, "waitEnd")
    /\ UNCHANGED <<init, global, initz, entries>>

AcquireInitzEnd(t) ==
    /\ At(t, "waitEnd") /\ initz = None
    /\ IF Finished THEN Ended(t) /\ UNCHANGED initz
       ELSE Goto(t, "siblings") /\ initz' = t
    /\ UNCHANGED <<init, global, array, forkjoin, entries>>

(* Mutant: the roots are not looked for.                                    *)
SiblingsNone == FALSE

(* Roots that are still registered.                                         *)
Siblings == \E s \in 0 .. capacity - 1 : IsRoot(s)

(* The last root reaps the threads of the pool.                             *)
InternalEnd(t) ==
    /\ At(t, "siblings") /\ forkjoin = None
    /\ IF Siblings
         THEN Ended(t) /\ initz' = None /\ UNCHANGED <<init, global, array, forkjoin>>
         ELSE /\ Goto(t, "cleanup") /\ forkjoin' = t
              /\ global' = [global EXCEPT !.done = TRUE]
              /\ threads' = [s \in Slot |-> IF s \in pool THEN None ELSE threads[s]]
              /\ all_nth' = all_nth - Cardinality(pool) /\ pool' = {}
              /\ init' = [init EXCEPT !.gtid = FALSE]
              /\ UNCHANGED <<initz, capacity, nth, hot, tls>>
    /\ UNCHANGED entries

Cleanup(t) ==
    /\ At(t, "cleanup") /\ init' = Down
    /\ capacity' = 0 /\ threads' = [s \in Slot |-> None]
    /\ tls' = [u \in Thread |-> None]
    /\ initz' = None /\ forkjoin' = None /\ Ended(t)
    /\ UNCHANGED <<global, all_nth, nth, pool, hot, entries>>

-----------------------------------------------------------------------------
Locking(t) == AcquireInitz(t) \/ AcquireInitzParallel(t) \/ AcquireInitzEnd(t)
              \/ Register(t) \/ Fork(t) \/ Unregister(t) \/ InternalEnd(t)
Plain(t) == LookSerial(t) \/ LookTls(t) \/ SerialInitialize(t) \/ FinishRegister(t)
            \/ LookParallel(t) \/ ParallelInitialize(t) \/ Join(t)
            \/ LookFinished(t) \/ LookWho(t) \/ Reset(t) \/ Cleanup(t)

Alive == \A t \in Thread : ~At(t, "fatal")
LifecycleNext ==
    Alive /\ \E t \in Thread : Enter(t) \/ End(t) \/ Locking(t) \/ Plain(t)

(* Both locks are ticket locks, which are fair.                             *)
LifecycleFairness == \A t \in Thread : /\ WF_lifecycleVars(Alive /\ Plain(t))
                                       /\ SF_lifecycleVars(Alive /\ Locking(t))

LifecycleSpec == LifecycleInit /\ [][LifecycleNext]_lifecycleVars /\ LifecycleFairness

-----------------------------------------------------------------------------
(* The counters match the array, which holds every worker once and stays    *)
(* within its capacity, and all is gone when the library is down: what the  *)
(* assertions of __kmp_allocate_thread and of the next initialization ask.  *)
CountsMatch ==
    forkjoin = None =>
        LET occupied == {s \in Slot : threads[s] # None}
            workers == {s \in Slot : threads[s] = "worker"}
        IN /\ all_nth = Cardinality(occupied) /\ nth = all_nth - Cardinality(pool)
           /\ \A s \in occupied : s < capacity
           /\ workers = pool \cup UNION {hot[t] : t \in Thread}
           /\ \A t \in Thread : hot[t] \cap pool = {}
           /\ \A t, u \in Thread : t # u => hot[t] \cap hot[u] = {}
           /\ ~init.gtid => all_nth = 0 /\ pool = {}

(* The library is up for a thread that is registered or works with what it  *)
(* found: its gtid names its own slot, however other roots come and go.     *)
StaysUp ==
    \A t \in Thread :
        /\ tls[t] # None /\ ~At(t, "gone") => init.gtid /\ threads[tls[t]] = t
        /\ pc[t].at \in {"parallel", "waitParallel", "initialize", "fork", "region"} =>
             init.serial /\ tls[t] # None
        /\ At(t, "region") => init.middle /\ init.parallel /\ (global.done => global.abort)
        /\ pc[t].at \in {"reset", "cleanup"} => forkjoin = t

(* A call returns, unless the library was aborted or the program ended.     *)
CallsReturn ==
    \A t \in Thread :
        ~At(t, "out") ~> (pc[t].at \in {"out", "region", "gone", "lost"}
                          \/ global.abort \/ ~Alive)

(* A call finds or makes the caller's gtid (the assertion at the end of     *)
(* __kmp_get_global_thread_id_reg).                                         *)
CallsFindGtid == \A t \in Thread : ~At(t, "lost")
=============================================================================
