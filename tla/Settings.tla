------------------------------ MODULE Settings ------------------------------
(***************************************************************************)
(* The settings of the library (kmp_settings.cpp).  They are read from the *)
(* environment when the library starts and again, variable by variable,    *)
(* from the strings given to kmp_set_defaults; each such reading is a      *)
(* session of __kmp_env_initialize.  The variables of a session are parsed *)
(* in the order they stand in the block, every parser writes the globals   *)
(* it knows, and some settings are rivals: the one of higher priority      *)
(* silences the others if it is given in the same session.                 *)
(*                                                                         *)
(* The globals are the fields of one record, named after them without the  *)
(* prefix __kmp_.  A value of a variable is a token: a number with a unit, *)
(* a word, a list of numbers (Empty for an empty place) or of words, a     *)
(* schedule.  Spelling, spaces and warnings are left out; a value that no  *)
(* parser takes is the word "junk".                                        *)
(***************************************************************************)
EXTENDS Integers, Sequences, FiniteSets, TLC, SequencesExt, FiniteSetsExt

CONSTANTS
    Xproc,         \* processors of the machine, __kmp_xproc
    SysMaxNth,     \* __kmp_sys_max_nth
    Kilo,          \* stands for 1024
    MaxSize,       \* KMP_MAX_STKSIZE and the other limits on sizes
    MaxInt,        \* INT_MAX, the limit on levels, blocktime and plain numbers
    HasRtm,        \* the processor has restricted transactional memory
    Environments,  \* environments the library may be started with: sequences
                   \* of <<name, token>>, without a name twice
    Strings,       \* strings for kmp_set_defaults, likewise
    MaxCalls       \* bound on calls of the application and on restarts

VARIABLES
    g,             \* the globals
    environment,   \* the environment of the process
    phase,         \* "down", "warnings", "parse", "up"
    block,         \* the variables of the session still to parse
    set,           \* names given in the session
    text,          \* the session is one of kmp_set_defaults
    init,          \* what is initialised: "serial", "middle", "parallel", "locks"
    root,          \* the controls of the initial task
    told,          \* names the last kmp_set_defaults gave, if nothing followed
    pure,          \* only the environment has set anything
    calls

vars == <<g, environment, phase, block, set, text, init, root, told, pure, calls>>

Empty == -1
Clamp(n, low, high) == Max({low, Min({n, high})})

-----------------------------------------------------------------------------
(* Values. *)

Leading[n \in Nat] == IF n < 10 THEN n ELSE Leading[n \div 10]

\* "1" and "0" match any number that begins with them.
IsTrue(v) == \/ v.is = "word" /\ v.w \in {"true", "on", "yes", "enabled"}
             \/ v.is = "num" /\ Leading[v.n] = 1
IsFalse(v) == \/ v.is = "word" /\ v.w \in {"false", "off", "no", "disabled"}
              \/ v.is = "num" /\ Leading[v.n] = 0

ParseBool(v, old) == IF IsTrue(v) THEN TRUE ELSE IF IsFalse(v) THEN FALSE ELSE old

Bytes(v, factor) ==
    v.n * CASE v.unit = "" -> factor [] v.unit = "b" -> 1 [] v.unit = "k" -> Kilo

ParseSize(v, low, high, factor, old) ==
    IF v.is = "num" THEN Clamp(Bytes(v, factor), low, high) ELSE old

IsUint(v) == v.is = "num" /\ v.unit = ""

\* A value that is no number leaves the old one, cut to the range.
ParseInt(v, low, high, old) == Clamp(IF IsUint(v) THEN v.n ELSE old, low, high)

\* -1 for what is no number.
ToInt(v) == IF v.is = "num" THEN Bytes(v, 1) ELSE -1

\* The list without the place after a trailing comma; empty for a syntax error.
Places(v) ==
    IF v.is = "list"
    THEN IF v.items # <<>> /\ Last(v.items) = Empty THEN Front(v.items) ELSE v.items
    ELSE IF IsUint(v) THEN <<v.n>> ELSE <<>>

\* An empty place repeats the place before it; at the start it is 0, "to
\* correct it later" when the number of processors is known.
Filled(l) ==
    [i \in 1..Len(l) |->
        LET here == {j \in 1..i : l[j] # Empty}
        IN  IF here = {} THEN 0 ELSE Clamp(l[Max(here)], 1, SysMaxNth)]

-----------------------------------------------------------------------------
(* Rivals, highest priority first. *)

StackRivals == <<"KMP_STACKSIZE", "GOMP_STACKSIZE", "OMP_STACKSIZE">>
LibraryRivals == <<"KMP_LIBRARY", "OMP_WAIT_POLICY">>
LimitRivals == <<"KMP_DEVICE_THREAD_LIMIT", "KMP_ALL_THREADS">>
ReductionRivals == <<"KMP_FORCE_REDUCTION", "KMP_DETERMINISTIC_REDUCTION">>

RivalLists == {StackRivals, LibraryRivals, LimitRivals, ReductionRivals}

\* A rival of higher priority is given in the session: the value is ignored.
Beaten(name, given) ==
    \E l \in RivalLists : \E i, j \in 1..Len(l) :
        i < j /\ l[j] = name /\ l[i] \in given

-----------------------------------------------------------------------------
(* The parsers: the globals after the variable name with value v is read.  *)
(* h are the globals, given the names of the session, up what is           *)
(* initialised, junk what an uninitialised local happens to hold.          *)

ParseThreadLimits(h, name, v) ==
    CASE name \in Range(LimitRivals) ->
            IF v.is = "word" /\ v.w = "all"
            THEN [h EXCEPT !.max_nth = Xproc, !.all_threads = TRUE]
            ELSE [h EXCEPT !.max_nth = ParseInt(v, 1, SysMaxNth, @), !.all_threads = FALSE]
      [] name = "OMP_THREAD_LIMIT" ->
            [h EXCEPT !.cg_max_nth = ParseInt(v, 1, SysMaxNth, @)]
      [] name = "KMP_TEAMS_THREAD_LIMIT" ->
            [h EXCEPT !.teams_max_nth = ParseInt(v, 1, SysMaxNth, @)]
      [] name = "KMP_USE_YIELD" ->
            [h EXCEPT !.use_yield = ParseInt(v, 0, 2, @), !.yield_set = TRUE]

\* Seconds are a thousand milliseconds; -1 for what is no time.
Milliseconds(v) ==
    CASE v.is = "word" /\ v.w = "infinite" -> MaxInt
      [] IsUint(v) -> Min({v.n, MaxInt - 1})
      [] OTHER -> -1

ParseBlocktime(h, v) ==
    LET ms == Milliseconds(v)
    IN  IF ms < 0
        THEN [h EXCEPT !.blocktime = 200, !.env_blocktime = FALSE]
        ELSE [h EXCEPT !.blocktime = ms, !.env_blocktime = TRUE]

(* Mutant: the policy sets the blocktime whatever KMP_BLOCKTIME says. *)
PolicyOverBlocktime(h, name, v, given) ==
    LET w == IF v.is = "word" THEN v.w ELSE "junk"
    IN  CASE w = "active" -> [h EXCEPT !.library = "turnaround", !.blocktime = MaxInt]
          [] w \in {"passive", "throughput"} ->
                [h EXCEPT !.library = "throughput", !.blocktime = 0]
          [] OTHER -> [h EXCEPT !.library = w]

\* The blocktime follows the policy unless the session names one.
ParseWaitPolicy(h, name, v, given) ==
    LET Policy(library, blocktime) ==
            [h EXCEPT !.library = library,
                      !.blocktime = IF "KMP_BLOCKTIME" \in given \/ blocktime = Empty
                                    THEN @ ELSE blocktime]
        w == IF v.is = "word" THEN v.w ELSE "junk"
    IN  IF name = "OMP_WAIT_POLICY"
        THEN CASE w = "active"  -> Policy("turnaround", MaxInt)
               [] w = "passive" -> Policy("throughput", 0)
               [] OTHER -> h
        ELSE CASE w = "serial" -> Policy("serial", Empty)
               [] w \in {"throughput", "multiuser"} -> Policy("throughput", 0)
               [] w \in {"turnaround", "dedicated"} -> Policy("turnaround", Empty)
               [] OTHER -> h

LeastStack == 2 * Kilo

ParseStack(h, name, v) ==
    CASE name = "KMP_STACKPAD" -> [h EXCEPT !.stkpadding = ParseInt(v, 0, 2 * Kilo, @)]
      [] name = "KMP_STACKOFFSET" -> [h EXCEPT !.stkoffset = ParseSize(v, 0, MaxSize, 1, @)]
      [] OTHER ->
            [h EXCEPT !.stksize = ParseSize(v, LeastStack, MaxSize,
                                            IF name = "KMP_STACKSIZE" THEN 1 ELSE Kilo, @),
                      !.env_stksize = TRUE]

ParseWarnings(h, v) ==
    [h EXCEPT !.warnings =
        CASE IsFalse(v) -> "off"
          [] ~IsTrue(v) /\ @ = "off" -> "off"
          [] OTHER -> "explicit"]

\* With a value that is neither true nor false the local is not initialised.
ParseNested(h, v, junk) ==
    IF ParseBool(v, junk)
    THEN IF h.max_levels_set THEN h ELSE [h EXCEPT !.max_levels = MaxInt]
    ELSE [h EXCEPT !.max_levels = 1, !.max_levels_set = TRUE]

\* A list with more than one place turns nesting on, unless a level was set.
Nesting(h, places) ==
    IF places > 1 /\ ~h.max_levels_set THEN [h EXCEPT !.max_levels = MaxInt] ELSE h

ParseNumThreads(h, v) ==
    LET l == Filled(Places(v))
        nth == IF l = <<>> THEN h.nth ELSE l
    IN  CASE v.is = "word" /\ v.w = "all" ->
                [h EXCEPT !.nth = <<Xproc>>, !.team_nth = Xproc, !.team_nth_ub = Xproc]
          [] nth = <<>> -> h
          [] OTHER -> [Nesting(h, Len(l)) EXCEPT !.nth = nth, !.team_nth = nth[1],
                                                 !.team_nth_ub = Max({@, nth[1]})]

\* Once set, the limit is not set again.
ParseMaxLevels(h, v) ==
    IF ~h.max_levels_set /\ IsUint(v) /\ v.n <= MaxInt
    THEN [h EXCEPT !.max_levels = v.n, !.max_levels_set = TRUE] ELSE h

ParseTasks(h, name, v) ==
    IF name = "KMP_TASKING" THEN [h EXCEPT !.tasking = ParseInt(v, 0, 2, @)]
                            ELSE [h EXCEPT !.stealing = ParseInt(v, 0, 1, @)]

ParseDevice(h, name, v) ==
    IF name = "OMP_DEFAULT_DEVICE" THEN [h EXCEPT !.device = ParseInt(v, 0, MaxInt, @)]
    ELSE [h EXCEPT !.offload =
            IF v.is = "word" /\ v.w \in {"mandatory", "disabled"} THEN v.w ELSE "default"]

ParseTaskLimits(h, name, v, junk) ==
    IF name = "OMP_MAX_TASK_PRIORITY" THEN [h EXCEPT !.priority = ParseInt(v, 0, MaxInt, @)]
    ELSE [h EXCEPT !.min_tasks = ParseInt(v, 0, MaxInt, IF junk THEN MaxInt ELSE 0)]

\* Read before the serial initialisation only.
ParseBuffers(h, v, up) ==
    IF "serial" \in up THEN h ELSE [h EXCEPT !.buffers = ParseInt(v, 1, SysMaxNth, @)]

\* Read before the first parallel region only.
ParseHotTeams(h, name, v, up) ==
    CASE "parallel" \in up -> h
      [] name = "KMP_HOT_TEAMS_MAX_LEVEL" -> [h EXCEPT !.hot_level = ParseInt(v, 0, MaxInt, @)]
      [] OTHER -> [h EXCEPT !.hot_mode = ParseInt(v, 0, MaxInt, @)]

MaxBranchBits == 5
DefaultBits == 2

\* Gather and release; without the second the release gets the default.
ParseBranchBits(h, v) ==
    LET Bits(n) == IF n \in 0..MaxBranchBits THEN n ELSE DefaultBits
        l == IF v.is = "list" THEN v.items ELSE <<ToInt(v)>>
    IN  [h EXCEPT !.bits = <<Bits(l[1]), IF Len(l) > 1 THEN Bits(l[2]) ELSE DefaultBits>>]

Patterns == {"linear", "tree", "hyper", "hierarchical"}

\* A pattern nobody knows leaves the one in force, whatever the message says.
ParsePattern(h, v) ==
    LET Known(i, old) == IF i <= Len(v.words) /\ v.words[i] \in Patterns
                         THEN v.words[i] ELSE old
    IN  IF v.is = "words"
        THEN [h EXCEPT !.pattern = <<Known(1, @[1]), Known(2, @[2])>>] ELSE h

\* Seconds in the variable, milliseconds in the global.
ParseAbortDelay(h, v) ==
    [h EXCEPT !.abort_delay = ParseInt(v, 0, MaxInt \div 10, @ \div 10) * 10]

\* An unknown method is a fatal error, so no session gives one.
ParseReduction(h, name, v) ==
    IF name = "KMP_FORCE_REDUCTION" THEN [h EXCEPT !.force_reduction = v.w]
    ELSE LET determ == ParseBool(v, h.determ)
         IN  [h EXCEPT !.determ = determ, !.force_reduction = IF determ THEN "tree" ELSE "none"]

ParseThreadPrivate(h, name, v) ==
    IF name = "KMP_ALL_THREADPRIVATE"
    THEN [h EXCEPT !.tp_capacity =
            ParseInt(v, IF h.all_threads THEN h.max_nth ELSE 1, h.max_nth, @)]
    ELSE [h EXCEPT !.foreign_tp = ParseBool(v, @)]

\* A list with a word that is no policy has turned nesting on all the same.
ParseProcBind(h, v) ==
    CASE v.is = "word" /\ v.w \in {"disabled", "false"} -> [h EXCEPT !.bind = <<"false">>]
      [] v.is = "word" /\ v.w = "true" -> [h EXCEPT !.bind = <<"true">>]
      [] v.is = "words" ->
            [Nesting(h, Len(v.words)) EXCEPT !.bind =
                IF Range(v.words) \subseteq {"master", "close", "spread"}
                THEN v.words ELSE <<"false">>]
      [] OTHER -> [h EXCEPT !.bind = <<"false">>]

\* No allocator but the default one without the memkind library.
ParseAllocator(h, v) ==
    IF v.is = "word" /\ v.w = "junk" THEN h ELSE [h EXCEPT !.allocator = "default"]

ParseDynamicMode(h, v, up) ==
    IF "parallel" \notin up /\ v.is = "word" /\ v.w \in {"load balance", "thread limit", "random"}
    THEN [h EXCEPT !.dynamic_mode = v.w] ELSE h

\* Clauses one by one; a clause without a known kind and way is skipped.
ParseSchedule(h, v) ==
    LET Clause(k, c) ==
            CASE c[1] = "static" /\ c[2] \in {"greedy", "balanced"} -> [k EXCEPT !.static = c[2]]
              [] c[1] = "guided" /\ c[2] \in {"iterative", "analytical"} -> [k EXCEPT !.guided = c[2]]
              [] OTHER -> k
    IN  IF v.is = "clauses" THEN FoldLeft(Clause, h, v.clauses) ELSE h

\* An unknown kind restores the default; "auto" takes no chunk.
ParseOmpSchedule(h, v) ==
    CASE v.is # "schedule" -> [h EXCEPT !.sched = "static", !.chunk = 0]
      [] v.kind = "auto" \/ v.chunk = Empty -> [h EXCEPT !.sched = v.kind, !.chunk = 0]
      [] OTHER -> [h EXCEPT !.sched = IF v.kind = "static" THEN "static_chunked" ELSE v.kind,
                            !.chunk = Clamp(v.chunk, 1, MaxInt - 1)]

\* 0 does not change the mode.
ParseAtomicMode(h, v) ==
    LET mode == ParseInt(v, 0, 2, 0)
    IN  IF mode > 0 THEN [h EXCEPT !.atomic_mode = mode] ELSE h

ParseConsistency(h, v) ==
    IF v.is = "word" /\ v.w \in {"all", "none"}
    THEN [h EXCEPT !.consistency = (v.w = "all")] ELSE h

ParseGtidMode(h, v) ==
    LET mode == ParseInt(v, 0, 2, 0)
    IN  IF mode = 0 THEN [h EXCEPT !.adjust_gtid = TRUE]
        ELSE [h EXCEPT !.gtid_mode = mode, !.adjust_gtid = FALSE]

LockKinds == {"tas", "ticket", "queuing", "drdpa", "adaptive", "rtm", "hle"}

\* Read before the lock tables are built only; a kind that needs transactional
\* memory becomes a queuing lock where there is none.
ParseLockKind(h, v, up) ==
    IF "locks" \in up \/ v.is # "word" \/ v.w \notin LockKinds THEN h
    ELSE [h EXCEPT !.lock_kind =
            IF v.w \in {"adaptive", "rtm"} /\ ~HasRtm THEN "queuing" ELSE v.w]

\* Two numbers; an empty place leaves what was there.
Pair(v, low, old) ==
    LET l == Places(v)
        At(i) == IF i <= Len(l) /\ l[i] # Empty THEN Max({l[i], low}) ELSE old[i]
    IN  IF l = <<>> THEN old ELSE <<At(1), At(2)>>

ParseSpinBackoff(h, v) == [h EXCEPT !.backoff = Pair(v, 1, @)]

\* What the list does not give becomes 0 here.
ParseAdaptiveProps(h, v) ==
    [h EXCEPT !.adaptive = IF Places(v) = <<>> THEN @ ELSE Pair(v, 0, <<0, 0>>)]

ParseDisplayEnv(h, v) ==
    IF v.is = "word" /\ v.w = "verbose" THEN [h EXCEPT !.display_verbose = TRUE]
    ELSE [h EXCEPT !.display = ParseBool(v, @)]

\* Read before the first parallel region only.
ParseCancellation(h, v, up) ==
    IF "parallel" \in up THEN h ELSE [h EXCEPT !.cancellation = ParseBool(v, @)]

\* Settings that are a switch or a size and nothing more, with their globals.
Switches ==
    [KMP_SETTINGS |-> "settings", KMP_VERSION |-> "version",
     KMP_DUPLICATE_LIB_OK |-> "duplicate_ok", OMP_DISPLAY_AFFINITY |-> "display_affinity",
     KMP_INHERIT_FP_CONTROL |-> "fp_control", OMP_DYNAMIC |-> "dynamic"]
Sizes == [KMP_ALIGN_ALLOC |-> "align", KMP_MALLOC_POOL_INCR |-> "pool_incr"]

Barriers ==
    [KMP_PLAIN_BARRIER |-> "plain", KMP_FORKJOIN_BARRIER |-> "forkjoin",
     KMP_REDUCTION_BARRIER |-> "reduction"]
BarrierPatterns ==
    [KMP_PLAIN_BARRIER_PATTERN |-> "plain", KMP_FORKJOIN_BARRIER_PATTERN |-> "forkjoin",
     KMP_REDUCTION_BARRIER_PATTERN |-> "reduction"]

\* The table of settings: who reads the variable.
Parse(name, v, h, given, up, junk) ==
    CASE Beaten(name, given) -> h
      [] name \in DOMAIN Switches -> [h EXCEPT ![Switches[name]] = ParseBool(v, @)]
      [] name \in DOMAIN Sizes -> [h EXCEPT ![Sizes[name]] = ParseSize(v, 1, MaxSize, 1, @)]
      [] name \in Range(LimitRivals) \cup
                  {"OMP_THREAD_LIMIT", "KMP_TEAMS_THREAD_LIMIT", "KMP_USE_YIELD"} ->
            ParseThreadLimits(h, name, v)
      [] name = "KMP_BLOCKTIME" -> ParseBlocktime(h, v)
      [] name \in Range(LibraryRivals) -> ParseWaitPolicy(h, name, v, given)
      [] name \in Range(StackRivals) \cup {"KMP_STACKPAD", "KMP_STACKOFFSET"} ->
            ParseStack(h, name, v)
      [] name = "KMP_WARNINGS" -> ParseWarnings(h, v)
      [] name = "OMP_NESTED" -> ParseNested(h, v, junk)
      [] name = "OMP_NUM_THREADS" -> ParseNumThreads(h, v)
      [] name = "OMP_MAX_ACTIVE_LEVELS" -> ParseMaxLevels(h, v)
      [] name \in {"KMP_TASKING", "KMP_TASK_STEALING_CONSTRAINT"} -> ParseTasks(h, name, v)
      [] name \in {"OMP_DEFAULT_DEVICE", "OMP_TARGET_OFFLOAD"} -> ParseDevice(h, name, v)
      [] name \in {"OMP_MAX_TASK_PRIORITY", "KMP_TASKLOOP_MIN_TASKS"} ->
            ParseTaskLimits(h, name, v, junk)
      [] name = "KMP_DISP_NUM_BUFFERS" -> ParseBuffers(h, v, up)
      [] name \in {"KMP_HOT_TEAMS_MAX_LEVEL", "KMP_HOT_TEAMS_MODE"} ->
            ParseHotTeams(h, name, v, up)
      [] name \in DOMAIN Barriers ->
            [h EXCEPT ![Barriers[name]] = ParseBranchBits(@, v)]
      [] name \in DOMAIN BarrierPatterns ->
            [h EXCEPT ![BarrierPatterns[name]] = ParsePattern(@, v)]
      [] name = "KMP_ABORT_DELAY" -> ParseAbortDelay(h, v)
      [] name \in Range(ReductionRivals) -> ParseReduction(h, name, v)
      [] name \in {"KMP_ALL_THREADPRIVATE", "KMP_FOREIGN_THREADS_THREADPRIVATE"} ->
            ParseThreadPrivate(h, name, v)
      [] name = "OMP_PROC_BIND" -> ParseProcBind(h, v)
      [] name = "OMP_ALLOCATOR" -> ParseAllocator(h, v)
      [] name = "KMP_DYNAMIC_MODE" -> ParseDynamicMode(h, v, up)
      [] name = "KMP_SCHEDULE" -> ParseSchedule(h, v)
      [] name = "OMP_SCHEDULE" -> ParseOmpSchedule(h, v)
      [] name = "KMP_ATOMIC_MODE" -> ParseAtomicMode(h, v)
      [] name = "KMP_CONSISTENCY_CHECK" -> ParseConsistency(h, v)
      [] name = "KMP_GTID_MODE" -> ParseGtidMode(h, v)
      [] name = "KMP_NUM_LOCKS_IN_BLOCK" ->
            [h EXCEPT !.locks_in_block = ParseInt(v, 0, MaxInt, @)]
      [] name = "KMP_LOCK_KIND" -> ParseLockKind(h, v, up)
      [] name = "KMP_SPIN_BACKOFF_PARAMS" -> ParseSpinBackoff(h, v)
      [] name = "KMP_ADAPTIVE_LOCK_PROPS" -> ParseAdaptiveProps(h, v)
      [] name = "OMP_DISPLAY_ENV" -> ParseDisplayEnv(h, v)
      [] name = "OMP_CANCELLATION" -> ParseCancellation(h, v, up)
      [] OTHER -> h

-----------------------------------------------------------------------------
(* The globals. *)

\* 32 and 128 of the code stand for no processors here: the machines of the
\* model are small.
InitialThreadsCapacity(h) == Min({4 * Max({h.team_nth_ub, Xproc}), h.max_nth})

DefaultTpCapacity(h) ==
    IF h.all_threads THEN h.max_nth ELSE Min({4 * Max({h.team_nth_ub, Xproc}), h.max_nth})

DefaultBarrier == [bits |-> <<DefaultBits, DefaultBits>>, pattern |-> <<"hyper", "hyper">>]

\* What the image of the program holds.
Defaults ==
    [settings |-> FALSE, version |-> FALSE, duplicate_ok |-> FALSE,
     display_affinity |-> FALSE, fp_control |-> TRUE, dynamic |-> FALSE,
     align |-> 1, pool_incr |-> Kilo, all_threads |-> FALSE, max_nth |-> 0,
     cg_max_nth |-> 0, teams_max_nth |-> 0, use_yield |-> 1, yield_set |-> FALSE,
     blocktime |-> 200, env_blocktime |-> FALSE, library |-> "none",
     stkpadding |-> 0, stkoffset |-> 0, stksize |-> 4 * Kilo, env_stksize |-> FALSE,
     warnings |-> "low", max_levels |-> 1, max_levels_set |-> FALSE, nth |-> <<>>,
     team_nth |-> 0, team_nth_ub |-> 0, tasking |-> 2, stealing |-> 1, device |-> 0,
     offload |-> "default", priority |-> 0, min_tasks |-> 0, buffers |-> 7,
     hot_level |-> 1, hot_mode |-> 0, plain |-> DefaultBarrier,
     forkjoin |-> DefaultBarrier, reduction |-> DefaultBarrier, abort_delay |-> 0,
     force_reduction |-> "none",
     determ |-> FALSE, tp_capacity |-> 0, foreign_tp |-> TRUE, bind |-> <<>>,
     allocator |-> "default", dynamic_mode |-> "default", static |-> "greedy",
     guided |-> "iterative", sched |-> "static", chunk |-> 0, atomic_mode |-> 1,
     consistency |-> FALSE, adjust_gtid |-> TRUE, gtid_mode |-> 0,
     lock_kind |-> "default", locks_in_block |-> 1, backoff |-> <<Kilo, 100>>,
     adaptive |-> <<1, Kilo>>, display |-> FALSE, display_verbose |-> FALSE,
     cancellation |-> FALSE, threads_capacity |-> 0, checked_locks |-> FALSE]

\* What the serial initialisation sets before it reads the environment; the
\* rest keeps what an earlier life of the library left.
Reset(h) ==
    [h EXCEPT !.abort_delay = 0, !.team_nth_ub = Clamp(Xproc, 1, SysMaxNth),
              !.max_nth = SysMaxNth, !.cg_max_nth = SysMaxNth,
              !.teams_max_nth = Min({Xproc, SysMaxNth}), !.blocktime = 200,
              !.library = "throughput", !.static = "balanced",
              !.plain = DefaultBarrier, !.forkjoin = DefaultBarrier,
              !.reduction = [bits |-> <<1, 1>>, pattern |-> <<"hyper", "hyper">>],
              !.foreign_tp = TRUE, !.dynamic = FALSE, !.dynamic_mode = "default"]

\* Before the variables of a session are read.
Opened(h) == [h EXCEPT !.bind = IF @ = <<>> THEN <<"false">> ELSE @]

\* After them: the kind of lock, and the tables that check or do not check.
LocksBound(h, up) ==
    [h EXCEPT !.lock_kind = IF "locks" \notin up /\ @ = "default" THEN "queuing" ELSE @,
              !.checked_locks = h.consistency]

\* The sizes of the tables, also over what KMP_ALL_THREADPRIVATE asked for.
Capacities(h) ==
    [h EXCEPT !.threads_capacity = InitialThreadsCapacity(h),
              !.tp_capacity = DefaultTpCapacity(h)]

\* The controls a new initial task gets.
GlobalIcvs(h) ==
    [nproc |-> h.team_nth, dynamic |-> h.dynamic, bt_set |-> h.env_blocktime,
     blocktime |-> h.blocktime, thread_limit |-> h.cg_max_nth, levels |-> h.max_levels,
     sched |-> <<h.sched, h.chunk>>, bind |-> Head(h.bind), device |-> h.device]

-----------------------------------------------------------------------------
(* The library's life. *)

NamesIn(session) == {session[i][1] : i \in 1..Len(session)}

Init ==
    /\ g = Defaults
    /\ environment \in Environments
    /\ phase = "down"
    /\ block = <<>> /\ set = {} /\ text = FALSE /\ init = {}
    /\ root = <<>> /\ told = {} /\ pure = TRUE /\ calls = 0

OpenSession(h, session, isText) ==
    /\ g' = Opened(h)
    /\ block' = session
    /\ set' = NamesIn(session)
    /\ text' = isText

\* The serial initialisation up to the environment.
Start ==
    /\ phase = "down"
    /\ phase' = "warnings"
    /\ OpenSession(Reset(g), environment, FALSE)
    /\ UNCHANGED <<environment, init, root, told, pure, calls>>

\* In the environment KMP_WARNINGS is read first, and then in its turn again.
WarningsFirst ==
    /\ phase = "warnings"
    /\ phase' = "parse"
    /\ g' = FoldLeft(LAMBDA h, var : IF var[1] = "KMP_WARNINGS" THEN ParseWarnings(h, var[2]) ELSE h,
                     g, block)
    /\ UNCHANGED <<environment, block, set, text, init, root, told, pure, calls>>

ParseNext ==
    /\ phase = "parse" /\ block # <<>>
    /\ \E junk \in BOOLEAN : g' = Parse(Head(block)[1], Head(block)[2], g, set, init, junk)
    /\ block' = Tail(block)
    /\ UNCHANGED <<environment, phase, set, text, init, root, told, pure, calls>>

(* Mutant: nesting is set whatever the string gave. *)
ToCallerNested(h, r, given) ==
    [r EXCEPT !.nproc = IF "OMP_NUM_THREADS" \in given THEN h.team_nth ELSE @,
              !.levels = IF "OMP_NESTED" \in given THEN MaxInt ELSE @]

\* A string of the application also sets four controls of the calling thread,
\* with the functions the application has for them.
ToCaller(h, r, given) ==
    [r EXCEPT !.nproc = IF "OMP_NUM_THREADS" \in given THEN Clamp(h.team_nth, 1, h.max_nth) ELSE @,
              !.blocktime = IF "KMP_BLOCKTIME" \in given THEN h.blocktime ELSE @,
              !.bt_set = @ \/ "KMP_BLOCKTIME" \in given,
              !.levels = IF "OMP_NESTED" \in given THEN Max({h.max_levels, 1}) ELSE @,
              !.dynamic = IF "OMP_DYNAMIC" \in given THEN h.dynamic ELSE @]

\* The end of a session; in the environment's the serial initialisation ends
\* with the sizes of the tables and the first root.
Finish ==
    /\ phase = "parse" /\ block = <<>>
    /\ phase' = "up"
    /\ LET h == LocksBound(g, init)
       IN  IF text
           THEN /\ g' = h
                /\ root' = ToCaller(h, root, set)
           ELSE /\ g' = Capacities(h)
                /\ root' = GlobalIcvs(Capacities(h))
    /\ init' = init \cup {"serial", "locks"}
    /\ UNCHANGED <<environment, block, set, text, told, pure, calls>>

\* The number of processors is known: it replaces the empty places at the
\* start of the list and gives the default size of a team.
MiddleInit ==
    /\ phase = "up" /\ "middle" \notin init
    /\ LET empty == {i \in 1..Len(g.nth) : \A j \in 1..i : g.nth[j] = 0}
           size == Clamp(IF empty # {} \/ g.team_nth = 0 THEN Xproc ELSE g.team_nth, 1, SysMaxNth)
       IN  /\ g' = [g EXCEPT !.nth = [i \in 1..Len(g.nth) |-> IF i \in empty THEN Xproc ELSE g.nth[i]],
                             !.team_nth = size,
                             !.team_nth_ub = IF empty # {} THEN Xproc ELSE @]
           /\ root' = IF size # g.team_nth /\ root.nproc = 0
                      THEN [root EXCEPT !.nproc = size] ELSE root
    /\ init' = init \cup {"middle"}
    /\ UNCHANGED <<environment, phase, block, set, text, told, pure, calls>>

ParallelInit ==
    /\ phase = "up" /\ "middle" \in init /\ "parallel" \notin init
    /\ init' = init \cup {"parallel"}
    /\ UNCHANGED <<g, environment, phase, block, set, text, root, told, pure, calls>>

Call == phase = "up" /\ calls < MaxCalls /\ calls' = calls + 1

\* kmp_set_defaults.
SetDefaults(string) ==
    /\ Call
    /\ phase' = "parse"
    /\ OpenSession(g, string, TRUE)
    /\ told' = NamesIn(string)
    /\ pure' = FALSE
    /\ UNCHANGED <<environment, init, root>>

\* kmp_set_stacksize: before the first parallel region only.
SetStacksize(bytes) ==
    /\ Call
    /\ g' = IF "parallel" \in init THEN g
            ELSE [g EXCEPT !.stksize = Clamp(bytes, LeastStack, MaxSize), !.env_stksize = TRUE]
    /\ told' = {} /\ pure' = FALSE
    /\ UNCHANGED <<environment, phase, block, set, text, init, root>>

\* The globals that follow the kind of library.
AuxSetLibrary(h, library) ==
    CASE library = "turnaround" ->
            [h EXCEPT !.library = library,
                      !.use_yield = IF @ = 1 /\ ~h.yield_set THEN 2 ELSE @]
      [] library = "throughput" ->
            [h EXCEPT !.library = library, !.blocktime = IF @ = MaxInt THEN 200 ELSE @]
      [] OTHER -> [h EXCEPT !.library = library]

\* kmp_set_library, kmp_set_library_serial and its sisters.
SetLibrary(library) ==
    /\ Call
    /\ root' = [root EXCEPT !.nproc =
            IF library = "serial" THEN 1
            ELSE IF g.team_nth # 0 THEN g.team_nth ELSE g.team_nth_ub]
    /\ g' = AuxSetLibrary(g, library)
    /\ told' = {} /\ pure' = FALSE
    /\ UNCHANGED <<environment, phase, block, set, text, init>>

\* A hard pause takes the library down; the lists are freed, the rest stays.
HardPause ==
    /\ Call
    /\ phase' = "down"
    /\ g' = [g EXCEPT !.nth = <<>>, !.bind = <<>>, !.threads_capacity = 0]
    /\ init' = {} /\ root' = <<>> /\ told' = {}
    /\ UNCHANGED <<environment, block, set, text, pure>>

Next ==
    \/ Start \/ WarningsFirst \/ ParseNext \/ Finish
    \/ MiddleInit \/ ParallelInit \/ HardPause
    \/ \E string \in Strings : SetDefaults(string)
    \/ \E bytes \in {1, 5 * Kilo} : SetStacksize(bytes)
    \/ \E library \in {"serial", "turnaround", "throughput"} : SetLibrary(library)

Spec == Init /\ [][Next]_vars

-----------------------------------------------------------------------------
(* What is displayed (KMP_SETTINGS, OMP_DISPLAY_ENV), as a token of the     *)
(* variable's syntax.                                                       *)

Number(n) == [is |-> "num", n |-> n, unit |-> ""]
Word(w) == [is |-> "word", w |-> w]
Truth(b) == Word(IF b THEN "true" ELSE "false")

\* Sizes are shown in the biggest unit that divides them.
ShownSize(n) == IF n > 0 /\ n % Kilo = 0 THEN [is |-> "num", n |-> n \div Kilo, unit |-> "k"]
                ELSE [is |-> "num", n |-> n, unit |-> "b"]

(* Mutant: in a variable that counts in kilobytes the size is divided. *)
ShownInKilos(h, name) ==
    ShownSize(IF name = "KMP_STACKSIZE" THEN h.stksize ELSE h.stksize \div Kilo)

ShownStack(h, name) ==
    ShownSize(IF h.stksize % Kilo # 0
              THEN h.stksize \div (IF name = "KMP_STACKSIZE" THEN 1 ELSE Kilo) ELSE h.stksize)

ShownPolicy(h, name) ==
    Word(IF name = "KMP_LIBRARY" THEN h.library
         ELSE IF h.library = "turnaround" THEN "active" ELSE "passive")

ShownBits(bits) == [is |-> "list", items |-> bits]
ShownPattern(pattern) == [is |-> "words", words |-> pattern]

ShownReduction(h, name) ==
    IF name = "KMP_FORCE_REDUCTION" THEN Word(h.force_reduction) ELSE Truth(h.determ)

ShownBind(h) ==
    IF Head(h.bind) \in {"false", "true"} THEN Word(Head(h.bind))
    ELSE [is |-> "words", words |-> h.bind]

ShownSchedule(h) ==
    [is |-> "clauses", clauses |-> <<<<"static", h.static>>, <<"guided", h.guided>>>>]

ShownOmpSchedule(h) ==
    [is |-> "schedule", kind |-> IF h.sched = "static_chunked" THEN "static" ELSE h.sched,
     chunk |-> IF h.chunk = 0 THEN Empty ELSE h.chunk]

ShownGtidMode(h) == Number(IF h.adjust_gtid THEN 0 ELSE h.gtid_mode)

ShownDisplayEnv(h) == IF h.display_verbose THEN Word("verbose") ELSE Truth(h.display)

\* The globals a displayed variable stands for.
Stands ==
    [KMP_DEVICE_THREAD_LIMIT |-> "max_nth", OMP_THREAD_LIMIT |-> "cg_max_nth",
     KMP_TEAMS_THREAD_LIMIT |-> "teams_max_nth", KMP_USE_YIELD |-> "use_yield",
     KMP_BLOCKTIME |-> "blocktime", KMP_LIBRARY |-> "library", OMP_WAIT_POLICY |-> "library",
     KMP_STACKSIZE |-> "stksize", OMP_STACKSIZE |-> "stksize", KMP_STACKPAD |-> "stkpadding",
     KMP_STACKOFFSET |-> "stkoffset", OMP_NUM_THREADS |-> "nth",
     OMP_MAX_ACTIVE_LEVELS |-> "max_levels", KMP_TASKING |-> "tasking",
     KMP_TASK_STEALING_CONSTRAINT |-> "stealing", OMP_DEFAULT_DEVICE |-> "device",
     OMP_TARGET_OFFLOAD |-> "offload", OMP_MAX_TASK_PRIORITY |-> "priority",
     KMP_TASKLOOP_MIN_TASKS |-> "min_tasks", KMP_DISP_NUM_BUFFERS |-> "buffers",
     KMP_HOT_TEAMS_MAX_LEVEL |-> "hot_level", KMP_HOT_TEAMS_MODE |-> "hot_mode",
     KMP_FORCE_REDUCTION |-> "force_reduction", KMP_DETERMINISTIC_REDUCTION |-> "determ",
     KMP_FOREIGN_THREADS_THREADPRIVATE |-> "foreign_tp", OMP_PROC_BIND |-> "bind",
     KMP_ATOMIC_MODE |-> "atomic_mode", KMP_GTID_MODE |-> "gtid_mode",
     KMP_NUM_LOCKS_IN_BLOCK |-> "locks_in_block", KMP_LOCK_KIND |-> "lock_kind",
     KMP_SPIN_BACKOFF_PARAMS |-> "backoff", KMP_ADAPTIVE_LOCK_PROPS |-> "adaptive",
     OMP_CANCELLATION |-> "cancellation", KMP_WARNINGS |-> "warnings",
     OMP_SCHEDULE |-> "sched"]
  @@ Switches @@ Sizes

Value(name, h) ==
    CASE name \in DOMAIN Barriers -> h[Barriers[name]].bits
      [] name \in DOMAIN BarrierPatterns -> h[BarrierPatterns[name]].pattern
      [] OTHER -> h[Stands[name]]

Shown(name, h) ==
    LET value == Value(name, h)
    IN  CASE name \in {"KMP_STACKSIZE", "OMP_STACKSIZE"} -> ShownStack(h, name)
          [] name = "KMP_STACKOFFSET" \/ name \in DOMAIN Sizes -> ShownSize(value)
          [] name \in {"KMP_LIBRARY", "OMP_WAIT_POLICY"} -> ShownPolicy(h, name)
          [] name \in DOMAIN Barriers -> ShownBits(value)
          [] name \in DOMAIN BarrierPatterns -> ShownPattern(value)
          [] name \in Range(ReductionRivals) -> ShownReduction(h, name)
          [] name = "OMP_PROC_BIND" -> ShownBind(h)
          [] name = "OMP_SCHEDULE" -> ShownOmpSchedule(h)
          [] name = "KMP_GTID_MODE" -> ShownGtidMode(h)
          [] name \in {"OMP_NUM_THREADS", "KMP_SPIN_BACKOFF_PARAMS", "KMP_ADAPTIVE_LOCK_PROPS"} ->
                [is |-> "list", items |-> value]
          [] name \in {"OMP_TARGET_OFFLOAD", "KMP_LOCK_KIND"} -> Word(value)
          [] name = "KMP_WARNINGS" -> Truth(value # "off")
          [] name \in DOMAIN Switches \cup {"KMP_FOREIGN_THREADS_THREADPRIVATE", "OMP_CANCELLATION"} ->
                Truth(value)
          [] OTHER -> Number(value)

\* What is shown in another form than it is read, or not at all: a place still
\* empty, a stack size with a rest in a variable that counts in kilobytes, the
\* infinite blocktime, the serial library in the standard's variable, no forced
\* reduction, the guided schedule, warnings never asked for.
NotReadable(name, h) ==
    \/ name = "OMP_NUM_THREADS" /\ (h.nth = <<>> \/ 0 \in Range(h.nth))
    \/ name = "OMP_STACKSIZE" /\ h.stksize % Kilo # 0
    \/ name = "KMP_BLOCKTIME" /\ h.blocktime = MaxInt
    \/ name = "OMP_WAIT_POLICY" /\ h.library = "serial"
    \/ name = "KMP_FORCE_REDUCTION" /\ h.force_reduction = "none"
    \/ name = "OMP_SCHEDULE" /\ h.sched = "guided"
    \/ name = "KMP_WARNINGS" /\ h.warnings = "low"

-----------------------------------------------------------------------------
(* Properties. *)

\* The globals a set of variables gives a library that starts, read in some
\* order; what only the display or the application decides is not compared.
Session(e) ==
    LET given == {var[1] : var \in e}
        Read(var, h) == Parse(var[1], var[2], h, given, {}, FALSE)
    IN  Capacities(LocksBound(FoldSet(Read, Opened(Reset(Defaults)), e), {}))

Given(e, name) == \E var \in e : var[1] = name
Token(e, name) == (CHOOSE var \in e : var[1] = name)[2]

\* The sizes of teams, which the middle initialisation corrects.
Corrected == {"nth", "team_nth", "team_nth_ub"}

\* The nesting the variables ask for: "no" wins, then a number, then "yes" or
\* a list for more than one level.
WantedLevels(e) ==
    CASE Given(e, "OMP_NESTED") /\ IsFalse(Token(e, "OMP_NESTED")) -> 1
      [] Given(e, "OMP_MAX_ACTIVE_LEVELS") /\ IsUint(Token(e, "OMP_MAX_ACTIVE_LEVELS")) ->
            Token(e, "OMP_MAX_ACTIVE_LEVELS").n
      [] \/ Given(e, "OMP_NESTED")
         \/ Given(e, "OMP_NUM_THREADS") /\ Len(Places(Token(e, "OMP_NUM_THREADS"))) > 1
         \/ Given(e, "OMP_PROC_BIND") /\ Token(e, "OMP_PROC_BIND").is = "words"
                /\ Len(Token(e, "OMP_PROC_BIND").words) > 1 -> MaxInt
      [] OTHER -> 1

\* As long as only the environment has spoken, also after hard pauses, the
\* globals are the ones its variables give in any order; a variable beaten by a
\* rival makes no difference wherever it stands; and the nesting is what the
\* four variables that have a say in it ask for together.
EnvironmentDecides ==
    phase = "up" /\ pure =>
        LET e == Range(environment)
            given == {var[1] : var \in e}
            First(l) == SelectSeq(l, LAMBDA name : name \in given)[1]
            wanted == Session({var \in e :
                \A l \in RivalLists : var[1] \in Range(l) => var[1] = First(l)})
        IN  /\ \A f \in DOMAIN g \ (IF "OMP_NUM_THREADS" \in given /\ wanted.nth # <<>>
                                        /\ wanted.nth[1] # 0
                                    THEN {} ELSE Corrected) : g[f] = wanted[f]
            /\ g.max_levels = WantedLevels(e)

\* After a string of the application the calling thread's controls are those of
\* a thread that starts now, for what the string gave.
DefaultsReachTheCaller ==
    phase = "up" =>
        LET new == GlobalIcvs(g)
        IN  /\ "OMP_NUM_THREADS" \in told => root.nproc = Min({new.nproc, g.max_nth})
            /\ "KMP_BLOCKTIME" \in told => root.blocktime = new.blocktime
            /\ "OMP_NESTED" \in told => root.levels = Max({new.levels, 1})
            /\ "OMP_DYNAMIC" \in told => root.dynamic = new.dynamic

\* Every setting is shown so that reading it back would give the same: parser
\* and printer agree on names, units and limits.
ShownReadsBack ==
    phase = "up" =>
        LET Read(name) == Parse(name, Shown(name, g), Opened(Reset(Defaults)), {name}, {}, FALSE)
        IN  \A name \in DOMAIN Stands \cup DOMAIN Barriers \cup DOMAIN BarrierPatterns :
                NotReadable(name, g) \/ Value(name, Read(name)) = Value(name, g)

\* "If there were empty places in num_threads list, correct them now": once the
\* processors are known no place is empty.
EmptyPlacesFilled == phase = "up" /\ "middle" \in init => 0 \notin Range(g.nth)
=============================================================================
