------------------------------ MODULE MCControls ------------------------------
(***************************************************************************)
(* Control variables and checks, one kind of run at a time: the control    *)
(* variables as regions nest; the checks of how constructs nest; the       *)
(* settings the library reads.                                             *)
(***************************************************************************)
EXTENDS Regions, Consistency, FiniteSets

CONSTANT Parts

VARIABLES part, g, environment, phase, block, set, text, init, root, told, pure, calls

NthList   == <<3, 2>>
OpenMPKinds == {0, 1, 4, 101}

-----------------------------------------------------------------------------
(* Environments: the settings that have something to do with each other in *)
(* every order, the others alone.                                          *)
Num(n) == [is |-> "num", n |-> n, unit |-> ""]
InKilos(n) == [is |-> "num", n |-> n, unit |-> "k"]
List(items) == [is |-> "list", items |-> items]
Words(ws) == [is |-> "words", words |-> ws]
Text(w) == [is |-> "word", w |-> w]
Empty == -1
Junk == Text("junk")

(* All orders of some of the variables of a family, with some token each.  *)
Orders(tokens) ==
    UNION {{[i \in 1..Cardinality(given) |-> <<order[i], chosen[order[i]]>>] :
                order \in {o \in [1..Cardinality(given) -> given] :
                              \A i, j \in 1..Cardinality(given) : o[i] = o[j] => i = j},
                chosen \in {c \in [given -> UNION {tokens[n] : n \in given}] :
                              \A n \in given : c[n] \in tokens[n]}} :
           given \in SUBSET DOMAIN tokens}

Stacks == [KMP_STACKSIZE |-> {Num(9), InKilos(3)}, GOMP_STACKSIZE |-> {Num(4)},
           OMP_STACKSIZE |-> {Num(5), Junk}]
Policies == [KMP_LIBRARY |-> {Text("serial"), Text("turnaround"), Text("throughput")},
             OMP_WAIT_POLICY |-> {Text("active"), Text("passive")},
             KMP_BLOCKTIME |-> {Num(7), Text("infinite"), Junk}]
Levels == [OMP_NESTED |-> {Text("true"), Text("off")},
           OMP_MAX_ACTIVE_LEVELS |-> {Num(0), Num(3), Junk},
           OMP_NUM_THREADS |-> {List(<<3, Empty, 9>>), List(<<Empty, 2>>)},
           OMP_PROC_BIND |-> {Words(<<"close", "spread">>)}]
Limits == [KMP_DEVICE_THREAD_LIMIT |-> {Text("all"), Num(5)}, KMP_ALL_THREADS |-> {Num(3), Text("all")},
           KMP_ALL_THREADPRIVATE |-> {Num(2)}, OMP_NUM_THREADS |-> {Num(4), Junk}]
Reductions == [KMP_FORCE_REDUCTION |-> {Text("critical"), Text("tree")},
               KMP_DETERMINISTIC_REDUCTION |-> {Text("true"), Num(0)}]

Alone ==
    {<<"KMP_WARNINGS", Text("off")>>, <<"KMP_WARNINGS", Num(1)>>, <<"KMP_SETTINGS", Num(10)>>,
     <<"KMP_VERSION", Text("yes")>>, <<"KMP_DUPLICATE_LIB_OK", Num(1)>>,
     <<"OMP_DISPLAY_AFFINITY", Text("true")>>, <<"KMP_INHERIT_FP_CONTROL", Num(0)>>,
     <<"OMP_DYNAMIC", Text("true")>>, <<"KMP_ALIGN_ALLOC", InKilos(1)>>,
     <<"KMP_MALLOC_POOL_INCR", Num(6)>>, <<"OMP_THREAD_LIMIT", Num(3)>>,
     <<"KMP_TEAMS_THREAD_LIMIT", Num(100)>>, <<"KMP_USE_YIELD", Num(0)>>,
     <<"KMP_STACKPAD", Num(3)>>, <<"KMP_STACKOFFSET", InKilos(2)>>, <<"KMP_TASKING", Num(1)>>,
     <<"KMP_TASK_STEALING_CONSTRAINT", Num(0)>>, <<"OMP_DEFAULT_DEVICE", Num(2)>>,
     <<"OMP_TARGET_OFFLOAD", Text("disabled")>>, <<"OMP_MAX_TASK_PRIORITY", Num(9)>>,
     <<"KMP_TASKLOOP_MIN_TASKS", Num(4)>>, <<"KMP_DISP_NUM_BUFFERS", Num(2)>>,
     <<"KMP_HOT_TEAMS_MAX_LEVEL", Num(2)>>, <<"KMP_HOT_TEAMS_MODE", Num(1)>>,
     <<"KMP_PLAIN_BARRIER", List(<<1, 3>>)>>, <<"KMP_FORKJOIN_BARRIER", Num(9)>>,
     <<"KMP_REDUCTION_BARRIER", List(<<0, 7>>)>>,
     <<"KMP_PLAIN_BARRIER_PATTERN", Words(<<"linear", "tree">>)>>,
     <<"KMP_FORKJOIN_BARRIER_PATTERN", Words(<<"hierarchical", "star">>)>>,
     <<"KMP_REDUCTION_BARRIER_PATTERN", Junk>>, <<"KMP_ABORT_DELAY", Num(2)>>,
     <<"KMP_FOREIGN_THREADS_THREADPRIVATE", Text("no")>>, <<"OMP_ALLOCATOR", Text("large_cap")>>,
     <<"KMP_DYNAMIC_MODE", Text("random")>>,
     <<"KMP_SCHEDULE", [is |-> "clauses", clauses |-> <<<<"static", "greedy">>, <<"guided", "analytical">>>>]>>,
     <<"KMP_ATOMIC_MODE", Num(2)>>, <<"KMP_CONSISTENCY_CHECK", Text("all")>>,
     <<"KMP_GTID_MODE", Num(2)>>, <<"KMP_GTID_MODE", Num(0)>>, <<"KMP_NUM_LOCKS_IN_BLOCK", Num(8)>>,
     <<"KMP_LOCK_KIND", Text("drdpa")>>, <<"KMP_LOCK_KIND", Text("adaptive")>>,
     <<"KMP_SPIN_BACKOFF_PARAMS", List(<<Empty, 6>>)>>, <<"KMP_ADAPTIVE_LOCK_PROPS", Num(5)>>,
     <<"OMP_DISPLAY_ENV", Text("verbose")>>, <<"OMP_CANCELLATION", Text("true")>>,
     <<"OMP_SCHEDULE", Junk>>, <<"OMP_PROC_BIND", Text("false")>>,
     <<"OMP_NUM_THREADS", Text("all")>>} \cup
    {<<"OMP_SCHEDULE", [is |-> "schedule", kind |-> k, chunk |-> c]>> :
        k \in {"static", "dynamic", "guided", "auto"}, c \in {Empty, 4}}

MCEnvironments ==
    UNION {Orders(Stacks), Orders(Policies), Orders(Levels), Orders(Limits), Orders(Reductions)}
        \cup {<<var>> : var \in Alone}

MCStrings ==
    {<<<<"OMP_NUM_THREADS", List(<<2, 3>>)>>>>, <<<<"OMP_NESTED", Text("true")>>, <<"KMP_BLOCKTIME", Num(3)>>>>,
     <<<<"OMP_NESTED", Text("false")>>, <<"OMP_DYNAMIC", Text("true")>>>>,
     <<<<"KMP_LOCK_KIND", Text("tas")>>, <<"KMP_HOT_TEAMS_MODE", Num(1)>>,
       <<"OMP_CANCELLATION", Text("true")>>, <<"KMP_DYNAMIC_MODE", Text("random")>>>>}

-----------------------------------------------------------------------------
Read == INSTANCE Settings WITH
    Xproc <- 4, SysMaxNth <- 8, Kilo <- 2, MaxSize <- 40, MaxInt <- 1000, HasRtm <- FALSE,
    MaxCalls <- 1, Environments <- MCEnvironments, Strings <- MCStrings

settingsVars == <<g, environment, phase, block, set, text, init, root, told, pure, calls>>

(* What a part does not run is given one of its beginnings.                *)
MCInit ==
    /\ part \in Parts
    /\ RegionsInit /\ (part # "regions" => teams[1].icvs.levels = 1)
    /\ Init
    /\ (part # "settings" => environment = <<>>) /\ Read!Init

MCNext ==
    \/ part = "regions" /\ RegionsNext /\ UNCHANGED <<part, vars, settingsVars>>
    \/ part = "checks" /\ Next /\ UNCHANGED <<part, regionVars, settingsVars>>
    \/ part = "settings" /\ Read!Next /\ UNCHANGED <<part, regionVars, vars>>

MCSpec == MCInit /\ [][MCNext]_<<part, regionVars, vars, settingsVars>>

-----------------------------------------------------------------------------
(* Once the environment alone has spoken, every setting is what the        *)
(* variables and the precedence between them say, in whatever order they   *)
(* are read; and what is displayed would give the same settings if it were *)
(* read back (kmp_settings.cpp:4000-5400).                                 *)
SettingsRead == part = "settings" => Read!EnvironmentDecides /\ Read!ShownReadsBack
=============================================================================
