------------------------------ MODULE MCThreads ------------------------------
(***************************************************************************)
(* Threads and teams, and the library's coming and going under two threads *)
(* of a program that call it: one kind of run at a time.                   *)
(***************************************************************************)
EXTENDS Teams

CONSTANTS Parts, t1, t2

VARIABLES part,
          init, global, capacity, threads, all_nth, nth, pool, hot, tls,
          initz, forkjoin, pc, entries

(* One root; teams of two and of three, nested in each other and in serial *)
(* ones.                                                                   *)
Nested == [hotLevels |-> 1, hotMode |-> 0, maxNth |-> 3, cgLimit |-> 3, maxActive |-> 2,
           sizes |-> {2, 3}, roots |-> 1, leave |-> FALSE, nesting |-> 2, hadTasks |-> {FALSE}]

(* The default, regions of one level, with tasks.                          *)
Flat == [Nested EXCEPT !.maxActive = 1, !.maxNth = 4, !.cgLimit = 4, !.hadTasks = BOOLEAN]

(* Hot teams at two levels.                                                *)
NestedHot == [Nested EXCEPT !.hotLevels = 2, !.maxNth = 4, !.cgLimit = 4, !.sizes = {2, 3}]

(* Serial regions inside and outside.                                      *)
Serial == [Nested EXCEPT !.sizes = {1, 3}, !.nesting = 3]

(* Roots that come and go, with fewer threads than they ask for.           *)
Roots == [Nested EXCEPT !.maxActive = 1, !.maxNth = 5, !.roots = 2, !.leave = TRUE, !.nesting = 1]

(* Without hot teams TaskTeamsShared does not hold: README, section 5.     *)
TeamSettings == {Nested, Flat, NestedHot, Serial, Roots}

Caller == {t1, t2}
Life == INSTANCE Lifecycle WITH
    Thread <- Caller, InitialCapacity <- 2, SysMaxNth <- 4, TeamSizes <- {2, 4}, MaxEntries <- 5

lifeVars == <<init, global, capacity, threads, all_nth, nth, pool, hot, tls,
              initz, forkjoin, pc, entries>>

-----------------------------------------------------------------------------
MCInit ==
    /\ part \in Parts
    /\ env \in (IF part = "teams" THEN Settings ELSE {Flat}) /\ Init
    /\ Life!LifecycleInit

MCNext ==
    \/ part = "teams" /\ Next /\ UNCHANGED <<part, lifeVars>>
    \/ part = "library" /\ Life!LifecycleNext /\ UNCHANGED <<part, vars>>

(* The fairness of the library's callers.                                  *)
MCFairness ==
    \A t \in Caller : /\ WF_lifeVars(part = "library" /\ Life!Alive /\ Life!Plain(t))
                      /\ SF_lifeVars(part = "library" /\ Life!Alive /\ Life!Locking(t))

MCSpec == MCInit /\ [][MCNext]_<<part, vars, lifeVars>> /\ MCFairness

-----------------------------------------------------------------------------
(* Teams, serial teams and hot teams hang together as the regions nest,    *)
(* and every thread is in exactly one team, in reserve or in the pool      *)
(* (kmp_runtime.cpp:1430-2620, 4980-5660).                                 *)
TeamsConsistent == part = "teams" => HierarchyHolds /\ ThreadsAccounted

(* The counters match the array of threads, and nobody takes the library   *)
(* down under a thread that is inside it (kmp_runtime.cpp:3550-4000,       *)
(* 6030-6900).                                                             *)
LibraryConsistent == part = "library" => Life!CountsMatch /\ Life!StaysUp

(* Every call of the library returns.                                      *)
CallsReturn == part = "library" => Life!CallsReturn
=============================================================================
