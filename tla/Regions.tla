-------------------------------- MODULE Regions --------------------------------
(***************************************************************************)
(* The regions around one thread of execution, from the root's implicit    *)
(* task down: teams on a chain of t_parent pointers, serialized teams that *)
(* stand for several levels, the cached th_serial_team of each thread, the *)
(* internal control variables (ICVs) of the implicit tasks and the stack   *)
(* on which a nested serialized region saves those it is about to change.  *)
(* The descent follows one member of every team it meets; what the other   *)
(* members do changes nothing here.                                        *)
(***************************************************************************)
EXTENDS Integers, Sequences, SequencesExt

CONSTANTS MaxRegions,  \* bound on the depth of regions
          MaxSets,     \* bound on the calls that set a control variable
          MaxNth,      \* __kmp_max_nth, and the largest request
          NestedNth,   \* __kmp_nested_nth: the list of OMP_NUM_THREADS
          AvailProc,   \* __kmp_avail_proc
          Kinds,       \* what omp_set_schedule is called with
          SoloInTeams, \* may a clause make a region run alone right inside teams?
          LevelsLimit  \* KMP_MAX_ACTIVE_LEVELS_LIMIT

ASSUME RegionsAssumption ==
    /\ {MaxRegions, MaxSets, LevelsLimit} \subseteq Nat
    /\ {MaxNth, AvailProc} \subseteq Nat \ {0}
    /\ NestedNth \in Seq(1..MaxNth)
    /\ SoloInTeams \in BOOLEAN

VARIABLES teams,    \* the teams from the root's to the current th_team
          threads,  \* the threads that descend: masters stay, workers are added
          inParallel,  \* r_in_parallel
          library,  \* __kmp_library
          setters,  \* calls made so far, to bound them
          regions,  \* what was entered: member, size and the controls on entry
          league    \* the teams construct around, if any: member and size

regionVars == <<teams, threads, inParallel, library, setters, regions, league>>

Team   == Last(teams)
Thread == Last(threads)
NoLeague == [tid |-> 0, size |-> 1, depth |-> 0]

(* A schedule as the run-time keeps it: sched_type and chunk.              *)
Static == [type |-> "static_greedy", chunk |-> 1]

RegionsInit ==
    /\ \E levels \in {1, LevelsLimit} :
       teams = << [kind |-> "root", serialized |-> 1, nproc |-> 1, masterTid |-> 0,
                   level |-> 0, active |-> 0, controls |-> <<>>, focus |-> 0,
                   icvs |-> [nproc |-> MaxNth, levels |-> levels,
                             sched |-> Static, dynamic |-> FALSE]] >>
    /\ threads = << [tid |-> 0, serial |-> 0, set |-> 0, teams |-> FALSE,
                     teamsLevel |-> 0, nteams |-> 0, nth |-> 0] >>
    /\ inParallel = 0 /\ library = "throughput" /\ setters = 0
    /\ regions = <<>> /\ league = NoLeague

--------------------------------------------------------------------------------
(* Steps of the code on the pair of stacks s = [teams, threads].           *)

Here == [teams |-> teams, threads |-> threads]
SetTop(seq, e) == [seq EXCEPT ![Len(seq)] = e]

(* The ICVs of a region one level further in: the list of OMP_NUM_THREADS  *)
(* gives the number of threads of the regions inside it.                   *)
Inner(icvs, level) ==
    IF level + 2 <= Len(NestedNth) THEN [icvs EXCEPT !.nproc = NestedNth[level + 2]]
    ELSE icvs

(* __kmp_serialized_parallel: another level on the serial team that is     *)
(* running, or the thread's serial team (a fresh one when the cached one   *)
(* is in use further out) under the current team.                          *)
SerializedParallel(s) ==
    LET team == Last(s.teams)
        th   == Last(s.threads)
    IN  IF th.serial = Len(s.teams)
        THEN [s EXCEPT !.teams = SetTop(@, [team EXCEPT !.serialized = @ + 1, !.level = @ + 1,
                                                        !.icvs = Inner(@, team.level)])]
        ELSE [teams |-> Append(s.teams,
                  [kind |-> "serial", serialized |-> 1, nproc |-> 1, masterTid |-> th.tid,
                   level |-> team.level + 1, active |-> team.active, controls |-> <<>>,
                   focus |-> 0, icvs |-> Inner(team.icvs, team.level)]),
              threads |-> SetTop(s.threads,
                  [th EXCEPT !.tid = 0, !.serial = Len(s.teams) + 1])]

(* __kmpc_end_serialized_parallel                                          *)
PopControls(team) ==
    IF team.controls # <<>> /\ Last(team.controls).nest = team.serialized
    THEN [team EXCEPT !.icvs = Last(team.controls).icvs, !.controls = Front(@)]
    ELSE team

EndSerialized(s) ==
    LET team == PopControls(Last(s.teams))
        th   == Last(s.threads)
    IN  IF team.serialized = 1
        THEN [teams |-> Front(s.teams),
              threads |-> SetTop(s.threads, [th EXCEPT !.tid = team.masterTid, !.serial = 0])]
        ELSE [s EXCEPT !.teams = SetTop(@, [team EXCEPT !.serialized = @ - 1, !.level = @ - 1])]

(* The descent goes on with member f of the team on top: the master, or a  *)
(* worker with its own cached serial team, which it does not use yet.      *)
Focus(s, f) ==
    LET th == Last(s.threads)
        at == [s EXCEPT !.teams = SetTop(@, [Last(@) EXCEPT !.focus = f])]
    IN  IF f = 0 THEN at
        ELSE [at EXCEPT !.threads = Append(@, [th EXCEPT !.tid = f, !.serial = 0, !.set = 0])]

(* ... and comes back to the master when the member is done.               *)
Unfocus(s) ==
    IF Last(s.teams).focus = 0 THEN s
    ELSE [teams |-> SetTop(s.teams, [Last(s.teams) EXCEPT !.focus = 0]),
          threads |-> Front(s.threads)]

(* __kmp_fork_call with more than one thread; inside a teams construct the *)
(* team of masters and the teams it leads are not levels of their own.     *)
Counts(s) ==
    LET th == Last(s.threads) IN ~th.teams \/ Last(s.teams).level > th.teamsLevel

Fork(s, n) ==
    LET team == Last(s.teams)
        th   == Last(s.threads)
        in   == IF Counts(s) THEN 1 ELSE 0
    IN  [teams |-> Append(s.teams,
             [kind |-> "active", serialized |-> 0, nproc |-> n, masterTid |-> th.tid,
              level |-> team.level + in, active |-> team.active + in, controls |-> <<>>,
              focus |-> 0, icvs |-> Inner(team.icvs, team.level)]),
         threads |-> SetTop(s.threads, [th EXCEPT !.tid = 0, !.set = 0])]

(* The end of __kmp_join_call: the master returns to the parent team, and  *)
(* takes it back as its serial team when it is one.                        *)
Join(s) ==
    LET team   == Last(s.teams)
        th     == Last(s.threads)
        parent == Len(s.teams) - 1
        serial == IF s.teams[parent].serialized > 0 /\ parent # 1 THEN parent ELSE th.serial
    IN  [teams |-> Front(s.teams),
         threads |-> SetTop(s.threads, [th EXCEPT !.tid = team.masterTid, !.serial = serial])]

(* How many threads a fork may come to: the request of the clause or of    *)
(* the implicit task's ICV, or fewer when __kmp_reserve_threads finds less.*)
Request(s) ==
    LET th == Last(s.threads) IN
    IF th.set > 0 THEN th.set ELSE Last(s.teams).icvs.nproc

Sizes(s, entersTeams) ==
    LET team == Last(s.teams) IN
    IF \/ team.active >= team.icvs.levels
       \/ team.icvs.levels = 1 /\ inParallel > 0 /\ ~entersTeams
       \/ library = "serial"
    THEN {1}
    ELSE 1..Request(s)

ForkOrSerialize(s, n) ==
    IF n > 1 THEN Fork(s, n)
    ELSE LET t == SerializedParallel(s) IN
         [t EXCEPT !.threads = SetTop(@, [Last(@) EXCEPT !.set = 0])]

--------------------------------------------------------------------------------
(* Regions.                                                                *)

Becomes(s) == teams' = s.teams /\ threads' = s.threads
Entered(n, f, way) ==
    regions' = Append(regions, [tid |-> f, size |-> n, way |-> way, icvs |-> Team.icvs])
MayNest == Len(regions) < MaxRegions
Closely == Thread.teams /\ Team.level = Thread.teamsLevel

(* A parallel region whose if clause is false.                             *)
BeginSerialized ==
    /\ MayNest /\ (Closely => SoloInTeams)
    /\ Becomes(SerializedParallel(Here))
    /\ Entered(1, 0, "if")
    /\ UNCHANGED <<inParallel, library, setters, league>>

(* __kmpc_push_num_threads and __kmpc_fork_call.                           *)
PushNumThreads(s, clause) ==
    IF clause > 0 THEN [s EXCEPT !.threads = SetTop(@, [Last(@) EXCEPT !.set = clause])] ELSE s

Parallel ==
    /\ MayNest /\ ~Closely
    /\ \E clause \in 0..MaxNth : \E n \in Sizes(PushNumThreads(Here, clause), FALSE) :
          \E f \in 0..(n - 1) :
             /\ Becomes(Focus(ForkOrSerialize(PushNumThreads(Here, clause), n), f))
             /\ Entered(n, f, "fork")
             /\ inParallel' = inParallel + (IF n > 1 THEN 1 ELSE 0)
    /\ UNCHANGED <<library, setters, league>>

(* The parallel region closely nested in a teams construct: the team that  *)
(* has waited since the construct began runs it, or the serial team takes  *)
(* one more level that does not count as serialized until the join.        *)
ParallelInTeams ==
    /\ MayNest /\ Closely
    /\ IF Thread.serial = Len(teams)
       THEN LET s == SerializedParallel(Here) IN
            /\ Becomes([s EXCEPT !.teams = SetTop(@, [Last(@) EXCEPT !.serialized = @ - 1])])
            /\ Entered(1, 0, "fork")
            /\ UNCHANGED inParallel
       ELSE \E clause \in 0..MaxNth :
            LET n == IF clause > 0 /\ clause < Thread.nth THEN clause ELSE Team.nproc
                s == [Here EXCEPT !.teams = SetTop(@,
                         [Team EXCEPT !.active = @ + 1, !.level = @ + 1, !.nproc = n])]
            IN  \E f \in 0..(n - 1) :
                /\ n > 1 \/ SoloInTeams
                /\ Becomes(Focus(s, f))
                /\ Entered(n, f, "fork")
                /\ inParallel' = inParallel + 1
    /\ UNCHANGED <<library, setters, league>>

(* __kmp_join_call for a serialized team: inside teams the level or the    *)
(* serialization that the fork had taken back is added again.              *)
JoinSerial(s) ==
    LET th   == Last(s.threads)
        team == Last(s.teams)
    IN  EndSerialized([s EXCEPT !.teams = SetTop(@,
            IF th.teams /\ team.level = th.teamsLevel THEN [team EXCEPT !.level = @ + 1]
            ELSE IF th.teams /\ team.level = th.teamsLevel + 1
            THEN [team EXCEPT !.serialized = @ + 1] ELSE team)])

(* ... and for a team that was closely nested in teams and stays for the   *)
(* next region, with all its threads.                                      *)
JoinInTeams(s) ==
    LET nth == Last(s.threads).nth IN
    [s EXCEPT !.teams = SetTop(@,
        [Last(@) EXCEPT !.active = @ - 1, !.level = @ - 1, !.nproc = IF @ < nth THEN nth ELSE @])]

InRegion == Len(regions) > league.depth
Left == regions' = Front(regions) /\ UNCHANGED <<library, setters, league>>

EndSerial ==
    /\ InRegion /\ Team.serialized > 0
    /\ Becomes(IF Last(regions).way = "if" THEN EndSerialized(Here) ELSE JoinSerial(Here))
    /\ Left /\ UNCHANGED inParallel

EndActive ==
    /\ InRegion /\ Team.serialized = 0
    /\ LET s    == Unfocus(Here)
           th   == Last(s.threads)
       IN  Becomes(IF th.teams /\ Team.level = th.teamsLevel + 1 THEN JoinInTeams(s) ELSE Join(s))
    /\ inParallel' = inParallel - 1
    /\ Left

(* A teams construct, outside of all regions: __kmp_push_num_teams, then   *)
(* __kmpc_fork_teams forks the masters, and each of them in                *)
(* __kmp_teams_master the team it leads, which runs nothing yet.           *)
PushNumTeams(s, num, limit) ==
    LET nteams == IF num = 0 THEN 1 ELSE num
        wanted == IF limit = 0 THEN AvailProc \div nteams ELSE limit
        nth    == IF nteams * wanted > MaxNth THEN MaxNth \div nteams ELSE wanted
    IN  [s EXCEPT !.threads = SetTop(@, [Last(@) EXCEPT !.set = nteams, !.nteams = nteams,
            !.nth = nth, !.teams = TRUE, !.teamsLevel = Last(s.teams).level])]

ForkTeams(s, n) ==
    LET t == ForkOrSerialize(s, n) IN
    IF n > 1 THEN t ELSE [t EXCEPT !.teams = SetTop(@, [Last(@) EXCEPT !.level = @ - 1])]

TeamsMaster(s) ==
    [s EXCEPT !.threads = SetTop(@, [Last(@) EXCEPT !.set = Last(s.threads).nth])]
Reduced(s, m) ==
    [s EXCEPT !.threads = SetTop(@, [Last(@) EXCEPT !.nth = IF m < @ THEN m ELSE @])]

BeginTeams ==
    /\ ~Thread.teams /\ regions = <<>>
    /\ \E num \in 0..MaxNth, limit \in 0..MaxNth :
       LET s == PushNumTeams(Here, num, limit) IN
       \E n \in Sizes(s, FALSE) : \E f \in 0..(n - 1) :
       LET t == TeamsMaster(Focus(ForkTeams(s, n), f)) IN
       \E m \in Sizes(t, Last(t.teams).active = 0) :
          /\ Becomes(Reduced(ForkTeams(t, m), m))
          /\ league' = [tid |-> f, size |-> n, depth |-> Len(regions)]
    /\ UNCHANGED <<inParallel, library, setters, regions>>

JoinTeams(s) == IF Last(s.teams).serialized > 0 THEN JoinSerial(s) ELSE Join(s)

EndTeams ==
    /\ Thread.teams /\ ~InRegion
    /\ LET s == JoinTeams(Unfocus(JoinTeams(Here))) IN
       Becomes([s EXCEPT !.threads = SetTop(@, [Last(@) EXCEPT !.teams = FALSE,
                    !.teamsLevel = 0, !.nteams = 0, !.nth = 0])])
    /\ league' = NoLeague
    /\ UNCHANGED <<inParallel, library, setters, regions>>

--------------------------------------------------------------------------------
(* The calls that set control variables.                                   *)

(* Mutant: only the first nested region saves.                             *)
SaveInternalControlsOnce(team) ==
    IF Thread.serial = Len(teams) /\ team.serialized > 1 /\ team.controls = <<>>
    THEN [team EXCEPT !.controls = Append(@, [nest |-> team.serialized, icvs |-> team.icvs])]
    ELSE team

(* __kmp_save_internal_controls: a region that shares its implicit task    *)
(* with the ones around it keeps their values once, before the first call. *)
SaveInternalControls(team) ==
    IF /\ Thread.serial = Len(teams) /\ team.serialized > 1
       /\ (team.controls = <<>> \/ Last(team.controls).nest # team.serialized)
    THEN [team EXCEPT !.controls = Append(@, [nest |-> team.serialized, icvs |-> team.icvs])]
    ELSE team

Set(team) ==
    /\ setters < MaxSets /\ setters' = setters + 1 /\ ~Thread.teams
    /\ teams' = SetTop(teams, team)
    /\ UNCHANGED <<threads, inParallel, regions, league>>

SetNumThreads(n) ==
    LET nth == IF n < 1 THEN 1 ELSE IF n > MaxNth THEN MaxNth ELSE n IN
    /\ Team.icvs.nproc # nth
    /\ Set([SaveInternalControls(Team) EXCEPT !.icvs.nproc = nth])
    /\ UNCHANGED library

SetMaxActiveLevels(n) ==
    /\ n >= 0
    /\ Set([SaveInternalControls(Team) EXCEPT
               !.icvs.levels = IF n <= LevelsLimit THEN n ELSE LevelsLimit])
    /\ UNCHANGED library

SetNested(flag) ==
    LET levels == IF Team.icvs.levels = 1 THEN LevelsLimit ELSE Team.icvs.levels IN
    /\ Set([SaveInternalControls(Team) EXCEPT !.icvs.levels = IF flag THEN levels ELSE 1])
    /\ UNCHANGED library

SetDynamic(flag) ==
    /\ Set([SaveInternalControls(Team) EXCEPT !.icvs.dynamic = flag])
    /\ UNCHANGED library

(* __kmp_set_schedule and __kmp_get_schedule; kinds 1 to 4 are standard,   *)
(* 101 and 102 extensions, whose entries of __kmp_sch_map follow theirs.   *)
(* The table has a sixth entry without an initialiser, which is no kind.   *)
SchMap == << "static_chunked", "dynamic_chunked", "guided_chunked", "auto",
             "trapezoidal", "none" >>
ValidKind(kind) == kind \in 1..4 \cup 101..102

ScheduleOf(k, c) ==
    LET kind  == IF ValidKind(k) THEN k ELSE 1
        chunk == IF ValidKind(k) THEN c ELSE 0
    IN  [type |-> IF kind = 1 /\ chunk < 1 THEN "static"
                  ELSE SchMap[IF kind < 5 THEN kind ELSE kind - 96],
         chunk |-> IF kind = 4 \/ chunk < 1 THEN 1 ELSE chunk]

(* <<0, 0>> stands for the fatal error of a type that is none of these.    *)
GetSchedule(sched) ==
    LET kinds == [static_chunked |-> 1, dynamic_chunked |-> 2, guided_chunked |-> 3,
                  guided_iterative |-> 3, guided_analytical |-> 3, auto |-> 4,
                  trapezoidal |-> 101, static_steal |-> 102]
    IN  IF sched.type \in {"static", "static_greedy", "static_balanced"} THEN <<1, 0>>
        ELSE IF sched.type \in DOMAIN kinds THEN <<kinds[sched.type], sched.chunk>>
        ELSE <<0, 0>>

SetSchedule(kind, chunk) ==
    /\ Set([SaveInternalControls(Team) EXCEPT !.icvs.sched = ScheduleOf(kind, chunk)])
    /\ UNCHANGED library

(* __kmp_user_set_library: refused in an active region, and called, as its *)
(* comment asks, from the serial part.                                     *)
UserSetLibrary(lib) ==
    /\ inParallel = 0 /\ regions = <<>>
    /\ Set([Team EXCEPT !.icvs.nproc = IF lib = "serial" THEN 1 ELSE MaxNth])
    /\ library' = lib

SetControls ==
    \/ \E n \in {0, 2, MaxNth + 1} : SetNumThreads(n)
    \/ \E n \in {-1, 0, 1, LevelsLimit + 1} : SetMaxActiveLevels(n)
    \/ \E flag \in BOOLEAN : SetNested(flag) \/ SetDynamic(flag)
    \/ \E kind \in Kinds, chunk \in {0, 2} : SetSchedule(kind, chunk)
    \/ \E lib \in {"serial", "throughput"} : UserSetLibrary(lib)

RegionsNext ==
    \/ BeginSerialized \/ Parallel \/ ParallelInTeams \/ EndSerial \/ EndActive
    \/ BeginTeams \/ EndTeams \/ SetControls

--------------------------------------------------------------------------------
(* The enquiry routines.                                                   *)

(* The climb that omp_get_ancestor_thread_num, omp_get_team_size and       *)
(* omp_get_team_num share: from level ii of team k out to the wanted one;  *)
(* the team reached, and how many of its serialized levels are left.       *)
Climb(from, wanted) ==
    LET up[k \in 0..Len(teams), ii \in 0..(MaxRegions + 2), dd \in 0..(MaxRegions + 2)] ==
        IF ii <= wanted \/ k = 0 THEN [team |-> k, left |-> dd]
        ELSE LET held == teams[k].serialized
                 took == IF held < ii - wanted THEN held ELSE ii - wanted
             IN  IF held > 0 /\ took = held THEN up[k - 1, ii - took, 0]
                 ELSE IF ii - took > wanted
                 THEN up[k - 1, ii - took - 1, IF k = 1 THEN 0 ELSE teams[k - 1].serialized]
                 ELSE up[k, ii - took, held - took]
    IN  up[Len(teams), from, Team.serialized]

(* Up to the level of a teams construct the masters' team and the teams    *)
(* they lead count once more.                                              *)
CountFrom(level) ==
    IF Thread.teams /\ level <= Thread.teamsLevel
    THEN Team.level + (IF Team.level = Thread.teamsLevel THEN 2 ELSE 1)
    ELSE Team.level

(* Mutant: a team that still has serialized levels answers like any other. *)
GetAncestorThreadNumDirect(level) ==
    IF level = 0 THEN 0
    ELSE IF level < 0 \/ level > Team.level THEN -1
    ELSE IF CountFrom(level) = level THEN Thread.tid
    ELSE teams[Climb(CountFrom(level), level + 1).team].masterTid

GetAncestorThreadNum(level) ==
    IF level = 0 THEN 0
    ELSE IF level < 0 \/ level > Team.level THEN -1
    ELSE IF CountFrom(level) = level THEN Thread.tid
    ELSE LET c == Climb(CountFrom(level), level + 1) IN
         IF c.left > 1 THEN 0 ELSE teams[c.team].masterTid

GetTeamSize(level) ==
    IF level = 0 THEN 1
    ELSE IF level < 0 \/ level > Team.level THEN -1
    ELSE teams[Climb(CountFrom(level), level).team].nproc

TeamInfo == Climb(Team.level, Thread.teamsLevel + 1)
GetTeamNum ==
    IF ~Thread.teams \/ TeamInfo.left > 1 THEN 0 ELSE teams[TeamInfo.team].masterTid
GetNumTeams ==
    IF ~Thread.teams \/ TeamInfo.left > 1 THEN 1 ELSE teams[TeamInfo.team - 1].nproc

InParallel == IF Thread.teams THEN Team.active > 0 ELSE inParallel > 0

--------------------------------------------------------------------------------
(* What the program entered, and what the routines answer about it, agree: *)
(* at every level the member and the size of the region, how deep it is    *)
(* and how many regions around are active, which league it belongs to.     *)
(* The code answers from teams that stand for several levels, from teams   *)
(* that are no level at all, and from tids that are saved and restored.    *)
Active == {i \in DOMAIN regions : regions[i].size > 1}
AncestorsRight ==
    \A level \in -1..(Len(regions) + 1) :
       LET known == level \in DOMAIN regions IN
       /\ GetAncestorThreadNum(level) =
             (IF level = 0 THEN 0 ELSE IF known THEN regions[level].tid ELSE -1)
       /\ GetTeamSize(level) =
             (IF level = 0 THEN 1 ELSE IF known THEN regions[level].size ELSE -1)
LeagueRight == GetTeamNum = league.tid /\ GetNumTeams = league.size
LevelsRight ==
    /\ Team.level = Len(regions)
    /\ InParallel <=> Active # {}
(* Whoever leaves a region finds its own control variables as they were,   *)
(* whatever was set inside: with a task of its own for every region, and   *)
(* with the saved values where nested serialized regions share one.        *)
ControlsScoped ==
    [][Len(regions') < Len(regions) => Team'.icvs = Last(regions).icvs]_regionVars

(* A program that reads its schedule and sets it again asks for the same.  *)
Detailed(type) == IF type = "static" THEN Static.type ELSE type
SchedulesReadBack ==
    LET sched == Team.icvs.sched
        read  == GetSchedule(sched)
        again == ScheduleOf(read[1], read[2])
    IN  again.chunk = sched.chunk /\ Detailed(again.type) = Detailed(sched.type)

(* Whatever the program asks, the answer is about where it is.             *)
QueriesRight == AncestorsRight /\ LevelsRight /\ LeagueRight /\ SchedulesReadBack

RegionsSpec == RegionsInit /\ [][RegionsNext]_regionVars
================================================================================
