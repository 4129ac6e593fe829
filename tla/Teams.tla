-------------------------------- MODULE Teams --------------------------------
(***************************************************************************)
(* Fork and join: how the threads and teams of the runtime are created,    *)
(* lent, resized and given back (kmp_runtime.cpp, with the task teams of   *)
(* kmp_tasking.cpp).  Root threads register and leave; a thread forks a    *)
(* team or, for want of threads or levels, a serialized region, at any     *)
(* depth; hot teams keep their threads between regions; other threads and  *)
(* teams go back to the pools.                                             *)
(*                                                                         *)
(* All this is done under __kmp_forkjoin_lock, so that a call is one step  *)
(* here, and rt is what the lock protects.  The barriers are ones that     *)
(* work (module Barrier); a released worker leaves its barrier when it     *)
(* likes.                                                                  *)
(***************************************************************************)
EXTENDS Integers, FiniteSets, SequencesExt

CONSTANTS
    Settings,       \* environments of the runtime, see IsSetting
    None

(* hotLevels, hotMode: KMP_HOT_TEAMS_MAX_LEVEL and _MODE; maxNth, cgLimit:  *)
(* the limits of the device and of a contention group; maxActive: the      *)
(* max-active-levels-var; sizes: the sizes that programs ask for; roots:   *)
(* the most root threads at a time; leave: whether roots come and go;      *)
(* nesting: bound on the depth of the regions; hadTasks: whether threads   *)
(* find tasking enabled in the task team that a barrier waits for.         *)
IsSetting(s) ==
    /\ s.hotLevels \in 0..2 /\ s.hotMode \in {0, 1}
    /\ {s.maxNth, s.cgLimit, s.maxActive, s.roots, s.nesting} \subseteq Nat \ {0}
    /\ s.sizes \subseteq Nat \ {0} /\ s.leave \in BOOLEAN
    /\ s.hadTasks \subseteq BOOLEAN /\ s.hadTasks # {}

ASSUME SettingsAssumption == \A s \in Settings : IsSetting(s)

VARIABLES
    env,    \* the environment, one of Settings
    rt,     \* threads, teams, roots, pools and counts
    at      \* where each thread is: in user code, waiting in the fork
            \*   barrier, or released from a barrier that it has not left

vars == <<env, rt, at>>

(* kmp_info_t: team, tid, root, contention group, th_task_state and its    *)
(* memo stack, th_task_team (team and index), serial team, hot teams.      *)
NewThread(serial) ==
    [team |-> None, tid |-> 0, root |-> None, cg |-> None, state |-> 0, top |-> 0,
     memo |-> [i \in 0..3 |-> 0], taskTeam |-> None, serial |-> serial, hot |-> <<>>]

(* kmp_team_t; threads holds those in reserve, too.                        *)
NoTaskTeams == [i \in {0, 1} |-> None]
NewTeam(max) ==
    [threads |-> <<>>, nproc |-> 0, max |-> max, parent |-> None, masterTid |-> 0,
     masterActive |-> FALSE, level |-> 0, active |-> 0, serialized |-> 0, tt |-> NoTaskTeams]

Empty == [thr |-> <<>>, team |-> <<>>, root |-> <<>>, cg |-> <<>>, pool |-> <<>>,
          insertPt |-> None, teamPool |-> <<>>, nth |-> 0, allNth |-> 0]

Between(low, high) == [i \in 1..(high - low) |-> low + i - 1]
FreeNumber(from, used) == Min((from..(from + Cardinality(used))) \ used)
Members(r, t) == {r.team[t].threads[f] : f \in 0..(r.team[t].nproc - 1)}
HotTeamMax == 2 * env.maxNth

(***************************************************************************)
(* Teams from the pool, and threads from theirs.                           *)
(***************************************************************************)
InitializeTeam(r, t, n) ==
    [r EXCEPT !.team[t].nproc = n, !.team[t].masterTid = 0, !.team[t].masterActive = FALSE,
              !.team[t].serialized = IF n > 1 THEN 0 ELSE 1]

(* The first team of the pool that is large enough; those before it are    *)
(* reaped.  Without one a new team is made.                                *)
AllocateTeam(r, n, max) ==
    LET pool  == r.teamPool
        fits  == {i \in DOMAIN pool : r.team[pool[i]].max >= max}
        i     == Min(fits \cup {Len(pool) + 1})
        kept  == [t \in DOMAIN r.team \ {pool[j] : j \in 1..(i - 1)} |-> r.team[t]]
        t     == IF fits # {} THEN pool[i] ELSE FreeNumber(1, DOMAIN kept)
        taken == [r EXCEPT !.team = IF fits # {} THEN kept ELSE kept @@ (t :> NewTeam(max)),
                           !.teamPool = SubSeq(pool, i + 1, Len(pool))]
    IN  [rt |-> [InitializeTeam(taken, t, n) EXCEPT !.team[t].tt = NoTaskTeams], team |-> t]

(* Thread g becomes number tid of team t, in its master's contention group. *)
InitializeInfo(r, t, tid, g) ==
    LET master == r.team[t].threads[0]
        cg     == r.thr[master].cg
        joined == [r EXCEPT !.thr[g].team = t, !.thr[g].tid = tid,
                            !.thr[g].root = r.thr[master].root]
    IN  IF g = master \/ r.thr[g].cg = cg THEN joined
        ELSE [joined EXCEPT !.thr[g].cg = cg, !.cg[cg] = @ + 1]

(* The head of the pool, or a new worker with a serial team of its own.    *)
AllocateThread(r, t, tid) ==
    LET pooled == Head(r.pool)
        new    == FreeNumber(1, DOMAIN r.thr \cup {0})
        serial == AllocateTeam(r, 1, 1)
        g      == IF r.pool # <<>> THEN pooled ELSE new
        got    == IF r.pool # <<>>
                    THEN [r EXCEPT !.pool = Tail(@), !.insertPt = IF @ = pooled THEN None ELSE @,
                                   !.thr[pooled].state = 0, !.thr[pooled].top = 0]
                    ELSE [serial.rt EXCEPT !.thr = @ @@ (new :> NewThread(serial.team)),
                                           !.team[serial.team].serialized = 0,
                                           !.team[serial.team].threads = 0 :> new,
                                           !.allNth = @ + 1]
    IN  [InitializeInfo(got, t, tid, g) EXCEPT !.nth = @ + 1,
                                               !.team[t].threads = (tid :> g) @@ @]

AllocateThreads(r, t, low, high) ==
    FoldLeft(LAMBDA q, f : AllocateThread(q, t, f), r, Between(low, high))

(* Mutant: the search starts behind threads with larger numbers. *)
FreeThreadAfterInsertPt(r, g) ==
    LET cg    == r.thr[g].cg
        start == IF r.insertPt = None THEN 0
                 ELSE Min({i \in DOMAIN r.pool : r.pool[i] = r.insertPt})
        i     == Min({i \in (start + 1)..Len(r.pool) : r.pool[i] >= g} \cup {Len(r.pool) + 1})
    IN  [r EXCEPT !.thr[g].team = None, !.thr[g].root = None, !.thr[g].cg = None,
                  !.thr[g].state = 0, !.cg[cg] = @ - 1, !.nth = @ - 1,
                  !.pool = InsertAt(@, i, g), !.insertPt = g]

(* Back to the pool, which is kept in the order of the threads' numbers;   *)
(* insertPt remembers the last insertion to search from there.             *)
FreeThread(r, g) ==
    LET cg    == r.thr[g].cg
        start == IF r.insertPt = None \/ r.insertPt > g THEN 0
                 ELSE Min({i \in DOMAIN r.pool : r.pool[i] = r.insertPt})
        i     == Min({i \in (start + 1)..Len(r.pool) : r.pool[i] >= g} \cup {Len(r.pool) + 1})
    IN  [r EXCEPT !.thr[g].team = None, !.thr[g].root = None, !.thr[g].cg = None,
                  !.thr[g].state = 0, !.cg[cg] = @ - 1, !.nth = @ - 1,
                  !.pool = InsertAt(@, i, g), !.insertPt = g]

(* A team that is not hot gives its task teams, its workers and itself back. *)
FreeTeam(r, t) ==
    LET team    == r.team[t]
        unused  == IF team.tt = NoTaskTeams THEN r
                   ELSE [r EXCEPT !.thr = [g \in DOMAIN @ |->
                            IF g \in Members(r, t) THEN [@[g] EXCEPT !.taskTeam = None] ELSE @[g]]]
        workers == FoldLeft(LAMBDA q, f : FreeThread(q, team.threads[f]), unused,
                            Between(1, team.nproc))
    IN  [workers EXCEPT !.team[t].tt = NoTaskTeams, !.team[t].parent = None,
                        !.team[t].level = 0, !.team[t].active = 0, !.team[t].threads = <<>>,
                        !.teamPool = <<t>> \o @]

(***************************************************************************)
(* Task teams: two per team, used in turn from one barrier to the next.    *)
(***************************************************************************)
TaskTeam(r, t, i) == IF r.team[t].tt[i] = None THEN None ELSE <<t, i>>

(* The one in use stays; the other is made ready for the team's size.      *)
TaskTeamSetup(r, g, t) ==
    LET ready == [nproc |-> r.team[t].nproc, active |-> TRUE]
        state == r.thr[g].state
    IN  [r EXCEPT !.team[t].tt[state] = IF @ = None THEN ready ELSE @,
                  !.team[t].tt[1 - state] = ready]

TaskTeamSync(r, g, t) ==
    LET state == 1 - r.thr[g].state
    IN  [r EXCEPT !.thr[g].state = state, !.thr[g].taskTeam = TaskTeam(r, t, state)]

(* The master retires a task team that had tasks.                          *)
TaskTeamWait(r, g, t, hadTasks) ==
    LET state == r.thr[g].state
    IN  IF hadTasks /\ r.team[t].tt[state] # None
          THEN [r EXCEPT !.team[t].tt[state].active = FALSE, !.thr[g].taskTeam = None]
          ELSE r

(***************************************************************************)
(* Forking.                                                                *)
(***************************************************************************)
Within(n, count, limit, used) ==
    IF count + n - used > limit THEN Max({1, limit - count + used}) ELSE n

(* Mutant: the hot team of the root counts as free while it runs. *)
ReserveThreadsOfActiveRoot(r, g, n) ==
    LET used == r.team[r.root[r.thr[g].root].hotTeam].nproc
    IN  Within(Within(n, r.nth, env.maxNth, used), r.cg[r.thr[g].cg], env.cgLimit, used)

ReserveThreads(r, g, n) ==
    LET root == r.root[r.thr[g].root]
        used == IF root.active THEN 1 ELSE r.team[root.hotTeam].nproc
    IN  Within(Within(n, r.nth, env.maxNth, used), r.cg[r.thr[g].cg], env.cgLimit, used)

(* How many threads a region gets that asks for n.                         *)
NumThreads(r, g, n) ==
    IF \/ r.team[r.thr[g].team].active >= env.maxActive
       \/ env.maxActive = 1 /\ r.root[r.thr[g].root].inParallel > 0
       \/ n = 1
    THEN 1 ELSE ReserveThreads(r, g, n)

(* The first fork of a thread allocates its array of hot teams.            *)
HotTeams(r, g) ==
    IF r.thr[g].hot # <<>> \/ env.hotLevels = 0 THEN r
    ELSE [r EXCEPT !.thr[g].hot = [level \in 0..(env.hotLevels - 1) |->
             IF level = 0 THEN [team |-> r.root[r.thr[g].root].hotTeam, nth |-> 1]
             ELSE [team |-> None, nth |-> 0]]]

HotTeam(r, g, level) == IF level < env.hotLevels THEN r.thr[g].hot[level].team ELSE None

ShrinkHotTeam(r, g, level, n) ==
    LET t     == HotTeam(r, g, level)
        freed == FoldLeft(LAMBDA q, f :
                     FreeThread([q EXCEPT !.thr[q.team[t].threads[f]].taskTeam = None],
                                q.team[t].threads[f]),
                     r, Between(n, r.team[t].nproc))
    IN  IF env.hotMode = 1 THEN [r EXCEPT !.team[t].nproc = n]
        ELSE [freed EXCEPT !.thr[g].hot[level].nth = n, !.team[t].nproc = n,
                           !.team[t].threads = [f \in 0..(n - 1) |-> @[f]]]

(* Reserved threads first, then new ones; the new ones take on the task    *)
(* state that the others have.                                             *)
GrowHotTeam(r, g, level, n) ==
    LET t       == HotTeam(r, g, level)
        hotNth  == r.thr[g].hot[level].nth
        grown   == IF hotNth >= n THEN r
                   ELSE AllocateThreads(
                            [r EXCEPT !.thr[g].hot[level].nth = n,
                                      !.team[t].max = Max({@, n})], t, hotNth, n)
        old     == IF hotNth >= n THEN n ELSE hotNth
        joined  == FoldLeft(LAMBDA q, f : InitializeInfo(q, t, f, q.team[t].threads[f]),
                            InitializeTeam(grown, t, n), Between(0, n))
        state   == IF level > 0 THEN r.thr[g].memo[level] ELSE r.thr[g].state
    IN  FoldLeft(LAMBDA q, f : [q EXCEPT !.thr[q.team[t].threads[f]].state = state],
                 joined, Between(old, n))

(* A team for n > 1 threads: the hot team of the level or one of the pool. *)
AllocateForkTeam(r, g, n) ==
    LET level == r.team[r.thr[g].team].active
        t     == HotTeam(r, g, level)
    IN  IF t = None THEN AllocateTeam(r, n, n)
        ELSE [team |-> t,
              rt |-> IF r.team[t].nproc = n THEN r
                     ELSE IF r.team[t].nproc > n THEN ShrinkHotTeam(r, g, level, n)
                     ELSE GrowHotTeam(r, g, level, n)]

(* Mutant: a nested hot team starts over with state 0. *)
PushTaskStateAfresh(r, g, t, level) ==
    IF level = 0 /\ r.thr[g].taskTeam = None THEN r
    ELSE [r EXCEPT !.thr[g].memo[r.thr[g].top] = r.thr[g].state, !.thr[g].top = @ + 1,
                   !.thr[g].state = 0]

(* The task state of the outer region is kept on a stack; a nested hot     *)
(* team goes on with the state it had.                                     *)
PushTaskState(r, g, t, level) ==
    LET th == r.thr[g]
        memo == [th.memo EXCEPT ![th.top] = th.state]
    IN  IF level = 0 /\ th.taskTeam = None THEN r
        ELSE [r EXCEPT !.thr[g].memo = memo, !.thr[g].top = @ + 1,
                       !.thr[g].state = IF HotTeam(r, g, level) = t THEN memo[th.top + 1] ELSE 0]

(* A team that is not yet hot gets its threads, and becomes hot if its     *)
(* level is one of the hot ones.                                           *)
ForkTeamThreads(r, g, t) ==
    LET level  == r.team[t].active - 1
        n      == r.team[t].nproc
        master == [r EXCEPT !.thr[g].tid = 0, !.thr[g].team = t]
        first  == IF level < env.hotLevels
                    THEN [master EXCEPT !.thr[g].hot[level] = [team |-> t, nth |-> n]] ELSE master
    IN  IF HotTeam(r, g, level) = t THEN master
        ELSE AllocateThreads(InitializeInfo([first EXCEPT !.team[t].threads = 0 :> g], t, 0, g),
                             t, 1, n)

(* __kmp_fork_call for n > 1 threads, with the fork barrier of the master. *)
ForkCall(r, g, n) ==
    LET th     == r.thr[g]
        level  == r.team[th.team].active
        forked == AllocateForkTeam(r, g, n)
        t      == forked.team
        placed == [forked.rt EXCEPT !.team[t].masterTid = th.tid, !.team[t].parent = th.team,
                      !.team[t].level = r.team[th.team].level + 1, !.team[t].active = level + 1,
                      !.team[t].masterActive = r.root[th.root].active,
                      !.root[th.root].active = TRUE, !.root[th.root].inParallel = @ + 1]
        ready  == ForkTeamThreads(PushTaskState(placed, g, t, level), g, t)
    IN  TaskTeamSync(TaskTeamSetup(ready, g, t), g, t)

(* A region on one thread: its serial team, or one level more on it.  When *)
(* the serial team is busy further out, the thread gets another.           *)
SerializedParallel(r, g) ==
    LET th     == r.thr[g]
        busy   == r.team[th.serial].serialized > 0
        other  == AllocateTeam(r, 1, 1)
        s      == IF busy THEN other.team ELSE th.serial
        got    == IF busy THEN [other.rt EXCEPT !.thr[g].serial = s, !.team[s].threads = 0 :> g]
                  ELSE r
        parent == r.team[th.team]
    IN  IF th.team = th.serial
          THEN [r EXCEPT !.team[th.serial].serialized = @ + 1, !.team[th.serial].level = @ + 1,
                         !.thr[g].taskTeam = None]
          ELSE [got EXCEPT !.team[s].serialized = 1, !.team[s].nproc = 1,
                    !.team[s].parent = th.team, !.team[s].masterTid = th.tid,
                    !.team[s].level = parent.level + 1, !.team[s].active = parent.active,
                    !.thr[g].team = s, !.thr[g].tid = 0, !.thr[g].taskTeam = None]

(***************************************************************************)
(* Joining.                                                                *)
(***************************************************************************)
PopTaskState(r, g) ==
    LET top  == r.thr[g].top
        memo == [r.thr[g].memo EXCEPT ![top] = r.thr[g].state]
    IN  IF top = 0 THEN r
        ELSE [r EXCEPT !.thr[g].memo = memo, !.thr[g].top = top - 1, !.thr[g].state = memo[top - 1]]

(* Mutant: the inner serial team is forgotten. *)
RestoreSerialTeamOnly(r, g, parent) ==
    LET th == r.thr[g]
    IN  IF /\ r.team[parent].serialized > 0
           /\ parent # th.serial
           /\ parent # r.root[th.root].rootTeam
        THEN [r EXCEPT !.thr[g].serial = parent] ELSE r

(* The serial team that an outer region runs on is the thread's again.     *)
RestoreSerialTeam(r, g, parent) ==
    LET th == r.thr[g]
    IN  IF /\ r.team[parent].serialized > 0
           /\ parent # th.serial
           /\ parent # r.root[th.root].rootTeam
        THEN [FreeTeam(r, th.serial) EXCEPT !.thr[g].serial = parent] ELSE r

(* __kmp_join_call, when all have come to the join barrier.                *)
JoinCall(r, g, hadTasks) ==
    LET t      == r.thr[g].team
        team   == r.team[t]
        root   == r.thr[g].root
        left   == [TaskTeamWait(r, g, t, hadTasks) EXCEPT
                      !.thr[g].tid = team.masterTid,
                      !.root[root].inParallel = @ - 1, !.root[root].active = team.masterActive]
        freed  == IF team.active - 1 < env.hotLevels THEN left ELSE FreeTeam(left, t)
        back   == RestoreSerialTeam([freed EXCEPT !.thr[g].team = team.parent], g, team.parent)
        popped == PopTaskState(back, g)
    IN  [popped EXCEPT !.thr[g].taskTeam = TaskTeam(popped, team.parent, popped.thr[g].state)]

EndSerializedParallel(r, g) ==
    LET s    == r.thr[g].serial
        team == r.team[s]
        out  == [r EXCEPT !.team[s].serialized = @ - 1, !.team[s].level = @ - 1]
    IN  IF team.serialized > 1 THEN out
        ELSE [out EXCEPT !.thr[g].team = team.parent, !.thr[g].tid = team.masterTid,
                         !.thr[g].taskTeam = TaskTeam(r, team.parent, r.thr[g].state)]

(***************************************************************************)
(* Root threads.                                                           *)
(***************************************************************************)
RegisterRoot(r, g) ==
    LET rootTeam == AllocateTeam(r, 1, 1)
        hotTeam  == AllocateTeam(rootTeam.rt, 1, HotTeamMax)
        serial   == AllocateTeam(hotTeam.rt, 1, 1)
        placed   == [serial.rt EXCEPT
                        !.thr = @ @@ (g :> [NewThread(serial.team) EXCEPT !.root = g, !.cg = g]),
                        !.root = @ @@ (g :> [rootTeam |-> rootTeam.team, hotTeam |-> hotTeam.team,
                                             active |-> FALSE, inParallel |-> 0]),
                        !.cg = @ @@ (g :> 1),
                        !.team[rootTeam.team].threads = 0 :> g,
                        !.team[hotTeam.team].threads = 0 :> g,
                        !.team[hotTeam.team].parent = rootTeam.team,
                        !.team[serial.team].threads = 0 :> g,
                        !.team[serial.team].serialized = 0,
                        !.nth = @ + 1, !.allNth = @ + 1]
    IN  InitializeInfo(placed, rootTeam.team, 0, g)

(* The hot teams of the members of the root's hot team go back to the pool. *)
FreeHotTeams(r, g) ==
    LET freed == IF /\ env.hotLevels > 1 /\ r.thr[g].hot # <<>>
                    /\ r.thr[g].hot[1].team # None
                 THEN FreeTeam(r, r.thr[g].hot[1].team) ELSE r
    IN  [freed EXCEPT !.thr[g].hot = <<>>]

Without(f, x) == [y \in DOMAIN f \ {x} |-> f[y]]

ResetRoot(r, g) ==
    LET root   == r.root[g]
        team   == r.team[root.hotTeam]
        noRoot == [r EXCEPT !.root = Without(@, g)]
        hot    == FoldLeft(LAMBDA q, f : FreeHotTeams(q, team.threads[f]),
                           FreeTeam(noRoot, root.rootTeam), Between(0, team.nproc))
        freed  == FreeTeam(hot, root.hotTeam)
        alone  == freed.cg[g] = 1
    IN  [freed EXCEPT !.nth = @ - 1, !.allNth = @ - 1,
                      !.cg = IF alone THEN Without(@, g) ELSE [@ EXCEPT ![g] = @ - 1],
                      !.thr = Without(@, g), !.team = Without(@, r.thr[g].serial)]

-----------------------------------------------------------------------------
Thread == DOMAIN rt.thr
Team(g) == rt.team[rt.thr[g].team]
IsMaster(g) == rt.thr[g].tid = 0 /\ Team(g).nproc > 1
InUserCode(g) == at[g] = "user"
TeamIsHere(g) == \A h \in Members(rt, rt.thr[g].team) :
                    InUserCode(h) /\ rt.thr[h].team = rt.thr[g].team

(* Where the threads are once the team of g has been released. *)
Released(r, g) ==
    [h \in DOMAIN r.thr |->
        IF h # g /\ h \in Members(r, r.thr[g].team) THEN "released"
        ELSE IF h \in DOMAIN at THEN at[h] ELSE "waits"]

Init ==
    /\ env \in Settings
    /\ rt = RegisterRoot(Empty, 0)
    /\ at = 0 :> "user"

(* __kmp_fork_call with a team of more than one thread. *)
Fork(g) ==
    /\ InUserCode(g) /\ Team(g).level < env.nesting
    /\ \E n \in env.sizes :
         LET r == HotTeams(rt, g)
             k == NumThreads(r, g, n)
         IN  /\ k > 1
             /\ rt' = ForkCall(r, g, k)
             /\ at' = Released(rt', g)
    /\ UNCHANGED env

(* __kmp_fork_call with one thread. *)
Serialize(g) ==
    /\ InUserCode(g) /\ Team(g).level < env.nesting
    /\ \E n \in env.sizes : NumThreads(rt, g, n) = 1
    /\ rt' = SerializedParallel(HotTeams(rt, g), g)
    /\ UNCHANGED <<env, at>>

(* A worker leaves the barrier it was released from. *)
Leave(g) ==
    /\ at[g] = "released"
    /\ rt' = TaskTeamSync(rt, g, rt.thr[g].team)
    /\ at' = [at EXCEPT ![g] = "user"]
    /\ UNCHANGED env

(* A barrier inside the region; hadTasks: some thread enabled tasking. *)
Barrier(g) ==
    /\ InUserCode(g) /\ IsMaster(g) /\ TeamIsHere(g)
    /\ LET t == rt.thr[g].team
       IN  \E hadTasks \in env.hadTasks :
             rt' = TaskTeamSync(TaskTeamWait(TaskTeamSetup(rt, g, t), g, t, hadTasks), g, t)
    /\ at' = Released(rt, g)
    /\ UNCHANGED env

(* The workers wait in the next fork barrier when the master joins. *)
Join(g) ==
    /\ InUserCode(g) /\ IsMaster(g) /\ TeamIsHere(g)
    /\ \E hadTasks \in env.hadTasks : rt' = JoinCall(rt, g, hadTasks)
    /\ at' = [h \in Thread |-> IF h # g /\ h \in Members(rt, rt.thr[g].team)
                                 THEN "waits" ELSE at[h]]
    /\ UNCHANGED env

EndSerialized(g) ==
    /\ InUserCode(g)
    /\ rt.thr[g].team = rt.thr[g].serial
    /\ rt' = EndSerializedParallel(rt, g)
    /\ UNCHANGED <<env, at>>

(* A waiting worker lets go of a task team that is retired. *)
Unreference(g) ==
    /\ at[g] = "waits" /\ rt.thr[g].taskTeam # None
    /\ LET ref == rt.thr[g].taskTeam IN ~rt.team[ref[1]].tt[ref[2]].active
    /\ rt' = [rt EXCEPT !.thr[g].taskTeam = None]
    /\ UNCHANGED <<env, at>>

(* A thread of the program comes to the runtime. *)
Register ==
    /\ env.leave \/ rt.allNth < env.roots
    /\ Cardinality(DOMAIN rt.root) < env.roots
    /\ LET g == FreeNumber(1, Thread \cup {0})
       IN  /\ rt' = RegisterRoot(rt, g)
           /\ at' = at @@ (g :> "user")
    /\ UNCHANGED env

(* It leaves for good, once no thread of the pool refers to a task team. *)
Unregister(g) ==
    /\ env.leave
    /\ g \in DOMAIN rt.root \ {0} /\ InUserCode(g)
    /\ rt.thr[g].team = rt.root[g].rootTeam
    /\ LET r == ResetRoot(rt, g)
       IN  /\ \A h \in ToSet(r.pool) : r.thr[h].taskTeam = None
           /\ rt' = r
    /\ at' = Without(at, g)
    /\ UNCHANGED env

Next ==
    \/ \E g \in Thread : \/ Fork(g) \/ Serialize(g) \/ Leave(g) \/ Barrier(g) \/ Join(g)
                         \/ EndSerialized(g) \/ Unreference(g) \/ Unregister(g)
    \/ Register

Spec == Init /\ [][Next]_vars

-----------------------------------------------------------------------------
Busy == {g \in Thread : at[g] # "waits"}

(* The teams of the regions that g is in, from the innermost outwards.     *)
Regions(g) ==
    LET team[k \in 0..env.nesting] ==
          IF k = 0 THEN rt.thr[g].team
          ELSE IF team[k - 1] = None THEN None ELSE rt.team[team[k - 1]].parent
    IN  {team[k] : k \in 0..env.nesting} \ {None}
InUse == UNION {Regions(g) : g \in Busy}

Numbered(g, t) == rt.team[t].threads[rt.thr[g].tid] = g
RootOf(t) == rt.thr[rt.team[t].threads[0]].root
RootTeams == {rt.root[g].rootTeam : g \in DOMAIN rt.root}

(* The teams that have an owner although no region runs on them.           *)
Owned ==
    LET hot == {rt.thr[g].hot[1].team : g \in {h \in Thread : 1 \in DOMAIN rt.thr[h].hot}}
    IN  RootTeams \cup {rt.root[g].hotTeam : g \in DOMAIN rt.root}
            \cup {rt.thr[g].serial : g \in Thread} \cup (hot \ {None})

(* Every thread in a region is the member of its team that it takes itself *)
(* for; every team in use hangs by its master's place in the parent team,  *)
(* at the levels that the nesting gives; a root counts its regions and is  *)
(* active when it has any; no team is pooled and in use, nor lost.         *)
HierarchyHolds ==
    /\ \A g \in Busy : Numbered(g, rt.thr[g].team) /\ rt.thr[g].root = RootOf(rt.thr[g].team)
    /\ \A t \in InUse \ RootTeams :
          LET team == rt.team[t]   parent == rt.team[team.parent]
          IN  /\ parent.threads[team.masterTid] = team.threads[0]
              /\ team.level = parent.level + (IF team.nproc > 1 THEN 1 ELSE team.serialized)
              /\ team.active = parent.active + (IF team.nproc > 1 THEN 1 ELSE 0)
    /\ \A g \in DOMAIN rt.root :
          LET parallel == {t \in InUse : rt.team[t].nproc > 1 /\ RootOf(t) = g}
          IN  /\ rt.root[g].inParallel = Cardinality(parallel)
              /\ rt.root[g].active <=> parallel # {}
    /\ IsInjective(rt.teamPool)
    /\ ToSet(rt.teamPool) \cap (InUse \cup Owned) = {}
    /\ DOMAIN rt.team = ToSet(rt.teamPool) \cup InUse \cup Owned

(* Every worker is in the pool or has one place in one team; the pool is   *)
(* in order; the counts of threads, and of each contention group, are the  *)
(* numbers of threads there are (__kmp_nth, __kmp_all_nth, cg_nthreads).   *)
ThreadsAccounted ==
    LET Places(g) == {p \in (DOMAIN rt.team) \X (1..env.maxNth) :
                         p[2] \in DOMAIN rt.team[p[1]].threads /\ rt.team[p[1]].threads[p[2]] = g}
    IN  /\ rt.allNth = Cardinality(Thread)
        /\ rt.nth = Cardinality(Thread) - Len(rt.pool)
        /\ \A i \in 1..(Len(rt.pool) - 1) : rt.pool[i] < rt.pool[i + 1]
        /\ rt.insertPt \in ToSet(rt.pool) \cup {None}
        /\ \A g \in Thread \ DOMAIN rt.root :
              Cardinality(Places(g)) = IF g \in ToSet(rt.pool) THEN 0 ELSE 1
        /\ \A c \in DOMAIN rt.cg : rt.cg[c] = Cardinality({g \in Thread : rt.thr[g].cg = c})

(* The threads of a team that have left its last barrier refer to one and  *)
(* the same task team of theirs, which is active and made for their        *)
(* number; the others are about to.  A pooled thread refers to none, so    *)
(* that a root which leaves is not held up (__kmp_wait_to_unref_task_teams). *)
TaskTeamsShared ==
    /\ \A g \in Thread :
          LET th == rt.thr[g]   team == Team(g)
          IN  /\ g \in ToSet(rt.pool) => th.taskTeam = None
              /\ th.taskTeam # None =>
                    th.taskTeam[1] = th.team /\ team.tt[th.taskTeam[2]] # None
              /\ (InUserCode(g) /\ team.nproc > 1) =>
                    /\ th.taskTeam = <<th.team, th.state>>
                    /\ team.tt[th.state] = [nproc |-> team.nproc, active |-> TRUE]
    /\ \A g, h \in Busy : rt.thr[g].team = rt.thr[h].team =>
          (rt.thr[g].state = rt.thr[h].state <=> at[g] = at[h])

(* Threads are made and taken within the limits of the device and of the   *)
(* contention group, whatever the regions that fork at the same time.      *)
LimitsKept ==
    [][DOMAIN rt'.root = DOMAIN rt.root =>
          /\ rt'.nth > rt.nth => rt'.nth <= env.maxNth
          /\ \A c \in DOMAIN rt.cg : rt'.cg[c] > rt.cg[c] => rt'.cg[c] <= env.cgLimit]_vars

=============================================================================
