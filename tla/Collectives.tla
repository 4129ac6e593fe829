------------------------------ MODULE Collectives ------------------------------
(***************************************************************************)
(* Constructs in which the threads of a team combine their data: reduce    *)
(* blocks in all their methods, the broadcast of copyprivate, and doacross *)
(* loops whose iterations wait for each other.  The team runs a program of *)
(* such constructs; at the level of a teams construct the threads are the  *)
(* masters of the league, and swap to the league's team for a reduction.   *)
(***************************************************************************)
EXTENDS Integers, Sequences, FiniteSets

CONSTANTS MaxNproc,       \* the largest team
          Programs,       \* what may run: the team's size and its constructs
          Forced,         \* values of __kmp_force_reduction_method to consider
          TeamsizeCutoff, \* teamsize_cutoff: larger teams prefer the tree
          NumBuffers,     \* __kmp_dispatch_num_buffers
          Dims,           \* the bounds of the doacross loops, inclusive
          Sinks           \* the offsets an iteration waits for

VARIABLES nproc, prog, force, atTeams,  \* chosen at the start
          at, pc,     \* the construct each thread is in, and the step of it
          th,         \* ds_tid and th_team
          method,     \* packed_reduction_method, one for each thread
          crit,       \* who holds the critical name of the reductions
          arrived, released,  \* the team's barriers, by type
          total, reg, \* contributions in each result; what a thread has read
          single, copypriv, copied,  \* t_copypriv_data and what was copied
          buffer,     \* t_disp_buffer: the doacross part
          area,       \* the flags of each loop: the bits set
          priv,       \* th_dispatch: doacross buffer index, flags and iteration
          taken, ran  \* iterations handed out and run, by construct

reduceVars   == <<th, method, crit, total, reg>>
copyVars     == <<single, copypriv, copied>>
doacrossVars == <<buffer, area, priv, taken, ran>>
fixed        == <<nproc, prog, force, atTeams>>
collectVars  == <<fixed, at, pc, arrived, released, reduceVars, copyVars, doacrossVars>>

Member == 0..(nproc - 1)
Constructs == DOMAIN prog
Nobody == -1
Null == -1   \* flags before the first thread, and ...
Busy == -2   \* ... while it allocates them

CollectInit ==
    /\ \E p \in Programs : nproc = p.nproc /\ prog = p.constructs
    /\ force \in Forced /\ atTeams \in BOOLEAN
    /\ (\E c \in Constructs : prog[c].kind \in {"copyprivate", "doacross"}) => ~atTeams
    /\ at = [t \in Member |-> 1] /\ pc = [t \in Member |-> "enter"]
    /\ th = [t \in Member |-> IF atTeams THEN [tid |-> 0, team |-> "own"]
                                         ELSE [tid |-> t, team |-> "shared"]]
    /\ method = [t \in Member |-> "none"] /\ crit = Nobody
    /\ arrived = [b \in {"plain", "reduction"} |-> [t \in Member |-> 0]]
    /\ released = [b \in {"plain", "reduction"} |-> 0]
    /\ total = [c \in Constructs |-> [t \in Member |-> 0]]
    /\ reg = [t \in Member |-> [u \in Member |-> 0]]
    /\ single = [c \in Constructs |-> Nobody] /\ copypriv = <<0, Nobody>>
    /\ copied = [c \in Constructs |-> [t \in Member |-> <<0, Nobody>>]]
    /\ buffer = [b \in 0..(NumBuffers - 1) |-> [idx |-> b, flags |-> Null, done |-> 0]]
    /\ area = [c \in 0..(Len(prog) - 1) |-> {}]
    /\ priv = [t \in Member |-> [idx |-> 0, flags |-> Null, iter |-> 0, waits |-> {}]]
    /\ taken = [c \in Constructs |-> 0] /\ ran = [c \in Constructs |-> {}]

Here(t) == prog[at[t]]
In(t, kind, p) == at[t] \in Constructs /\ Here(t).kind \in kind /\ pc[t] = p
Goto(t, p) == pc' = [pc EXCEPT ![t] = p] /\ UNCHANGED at
Done(t) == pc' = [pc EXCEPT ![t] = "enter"] /\ at' = [at EXCEPT ![t] = @ + 1]

--------------------------------------------------------------------------------
(* __kmp_barrier and __kmp_end_split_barrier, as far as the constructs see *)
(* them: the master goes on when all have arrived and releases the others  *)
(* at once, or, when the barrier is split, later.                          *)
Arrive(t, bt) == arrived' = [arrived EXCEPT ![bt][t] = @ + 1]
AllArrived(bt) == \A u \in Member : arrived[bt][u] > released[bt]

Passes(t, bt, split) ==
    IF th[t].team = "own" THEN UNCHANGED released
    ELSE IF th[t].tid = 0
    THEN AllArrived(bt) /\ released' = IF split THEN released ELSE [released EXCEPT ![bt] = @ + 1]
    ELSE released[bt] >= arrived[bt][t] /\ UNCHANGED released

--------------------------------------------------------------------------------
(* Reductions.                                                             *)

(* __kmp_determine_reduction_method on a 64-bit machine.                   *)
Preferred(c, size) ==
    IF size = 1 THEN "empty"
    ELSE IF c.tree /\ size > TeamsizeCutoff THEN "tree"
    ELSE IF c.atomic THEN "atomic" ELSE "critical"

DetermineReductionMethod(c, size) ==
    CASE force = "none" \/ size = 1    -> Preferred(c, size)
      [] force = "atomic" /\ c.atomic  -> "atomic"
      [] force = "tree" /\ c.tree      -> "tree"
      [] OTHER                         -> "critical"

(* __kmp_swap_teams_for_teams_reduction and __kmp_restore_swapped_teams    *)
SwappedTeams(t) == IF atTeams THEN [tid |-> t, team |-> "shared"] ELSE th[t]
RestoredTeams(t) == IF atTeams THEN [tid |-> 0, team |-> "own"] ELSE th[t]
TeamSize(h) == IF h.team = "own" THEN 1 ELSE nproc

Reduces == {"reduce", "reduce_nowait"}

ReduceEnter(t) ==
    /\ In(t, Reduces, "enter")
    /\ LET h == SwappedTeams(t)
           m == DetermineReductionMethod(Here(t), TeamSize(h))
       IN  /\ method' = [method EXCEPT ![t] = m]
           /\ th' = [th EXCEPT ![t] = IF m \in {"critical", "tree"} THEN h ELSE RestoredTeams(t)]
           /\ IF m = "tree" THEN Arrive(t, "reduction") ELSE UNCHANGED arrived
           /\ Goto(t, CASE m = "critical" -> "lock" [] m = "tree" -> "gather"
                        [] m = "atomic" -> "atomic" [] OTHER -> "read")
    /\ UNCHANGED <<fixed, released, crit, total, reg, copyVars, doacrossVars>>

(* __kmp_enter_critical_section_reduce_block                               *)
EnterCriticalReduce(t) ==
    /\ In(t, Reduces, "lock") /\ crit = Nobody
    /\ crit' = t /\ th' = [th EXCEPT ![t] = RestoredTeams(t)]
    /\ Goto(t, "read")
    /\ UNCHANGED <<fixed, arrived, released, method, total, reg, copyVars, doacrossVars>>

(* Mutant: the barrier of the waiting form is not split.                   *)
IsSplitNever(t) == FALSE
IsSplit(t) == Here(t).kind = "reduce"

(* The tree: the barrier gathers the data in the master's, who alone goes  *)
(* on to add it to the result; the others are through with the construct.  *)
TreeReduce(t) ==
    /\ In(t, Reduces, "gather") /\ Passes(t, "reduction", IsSplit(t))
    /\ th' = [th EXCEPT ![t] = RestoredTeams(t)]
    /\ IF th[t].tid = 0 THEN Goto(t, "read") ELSE Done(t)
    /\ UNCHANGED <<fixed, arrived, method, crit, total, reg, copyVars, doacrossVars>>

(* The program's reduce block: its value added to the result, in one       *)
(* atomic step or by a plain read and write.                               *)
Contribution(t) == IF method[t] = "tree" THEN Member ELSE {t}
Plus(sum, who) == [u \in Member |-> sum[u] + IF u \in who THEN 1 ELSE 0]

AtomicBlock(t) ==
    /\ In(t, Reduces, "atomic")
    /\ total' = [total EXCEPT ![at[t]] = Plus(@, {t})]
    /\ IF Here(t).kind = "reduce" THEN Goto(t, "end") ELSE Done(t)
    /\ UNCHANGED <<fixed, arrived, released, th, method, crit, reg, copyVars, doacrossVars>>
ReadBlock(t) ==
    /\ In(t, Reduces, "read")
    /\ reg' = [reg EXCEPT ![t] = total[at[t]]]
    /\ Goto(t, "write")
    /\ UNCHANGED <<fixed, arrived, released, th, method, crit, total, copyVars, doacrossVars>>
WriteBlock(t) ==
    /\ In(t, Reduces, "write")
    /\ total' = [total EXCEPT ![at[t]] = Plus(reg[t], Contribution(t))]
    /\ Goto(t, "end")
    /\ UNCHANGED <<fixed, arrived, released, th, method, crit, reg, copyVars, doacrossVars>>

(* __kmpc_end_reduce_nowait and __kmpc_end_reduce                          *)
LeaveCritical(t) == crit' = IF method[t] = "critical" THEN Nobody ELSE crit

EndReduceNowait(t) ==
    /\ In(t, {"reduce_nowait"}, "end") /\ LeaveCritical(t)
    /\ Done(t)
    /\ UNCHANGED <<fixed, arrived, released, th, method, total, reg, copyVars, doacrossVars>>

EndReduce(t) ==
    /\ In(t, {"reduce"}, "end") /\ LeaveCritical(t)
    /\ IF method[t] = "tree"
       THEN /\ released' = [released EXCEPT !["reduction"] = @ + 1]
            /\ Done(t) /\ UNCHANGED <<arrived, th>>
       ELSE /\ th' = [th EXCEPT ![t] = SwappedTeams(t)]
            /\ Arrive(t, "plain") /\ Goto(t, "barrier") /\ UNCHANGED released
    /\ UNCHANGED <<fixed, method, total, reg, copyVars, doacrossVars>>

EndReduceBarrier(t) ==
    /\ In(t, {"reduce"}, "barrier") /\ Passes(t, "plain", FALSE)
    /\ th' = [th EXCEPT ![t] = RestoredTeams(t)]
    /\ Done(t)
    /\ UNCHANGED <<fixed, arrived, method, crit, total, reg, copyVars, doacrossVars>>

--------------------------------------------------------------------------------
(* __kmpc_copyprivate, called at the end of a single by all the threads;   *)
(* the first to come is the one that executed it.                          *)
Copyprivate(t) ==
    /\ In(t, {"copyprivate"}, "enter")
    /\ IF single[at[t]] = Nobody
       THEN single' = [single EXCEPT ![at[t]] = t] /\ copypriv' = <<at[t], t>>
       ELSE UNCHANGED <<single, copypriv>>
    /\ Arrive(t, "plain") /\ Goto(t, "published")
    /\ UNCHANGED <<fixed, released, reduceVars, copied, doacrossVars>>

Published(t) ==
    /\ In(t, {"copyprivate"}, "published") /\ Passes(t, "plain", FALSE)
    /\ Goto(t, "copy")
    /\ UNCHANGED <<fixed, arrived, reduceVars, copyVars, doacrossVars>>

(* Mutant: no barrier after the copy.                                      *)
CopyDataAndLeave(t) ==
    /\ In(t, {"copyprivate"}, "copy")
    /\ copied' = IF single[at[t]] = t THEN copied ELSE [copied EXCEPT ![at[t]][t] = copypriv]
    /\ Done(t)
    /\ UNCHANGED <<fixed, arrived, released, reduceVars, single, copypriv, doacrossVars>>

CopyData(t) ==
    /\ In(t, {"copyprivate"}, "copy")
    /\ copied' = IF single[at[t]] = t THEN copied ELSE [copied EXCEPT ![at[t]][t] = copypriv]
    /\ Arrive(t, "plain") /\ Goto(t, "copied")
    /\ UNCHANGED <<fixed, released, reduceVars, single, copypriv, doacrossVars>>

CopyDone(t) ==
    /\ In(t, {"copyprivate"}, "copied") /\ Passes(t, "plain", FALSE)
    /\ Done(t)
    /\ UNCHANGED <<fixed, arrived, reduceVars, copyVars, doacrossVars>>

--------------------------------------------------------------------------------
(* Doacross loops.  dims are [lo, up, st] with inclusive bounds.           *)

Steps(from, to, st) == IF st > 0 THEN (to - from) \div st ELSE (from - to) \div (-st)
RangeLength(d) == Steps(Dims[d].lo, Dims[d].up, Dims[d].st) + 1
TripCount ==
    LET product[d \in 0..Len(Dims)] == IF d = 0 THEN 1 ELSE product[d - 1] * RangeLength(d)
    IN  product[Len(Dims)]
OutOfBounds(vec) ==
    \E d \in DOMAIN Dims : IF Dims[d].st > 0 THEN vec[d] < Dims[d].lo \/ vec[d] > Dims[d].up
                                             ELSE vec[d] > Dims[d].lo \/ vec[d] < Dims[d].up
IterNumber(vec) ==
    LET number[d \in 0..Len(Dims)] ==
            IF d = 0 THEN 0
            ELSE Steps(Dims[d].lo, vec[d], Dims[d].st) + RangeLength(d) * number[d - 1]
    IN  number[Len(Dims)]

(* The k-th iteration of the loop nest, in the order of the program.       *)
Vector(k) ==
    LET below[d \in 1..Len(Dims)] ==
            IF d = Len(Dims) THEN 1 ELSE below[d + 1] * RangeLength(d + 1)
    IN  [d \in DOMAIN Dims |->
            Dims[d].lo + ((k \div below[d]) % RangeLength(d)) * Dims[d].st]
SinksOf(vec) == {[d \in DOMAIN Dims |-> vec[d] + off[d]] : off \in Sinks}

Slot(t) == (priv[t].idx - 1) % NumBuffers
DoacrossOnly == UNCHANGED <<fixed, arrived, released, reduceVars, copyVars>>

(* __kmpc_doacross_init: the thread's next buffer, once the loop that had  *)
(* it before is over; the first thread allocates the flags.                *)
DoacrossInit(t) ==
    /\ In(t, {"doacross"}, "enter")
    /\ priv' = [priv EXCEPT ![t].idx = @ + 1]
    /\ Goto(t, "occupied") /\ DoacrossOnly /\ UNCHANGED <<buffer, area, taken, ran>>
DoacrossOccupied(t) ==
    /\ In(t, {"doacross"}, "occupied") /\ buffer[Slot(t)].idx = priv[t].idx - 1
    /\ Goto(t, "cas") /\ DoacrossOnly /\ UNCHANGED doacrossVars
DoacrossFirst(t) ==
    /\ In(t, {"doacross"}, "cas")
    /\ IF buffer[Slot(t)].flags = Null
       THEN buffer' = [buffer EXCEPT ![Slot(t)].flags = Busy] /\ Goto(t, "alloc")
       ELSE UNCHANGED buffer /\ Goto(t, "ready")
    /\ DoacrossOnly /\ UNCHANGED <<area, priv, taken, ran>>
DoacrossAlloc(t) ==
    /\ In(t, {"doacross"}, "alloc")
    /\ area' = [area EXCEPT ![priv[t].idx - 1] = {}]
    /\ buffer' = [buffer EXCEPT ![Slot(t)].flags = priv[t].idx - 1]
    /\ Goto(t, "ready") /\ DoacrossOnly /\ UNCHANGED <<priv, taken, ran>>
DoacrossReady(t) ==
    /\ In(t, {"doacross"}, "ready") /\ buffer[Slot(t)].flags # Busy
    /\ priv' = [priv EXCEPT ![t].flags = buffer[Slot(t)].flags]
    /\ Goto(t, "loop") /\ DoacrossOnly /\ UNCHANGED <<buffer, area, taken, ran>>

(* The program takes its next iteration; the schedule hands them out in    *)
(* order.                                                                  *)
NextIteration(t) ==
    /\ In(t, {"doacross"}, "loop") /\ taken[at[t]] < TripCount
    /\ taken' = [taken EXCEPT ![at[t]] = @ + 1]
    /\ priv' = [priv EXCEPT ![t].iter = taken[at[t]],
                            ![t].waits = SinksOf(Vector(taken[at[t]]))]
    /\ Goto(t, "wait") /\ DoacrossOnly /\ UNCHANGED <<buffer, area, ran>>

(* __kmpc_doacross_wait and __kmpc_doacross_post                           *)
DoacrossWait(t) ==
    /\ In(t, {"doacross"}, "wait")
    /\ \E vec \in priv[t].waits :
          /\ OutOfBounds(vec) \/ IterNumber(vec) \in area[priv[t].flags]
          /\ priv' = [priv EXCEPT ![t].waits = @ \ {vec}]
    /\ UNCHANGED <<at, pc>> /\ DoacrossOnly /\ UNCHANGED <<buffer, area, taken, ran>>
RunIteration(t) ==
    /\ In(t, {"doacross"}, "wait") /\ priv[t].waits = {}
    /\ ran' = [ran EXCEPT ![at[t]] = @ \cup {Vector(priv[t].iter)}]
    /\ Goto(t, "post") /\ DoacrossOnly /\ UNCHANGED <<buffer, area, priv, taken>>
DoacrossPost(t) ==
    /\ In(t, {"doacross"}, "post")
    /\ area' = [area EXCEPT ![priv[t].flags] = @ \cup {IterNumber(Vector(priv[t].iter))}]
    /\ Goto(t, "loop") /\ DoacrossOnly /\ UNCHANGED <<buffer, priv, taken, ran>>

(* __kmpc_doacross_fini: the last thread frees the flags and then hands    *)
(* the buffer to the loop that comes NumBuffers later.                     *)
DoacrossFini(t) ==
    /\ In(t, {"doacross"}, "loop") /\ taken[at[t]] = TripCount
    /\ buffer' = [buffer EXCEPT ![Slot(t)].done = @ + 1]
    /\ IF buffer[Slot(t)].done + 1 = nproc
       THEN Goto(t, "free") /\ UNCHANGED priv
       ELSE Done(t) /\ priv' = [priv EXCEPT ![t].flags = Null]
    /\ DoacrossOnly /\ UNCHANGED <<area, taken, ran>>
DoacrossFree(t) ==
    /\ In(t, {"doacross"}, "free")
    /\ area' = [area EXCEPT ![buffer[Slot(t)].flags] = {}]
    /\ buffer' = [buffer EXCEPT ![Slot(t)].flags = Null, ![Slot(t)].done = 0]
    /\ Goto(t, "recycle") /\ DoacrossOnly /\ UNCHANGED <<priv, taken, ran>>
(* Mutant: the buffer is handed to the next loop, which has its own.       *)
DoacrossRecycleByOne(t) ==
    /\ In(t, {"doacross"}, "recycle")
    /\ buffer' = [buffer EXCEPT ![Slot(t)].idx = @ + 1]
    /\ priv' = [priv EXCEPT ![t].flags = Null]
    /\ Done(t) /\ DoacrossOnly /\ UNCHANGED <<area, taken, ran>>
DoacrossRecycle(t) ==
    /\ In(t, {"doacross"}, "recycle")
    /\ buffer' = [buffer EXCEPT ![Slot(t)].idx = @ + NumBuffers]
    /\ priv' = [priv EXCEPT ![t].flags = Null]
    /\ Done(t) /\ DoacrossOnly /\ UNCHANGED <<area, taken, ran>>

ThreadStep(t) ==
    \/ ReduceEnter(t) \/ EnterCriticalReduce(t) \/ TreeReduce(t)
    \/ AtomicBlock(t) \/ ReadBlock(t) \/ WriteBlock(t)
    \/ EndReduceNowait(t) \/ EndReduce(t) \/ EndReduceBarrier(t)
    \/ Copyprivate(t) \/ Published(t) \/ CopyData(t) \/ CopyDone(t)
    \/ DoacrossInit(t) \/ DoacrossOccupied(t) \/ DoacrossFirst(t) \/ DoacrossAlloc(t)
    \/ DoacrossReady(t) \/ NextIteration(t) \/ DoacrossWait(t) \/ RunIteration(t)
    \/ DoacrossPost(t) \/ DoacrossFini(t) \/ DoacrossFree(t) \/ DoacrossRecycle(t)

CollectNext == \E t \in Member : ThreadStep(t)
CollectFairness ==
    \A t \in 0..(MaxNproc - 1) : WF_collectVars(t \in Member /\ ThreadStep(t))

--------------------------------------------------------------------------------
(* No contribution is added twice, and whoever is past a reduce block      *)
(* finds all of them in the result: at once after the waiting form, and    *)
(* after any later barrier for the form without a wait.                    *)
Everyone == [t \in Member |-> 1]
Waits(c) == prog[c].kind \in {"reduce", "copyprivate"}
ReductionsComplete ==
    \A c \in Constructs : prog[c].kind \in Reduces =>
       /\ \A t \in Member : total[c][t] <= 1
       /\ \A t \in Member :
             (\E d \in c..(at[t] - 1) : Waits(d)) => total[c] = Everyone

(* Every thread copies from the one that executed the single it left, and  *)
(* while that one keeps the data.                                          *)
CopiesFromTheSingle ==
    \A c \in Constructs, t \in Member :
       /\ copied[c][t][2] # Nobody => copied[c][t] = <<c, single[c]>>
       /\ In(t, {"copyprivate"}, "copy") => at[single[at[t]]] = at[t]

(* An iteration runs after all those it waits for, on flags of its own     *)
(* loop that are still allocated.                                          *)
IterationsInOrder ==
    /\ \A c \in Constructs : \A vec \in ran[c] : \A sink \in SinksOf(vec) :
          OutOfBounds(sink) \/ sink \in ran[c]
    /\ \A t \in Member : pc[t] \in {"loop", "wait", "post"} =>
          priv[t].flags = priv[t].idx - 1 /\ buffer[Slot(t)].flags = priv[t].flags

(* A league master has its own team again whenever it runs its program.    *)
OwnTeamRestored ==
    \A t \in Member : pc[t] \in {"enter", "read", "write", "atomic", "end"} =>
       th[t] = (IF atTeams THEN [tid |-> 0, team |-> "own"] ELSE [tid |-> t, team |-> "shared"])

DataCombined ==
    ReductionsComplete /\ CopiesFromTheSingle /\ IterationsInOrder /\ OwnTeamRestored

(* Every construct ends for everyone.                                      *)
ConstructsEnd == <>(\A t \in Member : at[t] > Len(prog))
================================================================================
