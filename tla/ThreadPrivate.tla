------------------------------ MODULE ThreadPrivate ------------------------------
(***************************************************************************)
(* Threadprivate data: one copy of a variable for every thread, found by   *)
(* the compiler's cache of addresses, then by the thread's own table, then *)
(* made from a template that the first thread to come takes of the         *)
(* original.  Caches are replaced when the array of threads grows, and     *)
(* freed with the copies when the library shuts down.                      *)
(***************************************************************************)
EXTENDS Integers, FiniteSets

CONSTANTS MaxGtid,      \* gtids are 0..MaxGtid; 0 is the initial thread
          FirstCapacity,\* __kmp_tp_capacity at the start
          Vars,         \* threadprivate variables
          MaxEnds,      \* bound on shutdowns and restarts of the library
          LeaveAfterUse,\* may a root that has copies end and its gtid be reused?
          Nowhere       \* no address, no template, no thread

ASSUME ThreadPrivateAssumption ==
    /\ MaxGtid \in Nat /\ FirstCapacity \in 1..(MaxGtid + 1) /\ MaxEnds \in Nat
    /\ Nowhere \notin {"constructed", "initial", "written"}

VARIABLES foreignTp,  \* __kmp_foreign_tp
          objects,    \* variables registered with a constructor and a destructor
          thread,     \* by gtid: "none", "root" or "worker"; the life changes when
                      \*   the gtid is reused after copies were made under it
          capacity,   \* __kmp_tp_capacity
          shared,     \* __kmp_threadprivate_d_table: the templates
          own,        \* th_pri_common, th_pri_head: each thread's table
          caches,     \* the caches ever made for a variable, newest last
          compiler,   \* the compiler's pointer: which of them, 0 for NULL
          resizing,   \* the cache being copied and how far, or Nowhere
          access,     \* what a thread that asks for its copy is about to do
          value,      \* the contents of the original and of the copies
          ends        \* shutdowns so far

privateVars == <<foreignTp, objects, thread, capacity, shared, own, caches, compiler, resizing,
                 access, value, ends>>

Gtid == 0..MaxGtid
Resting == [pc |-> "idle", v |-> Nowhere, ret |-> Nowhere, active |-> FALSE]
Original(v) == [of |-> v, gtid |-> 0, life |-> 0]
Copy(t, v)  == [of |-> v, gtid |-> t, life |-> thread[t].life]
Written(t)  == IF t = 0 THEN "written" ELSE "altered"
Entries(c) == Cardinality(DOMAIN c)

PrivateInit ==
    /\ foreignTp \in BOOLEAN /\ objects \in SUBSET Vars
    /\ thread = [t \in Gtid |-> [kind |-> IF t = 0 THEN "root" ELSE "none", life |-> t]]
    /\ capacity = FirstCapacity
    /\ shared = [v \in Vars |-> Nowhere] /\ own = [t \in Gtid |-> {}]
    /\ caches = [v \in Vars |-> <<>>] /\ compiler = [v \in Vars |-> 0]
    /\ resizing = Nowhere /\ access = [t \in Gtid |-> Resting]
    /\ value = [a \in {Original(v) : v \in Vars} |-> "initial"]
    /\ ends = 0

Reached(t, p) == access[t].pc = p /\ thread[t].kind # "none"
Goto(t, p) == access' = [access EXCEPT ![t].pc = p]
Return(t, addr) == access' = [access EXCEPT ![t].pc = "returned", ![t].ret = addr]
Latest(v) == caches[v][Entries(caches[v])]

--------------------------------------------------------------------------------
(* __kmpc_threadprivate_cached                                             *)

Call(t) ==
    /\ Reached(t, "idle")
    /\ \E v \in Vars, active \in BOOLEAN :
          /\ thread[t].kind = "worker" => active
          /\ access' = [access EXCEPT ![t] = [pc |-> IF compiler[v] = 0 THEN "nocache" ELSE "lookup",
                                          v |-> v, ret |-> Nowhere, active |-> active]]
    /\ UNCHANGED <<foreignTp, objects, thread, capacity, shared, own, caches, compiler, resizing, value, ends>>

(* Under both locks, so in one step.                                       *)
MakeCache(t) ==
    /\ Reached(t, "nocache") /\ resizing = Nowhere
    /\ LET v == access[t].v IN
       IF compiler[v] # 0 THEN UNCHANGED <<caches, compiler>>
       ELSE /\ caches' = IF caches[v] # <<>> THEN caches
                         ELSE [caches EXCEPT ![v] = <<[u \in 0..(capacity - 1) |-> Nowhere]>>]
            /\ compiler' = [compiler EXCEPT ![v] = Entries(caches'[v])]
    /\ Goto(t, "lookup")
    /\ UNCHANGED <<foreignTp, objects, thread, capacity, shared, own, resizing, value, ends>>

InRange(t) == t \in DOMAIN caches[access[t].v][compiler[access[t].v]]
Lookup(t) ==
    /\ Reached(t, "lookup") /\ InRange(t)
    /\ LET found == caches[access[t].v][compiler[access[t].v]][t] IN
       IF found # Nowhere THEN Return(t, found) ELSE Goto(t, "find")
    /\ UNCHANGED <<foreignTp, objects, thread, capacity, shared, own, caches, compiler, resizing, value, ends>>

(* __kmpc_threadprivate: the original in the serial part of a program      *)
(* without separate data for its other roots, else the thread's table.     *)
(* __kmpc_threadprivate_register, __kmpc_threadprivate_register_vec        *)
Registered(v) == v \in objects

(* Mutant: the template is taken again by whoever makes a copy.            *)
TemplateAnew(v) == IF Registered(v) THEN "constructed" ELSE value[Original(v)]

Template(v) ==
    IF Registered(v) THEN "constructed"
    ELSE IF shared[v] # Nowhere THEN shared[v] ELSE value[Original(v)]

InsertPrivateData(v) == [shared EXCEPT ![v] = Template(v)]

UsesOriginal(t) == IF foreignTp THEN t = 0 ELSE thread[t].kind = "root"

FindTask(t) ==
    /\ Reached(t, "find")
    /\ LET v == access[t].v
           mine == {a \in own[t] : a.of = v}
       IN  IF ~access[t].active /\ ~foreignTp
           THEN
                /\ shared' = InsertPrivateData(v)
                /\ access' = [access EXCEPT ![t].pc = "store", ![t].ret = Original(v)]
           ELSE /\ access' = [access EXCEPT
                        ![t].pc = IF mine # {} THEN "store" ELSE "insert",
                        ![t].ret = IF mine # {} THEN CHOOSE a \in mine : TRUE ELSE Nowhere]
                /\ UNCHANGED shared
    /\ UNCHANGED <<foreignTp, objects, thread, capacity, own, caches, compiler, resizing,
                   value, ends>>

(* kmp_threadprivate_insert: the template and the storage under the lock,  *)
(* the construction and the links after it.                                *)
Insert(t) ==
    /\ Reached(t, "insert")
    /\ shared' = [shared EXCEPT ![access[t].v] = Template(access[t].v)]
    /\ LET a == IF UsesOriginal(t) THEN Original(access[t].v) ELSE Copy(t, access[t].v) IN
       /\ value' = IF UsesOriginal(t) THEN value
                   ELSE [b \in DOMAIN value \cup {a} |-> IF b = a THEN "raw" ELSE value[b]]
       /\ access' = [access EXCEPT ![t].pc = "construct", ![t].ret = a]
    /\ UNCHANGED <<foreignTp, objects, thread, capacity, own, caches, compiler, resizing, ends>>

Construct(t) ==
    /\ Reached(t, "construct")
    /\ own' = [own EXCEPT ![t] = @ \cup {access[t].ret}]
    /\ value' = IF UsesOriginal(t) THEN value ELSE [value EXCEPT ![access[t].ret] = shared[access[t].v]]
    /\ Goto(t, "store")
    /\ UNCHANGED <<foreignTp, objects, thread, capacity, shared, caches, compiler, resizing, ends>>

StoreCache(t) ==
    /\ Reached(t, "store") /\ InRange(t)
    /\ caches' = [caches EXCEPT ![access[t].v][compiler[access[t].v]][t] = access[t].ret]
    /\ Goto(t, "returned")
    /\ UNCHANGED <<foreignTp, objects, thread, capacity, shared, own, compiler, resizing,
                   value, ends>>

(* The program writes through the address and forgets it.                  *)
Use(t) ==
    /\ Reached(t, "returned")
    /\ \/ value' = [value EXCEPT ![access[t].ret] = Written(t)]
       \/ UNCHANGED value
    /\ access' = [access EXCEPT ![t] = Resting]
    /\ UNCHANGED <<foreignTp, objects, thread, capacity, shared, own, caches, compiler, resizing, ends>>

--------------------------------------------------------------------------------
(* New threads, and __kmp_threadprivate_resize_cache when there is no room *)
(* for them: entry by entry while others read and write the old cache.     *)

Appear(t) ==
    /\ thread[t].kind = "none" /\ t < capacity /\ resizing = Nowhere
    /\ \E kind \in {"root", "worker"} :
          /\ kind = "root" => foreignTp
          /\ thread' = [thread EXCEPT ![t].kind = kind]
    /\ UNCHANGED <<foreignTp, objects, capacity, shared, own, caches, compiler, resizing, access,
                   value, ends>>

ResizeBegin ==
    /\ resizing = Nowhere /\ capacity <= MaxGtid
    /\ resizing' = [new |-> [v \in Vars |-> [u \in Gtid |-> Nowhere]],
                    todo |-> {v \in Vars : caches[v] # <<>>} \X (0..(capacity - 1))]
    /\ UNCHANGED <<foreignTp, objects, thread, capacity, shared, own, caches, compiler, access,
                   value, ends>>

ResizeCopy ==
    /\ resizing # Nowhere
    /\ \E e \in resizing.todo :
          resizing' = [resizing EXCEPT !.new[e[1]][e[2]] = Latest(e[1])[e[2]],
                                       !.todo = @ \ {e}]
    /\ UNCHANGED <<foreignTp, objects, thread, capacity, shared, own, caches, compiler, access,
                   value, ends>>

(* Mutant: the compiler keeps its pointer to the old cache.                *)
ResizePublishOnlyList ==
    /\ resizing # Nowhere /\ resizing.todo = {}
    /\ caches' = [v \in Vars |-> IF caches[v] = <<>> THEN <<>>
                                 ELSE [i \in 1..(Entries(caches[v]) + 1) |->
                                          IF i <= Entries(caches[v]) THEN caches[v][i]
                                          ELSE resizing.new[v]]]
    /\ capacity' = MaxGtid + 1 /\ resizing' = Nowhere
    /\ UNCHANGED <<foreignTp, objects, thread, shared, own, compiler, access, value, ends>>

ResizePublish ==
    /\ resizing # Nowhere /\ resizing.todo = {}
    /\ caches' = [v \in Vars |-> IF caches[v] = <<>> THEN <<>>
                                 ELSE [i \in 1..(Entries(caches[v]) + 1) |->
                                          IF i <= Entries(caches[v]) THEN caches[v][i]
                                          ELSE resizing.new[v]]]
    /\ compiler' = [v \in Vars |-> IF compiler[v] = Entries(caches[v]) THEN Entries(caches'[v])
                                   ELSE compiler[v]]
    /\ capacity' = MaxGtid + 1 /\ resizing' = Nowhere
    /\ UNCHANGED <<foreignTp, objects, thread, shared, own, access, value, ends>>

--------------------------------------------------------------------------------
(* The end of threads.                                                     *)

(* A root that unregisters: __kmp_reap_thread frees its table.             *)
RootLeaves(t) ==
    /\ t # 0 /\ thread[t].kind = "root" /\ access[t] = Resting
    /\ LeaveAfterUse \/ own[t] = {}
    /\ thread' = [thread EXCEPT ![t] =
          [kind |-> "none", life |-> IF own[t] = {} THEN @.life ELSE @.life + MaxGtid + 1]]
    /\ own' = [own EXCEPT ![t] = {}]
    /\ UNCHANGED <<foreignTp, objects, capacity, shared, caches, compiler, resizing, access,
                   value, ends>>

(* __kmp_common_destroy_gtid                                               *)
Destroyed(t) ==
    IF UsesOriginal(t) THEN {} ELSE {a \in own[t] : a.of \in objects}

(* The workers destroy their copies on their way out; then __kmp_cleanup   *)
(* frees the caches, and the tables are made anew when the library starts  *)
(* again.                                                                  *)
Shutdown ==
    /\ ends < MaxEnds /\ resizing = Nowhere
    /\ \A t \in Gtid : access[t] = Resting /\ (thread[t].kind = "root" => t = 0)
    /\ thread' = [t \in Gtid |->
            [thread[t] EXCEPT !.kind = IF t = 0 THEN "root" ELSE "none",
                              !.life = IF thread[t].kind = "worker" THEN @ + MaxGtid + 1 ELSE @]]
    /\ value' = [a \in DOMAIN value |->
            IF \E t \in Gtid : thread[t].kind = "worker" /\ a \in Destroyed(t)
            THEN "destroyed" ELSE value[a]]
    /\ own' = [t \in Gtid |-> {}] /\ shared' = [v \in Vars |-> Nowhere]
    /\ caches' = [v \in Vars |-> <<>>] /\ compiler' = [v \in Vars |-> 0]
    /\ ends' = ends + 1
    /\ UNCHANGED <<foreignTp, objects, capacity, resizing, access>>

PrivateNext ==
    \/ \E t \in Gtid :
          \/ Call(t) \/ MakeCache(t) \/ Lookup(t) \/ FindTask(t) \/ Insert(t) \/ Construct(t)
          \/ StoreCache(t) \/ Use(t) \/ Appear(t) \/ RootLeaves(t)
    \/ ResizeBegin \/ ResizeCopy \/ ResizePublish \/ Shutdown

--------------------------------------------------------------------------------
(* A thread gets its own copy and no other's: the original where it is     *)
(* meant to, else one made in this life of the gtid.  The way to it never  *)
(* leads through an entry that the cache does not have.                    *)
OwnAddress(t, v) == IF UsesOriginal(t) \/ (~foreignTp /\ ~access[t].active) THEN Original(v)
                    ELSE Copy(t, v)
SeparateCopies ==
    \A t \in Gtid : Reached(t, "returned") => access[t].ret = OwnAddress(t, access[t].v)
CacheInRange ==
    \A t \in Gtid : thread[t].kind # "none" /\ access[t].pc \in {"lookup", "store"} => InRange(t)

(* A copy starts from what the original was before anyone wrote it, or     *)
(* from its constructor, and is not used after its destructor has run.     *)
Fresh(v) == IF v \in objects THEN "constructed" ELSE "initial"
CopiesInitialised ==
    \A t \in Gtid : Reached(t, "returned") /\ ~UsesOriginal(t) /\ access[t].ret # Original(access[t].v) =>
       \/ value[access[t].ret] \in {Fresh(access[t].v), Written(t)}
       \/ ends > 0 /\ access[t].v \notin objects /\ value[access[t].ret] # "raw"

PrivateDataRight == SeparateCopies /\ CacheInRange /\ CopiesInitialised
PrivateSpec == PrivateInit /\ [][PrivateNext]_privateVars
================================================================================
