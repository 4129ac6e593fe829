----------------------------- MODULE StorageProofs -----------------------------
(***************************************************************************)
(* Threadprivate data, the dynamic locks and the atomic constructs.  Every *)
(* thread finds its own copy of threadprivate data, for any number of      *)
(* threads and variables, however often caches are replaced under the      *)
(* threads that use them and the library is shut down.  The lock routines  *)
(* over the dynamic locks implement the locks that the OpenMP interface    *)
(* promises, for any number of threads and locks and any legal program:    *)
(* the invariant UserLocksInv, and every step a step of UserLockSpec or a  *)
(* stutter.  The atomic routines on a location implement AtomicSpec, if    *)
(* all that a program uses there exclude each other by the same means.     *)
(***************************************************************************)
EXTENDS ThreadPrivate, UserLocks, Atomics, FiniteSetTheorems, TLAPS

-----------------------------------------------------------------------------
(* The invariant.  An address that a thread finds is the original for the   *)
(* initial thread and a copy in its own table for the others, and the       *)
(* original is not written before its template was taken.                   *)

Contents == {"constructed", "initial", "written"}
Home(t, v) == IF t = 0 THEN Original(v) ELSE Copy(t, v)

Taken(v) ==
    \/ shared[v] = Fresh(v)
    \/ ends > 0 /\ v \notin objects /\ shared[v] \in Contents
Mine(t, v, a) == a = Home(t, v) /\ IF t = 0 THEN Taken(v) ELSE a \in own[t]

Addresses == [of : Vars, gtid : Gtid, life : Nat]
Pcs == {"idle", "nocache", "lookup", "find", "insert", "construct", "store", "returned"}
Accesses ==
    [Gtid -> [pc : Pcs, v : Vars \union {Nowhere}, ret : Addresses \union {Nowhere}, active : BOOLEAN]]

PrivateTypes ==
    /\ foreignTp \in BOOLEAN /\ objects \subseteq Vars
    /\ thread \in [Gtid -> [kind : {"none", "root", "worker"}, life : Nat]]
    /\ capacity \in 1..(MaxGtid + 1)
    /\ shared \in [Vars -> Contents \union {Nowhere}]
    /\ own \in [Gtid -> SUBSET Addresses]
    /\ DOMAIN caches = Vars /\ compiler \in [Vars -> Nat]
    /\ access \in Accesses
    /\ ends \in Nat

(* Only the initial thread works on originals.                              *)
Kinds ==
    /\ thread[0].kind = "root" /\ thread[0].life = 0
    /\ \A t \in Gtid : /\ thread[t].kind = "root" /\ t # 0 => foreignTp
                       /\ thread[t].kind # "none" => t < capacity

(* The compiler's pointer is to the newest cache, which has an entry for    *)
(* every thread there is.                                                   *)
CacheRight(v) ==
    \/ caches[v] = <<>> /\ compiler[v] = 0
    \/ /\ compiler[v] >= 1 /\ DOMAIN caches[v] = 1..compiler[v]
       /\ DOMAIN caches[v][compiler[v]] = 0..(capacity - 1)
       /\ \A u \in 0..(capacity - 1) :
              caches[v][compiler[v]][u] = Nowhere \/ Mine(u, v, caches[v][compiler[v]][u])

ResizingRight ==
    resizing # Nowhere =>
        /\ resizing = [new |-> resizing.new, todo |-> resizing.todo]
        /\ DOMAIN resizing.new = Vars
        /\ \A e \in resizing.todo : e[1] \in Vars /\ caches[e[1]] # <<>> /\ e[2] \in 0..(capacity - 1)
        /\ \A v \in Vars :
               /\ DOMAIN resizing.new[v] = Gtid
               /\ \A u \in Gtid : resizing.new[v][u] = Nowhere \/ Mine(u, v, resizing.new[v][u])

CopyRight(a) ==
    /\ a \in DOMAIN value /\ value[a] # "raw"
    /\ \/ value[a] \in {Fresh(a.of), "altered"}
       \/ ends > 0 /\ a.of \notin objects
OwnRight(t) == \A a \in own[t] : Mine(t, a.of, a) /\ (t # 0 => CopyRight(a))

OriginalRight(v) ==
    /\ Original(v) \in DOMAIN value /\ value[Original(v)] \in {"initial", "written"}
    /\ value[Original(v)] # "initial" => Taken(v) \/ ends > 0
    /\ shared[v] # Nowhere => Taken(v)

AccessRight(t) ==
    LET s == access[t] IN
    /\ thread[t].kind = "none" => s.pc = "idle"
    /\ s.pc # "idle" => s.v \in Vars /\ (s.active \/ thread[t].kind = "root")
    /\ s.pc \notin {"idle", "nocache"} => compiler[s.v] >= 1
    /\ s.pc \in {"insert", "construct"} => \A a \in own[t] : a.of # s.v
    /\ s.pc = "construct" => s.ret = Home(t, s.v) /\ Taken(s.v) /\ (t # 0 => s.ret \in DOMAIN value)
    /\ s.pc \in {"store", "returned"} => Mine(t, s.v, s.ret)

PrivateInv ==
    /\ PrivateTypes /\ Kinds /\ ResizingRight
    /\ \A v \in Vars : CacheRight(v) /\ OriginalRight(v)
    /\ \A t \in Gtid : OwnRight(t) /\ AccessRight(t)

-----------------------------------------------------------------------------
(* Addresses, and what stays right while nobody ends.                       *)

LEMMA InitialThread ==
    ASSUME PrivateTypes, Kinds
    PROVE  \A t \in Gtid : UsesOriginal(t) <=> t = 0
  BY DEF PrivateTypes, Kinds, UsesOriginal

LEMMA HomeAddress ==
    ASSUME PrivateTypes, Kinds
    PROVE  /\ \A t \in Gtid : \A v : Home(t, v).gtid = t /\ Home(t, v).of = v
           /\ \A t \in Gtid, v \in Vars : Home(t, v) \in Addresses
           /\ \A v : Original(v) = Home(0, v) /\ (\A t \in Gtid : t # 0 => Copy(t, v) = Home(t, v))
  BY ThreadPrivateAssumption DEF PrivateTypes, Kinds, Home, Original, Copy, Gtid, Addresses

LEMMA OwnAddresses ==
    ASSUME PrivateInv
    PROVE  \A t \in Gtid : \A a \in own[t] : a.gtid = t /\ a = Home(t, a.of) /\ a.of \in Vars
  <1> SUFFICES ASSUME NEW t \in Gtid, NEW a \in own[t]
               PROVE  a.gtid = t /\ a = Home(t, a.of) /\ a.of \in Vars
    OBVIOUS
  <1>1. a \in Addresses /\ a = Home(t, a.of)
    BY DEF PrivateInv, PrivateTypes, OwnRight, Mine
  <1> QED BY <1>1, HomeAddress DEF PrivateInv, Addresses

LEMMA MineKept ==
    ASSUME NEW t, NEW v, NEW a, Mine(t, v, a), thread'[t].life = thread[t].life,
           Taken(v) => Taken(v)', own[t] \subseteq own'[t]
    PROVE  Mine(t, v, a)'
  <1>1. Home(t, v)' = Home(t, v)
    BY DEF Home, Copy, Original
  <1> QED BY <1>1 DEF Mine

LEMMA CacheKept ==
    ASSUME NEW v, CacheRight(v), UNCHANGED <<thread, capacity>>, Taken(v) => Taken(v)',
           caches'[v] = caches[v], compiler'[v] = compiler[v],
           \A u \in 0..(capacity - 1) : own[u] \subseteq own'[u]
    PROVE  CacheRight(v)'
  <1>1. ASSUME NEW u \in 0..(capacity - 1), NEW a, Mine(u, v, a) PROVE Mine(u, v, a)'
    BY <1>1, MineKept
  <1> QED BY <1>1 DEF CacheRight

LEMMA OwnKept ==
    ASSUME NEW u, OwnRight(u), UNCHANGED thread, own'[u] = own[u],
           \A a \in own[u] : (Taken(a.of) => Taken(a.of)') /\ (u # 0 => CopyRight(a)')
    PROVE  OwnRight(u)'
  <1> SUFFICES ASSUME NEW a \in own[u] PROVE Mine(u, a.of, a)' /\ (u # 0 => CopyRight(a)')
    BY DEF OwnRight
  <1>1. Mine(u, a.of, a)
    BY DEF OwnRight
  <1> QED BY <1>1, MineKept

LEMMA TemplateTaken ==
    ASSUME PrivateInv, NEW v \in Vars, shared' = [shared EXCEPT ![v] = Template(v)],
           UNCHANGED <<objects, ends>>
    PROVE  /\ Taken(v)' /\ \A w : Taken(w) => Taken(w)'
           /\ shared' \in [Vars -> Contents \union {Nowhere}]
           /\ \A w \in Vars : w # v => shared'[w] = shared[w]
  <1>1. /\ OriginalRight(v) /\ shared \in [Vars -> Contents \union {Nowhere}]
        /\ Nowhere \notin Contents
    BY ThreadPrivateAssumption DEF PrivateInv, PrivateTypes, Contents
  <1>2. Template(v) \in Contents
    BY <1>1 DEF Template, OriginalRight, Registered, Contents
  <1>3. Taken(v)'
    <2>1. shared'[v] = Template(v) /\ Fresh(v)' = Fresh(v)
      BY <1>1 DEF Fresh
    <2>2. CASE v \in objects
      BY <2>1, <2>2 DEF Taken, Fresh, Template, Registered
    <2>3. CASE v \notin objects /\ shared[v] # Nowhere
      BY <1>1, <1>2, <2>1, <2>3 DEF Taken, Template, Registered, OriginalRight
    <2>4. CASE v \notin objects /\ shared[v] = Nowhere
      <3>1. ~Taken(v) \/ ends > 0
        BY <1>1, <2>4 DEF Taken, Fresh, Contents
      <3>2. Template(v) = value[Original(v)]
        BY <2>4 DEF Template, Registered
      <3>3. value[Original(v)] = "initial" \/ ends > 0
        BY <1>1, <3>1 DEF OriginalRight
      <3> QED BY <1>2, <2>1, <2>4, <3>2, <3>3 DEF Taken, Fresh
    <2> QED BY <2>2, <2>3, <2>4
  <1>4. ASSUME NEW w, w # v, Taken(w) PROVE Taken(w)'
    <2>1. shared'[w] = shared[w]
      BY <1>1, <1>4
    <2> QED BY <1>4, <2>1 DEF Taken, Fresh
  <1> QED BY <1>1, <1>2, <1>3, <1>4

(* A thread goes on.                                                        *)
LEMMA GotoAccess ==
    ASSUME access \in Accesses, NEW t \in Gtid, NEW p \in Pcs, Goto(t, p)
    PROVE  /\ access' \in Accesses /\ \A u \in Gtid \ {t} : access'[u] = access[u]
           /\ access'[t].pc = p /\ access'[t].v = access[t].v /\ access'[t].ret = access[t].ret
           /\ access'[t].active = access[t].active
  <1>1. access[t] \in [pc : Pcs, v : Vars \union {Nowhere}, ret : Addresses \union {Nowhere}, active : BOOLEAN]
    BY DEF Accesses
  <1>2. PICK r : r = [access[t] EXCEPT !.pc = p]
    OBVIOUS
  <1>3. /\ r \in [pc : Pcs, v : Vars \union {Nowhere}, ret : Addresses \union {Nowhere}, active : BOOLEAN]
        /\ r.pc = p /\ r.v = access[t].v /\ r.ret = access[t].ret /\ r.active = access[t].active
    BY <1>1, <1>2
  <1>4. access' = [access EXCEPT ![t] = r]
    BY <1>2 DEF Goto
  <1> QED BY <1>3, <1>4 DEF Accesses

Finds(t, p, a) == access' = [access EXCEPT ![t].pc = p, ![t].ret = a]

LEMMA FoundAccess ==
    ASSUME access \in Accesses, NEW t \in Gtid, NEW p \in Pcs, NEW a \in Addresses \union {Nowhere},
           Finds(t, p, a)
    PROVE  /\ access' \in Accesses /\ \A u \in Gtid \ {t} : access'[u] = access[u]
           /\ access'[t].pc = p /\ access'[t].v = access[t].v /\ access'[t].ret = a
           /\ access'[t].active = access[t].active
  <1>1. access[t] \in [pc : Pcs, v : Vars \union {Nowhere}, ret : Addresses \union {Nowhere}, active : BOOLEAN]
    BY DEF Accesses
  <1>2. PICK r : r = [access[t] EXCEPT !.pc = p, !.ret = a]
    OBVIOUS
  <1>3. /\ r \in [pc : Pcs, v : Vars \union {Nowhere}, ret : Addresses \union {Nowhere}, active : BOOLEAN]
        /\ r.pc = p /\ r.v = access[t].v /\ r.ret = a /\ r.active = access[t].active
    BY <1>1, <1>2
  <1>4. access' = [access EXCEPT ![t] = r]
    BY <1>1, <1>2 DEF Accesses, Finds
  <1> QED BY <1>3, <1>4 DEF Accesses

(* A step of one thread.                                                    *)
LEMMA ThreadStep ==
    ASSUME PrivateInv, NEW t \in Gtid, PrivateTypes',
           UNCHANGED <<foreignTp, objects, ends, thread, capacity, resizing>>,
           \A u \in Gtid \ {t} : access'[u] = access[u] /\ own'[u] = own[u],
           own[t] \subseteq own'[t], DOMAIN value \subseteq DOMAIN value',
           \A v \in Vars : /\ Taken(v) => Taken(v)'
                           /\ compiler[v] >= 1 => compiler'[v] >= 1
                           /\ caches[v] # <<>> => caches'[v] # <<>>,
           \A v \in Vars : CacheRight(v)' /\ OriginalRight(v)',
           \A u \in Gtid : OwnRight(u)',
           AccessRight(t)'
    PROVE  PrivateInv'
  <1>1. \A u \in Gtid : \A v \in Vars : \A a : Mine(u, v, a) => Mine(u, v, a)'
    <2> SUFFICES ASSUME NEW u \in Gtid, NEW v \in Vars, NEW a, Mine(u, v, a) PROVE Mine(u, v, a)'
      OBVIOUS
    <2>1. own[u] \subseteq own'[u]
      BY DEF PrivateInv
    <2> QED BY <2>1, MineKept
  <1>2. Kinds'
    BY DEF PrivateInv, Kinds
  <1>3. ResizingRight'
    BY <1>1 DEF PrivateInv, ResizingRight
  <1>4. ASSUME NEW u \in Gtid \ {t} PROVE AccessRight(u)'
    <2>1. AccessRight(u) /\ access'[u] = access[u] /\ own'[u] = own[u] /\ Home(u, access[u].v)' = Home(u, access[u].v)
      BY DEF PrivateInv, Home, Original, Copy
    <2> QED BY <1>1, <2>1 DEF AccessRight
  <1> QED BY <1>2, <1>3, <1>4 DEF PrivateInv

LEMMA TablesKept ==
    ASSUME PrivateInv, UNCHANGED <<objects, thread, own, value, ends>>,
           \A w \in Vars : (Taken(w) => Taken(w)') /\ (shared'[w] = shared[w] \/ Taken(w)')
    PROVE  /\ \A w \in Vars : OriginalRight(w)'
           /\ \A u \in Gtid : OwnRight(u)'
  <1>1. ASSUME NEW w \in Vars PROVE OriginalRight(w)'
    <2>1. Original(w)' = Original(w) /\ OriginalRight(w)
      BY DEF PrivateInv, Original
    <2> QED BY <2>1 DEF OriginalRight
  <1>2. ASSUME NEW u \in Gtid PROVE OwnRight(u)'
    <2>1. ASSUME NEW a \in own[u]
          PROVE  (Taken(a.of) => Taken(a.of)') /\ (u # 0 => CopyRight(a)')
      <3>1. a.of \in Vars /\ (u # 0 => CopyRight(a))
        BY OwnAddresses DEF PrivateInv, OwnRight
      <3> QED BY <3>1 DEF CopyRight, Fresh
    <2> QED BY <2>1, OwnKept DEF PrivateInv
  <1> QED BY <1>1, <1>2

(* A step of one thread that leaves the caches and the tables alone, but    *)
(* may take a template.                                                     *)
LEMMA LookStep ==
    ASSUME PrivateInv, NEW t \in Gtid, PrivateTypes', AccessRight(t)',
           UNCHANGED <<foreignTp, objects, thread, capacity, own, caches, compiler, resizing, value, ends>>,
           \A u \in Gtid \ {t} : access'[u] = access[u],
           \A w \in Vars : (Taken(w) => Taken(w)') /\ (shared'[w] = shared[w] \/ Taken(w)')
    PROVE  PrivateInv'
  <1>1. (\A w \in Vars : OriginalRight(w)') /\ (\A u \in Gtid : OwnRight(u)')
    BY TablesKept
  <1>2. \A w \in Vars : CacheRight(w)'
    BY CacheKept DEF PrivateInv
  <1> QED BY <1>1, <1>2, ThreadStep

-----------------------------------------------------------------------------
(* __kmpc_threadprivate_cached, step by step.                               *)

LEMMA CallKeepsRight == ASSUME PrivateInv, NEW t \in Gtid, Call(t) PROVE PrivateInv'
  <1>0. PrivateTypes
    BY DEF PrivateInv
  <1>1. PICK v \in Vars, b \in BOOLEAN, p \in {"nocache", "lookup"} :
            /\ access' = [access EXCEPT ![t] = [pc |-> p, v |-> v, ret |-> Nowhere, active |-> b]]
            /\ p = "lookup" => compiler[v] # 0
            /\ thread[t].kind = "worker" => b
    BY DEF Call
  <1>2. UNCHANGED <<foreignTp, objects, thread, capacity, shared, own, caches, compiler, resizing, value, ends>>
    BY DEF Call
  <1>3. PrivateTypes'
    BY <1>0, <1>1, <1>2 DEF PrivateTypes, Accesses, Pcs
  <1>4. /\ access'[t].pc = p /\ access'[t].v = v /\ access'[t].active = b
        /\ \A u \in Gtid \ {t} : access'[u] = access[u]
    BY <1>0, <1>1 DEF PrivateTypes, Accesses
  <1>5. AccessRight(t)'
    <2>1. thread[t].kind \in {"root", "worker"} /\ compiler[v] \in Nat
      BY <1>0 DEF PrivateTypes, Call, Reached
    <2> QED BY <1>1, <1>2, <1>4, <2>1 DEF AccessRight
  <1>6. \A w \in Vars : Taken(w) => Taken(w)'
    BY <1>2 DEF Taken, Fresh
  <1> QED BY <1>2, <1>3, <1>4, <1>5, <1>6, LookStep

(* The cache that threads read is the newest.                               *)
LEMMA NewestCache ==
    ASSUME PrivateTypes, NEW v \in Vars, CacheRight(v), caches[v] # <<>> \/ compiler[v] # 0
    PROVE  /\ compiler[v] \in Nat /\ compiler[v] >= 1 /\ caches[v] # <<>>
           /\ Entries(caches[v]) = compiler[v] /\ DOMAIN caches[v] = 1..compiler[v]
           /\ Latest(v) = caches[v][compiler[v]] /\ DOMAIN Latest(v) = 0..(capacity - 1)
           /\ \A u \in 0..(capacity - 1) : Latest(v)[u] = Nowhere \/ Mine(u, v, Latest(v)[u])
  <1>1. /\ compiler[v] \in Nat /\ compiler[v] >= 1 /\ DOMAIN caches[v] = 1..compiler[v]
        /\ DOMAIN caches[v][compiler[v]] = 0..(capacity - 1)
        /\ \A u \in 0..(capacity - 1) :
               caches[v][compiler[v]][u] = Nowhere \/ Mine(u, v, caches[v][compiler[v]][u])
    BY DEF CacheRight, PrivateTypes
  <1>2. Entries(caches[v]) = compiler[v]
    <2>1. PICK n \in Nat : n >= 1 /\ n = compiler[v]
      BY <1>1
    <2>2. Cardinality(1..n) = n
      BY <2>1, FS_Interval
    <2> QED BY <1>1, <2>1, <2>2 DEF Entries
  <1>3. caches[v] # <<>>
    BY <1>1
  <1> QED BY <1>1, <1>2, <1>3 DEF Latest

LEMMA LookupKeepsRight == ASSUME PrivateInv, NEW t \in Gtid, Lookup(t) PROVE PrivateInv'
  <1>0. PrivateTypes /\ AccessRight(t)
    BY DEF PrivateInv
  <1>1. PICK v \in Vars : v = access[t].v /\ compiler[v] >= 1
    BY <1>0 DEF Lookup, Reached, AccessRight
  <1>2. UNCHANGED <<foreignTp, objects, thread, capacity, shared, own, caches, compiler, resizing, value, ends>>
    BY DEF Lookup
  <1>3. \A w \in Vars : (Taken(w) => Taken(w)')
    BY <1>2 DEF Taken, Fresh
  <1>4. PICK found : found = caches[v][compiler[v]][t]
    OBVIOUS
  <1>5. found = Nowhere \/ Mine(t, v, found)
    <2>1. CacheRight(v) /\ compiler[v] # 0
      BY <1>0, <1>1 DEF PrivateInv, PrivateTypes
    <2>2. t \in 0..(capacity - 1)
      BY <1>0, <1>1, <2>1, NewestCache DEF Lookup, InRange
    <2> QED BY <1>0, <1>4, <2>1, <2>2, NewestCache
  <1>6. CASE found # Nowhere
    <2>1. found \in Addresses /\ found \in Addresses \union {Nowhere} /\ "returned" \in Pcs
      BY <1>0, <1>5, <1>6, HomeAddress DEF Mine, PrivateInv, Pcs
    <2>2. Finds(t, "returned", found)
      BY <1>1, <1>4, <1>6 DEF Lookup, Return, Finds
    <2>3. /\ access' \in Accesses /\ \A u \in Gtid \ {t} : access'[u] = access[u]
          /\ access'[t].pc = "returned" /\ access'[t].v = v /\ access'[t].ret = found
          /\ access'[t].active = access[t].active
      BY <1>0, <1>1, <2>1, <2>2, FoundAccess DEF PrivateTypes
    <2>4. PrivateTypes'
      BY <1>0, <1>2, <2>3 DEF PrivateTypes
    <2>5. Mine(t, v, found)'
      BY <1>2, <1>3, <1>5, <1>6, MineKept
    <2>6. AccessRight(t)'
      BY <1>0, <1>1, <1>2, <2>3, <2>5 DEF AccessRight, Lookup, Reached
    <2> QED BY <1>2, <1>3, <2>3, <2>4, <2>6, LookStep
  <1>7. CASE found = Nowhere
    <2>1. Goto(t, "find") /\ "find" \in Pcs
      BY <1>1, <1>4, <1>7 DEF Lookup, Pcs
    <2>2. /\ access' \in Accesses /\ \A u \in Gtid \ {t} : access'[u] = access[u]
          /\ access'[t].pc = "find" /\ access'[t].v = v /\ access'[t].active = access[t].active
      BY <1>0, <1>1, <2>1, GotoAccess DEF PrivateTypes
    <2>3. PrivateTypes'
      BY <1>0, <1>2, <2>2 DEF PrivateTypes
    <2>4. AccessRight(t)'
      BY <1>0, <1>1, <1>2, <2>2 DEF AccessRight, Lookup, Reached
    <2> QED BY <1>2, <1>3, <2>2, <2>3, <2>4, LookStep
  <1> QED BY <1>6, <1>7

LEMMA FindKeepsRight == ASSUME PrivateInv, NEW t \in Gtid, FindTask(t) PROVE PrivateInv'
  <1>0. /\ PrivateTypes /\ Kinds /\ AccessRight(t) /\ OwnRight(t) /\ access \in Accesses
        /\ {"store", "insert"} \subseteq Pcs
    BY DEF PrivateInv, PrivateTypes, Pcs
  <1>1. PICK v \in Vars : v = access[t].v /\ compiler[v] >= 1
    BY <1>0 DEF FindTask, Reached, AccessRight
  <1>2. /\ UNCHANGED <<foreignTp, objects, thread, capacity, own, caches, compiler, resizing, value, ends>>
        /\ thread[t].kind # "none" /\ access[t].pc = "find"
    BY DEF FindTask, Reached
  <1>3. CASE ~access[t].active /\ ~foreignTp
    <2>1. t = 0 /\ Original(v) = Home(t, v) /\ Original(v) \in Addresses \union {Nowhere}
      <3>1. t = 0
        BY <1>0, <1>1, <1>2, <1>3 DEF AccessRight, Kinds
      <3> QED BY <1>0, <3>1, HomeAddress
    <2>2. Finds(t, "store", Original(v)) /\ shared' = [shared EXCEPT ![v] = Template(v)]
      BY <1>1, <1>3 DEF FindTask, Finds, InsertPrivateData
    <2>3. /\ Taken(v)' /\ \A w : Taken(w) => Taken(w)'
          /\ shared' \in [Vars -> Contents \union {Nowhere}]
          /\ \A w \in Vars : w # v => shared'[w] = shared[w]
      BY <1>2, <2>2, TemplateTaken
    <2>4. /\ access' \in Accesses /\ \A u \in Gtid \ {t} : access'[u] = access[u]
          /\ access'[t].pc = "store" /\ access'[t].v = v /\ access'[t].ret = Original(v)
          /\ access'[t].active = access[t].active
      BY <1>0, <1>1, <2>1, <2>2, FoundAccess
    <2>5. PrivateTypes'
      BY <1>0, <1>2, <2>3, <2>4 DEF PrivateTypes
    <2>6. Mine(t, v, Original(v))'
      BY <1>2, <2>1, <2>3 DEF Mine, Home, Original
    <2>7. AccessRight(t)'
      <3>1. Original(v)' = Original(v)
        BY DEF Original
      <3> QED BY <1>0, <1>1, <1>2, <2>4, <2>6, <3>1 DEF AccessRight
    <2> QED BY <1>2, <2>3, <2>4, <2>5, <2>7, LookStep
  <1>4. CASE ~(~access[t].active /\ ~foreignTp)
    <2>1. PICK mine : mine = {a \in own[t] : a.of = v}
      OBVIOUS
    <2>2. UNCHANGED shared /\ \A w \in Vars : Taken(w) => Taken(w)'
      <3>1. UNCHANGED shared
        BY <1>1, <1>4 DEF FindTask
      <3> QED BY <1>2, <3>1 DEF Taken, Fresh
    <2>3. CASE mine # {}
      <3>1. PICK a : a = CHOOSE b \in mine : TRUE
        OBVIOUS
      <3>2. a \in own[t] /\ a.of = v
        BY <2>1, <2>3, <3>1
      <3>3. Mine(t, v, a) /\ a \in Addresses \union {Nowhere}
        BY <1>0, <3>2 DEF OwnRight, PrivateTypes
      <3>4. Finds(t, "store", a)
        BY <1>1, <1>4, <2>1, <2>3, <3>1 DEF FindTask, Finds
      <3>5. /\ access' \in Accesses /\ \A u \in Gtid \ {t} : access'[u] = access[u]
            /\ access'[t].pc = "store" /\ access'[t].v = v /\ access'[t].ret = a
            /\ access'[t].active = access[t].active
        BY <1>0, <1>1, <3>3, <3>4, FoundAccess
      <3>6. PrivateTypes'
        BY <1>0, <1>2, <2>2, <3>5 DEF PrivateTypes
      <3>7. Mine(t, v, a)'
        BY <1>2, <2>2, <3>3, MineKept
      <3>8. AccessRight(t)'
        BY <1>0, <1>1, <1>2, <3>5, <3>7 DEF AccessRight
      <3> QED BY <1>2, <2>2, <3>5, <3>6, <3>8, LookStep
    <2>4. CASE mine = {}
      <3>1. Finds(t, "insert", Nowhere)
        BY <1>1, <1>4, <2>1, <2>4 DEF FindTask, Finds
      <3>2. /\ access' \in Accesses /\ \A u \in Gtid \ {t} : access'[u] = access[u]
            /\ access'[t].pc = "insert" /\ access'[t].v = v /\ access'[t].active = access[t].active
        BY <1>0, <1>1, <3>1, FoundAccess
      <3>3. PrivateTypes'
        BY <1>0, <1>2, <2>2, <3>2 DEF PrivateTypes
      <3>4. AccessRight(t)'
        BY <1>0, <1>1, <1>2, <2>1, <2>4, <3>2 DEF AccessRight
      <3> QED BY <1>2, <2>2, <3>2, <3>3, <3>4, LookStep
    <2> QED BY <2>3, <2>4
  <1> QED BY <1>3, <1>4

LEMMA MakeCacheKeepsRight == ASSUME PrivateInv, NEW t \in Gtid, MakeCache(t) PROVE PrivateInv'
  <1>0. /\ PrivateTypes /\ AccessRight(t) /\ access \in Accesses /\ "lookup" \in Pcs /\ Kinds
        /\ capacity \in Nat /\ capacity >= 1
    BY ThreadPrivateAssumption DEF PrivateInv, PrivateTypes, Pcs
  <1>1. PICK v \in Vars : v = access[t].v
    BY <1>0 DEF MakeCache, Reached, AccessRight
  <1>2. /\ UNCHANGED <<foreignTp, objects, thread, capacity, shared, own, resizing, value, ends>>
        /\ thread[t].kind # "none" /\ access[t].pc = "nocache"
    BY DEF MakeCache, Reached
  <1>3. \A w : Taken(w) <=> Taken(w)'
    BY <1>2 DEF Taken, Fresh
  <1>4. /\ access' \in Accesses /\ \A u \in Gtid \ {t} : access'[u] = access[u]
        /\ access'[t].pc = "lookup" /\ access'[t].v = v /\ access'[t].active = access[t].active
    <2>1. Goto(t, "lookup")
      BY DEF MakeCache
    <2> QED BY <1>0, <1>1, <2>1, GotoAccess
  <1>5. CacheRight(v)
    BY DEF PrivateInv
  <1>6. /\ compiler'[v] \in Nat /\ compiler'[v] >= 1 /\ CacheRight(v)' /\ caches'[v] # <<>>
        /\ DOMAIN caches' = Vars /\ compiler' \in [Vars -> Nat]
        /\ \A w \in Vars \ {v} : caches'[w] = caches[w] /\ compiler'[w] = compiler[w]
    <2>1. CASE compiler[v] # 0
      <3>1. UNCHANGED <<caches, compiler>>
        BY <1>1, <2>1 DEF MakeCache
      <3>2. CacheRight(v)'
        BY <1>2, <1>3, <1>5, <3>1, CacheKept
      <3> QED BY <1>0, <1>5, <2>1, <3>1, <3>2, NewestCache DEF PrivateTypes
    <2>2. CASE compiler[v] = 0
      <3>1. caches[v] = <<>>
        BY <1>5, <2>2 DEF CacheRight
      <3>2. PICK c : c = [u \in 0..(capacity - 1) |-> Nowhere]
        OBVIOUS
      <3>3. caches' = [caches EXCEPT ![v] = <<c>>] /\ compiler' = [compiler EXCEPT ![v] = Entries(caches'[v])]
        BY <1>1, <2>2, <3>1, <3>2 DEF MakeCache
      <3>4. caches'[v] = <<c>> /\ DOMAIN <<c>> = 1..1 /\ <<c>>[1] = c /\ <<c>> # <<>>
        BY <1>0, <3>3 DEF PrivateTypes
      <3>5. Entries(<<c>>) = 1
        <4>1. 1..1 = {1}
          OBVIOUS
        <4> QED BY <3>4, <4>1, FS_Singleton DEF Entries
      <3>6. compiler'[v] = 1
        BY <1>0, <3>3, <3>4, <3>5 DEF PrivateTypes
      <3>7. CacheRight(v)'
        BY <1>2, <3>2, <3>4, <3>6 DEF CacheRight
      <3> QED BY <1>0, <3>3, <3>4, <3>5, <3>6, <3>7 DEF PrivateTypes
    <2> QED BY <2>1, <2>2
  <1>7. PrivateTypes'
    BY <1>0, <1>2, <1>4, <1>6 DEF PrivateTypes
  <1>8. AccessRight(t)'
    BY <1>0, <1>1, <1>2, <1>4, <1>6 DEF AccessRight
  <1>9. \A w \in Vars : CacheRight(w)'
    <2>1. ASSUME NEW w \in Vars \ {v} PROVE CacheRight(w)'
      BY <1>2, <1>3, <1>6, CacheKept DEF PrivateInv
    <2> QED BY <1>6, <2>1
  <1>10. (\A w \in Vars : OriginalRight(w)') /\ (\A u \in Gtid : OwnRight(u)')
    BY <1>2, <1>3, TablesKept
  <1>11. \A w \in Vars : /\ compiler[w] >= 1 => compiler'[w] >= 1
                         /\ caches[w] # <<>> => caches'[w] # <<>>
    BY <1>6
  <1> QED BY <1>2, <1>3, <1>4, <1>7, <1>8, <1>9, <1>10, <1>11, ThreadStep

(* What the other threads hold does not change with what one of them has.   *)
LEMMA OthersKeepCopies ==
    ASSUME PrivateInv, NEW t \in Gtid, UNCHANGED <<objects, thread, ends>>,
           \A w \in Vars : (Taken(w) => Taken(w)') /\ (shared'[w] = shared[w] \/ Taken(w)'),
           DOMAIN value \subseteq DOMAIN value',
           \A b \in DOMAIN value : b.gtid # t => value'[b] = value[b],
           \A u \in Gtid \ {t} : own'[u] = own[u]
    PROVE  /\ \A u \in Gtid \ {t} : OwnRight(u)'
           /\ t # 0 => \A w \in Vars : OriginalRight(w)'
  <1>1. ASSUME NEW u \in Gtid \ {t} PROVE OwnRight(u)'
    <2>1. ASSUME NEW a \in own[u]
          PROVE  (Taken(a.of) => Taken(a.of)') /\ (u # 0 => CopyRight(a)')
      <3>1. a.of \in Vars /\ a.gtid = u /\ (u # 0 => CopyRight(a))
        BY OwnAddresses DEF PrivateInv, OwnRight
      <3> QED BY <3>1 DEF CopyRight, Fresh
    <2> QED BY <2>1, OwnKept DEF PrivateInv
  <1>2. ASSUME NEW w \in Vars, t # 0 PROVE OriginalRight(w)'
    <2>1. Original(w)' = Original(w) /\ OriginalRight(w) /\ Original(w).gtid = 0
      BY DEF PrivateInv, Original
    <2> QED BY <1>2, <2>1 DEF OriginalRight
  <1> QED BY <1>1, <1>2

(* kmp_threadprivate_insert                                                 *)
LEMMA InsertKeepsRight == ASSUME PrivateInv, NEW t \in Gtid, Insert(t) PROVE PrivateInv'
  <1>0. /\ PrivateTypes /\ AccessRight(t) /\ OwnRight(t) /\ access \in Accesses /\ "construct" \in Pcs /\ Kinds
        /\ t = 0 <=> UsesOriginal(t)
    BY InitialThread DEF PrivateInv, PrivateTypes, Pcs
  <1>1. PICK v \in Vars : v = access[t].v /\ compiler[v] >= 1
    BY <1>0 DEF Insert, Reached, AccessRight
  <1>2. /\ UNCHANGED <<foreignTp, objects, thread, capacity, own, caches, compiler, resizing, ends>>
        /\ thread[t].kind # "none" /\ access[t].pc = "insert"
        /\ \A a \in own[t] : a.of # v
    BY <1>0, <1>1 DEF Insert, Reached, AccessRight
  <1>3. PICK a : /\ a = Home(t, v) /\ Finds(t, "construct", a)
                 /\ value' = IF t = 0 THEN value
                             ELSE [b \in DOMAIN value \cup {a} |-> IF b = a THEN "raw" ELSE value[b]]
    <2>1. Home(t, v) = IF UsesOriginal(t) THEN Original(v) ELSE Copy(t, v)
      BY <1>0 DEF Home
    <2> QED BY <1>0, <1>1, <2>1 DEF Insert, Finds
  <1>4. a \in Addresses /\ a \in Addresses \union {Nowhere} /\ a.gtid = t
    BY <1>0, <1>3, HomeAddress
  <1>5. /\ Taken(v)' /\ \A w : (Taken(w) => Taken(w)')
        /\ shared' \in [Vars -> Contents \union {Nowhere}]
        /\ \A w \in Vars : w # v => shared'[w] = shared[w]
    <2>1. shared' = [shared EXCEPT ![v] = Template(v)]
      BY <1>1 DEF Insert
    <2> QED BY <1>2, <2>1, TemplateTaken
  <1>6. /\ access' \in Accesses /\ \A u \in Gtid \ {t} : access'[u] = access[u]
        /\ access'[t].pc = "construct" /\ access'[t].v = v /\ access'[t].ret = a
        /\ access'[t].active = access[t].active
    BY <1>0, <1>1, <1>3, <1>4, FoundAccess
  <1>7. PrivateTypes'
    BY <1>0, <1>2, <1>5, <1>6 DEF PrivateTypes
  <1>8. /\ DOMAIN value \subseteq DOMAIN value' /\ (t # 0 => a \in DOMAIN value')
        /\ \A b \in DOMAIN value : b # a => value'[b] = value[b]
        /\ t = 0 => value' = value
    BY <1>3
  <1>9. AccessRight(t)'
    <2>1. Home(t, v)' = Home(t, v)
      BY <1>2 DEF Home, Original, Copy
    <2> QED BY <1>0, <1>1, <1>2, <1>3, <1>5, <1>6, <1>8, <2>1 DEF AccessRight
  <1>10. OwnRight(t)'
    <2>1. ASSUME NEW b \in own[t] PROVE (Taken(b.of) => Taken(b.of)') /\ (t # 0 => CopyRight(b)')
      <3>1. b.of # v /\ a.of = v /\ b.of \in Vars /\ (t # 0 => CopyRight(b))
        BY <1>0, <1>2, <1>3, HomeAddress, OwnAddresses DEF OwnRight
      <3> QED BY <1>2, <1>5, <1>8, <3>1 DEF CopyRight, Fresh
    <2> QED BY <1>0, <1>2, <2>1, OwnKept
  <1>11. /\ \A w \in Vars : OriginalRight(w)'
         /\ \A u \in Gtid \ {t} : OwnRight(u)'
    <2>1. \A b \in DOMAIN value : b.gtid # t => value'[b] = value[b]
      BY <1>4, <1>8
    <2>2. /\ \A u \in Gtid \ {t} : OwnRight(u)'
          /\ t # 0 => \A w \in Vars : OriginalRight(w)'
      BY <1>2, <1>5, <1>8, <2>1, OthersKeepCopies
    <2>3. t = 0 => \A w \in Vars : OriginalRight(w)'
      BY <1>2, <1>5, <1>8, TablesKept
    <2> QED BY <2>2, <2>3
  <1>12. \A w \in Vars : CacheRight(w)'
    BY <1>2, <1>5, CacheKept DEF PrivateInv
  <1> QED BY <1>2, <1>5, <1>6, <1>7, <1>8, <1>9, <1>10, <1>11, <1>12, ThreadStep

LEMMA ConstructKeepsRight == ASSUME PrivateInv, NEW t \in Gtid, Construct(t) PROVE PrivateInv'
  <1>0. /\ PrivateTypes /\ AccessRight(t) /\ OwnRight(t) /\ access \in Accesses /\ "store" \in Pcs /\ Kinds
        /\ t = 0 <=> UsesOriginal(t)
    BY InitialThread DEF PrivateInv, PrivateTypes, Pcs
  <1>v. PICK v \in Vars : v = access[t].v /\ compiler[v] >= 1
    BY <1>0 DEF Construct, Reached, AccessRight
  <1>1. PICK a : v = access[t].v /\ compiler[v] >= 1 /\ a = access[t].ret
    BY <1>v
  <1>2. /\ UNCHANGED <<foreignTp, objects, thread, capacity, shared, caches, compiler, resizing, ends>>
        /\ thread[t].kind # "none" /\ access[t].pc = "construct"
        /\ a = Home(t, v) /\ Taken(v) /\ (t # 0 => a \in DOMAIN value)
        /\ \A b \in own[t] : b.of # v
    BY <1>0, <1>1 DEF Construct, Reached, AccessRight
  <1>3. /\ own' = [own EXCEPT ![t] = @ \cup {a}]
        /\ value' = IF t = 0 THEN value ELSE [value EXCEPT ![a] = shared[v]]
    BY <1>0, <1>1 DEF Construct
  <1>4. a \in Addresses /\ a.gtid = t /\ a.of = v
    BY <1>0, <1>2, HomeAddress
  <1>5. \A w : (Taken(w) => Taken(w)')
    BY <1>2 DEF Taken, Fresh
  <1>6. /\ access' \in Accesses /\ \A u \in Gtid \ {t} : access'[u] = access[u]
        /\ access'[t].pc = "store" /\ access'[t].v = v /\ access'[t].ret = a
        /\ access'[t].active = access[t].active
    <2>1. Goto(t, "store")
      BY DEF Construct
    <2> QED BY <1>0, <1>1, <2>1, GotoAccess
  <1>7. /\ own' \in [Gtid -> SUBSET Addresses] /\ own'[t] = own[t] \cup {a}
        /\ \A u \in Gtid \ {t} : own'[u] = own[u]
    BY <1>0, <1>3, <1>4 DEF PrivateTypes
  <1>8. PrivateTypes'
    BY <1>0, <1>2, <1>6, <1>7 DEF PrivateTypes
  <1>9. /\ DOMAIN value' = DOMAIN value /\ (t # 0 => value'[a] = shared[v])
        /\ \A b \in DOMAIN value : b # a => value'[b] = value[b]
        /\ t = 0 => value' = value
    BY <1>2, <1>3
  <1>10. Mine(t, v, a)'
    <2>1. Home(t, v)' = Home(t, v)
      BY <1>2 DEF Home, Original, Copy
    <2> QED BY <1>2, <1>5, <1>7, <2>1 DEF Mine
  <1>11. AccessRight(t)'
    BY <1>0, <1>1, <1>2, <1>6, <1>10 DEF AccessRight
  <1>12. OwnRight(t)'
    <2>1. ASSUME NEW b \in own[t] PROVE Mine(t, b.of, b)' /\ (t # 0 => CopyRight(b)')
      <3>1. /\ b.of # v /\ b.of \in Vars /\ (t # 0 => CopyRight(b)) /\ b # a
            /\ Mine(t, b.of, b)
        BY <1>0, <1>2, <1>4, OwnAddresses DEF OwnRight
      <3>2. Mine(t, b.of, b)'
        BY <1>2, <1>5, <1>7, <3>1, MineKept
      <3> QED BY <1>2, <1>9, <3>1, <3>2 DEF CopyRight, Fresh
    <2>2. t # 0 => CopyRight(a)'
      <3>1. Fresh(v) # "raw" /\ "raw" \notin Contents
        BY DEF Fresh, Contents
      <3> QED BY <1>2, <1>4, <1>9, <3>1 DEF CopyRight, Taken, Fresh
    <2> QED BY <1>4, <1>7, <1>10, <2>1, <2>2 DEF OwnRight
  <1>13. /\ \A w \in Vars : OriginalRight(w)'
         /\ \A u \in Gtid \ {t} : OwnRight(u)'
    <2>1. \A b \in DOMAIN value : b.gtid # t => value'[b] = value[b]
      BY <1>4, <1>9
    <2>2. /\ \A u \in Gtid \ {t} : OwnRight(u)'
          /\ t # 0 => \A w \in Vars : OriginalRight(w)'
      BY <1>2, <1>5, <1>7, <1>9, <2>1, OthersKeepCopies
    <2>3. ASSUME NEW w \in Vars, t = 0 PROVE OriginalRight(w)'
      <3>1. Original(w)' = Original(w) /\ OriginalRight(w)
        BY DEF PrivateInv, Original
      <3> QED BY <1>2, <1>5, <1>9, <2>3, <3>1 DEF OriginalRight
    <2> QED BY <2>2, <2>3
  <1>14. \A w \in Vars : CacheRight(w)'
    <2>1. \A u \in 0..(capacity - 1) : own[u] \subseteq own'[u]
      <3>1. 0..(capacity - 1) \subseteq Gtid
        BY <1>0, ThreadPrivateAssumption DEF PrivateTypes, Gtid
      <3> QED BY <1>7, <3>1
    <2> QED BY <1>2, <1>5, <2>1, CacheKept DEF PrivateInv
  <1> QED BY <1>2, <1>5, <1>6, <1>7, <1>8, <1>9, <1>11, <1>12, <1>13, <1>14, ThreadStep

LEMMA StoreKeepsRight == ASSUME PrivateInv, NEW t \in Gtid, StoreCache(t) PROVE PrivateInv'
  <1>0. PrivateTypes /\ AccessRight(t) /\ access \in Accesses /\ "returned" \in Pcs
    BY DEF PrivateInv, PrivateTypes, Pcs
  <1>1. PICK v \in Vars : v = access[t].v /\ compiler[v] >= 1
    BY <1>0 DEF StoreCache, Reached, AccessRight
  <1>2. /\ UNCHANGED <<foreignTp, objects, thread, capacity, shared, own, compiler, resizing, value, ends>>
        /\ thread[t].kind # "none" /\ access[t].pc = "store"
    BY DEF StoreCache, Reached
  <1>3. PICK a : a = access[t].ret /\ Mine(t, v, a)
    BY <1>0, <1>1, <1>2 DEF AccessRight
  <1>4. \A w : Taken(w) => Taken(w)'
    BY <1>2 DEF Taken, Fresh
  <1>5. /\ access' \in Accesses /\ \A u \in Gtid \ {t} : access'[u] = access[u]
        /\ access'[t].pc = "returned" /\ access'[t].v = v /\ access'[t].ret = a
        /\ access'[t].active = access[t].active
    <2>1. Goto(t, "returned")
      BY DEF StoreCache
    <2> QED BY <1>0, <1>1, <1>3, <2>1, GotoAccess
  <1>6. Mine(t, v, a)'
    BY <1>2, <1>3, <1>4, MineKept
  <1>7. AccessRight(t)'
    BY <1>0, <1>1, <1>2, <1>5, <1>6 DEF AccessRight
  <1>8. /\ CacheRight(v) /\ compiler[v] # 0 /\ compiler[v] \in 1..compiler[v]
        /\ DOMAIN caches[v] = 1..compiler[v] /\ caches[v] # <<>>
        /\ DOMAIN caches[v][compiler[v]] = 0..(capacity - 1)
    <2>1. CacheRight(v) /\ compiler[v] # 0
      BY <1>1 DEF PrivateInv
    <2> QED BY <1>0, <2>1, NewestCache
  <1>9. PICK c : c = [caches[v][compiler[v]] EXCEPT ![t] = a]
    OBVIOUS
  <1>10. PICK d : d = [caches[v] EXCEPT ![compiler[v]] = c]
    OBVIOUS
  <1>11. caches' = [caches EXCEPT ![v] = d]
    BY <1>1, <1>3, <1>9, <1>10 DEF StoreCache
  <1>12. /\ DOMAIN c = 0..(capacity - 1)
         /\ \A u \in 0..(capacity - 1) : c[u] = IF u = t THEN a ELSE caches[v][compiler[v]][u]
    BY <1>8, <1>9
  <1>13. DOMAIN d = 1..compiler[v] /\ d[compiler[v]] = c /\ d # <<>>
    <2>1. DOMAIN d = 1..compiler[v] /\ d[compiler[v]] = c
      BY <1>8, <1>10
    <2> QED BY <1>8, <2>1
  <1>14. DOMAIN caches' = Vars /\ caches'[v] = d /\ \A w \in Vars \ {v} : caches'[w] = caches[w]
    BY <1>0, <1>11 DEF PrivateTypes
  <1>15. CacheRight(v)'
    <2>1. ASSUME NEW u \in 0..(capacity - 1) PROVE c[u] = Nowhere \/ Mine(u, v, c[u])'
      <3>1. CASE u = t
        BY <1>6, <1>12, <3>1
      <3>2. CASE u # t
        <4>1. c[u] = Nowhere \/ Mine(u, v, c[u])
          BY <1>8, <1>12, <3>2 DEF CacheRight
        <4>2. own[u] \subseteq own'[u]
          BY <1>2
        <4> QED BY <1>2, <1>4, <4>1, <4>2, MineKept
      <3> QED BY <3>1, <3>2
    <2> QED BY <1>1, <1>2, <1>12, <1>13, <1>14, <2>1 DEF CacheRight
  <1>16. \A w \in Vars : CacheRight(w)'
    <2>1. ASSUME NEW w \in Vars \ {v} PROVE CacheRight(w)'
      BY <1>2, <1>4, <1>14, CacheKept DEF PrivateInv
    <2> QED BY <1>15, <2>1
  <1>17. PrivateTypes'
    BY <1>0, <1>2, <1>5, <1>14 DEF PrivateTypes
  <1>18. (\A w \in Vars : OriginalRight(w)') /\ (\A u \in Gtid : OwnRight(u)')
    BY <1>2, <1>4, TablesKept
  <1>19. \A w \in Vars : caches[w] # <<>> => caches'[w] # <<>>
    BY <1>13, <1>14
  <1> QED BY <1>2, <1>4, <1>5, <1>7, <1>16, <1>17, <1>18, <1>19, ThreadStep

LEMMA UseKeepsRight == ASSUME PrivateInv, NEW t \in Gtid, Use(t) PROVE PrivateInv'
  <1>0. PrivateTypes /\ AccessRight(t) /\ OwnRight(t) /\ Kinds
    BY DEF PrivateInv
  <1>1. PICK v \in Vars : v = access[t].v
    BY <1>0 DEF Use, Reached, AccessRight
  <1>2. UNCHANGED <<foreignTp, objects, thread, capacity, shared, own, caches, compiler, resizing, ends>>
    BY DEF Use
  <1>3. PICK a : /\ a = access[t].ret /\ Mine(t, v, a)
                 /\ value' = [value EXCEPT ![a] = Written(t)] \/ value' = value
    BY <1>0, <1>1 DEF Use, Reached, AccessRight
  <1>4. a.gtid = t /\ a.of = v /\ (t = 0 => Taken(v)) /\ (t # 0 => a \in own[t])
    BY <1>0, <1>3, HomeAddress DEF Mine
  <1>5. \A w : Taken(w) => Taken(w)'
    BY <1>2 DEF Taken, Fresh
  <1>6. /\ access' = [access EXCEPT ![t] = Resting] /\ Resting.pc = "idle"
        /\ Resting \in [pc : Pcs, v : Vars \union {Nowhere}, ret : Addresses \union {Nowhere}, active : BOOLEAN]
    BY DEF Use, Resting, Pcs
  <1>7. access' \in Accesses /\ access'[t].pc = "idle" /\ \A u \in Gtid \ {t} : access'[u] = access[u]
    BY <1>0, <1>6 DEF PrivateTypes, Accesses
  <1>8. PrivateTypes'
    BY <1>0, <1>2, <1>7 DEF PrivateTypes
  <1>9. AccessRight(t)'
    BY <1>7 DEF AccessRight
  <1>10. /\ DOMAIN value' = DOMAIN value
         /\ \A b \in DOMAIN value : value'[b] = value[b] \/ (b = a /\ value'[b] = Written(t))
         /\ \A b \in DOMAIN value : b.gtid # t => value'[b] = value[b]
    BY <1>3, <1>4
  <1>11. OwnRight(t)'
    <2>1. ASSUME NEW b \in own[t] PROVE (Taken(b.of) => Taken(b.of)') /\ (t # 0 => CopyRight(b)')
      <3>1. t # 0 => CopyRight(b)
        BY <1>0 DEF OwnRight
      <3>2. t # 0 => Written(t) = "altered"
        BY DEF Written
      <3> QED BY <1>2, <1>5, <1>10, <3>1, <3>2 DEF CopyRight, Fresh
    <2> QED BY <1>0, <1>2, <2>1, OwnKept
  <1>12. /\ \A w \in Vars : OriginalRight(w)'
         /\ \A u \in Gtid \ {t} : OwnRight(u)'
    <2>1. /\ \A u \in Gtid \ {t} : OwnRight(u)'
          /\ t # 0 => \A w \in Vars : OriginalRight(w)'
      BY <1>2, <1>5, <1>10, OthersKeepCopies
    <2>2. ASSUME NEW w \in Vars, t = 0 PROVE OriginalRight(w)'
      <3>1. /\ Original(w)' = Original(w) /\ OriginalRight(w) /\ Original(w).of = w
            /\ Written(t) = "written"
        BY <2>2 DEF PrivateInv, Original, Written
      <3>2. a = Original(w) => Taken(w)
        BY <1>4, <2>2, <3>1
      <3> QED BY <1>2, <1>5, <1>10, <3>1, <3>2 DEF OriginalRight
    <2> QED BY <2>1, <2>2
  <1>13. \A w \in Vars : CacheRight(w)'
    BY <1>2, <1>5, CacheKept DEF PrivateInv
  <1> QED BY <1>2, <1>5, <1>7, <1>8, <1>9, <1>10, <1>11, <1>12, <1>13, ThreadStep

-----------------------------------------------------------------------------
(* Threads that come and go, and caches that grow.                          *)

LEMMA WorldStep ==
    ASSUME PrivateInv, PrivateTypes', Kinds', ResizingRight', \A v \in Vars : CacheRight(v)',
           UNCHANGED <<objects, shared, own, access, value, ends>>,
           \A u \in Gtid : /\ thread'[u].life = thread[u].life
                           /\ thread'[u].kind = thread[u].kind \/ access[u].pc = "idle",
           \A v \in Vars : compiler[v] >= 1 => compiler'[v] >= 1
    PROVE  PrivateInv'
  <1>0. \A w : Taken(w) => Taken(w)'
    BY DEF Taken, Fresh
  <1>1. \A u \in Gtid : \A v : \A a : Mine(u, v, a) => Mine(u, v, a)'
    BY <1>0, MineKept
  <1>2. ASSUME NEW u \in Gtid PROVE OwnRight(u)' /\ AccessRight(u)'
    <2>1. OwnRight(u) /\ AccessRight(u) /\ Home(u, access[u].v)' = Home(u, access[u].v)
      BY DEF PrivateInv, Home, Original, Copy
    <2>2. OwnRight(u)'
      BY <1>1, <2>1 DEF OwnRight, CopyRight, Fresh
    <2> QED BY <1>0, <1>1, <2>1, <2>2 DEF AccessRight
  <1>3. ASSUME NEW w \in Vars PROVE OriginalRight(w)'
    <2>1. Original(w)' = Original(w) /\ OriginalRight(w)
      BY DEF PrivateInv, Original
    <2> QED BY <1>0, <2>1 DEF OriginalRight
  <1> QED BY <1>2, <1>3 DEF PrivateInv

(* What caches hold stays right as kinds of threads change.                 *)
LEMMA HeldKept ==
    ASSUME PrivateInv, UNCHANGED <<objects, shared, own, caches, compiler, capacity, resizing, ends>>,
           \A u \in Gtid : thread'[u].life = thread[u].life
    PROVE  ResizingRight' /\ \A v \in Vars : CacheRight(v)'
  <1>1. 0..(capacity - 1) \subseteq Gtid
    BY ThreadPrivateAssumption DEF PrivateInv, PrivateTypes, Gtid
  <1>2. \A w : Taken(w) => Taken(w)'
    BY DEF Taken, Fresh
  <1>3. \A u \in Gtid : \A v : \A a : Mine(u, v, a) => Mine(u, v, a)'
    BY <1>2, MineKept
  <1>4. ResizingRight'
    BY <1>3 DEF PrivateInv, ResizingRight
  <1>5. \A v \in Vars : CacheRight(v)'
    BY <1>1, <1>3 DEF PrivateInv, CacheRight
  <1> QED BY <1>4, <1>5

LEMMA AppearKeepsRight == ASSUME PrivateInv, NEW t \in Gtid, Appear(t) PROVE PrivateInv'
  <1>0. PrivateTypes /\ Kinds
    BY DEF PrivateInv
  <1>1. PICK k \in {"root", "worker"} : (k = "root" => foreignTp) /\ thread' = [thread EXCEPT ![t].kind = k]
    BY DEF Appear
  <1>2. /\ UNCHANGED <<foreignTp, objects, capacity, shared, own, caches, compiler, resizing, access, value, ends>>
        /\ thread[t].kind = "none" /\ t < capacity
    BY DEF Appear
  <1>3. /\ thread' \in [Gtid -> [kind : {"none", "root", "worker"}, life : Nat]]
        /\ \A u \in Gtid : thread'[u].life = thread[u].life
        /\ thread'[t].kind = k /\ \A u \in Gtid \ {t} : thread'[u] = thread[u]
    BY <1>0, <1>1 DEF PrivateTypes
  <1>4. access[t].pc = "idle"
    BY <1>2 DEF PrivateInv, AccessRight
  <1>5. PrivateTypes'
    BY <1>0, <1>2, <1>3 DEF PrivateTypes
  <1>6. Kinds'
    <2>1. 0 \in Gtid /\ t # 0
      BY <1>0, <1>2, ThreadPrivateAssumption DEF Kinds, Gtid
    <2> QED BY <1>0, <1>1, <1>2, <1>3, <2>1 DEF Kinds
  <1>7. ResizingRight' /\ \A v \in Vars : CacheRight(v)'
    BY <1>2, <1>3, HeldKept
  <1> QED BY <1>2, <1>3, <1>4, <1>5, <1>6, <1>7, WorldStep

LEMMA LeaveKeepsRight ==
    ASSUME PrivateInv, ~LeaveAfterUse, NEW t \in Gtid, RootLeaves(t)
    PROVE  PrivateInv'
  <1>0. PrivateTypes /\ Kinds
    BY DEF PrivateInv
  <1>1. own[t] = {} /\ t # 0 /\ access[t].pc = "idle" /\ thread[t].kind = "root"
    BY DEF RootLeaves, Resting
  <1>2. UNCHANGED <<foreignTp, objects, capacity, shared, caches, compiler, resizing, access, value, ends>>
    BY DEF RootLeaves
  <1>3. PICK r : r = [kind |-> "none", life |-> thread[t].life]
    OBVIOUS
  <1>4. thread' = [thread EXCEPT ![t] = r]
    BY <1>1, <1>3 DEF RootLeaves
  <1>5. own' = own
    BY <1>0, <1>1 DEF RootLeaves, PrivateTypes
  <1>6. /\ thread' \in [Gtid -> [kind : {"none", "root", "worker"}, life : Nat]]
        /\ \A u \in Gtid : thread'[u].life = thread[u].life
        /\ thread'[t].kind = "none" /\ \A u \in Gtid \ {t} : thread'[u] = thread[u]
    BY <1>0, <1>3, <1>4 DEF PrivateTypes
  <1>7. PrivateTypes'
    BY <1>0, <1>2, <1>5, <1>6 DEF PrivateTypes
  <1>8. Kinds'
    <2>1. 0 \in Gtid
      BY ThreadPrivateAssumption DEF Gtid
    <2> QED BY <1>0, <1>1, <1>2, <1>6, <2>1 DEF Kinds
  <1>9. ResizingRight' /\ \A v \in Vars : CacheRight(v)'
    BY <1>2, <1>5, <1>6, HeldKept
  <1> QED BY <1>1, <1>2, <1>5, <1>6, <1>7, <1>8, <1>9, WorldStep

LEMMA BeginKeepsRight == ASSUME PrivateInv, ResizeBegin PROVE PrivateInv'
  <1>0. PrivateTypes /\ Kinds
    BY DEF PrivateInv
  <1>1. /\ UNCHANGED <<foreignTp, objects, thread, capacity, shared, own, caches, compiler, access, value, ends>>
        /\ resizing' = [new |-> [v \in Vars |-> [u \in Gtid |-> Nowhere]],
                        todo |-> {v \in Vars : caches[v] # <<>>} \X (0..(capacity - 1))]
    BY DEF ResizeBegin
  <1>2. /\ resizing'.new = [v \in Vars |-> [u \in Gtid |-> Nowhere]]
        /\ resizing'.todo = {v \in Vars : caches[v] # <<>>} \X (0..(capacity - 1))
    BY <1>1
  <1>3. ResizingRight'
    <2>1. resizing' = [new |-> resizing'.new, todo |-> resizing'.todo]
      BY <1>1, <1>2
    <2>2. \A e \in resizing'.todo : e[1] \in Vars /\ caches[e[1]] # <<>> /\ e[2] \in 0..(capacity - 1)
      BY <1>2
    <2>3. /\ DOMAIN resizing'.new = Vars
          /\ \A v \in Vars : DOMAIN resizing'.new[v] = Gtid /\ \A u \in Gtid : resizing'.new[v][u] = Nowhere
      BY <1>2
    <2> QED BY <1>1, <2>1, <2>2, <2>3 DEF ResizingRight
  <1>4. \A v : Taken(v) => Taken(v)'
    BY <1>1 DEF Taken, Fresh
  <1>5. \A v \in Vars : CacheRight(v)'
    BY <1>1, <1>4, CacheKept DEF PrivateInv
  <1>6. PrivateTypes' /\ Kinds'
    BY <1>0, <1>1 DEF PrivateTypes, Kinds
  <1> QED BY <1>1, <1>3, <1>5, <1>6, WorldStep

LEMMA CopyKeepsRight == ASSUME PrivateInv, ResizeCopy PROVE PrivateInv'
  <1>0. PrivateTypes /\ Kinds /\ ResizingRight
    BY DEF PrivateInv
  <1>1. UNCHANGED <<foreignTp, objects, thread, capacity, shared, own, caches, compiler, access, value, ends>>
    BY DEF ResizeCopy
  <1>2. PICK new, todo : resizing = [new |-> new, todo |-> todo]
    BY <1>0 DEF ResizingRight, ResizeCopy
  <1>3. resizing # Nowhere /\ resizing.new = new /\ resizing.todo = todo
    BY <1>2 DEF ResizeCopy
  <1>4. PICK e \in todo : resizing' = [resizing EXCEPT !.new[e[1]][e[2]] = Latest(e[1])[e[2]], !.todo = @ \ {e}]
    BY <1>3 DEF ResizeCopy
  <1>5. PICK v \in Vars, t \in 0..(capacity - 1) : v = e[1] /\ t = e[2] /\ caches[v] # <<>>
    BY <1>0, <1>3 DEF ResizingRight
  <1>6. t \in Gtid
    BY <1>0, ThreadPrivateAssumption DEF PrivateTypes, Gtid
  <1>7. PICK a : a = Latest(v)[t] /\ (a = Nowhere \/ Mine(t, v, a))
    <2>1. CacheRight(v)
      BY DEF PrivateInv
    <2> QED BY <1>0, <1>5, <2>1, NewestCache
  <1>8. PICK c : c = [new[v] EXCEPT ![t] = a]
    OBVIOUS
  <1>9. PICK n : n = [new EXCEPT ![v] = c]
    OBVIOUS
  <1>10. resizing' = [new |-> n, todo |-> todo \ {e}]
    BY <1>2, <1>4, <1>5, <1>7, <1>8, <1>9
  <1>11. resizing'.new = n /\ resizing'.todo = todo \ {e}
    BY <1>10
  <1>12. /\ DOMAIN new = Vars /\ \A w \in Vars : DOMAIN new[w] = Gtid
         /\ \A w \in Vars : \A u \in Gtid : new[w][u] = Nowhere \/ Mine(u, w, new[w][u])
    BY <1>0, <1>3 DEF ResizingRight
  <1>13. /\ DOMAIN n = Vars /\ \A w \in Vars : DOMAIN n[w] = Gtid
         /\ \A w \in Vars : \A u \in Gtid : n[w][u] = IF w = v /\ u = t THEN a ELSE new[w][u]
    BY <1>6, <1>8, <1>9, <1>12
  <1>14. \A w : Taken(w) => Taken(w)'
    BY <1>1 DEF Taken, Fresh
  <1>15. ResizingRight'
    <2>1. ASSUME NEW w \in Vars, NEW u \in Gtid PROVE n[w][u] = Nowhere \/ Mine(u, w, n[w][u])'
      <3>1. n[w][u] = Nowhere \/ Mine(u, w, n[w][u])
        BY <1>7, <1>12, <1>13
      <3> QED BY <1>1, <1>14, <3>1, MineKept
    <2>2. \A f \in todo \ {e} : f[1] \in Vars /\ caches[f[1]] # <<>> /\ f[2] \in 0..(capacity - 1)
      BY <1>0, <1>3 DEF ResizingRight
    <2> QED BY <1>1, <1>10, <1>11, <1>13, <2>1, <2>2 DEF ResizingRight
  <1>16. \A w \in Vars : CacheRight(w)'
    BY <1>1, <1>14, CacheKept DEF PrivateInv
  <1>17. PrivateTypes' /\ Kinds'
    BY <1>0, <1>1 DEF PrivateTypes, Kinds
  <1> QED BY <1>1, <1>15, <1>16, <1>17, WorldStep

LEMMA PublishKeepsRight == ASSUME PrivateInv, ResizePublish PROVE PrivateInv'
  <1>0. PrivateTypes /\ Kinds /\ ResizingRight
    BY DEF PrivateInv
  <1>1. /\ UNCHANGED <<foreignTp, objects, thread, shared, own, access, value, ends>>
        /\ resizing # Nowhere /\ resizing' = Nowhere /\ capacity' = MaxGtid + 1
        /\ caches' = [v \in Vars |-> IF caches[v] = <<>> THEN <<>>
                                     ELSE [i \in 1..(Entries(caches[v]) + 1) |->
                                              IF i <= Entries(caches[v]) THEN caches[v][i]
                                              ELSE resizing.new[v]]]
        /\ compiler' = [v \in Vars |-> IF compiler[v] = Entries(caches[v]) THEN Entries(caches'[v])
                                       ELSE compiler[v]]
    BY DEF ResizePublish
  <1>2. \A w : Taken(w) => Taken(w)'
    BY <1>1 DEF Taken, Fresh
  <1>3. ASSUME NEW v \in Vars
        PROVE  CacheRight(v)' /\ compiler'[v] \in Nat /\ (compiler[v] >= 1 => compiler'[v] >= 1)
    <2>0. CacheRight(v) /\ compiler[v] \in Nat
      BY <1>0 DEF PrivateInv, PrivateTypes
    <2>1. CASE caches[v] = <<>>
      <3>1. compiler[v] = 0
        BY <1>0, <2>0, <2>1, NewestCache
      <3>2. caches'[v] = <<>> /\ Entries(<<>>) = 0
        <4>1. DOMAIN <<>> = {}
          OBVIOUS
        <4> QED BY <1>1, <2>1, <4>1, FS_EmptySet DEF Entries
      <3>3. compiler'[v] = 0
        BY <1>1, <2>1, <3>1, <3>2
      <3> QED BY <3>1, <3>2, <3>3 DEF CacheRight
    <2>2. CASE caches[v] # <<>>
      <3>1. PICK n \in Nat : n = compiler[v] /\ n >= 1 /\ Entries(caches[v]) = n
        BY <1>0, <2>0, <2>2, NewestCache
      <3>2. caches'[v] = [i \in 1..(n + 1) |-> IF i <= n THEN caches[v][i] ELSE resizing.new[v]]
        BY <1>1, <2>2, <3>1
      <3>3. DOMAIN caches'[v] = 1..(n + 1) /\ caches'[v][n + 1] = resizing.new[v]
        BY <3>2
      <3>4. Entries(caches'[v]) = n + 1
        <4>1. PICK m \in Nat : m = n + 1 /\ m >= 1
          OBVIOUS
        <4>2. Cardinality(1..m) = m
          BY <4>1, FS_Interval
        <4> QED BY <3>3, <4>1, <4>2 DEF Entries
      <3>5. compiler'[v] = n + 1
        BY <1>1, <3>1, <3>4
      <3>6. 0..(capacity' - 1) = Gtid
        BY <1>1, ThreadPrivateAssumption DEF Gtid
      <3>7. PICK c : c = resizing.new[v] /\ DOMAIN c = Gtid
                     /\ \A u \in Gtid : c[u] = Nowhere \/ Mine(u, v, c[u])
        BY <1>0, <1>1 DEF ResizingRight
      <3>8. ASSUME NEW u \in Gtid PROVE c[u] = Nowhere \/ Mine(u, v, c[u])'
        BY <1>1, <1>2, <3>7, MineKept
      <3>9. PICK m \in Nat : m = n + 1 /\ m >= 1
        OBVIOUS
      <3>10. DOMAIN caches'[v] = 1..m /\ caches'[v][m] = c /\ compiler'[v] = m
        BY <3>3, <3>5, <3>7, <3>9
      <3>11. CacheRight(v)'
        BY <3>6, <3>7, <3>8, <3>9, <3>10 DEF CacheRight
      <3> QED BY <3>9, <3>10, <3>11
    <2> QED BY <2>1, <2>2
  <1>4. PrivateTypes'
    <2>1. DOMAIN caches' = Vars /\ compiler' \in [Vars -> Nat]
      BY <1>1, <1>3
    <2>2. capacity' \in 1..(MaxGtid + 1)
      BY <1>1, ThreadPrivateAssumption
    <2> QED BY <1>0, <1>1, <2>1, <2>2 DEF PrivateTypes
  <1>5. Kinds'
    BY <1>0, <1>1, ThreadPrivateAssumption DEF Kinds, Gtid
  <1>6. ResizingRight'
    BY <1>1 DEF ResizingRight
  <1> QED BY <1>1, <1>3, <1>4, <1>5, <1>6, WorldStep

LEMMA ShutdownKeepsRight == ASSUME PrivateInv, Shutdown PROVE PrivateInv'
  <1>0. PrivateTypes /\ Kinds /\ 0 \in Gtid
    BY ThreadPrivateAssumption DEF PrivateInv, Gtid
  <1>1. /\ UNCHANGED <<foreignTp, objects, capacity, resizing, access>> /\ ends' = ends + 1
        /\ resizing = Nowhere /\ \A t \in Gtid : access[t] = Resting
        /\ own' = [t \in Gtid |-> {}] /\ shared' = [v \in Vars |-> Nowhere]
        /\ caches' = [v \in Vars |-> <<>>] /\ compiler' = [v \in Vars |-> 0]
    BY DEF Shutdown
  <1>2. ASSUME NEW t \in Gtid
        PROVE  /\ thread'[t] \in [kind : {"none", "root", "worker"}, life : Nat]
               /\ thread'[t].kind = IF t = 0 THEN "root" ELSE "none"
               /\ thread[t].kind # "worker" => thread'[t].life = thread[t].life
    <2>1. thread[t] \in [kind : {"none", "root", "worker"}, life : Nat]
      BY <1>0 DEF PrivateTypes
    <2>2. PICK k \in {"none", "root", "worker"} : k = IF t = 0 THEN "root" ELSE "none"
      OBVIOUS
    <2>3. PICK n \in Nat : n = IF thread[t].kind = "worker" THEN thread[t].life + MaxGtid + 1 ELSE thread[t].life
      <3>1. thread[t].life \in Nat
        BY <2>1
      <3> QED BY <3>1, ThreadPrivateAssumption
    <2>4. thread'[t] = [thread[t] EXCEPT !.kind = k, !.life = n]
      BY <2>2, <2>3 DEF Shutdown
    <2>5. thread'[t] = [kind |-> k, life |-> n]
      BY <2>1, <2>4
    <2> QED BY <2>2, <2>3, <2>5
  <1>3. PrivateTypes'
    <2>1. thread' \in [Gtid -> [kind : {"none", "root", "worker"}, life : Nat]]
      <3>1. thread' = [t \in Gtid |-> thread'[t]]
        BY DEF Shutdown
      <3> QED BY <1>2, <3>1
    <2> QED BY <1>0, <1>1, <2>1 DEF PrivateTypes
  <1>4. Kinds'
    BY <1>0, <1>1, <1>2 DEF Kinds
  <1>5. ResizingRight'
    BY <1>1 DEF ResizingRight
  <1>6. ASSUME NEW v \in Vars PROVE CacheRight(v)' /\ OriginalRight(v)'
    <2>1. CacheRight(v)'
      BY <1>1 DEF CacheRight
    <2>2. Original(v)' = Original(v) /\ Original(v).gtid = 0 /\ OriginalRight(v)
      BY DEF PrivateInv, Original
    <2>3. ASSUME NEW t \in Gtid, thread[t].kind = "worker" PROVE Original(v) \notin Destroyed(t)
      <3>1. t # 0
        BY <1>0, <2>3 DEF Kinds
      <3> QED BY <2>2, <3>1, OwnAddresses DEF Destroyed
    <2>4. value'[Original(v)] = value[Original(v)] /\ Original(v) \in DOMAIN value'
      BY <2>2, <2>3 DEF OriginalRight, Shutdown
    <2>5. ends' > 0 /\ shared'[v] = Nowhere
      BY <1>0, <1>1 DEF PrivateTypes
    <2> QED BY <2>1, <2>2, <2>4, <2>5 DEF OriginalRight
  <1>7. ASSUME NEW t \in Gtid PROVE OwnRight(t)' /\ AccessRight(t)'
    <2>1. own'[t] = {} /\ access'[t].pc = "idle"
      BY <1>1 DEF Resting
    <2> QED BY <2>1 DEF OwnRight, AccessRight
  <1> QED BY <1>3, <1>4, <1>5, <1>6, <1>7 DEF PrivateInv

-----------------------------------------------------------------------------
(* The theorem.                                                             *)

LEMMA PrivateBeginsRight == PrivateInit => PrivateInv
  <1> SUFFICES ASSUME PrivateInit PROVE PrivateInv
    OBVIOUS
  <1>0. 0 \in Gtid /\ \A t \in Gtid : t \in Nat
    BY ThreadPrivateAssumption DEF Gtid
  <1>1. PrivateTypes
    <2>1. access \in Accesses
      BY DEF PrivateInit, Accesses, Resting, Pcs
    <2> QED BY <1>0, <2>1, ThreadPrivateAssumption DEF PrivateInit, PrivateTypes
  <1>2. Kinds
    BY <1>0, ThreadPrivateAssumption DEF PrivateInit, Kinds
  <1>3. ResizingRight
    BY DEF PrivateInit, ResizingRight
  <1>4. ASSUME NEW v \in Vars PROVE CacheRight(v) /\ OriginalRight(v)
    <2>1. CacheRight(v)
      BY DEF PrivateInit, CacheRight
    <2>2. Original(v) \in DOMAIN value /\ value[Original(v)] = "initial" /\ shared[v] = Nowhere
      BY DEF PrivateInit
    <2> QED BY <2>1, <2>2 DEF OriginalRight
  <1>5. ASSUME NEW t \in Gtid PROVE OwnRight(t) /\ AccessRight(t)
    <2>1. own[t] = {} /\ access[t].pc = "idle"
      BY DEF PrivateInit, Resting
    <2> QED BY <2>1 DEF OwnRight, AccessRight
  <1> QED BY <1>1, <1>2, <1>3, <1>4, <1>5 DEF PrivateInv

LEMMA PrivateKeepsRight ==
    ASSUME PrivateInv, ~LeaveAfterUse, [PrivateNext]_privateVars
    PROVE  PrivateInv'
  <1>1. ASSUME UNCHANGED privateVars PROVE PrivateInv'
    <2>1. /\ PrivateTypes' /\ Kinds' /\ \A w : Taken(w) => Taken(w)'
      BY <1>1 DEF PrivateInv, PrivateTypes, Kinds, Taken, Fresh, privateVars
    <2>2. ResizingRight' /\ \A v \in Vars : CacheRight(v)'
      BY <1>1, HeldKept DEF privateVars
    <2> QED BY <1>1, <2>1, <2>2, WorldStep DEF privateVars
  <1> QED BY <1>1, CallKeepsRight, MakeCacheKeepsRight, LookupKeepsRight, FindKeepsRight, InsertKeepsRight,
             ConstructKeepsRight, StoreKeepsRight, UseKeepsRight, AppearKeepsRight, LeaveKeepsRight,
             BeginKeepsRight, CopyKeepsRight, PublishKeepsRight, ShutdownKeepsRight DEF PrivateNext

LEMMA FindsItsOwn == PrivateInv => PrivateDataRight
  <1> SUFFICES ASSUME PrivateInv PROVE PrivateDataRight
    OBVIOUS
  <1>0. PrivateTypes /\ Kinds
    BY DEF PrivateInv
  <1>1. ASSUME NEW t \in Gtid, Reached(t, "returned")
        PROVE  \E v \in Vars : /\ v = access[t].v /\ Mine(t, v, access[t].ret) /\ OwnAddress(t, v) = Home(t, v)
                               /\ t # 0 => access[t].ret \in own[t]
    <2>1. PICK v \in Vars : v = access[t].v /\ Mine(t, v, access[t].ret)
      BY <1>1 DEF PrivateInv, AccessRight, Reached
    <2>2. ~foreignTp /\ ~access[t].active => t = 0
      BY <1>0, <1>1 DEF PrivateInv, AccessRight, Reached, Kinds
    <2>3. OwnAddress(t, v) = Home(t, v)
      BY <1>0, <2>2, InitialThread DEF OwnAddress, Home
    <2> QED BY <2>1, <2>3 DEF Mine
  <1>2. SeparateCopies
    BY <1>1 DEF SeparateCopies, Mine
  <1>3. CacheInRange
    <2> SUFFICES ASSUME NEW t \in Gtid, thread[t].kind # "none", access[t].pc \in {"lookup", "store"}
                 PROVE  InRange(t)
      BY DEF CacheInRange
    <2>1. PICK v \in Vars : v = access[t].v /\ compiler[v] >= 1 /\ compiler[v] # 0 /\ CacheRight(v)
      BY <1>0 DEF PrivateInv, AccessRight
    <2>2. DOMAIN caches[v][compiler[v]] = 0..(capacity - 1)
      BY <1>0, <2>1, NewestCache
    <2>3. t \in 0..(capacity - 1)
      BY <1>0, ThreadPrivateAssumption DEF Kinds, PrivateTypes, Gtid
    <2> QED BY <2>1, <2>2, <2>3 DEF InRange
  <1>4. CopiesInitialised
    <2> SUFFICES ASSUME NEW t \in Gtid, Reached(t, "returned"), ~UsesOriginal(t)
                 PROVE  \/ value[access[t].ret] \in {Fresh(access[t].v), Written(t)}
                        \/ ends > 0 /\ access[t].v \notin objects /\ value[access[t].ret] # "raw"
      BY DEF CopiesInitialised
    <2>1. t # 0 /\ Written(t) = "altered"
      BY <1>0, InitialThread DEF Written
    <2>2. PICK v \in Vars, a \in own[t] : v = access[t].v /\ a = access[t].ret /\ a.of = v
      BY <1>0, <1>1, <2>1, HomeAddress DEF Mine
    <2>3. CopyRight(a)
      BY <2>1 DEF PrivateInv, OwnRight
    <2> QED BY <2>1, <2>2, <2>3 DEF CopyRight
  <1> QED BY <1>2, <1>3, <1>4 DEF PrivateDataRight

(* Whatever the interleaving of lookups, growing caches, new threads and    *)
(* shutdowns, a thread that asks for a threadprivate variable gets the      *)
(* original if it is the initial thread and else its own copy, initialised  *)
(* and not destroyed, and never looks beyond the cache, as long as no root  *)
(* that has copies ends and its gtid is reused (__kmpc_threadprivate_cached *)
(* and __kmp_threadprivate_resize_cache in kmp_threadprivate.cpp).          *)
THEOREM EveryThreadItsOwn == ~LeaveAfterUse => (PrivateSpec => []PrivateDataRight)
  <1> SUFFICES ASSUME ~LeaveAfterUse PROVE PrivateSpec => []PrivateDataRight
    OBVIOUS
  <1>1. PrivateInv /\ [PrivateNext]_privateVars => PrivateInv'
    BY PrivateKeepsRight
  <1> QED BY <1>1, PrivateBeginsRight, FindsItsOwn, PTL DEF PrivateSpec

-----------------------------------------------------------------------------
(* Kinds and sequences.                                                     *)
LEMMA KindFacts ==
    /\ \A k \in Direct : k \notin Nested /\ k \notin Indirect
    /\ \A k \in Nested : k \in Indirect
    /\ \A k \in KeepOwner : k \in Nested
    /\ "nested_tas" \in Nested /\ "nested_tas" \notin KeepOwner
    /\ \A k \in Nested : k = "nested_tas" \/ k \in KeepOwner
  BY DEF Direct, Nested, Indirect, KeepOwner, Simple, Families

LEMMA KindsMade ==
    ASSUME UserTypes, NEW o \in Making, NEW k \in KindsFor(o)
    PROVE  k \in Direct \cup Indirect /\ (k \in Nested <=> o = "initNest")
  <1>1. CASE o = "init"
    <2>1. k \in Simple
      BY <1>1 DEF UserTypes, KindsFor, Simple
    <2> QED BY <1>1, <2>1 DEF Direct, Indirect, Simple, Families, Nested
  <1>2. CASE o = "initNest"
    <2>1. k \in Nested
      BY <1>2 DEF UserTypes, KindsFor, NestedOf, Nested
    <2> QED BY <1>2, <2>1 DEF Indirect
  <1> QED BY <1>1, <1>2 DEF Making

LEMMA TailFacts ==
    ASSUME NEW s \in Seq(Nat), s # <<>>
    PROVE  /\ Tail(s) \in Seq(Nat) /\ Head(s) \in Nat /\ Len(s) > 0 /\ Head(s) = s[1]
           /\ Len(Tail(s)) = Len(s) - 1 /\ \A n \in 1..Len(Tail(s)) : Tail(s)[n] = s[n + 1]
  OBVIOUS

LEMMA ConsFacts ==
    ASSUME NEW s \in Seq(Nat), NEW x \in Nat
    PROVE  /\ <<x>> \o s \in Seq(Nat) /\ Len(<<x>> \o s) = Len(s) + 1
           /\ (<<x>> \o s)[1] = x
           /\ \A n \in 1..Len(<<x>> \o s) : n # 1 => (<<x>> \o s)[n] = s[n - 1]
  OBVIOUS

(* Where the base lock of a lock is.                                        *)
LEMMA NextIsIndex == UserLocksInv => lockTable.next <= made
  <1> SUFFICES ASSUME UserLocksInv PROVE lockTable.next <= made
    OBVIOUS
  <1> DEFINE A == {t \in Caller : routine[t].at = "allocate"}
  <1>1. Cardinality(A) \in Nat
    BY FS_Subset, FS_CardinalityType, UserLocksAssumption
  <1> HIDE DEF A
  <1>2. lockTable.next + Cardinality(A) <= made
    BY DEF A, UserLocksInv, EntriesLeft
  <1> QED BY <1>1, <1>2 DEF UserLocksInv, UserTypes

LEMMA PlacesApart ==
    ASSUME UserLocksInv, NEW l \in Lock, word[l] # Nil
    PROVE  /\ Place(l) \in Lock \cup Index
           /\ \A m \in Lock : word[m] # Nil /\ m # l => Place(m) # Place(l)
  <1>1. \A m \in Lock : word[m] # Nil =>
          \/ word[m].kind \in Direct /\ Place(m) = m
          \/ /\ word[m].kind \in Indirect /\ Place(m) = word[m].index
             /\ EntryOf(m, word[m].index) /\ word[m].index \in Index
    <2> SUFFICES ASSUME NEW m \in Lock, word[m] # Nil, word[m].kind \notin Direct
                 PROVE  /\ word[m].kind \in Indirect /\ Place(m) = word[m].index
                        /\ EntryOf(m, word[m].index) /\ word[m].index \in Index
      BY DEF Place
    <2>1. word[m].kind \in Indirect /\ word[m].index \in Nat
      BY DEF UserLocksInv, UserTypes
    <2>2. EntryOf(m, word[m].index)
      BY <2>1 DEF EntryOf
    <2>3. word[m].index < lockTable.next /\ lockTable.next \in Nat /\ made \in 0..MaxMade
      BY <2>1, <2>2 DEF UserLocksInv, EntriesApart, UserTypes
    <2>4. word[m].index \in Index
      BY <2>1, <2>3, NextIsIndex, UserLocksAssumption DEF Index
    <2> QED BY <2>1, <2>2, <2>4 DEF Place
  <1>2. \A m \in Lock : EntryOf(m, word[l].index) /\ EntryOf(l, word[l].index) => m = l
    BY DEF UserLocksInv, EntriesApart, UserTypes
  <1> QED BY <1>1, <1>2, UserLocksAssumption DEF EntryOf

LEMMA InUse ==
    ASSUME UserLocksInv, NEW t \in Caller,
           routine[t].at \notin {"idle", "allocate", "initialize", "done"}
    PROVE  /\ routine[t].lock \in Lock /\ word[routine[t].lock] # Nil
           /\ Made(routine[t].lock) /\ Loc(t) \in Lock \cup Index
           /\ word[routine[t].lock].kind \in Direct \cup Indirect
           /\ base[Loc(t)] \in BaseLock
           /\ BaseRight(routine[t].lock, Word(t), base[Loc(t)], routine[base[Loc(t)].holder])
           /\ BaseFor(t, routine[t], Word(t), base[Loc(t)])
           /\ WordFor(routine[t], Word(t))
  <1> DEFINE l == routine[t].lock
  <1>1. l \in Lock /\ word[l] # Nil
    BY DEF UserLocksInv, WordsRight, WordFor
  <1>2. Loc(t) \in Lock \cup Index
    BY <1>1, PlacesApart DEF Loc
  <1>3. ASSUME NEW u \in Caller, routine[u].lock = l, routine[u].at = "initialize" PROVE FALSE
    <2>1. routine[u].op \in Making
      BY <1>3 DEF UserLocksInv, WordsRight, WordFor
    <2>2. u # t /\ l # Nil
      BY <1>1, <1>3, UserLocksAssumption
    <2> QED BY <1>3, <2>1, <2>2 DEF UserLocksInv, MadeAlone
  <1>4. Made(l)
    BY <1>1, <1>3 DEF Made
  <1>5. word[l].kind \in Direct \cup Indirect /\ base[Loc(t)] \in BaseLock
    BY <1>1, <1>2 DEF UserLocksInv, UserTypes
  <1>6. BaseRight(l, Word(t), base[Loc(t)], routine[base[Loc(t)].holder])
    BY <1>1, <1>4 DEF UserLocksInv, BasesRight, Word, Loc
  <1>7. BaseFor(t, routine[t], Word(t), base[Loc(t)]) /\ WordFor(routine[t], Word(t))
    BY DEF UserLocksInv, RoutinesRight, WordsRight, Word, Loc
  <1> QED BY <1>1, <1>2, <1>4, <1>5, <1>6, <1>7

-----------------------------------------------------------------------------
(* A step of a routine that works on a lock: it changes the record of the   *)
(* routine and at most the base lock, which nobody else then holds.         *)
LEMMA BaseStep ==
    ASSUME NEW t \in Caller, NEW rn \in Routine, NEW bn \in BaseLock, UserLocksInv,
           routine[t].at \notin {"idle", "allocate", "initialize", "done"},
           rn.lock = routine[t].lock, rn.op = routine[t].op,
           rn.at \notin {"idle", "allocate", "initialize"},
           routine' = [routine EXCEPT ![t] = rn], base' = [base EXCEPT ![Loc(t)] = bn],
           UNCHANGED <<word, lockTable, lockPool, made, family>>,
           bn = base[Loc(t)] \/ {base[Loc(t)].holder, bn.holder} \subseteq {Nil, t},
           WordFor(rn, Word(t)), rn.at # "done" => BaseFor(t, rn, Word(t), bn),
           BaseRight(rn.lock, Word(t), bn, routine'[bn.holder])
    PROVE  /\ UserLocksInv'
           /\ \A m \in Lock : m # rn.lock => AbstractLock(m)' = AbstractLock(m)
           /\ Made(rn.lock)' /\ base'[Place(rn.lock)'] = bn
  <1> DEFINE l == routine[t].lock
  <1>1. /\ l \in Lock /\ word[l] # Nil /\ Made(l) /\ Loc(t) \in Lock \cup Index
        /\ word[l].kind \in Direct \cup Indirect
    BY InUse
  <1>2. /\ routine'[t] = rn /\ \A u \in Caller : u # t => routine'[u] = routine[u]
        /\ routine' \in [Caller -> Routine]
    BY DEF UserLocksInv, UserTypes
  <1>3. /\ base'[Loc(t)] = bn /\ base' \in [Lock \cup Index -> BaseLock]
        /\ \A x \in Lock \cup Index : x # Loc(t) => base'[x] = base[x]
    BY <1>1 DEF UserLocksInv, UserTypes
  <1>4. \A m \in Lock : Place(m)' = Place(m)
    BY DEF Place
  <1>5. \A m \in Lock : Made(m)' <=> Made(m)
    BY <1>2 DEF Made
  <1>6. \A m \in Lock : word[m] # Nil /\ m # l => base'[Place(m)'] = base[Place(m)]
    BY <1>1, <1>3, <1>4, PlacesApart DEF Loc
  <1>7. \A m \in Lock : m # l => AbstractLock(m)' = AbstractLock(m)
    <2> SUFFICES ASSUME NEW m \in Lock, m # l PROVE AbstractLock(m)' = AbstractLock(m)
      OBVIOUS
    <2>1. CASE Made(m)
      BY <2>1, <1>5, <1>6 DEF AbstractLock, Made
    <2>2. CASE ~Made(m)
      BY <2>2, <1>5 DEF AbstractLock
    <2> QED BY <2>1, <2>2
  <1>8. UserTypes'
    BY <1>2, <1>3 DEF UserLocksInv, UserTypes
  <1>9. MadeAlone'
    <2>1. \A u \in Caller : routine'[u].lock = routine[u].lock /\ routine'[u].op = routine[u].op
      BY <1>2
    <2> QED BY <2>1 DEF UserLocksInv, MadeAlone
  <1>10. EntriesLeft'
    <2>1. {u \in Caller : routine'[u].at = "allocate"} = {u \in Caller : routine[u].at = "allocate"}
      BY <1>2
    <2> QED BY <2>1 DEF UserLocksInv, EntriesLeft
  <1>11. EntriesApart'
    BY DEF UserLocksInv, EntriesApart, EntryOf
  <1>12. WordsRight'
    BY <1>2 DEF UserLocksInv, WordsRight, Word
  <1>13. RoutinesRight'
    <2> SUFFICES ASSUME NEW u \in Caller, routine'[u].at \notin {"idle", "allocate", "initialize", "done"}
                 PROVE  BaseFor(u, routine[u], word[routine[u].lock], base[Place(routine[u].lock)])'
      BY DEF RoutinesRight
    <2>1. CASE u = t
      <3>1. base'[Place(l)'] = bn /\ routine'[t] = rn
        BY <1>1, <1>2, <1>3, <1>4 DEF Loc
      <3>2. BaseFor(t, rn, word[l], bn)
        BY <1>2, <2>1 DEF Word
      <3> QED BY <2>1, <3>1, <3>2 DEF BaseFor
    <2>2. CASE u # t
      <3> DEFINE r == routine[u]
      <3>1. routine'[u] = r
        BY <1>2, <2>2
      <3>2. /\ r.lock \in Lock /\ word[r.lock] # Nil
            /\ BaseFor(u, r, word[r.lock], base[Place(r.lock)])
        BY <3>1, InUse DEF Word, Loc
      <3>3. CASE r.lock # l \/ bn = base[Loc(t)]
        <4>1. base'[Place(r.lock)'] = base[Place(r.lock)]
          BY <1>1, <1>3, <1>4, <1>6, <3>2, <3>3 DEF Loc
        <4> QED BY <3>1, <3>2, <4>1 DEF BaseFor
      <3>4. CASE r.lock = l /\ bn # base[Loc(t)]
        <4>1. base'[Place(r.lock)'] = bn /\ Place(r.lock) = Loc(t)
          BY <1>1, <1>3, <1>4, <3>4 DEF Loc
        <4>2. base[Loc(t)].holder # u /\ bn.holder # u /\ u # Nil
          BY <2>2, <3>4, UserLocksAssumption
        <4>3. r.op # "destroy" /\ r.op # "unset" /\ r.at \notin {"depth", "own"}
          <5>1. r.op # "destroy"
            BY <1>1, <2>2, <3>4, UserLocksAssumption DEF UserLocksInv, MadeAlone
          <5>2. r.op # "unset" /\ r.at \notin {"depth", "own"}
            BY <3>1, <3>2, <4>1, <4>2 DEF BaseFor
          <5> QED BY <5>1, <5>2
        <4>4. r.at \notin {"undepth", "disown", "release"}
          BY <4>3 DEF UserLocksInv, WordsRight, WordFor
        <4>5. BaseFor(u, r, word[r.lock], bn)
          BY <4>2, <4>3, <4>4 DEF BaseFor
        <4> QED BY <3>1, <4>1, <4>5 DEF BaseFor
      <3> QED BY <3>3, <3>4
    <2> QED BY <2>1, <2>2
  <1>14. BasesRight'
    <2> SUFFICES ASSUME NEW m \in Lock, Made(m)' PROVE BaseRight(m, word[m], base[Place(m)], routine[base[Place(m)].holder])'
      BY DEF BasesRight
    <2>1. CASE m = l
      <3>1. base'[Place(l)'] = bn /\ word' = word
        BY <1>1, <1>3, <1>4 DEF Loc
      <3>2. BaseRight(l, word[l], bn, routine'[bn.holder])
        BY DEF Word
      <3> QED BY <2>1, <3>1, <3>2 DEF BaseRight, Moving
    <2>2. CASE m # l
      <3>1. word[m] # Nil /\ base'[Place(m)'] = base[Place(m)] /\ word' = word
        BY <2>2, <1>6 DEF Made
      <3>2. BaseRight(m, word[m], base[Place(m)], routine[base[Place(m)].holder])
        BY <1>5 DEF UserLocksInv, BasesRight
      <3>3. base[Place(m)].holder \in Caller \cup {Nil}
        <4>1. Place(m) \in Lock \cup Index
          BY <3>1, PlacesApart
        <4> QED BY <4>1 DEF UserLocksInv, UserTypes, BaseLock
      <3>4. base[Place(m)].holder # Nil =>
              (Moving(routine'[base[Place(m)].holder], m) <=> Moving(routine[base[Place(m)].holder], m))
        BY <1>2, <2>2, <3>3 DEF Moving
      <3> HIDE DEF l
      <3> QED BY <3>1, <3>2, <3>4 DEF BaseRight, Moving
    <2> QED BY <2>1, <2>2
  <1>15. UserLocksInv'
    BY <1>8, <1>9, <1>10, <1>11, <1>12, <1>13, <1>14 DEF UserLocksInv
  <1> QED BY <1>1, <1>3, <1>4, <1>5, <1>7, <1>15 DEF Loc

-----------------------------------------------------------------------------
(* The locks and the calls as the program sees them.                        *)
AbsLocks == [l \in Lock |-> AbstractLock(l)]
AbsCalls == [t \in Caller |-> AbstractCall(t)]
LockState(nest, owner, count) == [nest |-> nest, owner |-> owner, count |-> count]
Seen(w, b) == LockState(w.kind \in Nested, b.holder,
                        IF b.holder = Nil THEN 0 ELSE IF b.depth = 0 THEN 1 ELSE b.depth)
Done(result) == [at |-> "done", result |-> result]
Called(l, o) == [at |-> "called", lock |-> l, op |-> o]
CallOf(r) == CASE r.at = "idle" -> [at |-> "idle"]
               [] r.at \in {"depth", "own", "done"} -> Done(r.result)
               [] OTHER -> Called(r.lock, r.op)

LEMMA SeenIsSomething ==
    ASSUME NEW b \in BaseLock, NEW w PROVE Seen(w, b) # Nil
  <1>1. Seen(w, b) \in [nest : BOOLEAN, owner : Caller \cup {Nil}, count : Nat]
    BY DEF Seen, LockState, BaseLock
  <1> QED BY <1>1, UserLocksAssumption

LEMMA SeenFields ==
    \A w, b : /\ Seen(w, b).nest <=> w.kind \in Nested
              /\ Seen(w, b).owner = b.holder
              /\ Seen(w, b).count = IF b.holder = Nil THEN 0 ELSE IF b.depth = 0 THEN 1 ELSE b.depth
  BY Zenon DEF Seen, LockState

LEMMA MadeIsSeen ==
    ASSUME UserLocksInv, NEW l \in Lock
    PROVE  /\ Made(l) => AbsLocks[l] = Seen(word[l], base[Place(l)]) /\ AbsLocks[l] # Nil
           /\ ~Made(l) => AbsLocks[l] = Nil
  <1>1. Made(l) => AbstractLock(l) = Seen(word[l], base[Place(l)])
    BY DEF AbstractLock, Seen, LockState
  <1>2. Made(l) => base[Place(l)] \in BaseLock
    <2>1. Made(l) => Place(l) \in Lock \cup Index
      BY PlacesApart DEF Made
    <2> QED BY <2>1 DEF UserLocksInv, UserTypes
  <1> QED BY <1>1, <1>2, SeenIsSomething DEF AbsLocks, AbstractLock

LEMMA CallsChange ==
    ASSUME NEW t \in Caller, NEW rn, UserTypes, routine' = [routine EXCEPT ![t] = rn]
    PROVE  /\ AbsCalls' = [AbsCalls EXCEPT ![t] = CallOf(rn)] /\ AbsCalls[t] = CallOf(routine[t])
  <1>1. \A u \in Caller : u # t => routine'[u] = routine[u]
    BY DEF UserTypes
  <1>2. routine'[t] = rn
    BY DEF UserTypes
  <1>3. \A u \in Caller : AbstractCall(u) = CallOf(routine[u])
    BY DEF AbstractCall, CallOf, Done, Called
  <1>4. \A u \in Caller : AbstractCall(u)' = CallOf(routine'[u])
    BY DEF AbstractCall, CallOf, Done, Called
  <1> QED BY <1>1, <1>2, <1>3, <1>4 DEF AbsCalls

LEMMA LocksChange ==
    ASSUME NEW l \in Lock, \A m \in Lock : m # l => AbstractLock(m)' = AbstractLock(m)
    PROVE  AbsLocks' = [AbsLocks EXCEPT ![l] = AbstractLock(l)']
  BY DEF AbsLocks

LEMMA OnLock ==
    ASSUME NEW t \in Caller, NEW rn \in Routine, NEW bn \in BaseLock, UserLocksInv,
           routine[t].at \notin {"idle", "allocate", "initialize", "done"},
           rn.lock = routine[t].lock, rn.op = routine[t].op,
           rn.at \notin {"idle", "allocate", "initialize"},
           routine' = [routine EXCEPT ![t] = rn], base' = [base EXCEPT ![Loc(t)] = bn],
           UNCHANGED <<word, lockTable, lockPool, made, family>>,
           bn = base[Loc(t)] \/ {base[Loc(t)].holder, bn.holder} \subseteq {Nil, t},
           WordFor(rn, Word(t)), rn.at # "done" => BaseFor(t, rn, Word(t), bn),
           BaseRight(rn.lock, Word(t), bn, routine'[bn.holder])
    PROVE  /\ UserLocksInv' /\ rn.lock \in Lock
           /\ AbsLocks[rn.lock] = Seen(Word(t), base[Loc(t)])
           /\ AbsLocks' = [AbsLocks EXCEPT ![rn.lock] = Seen(Word(t), bn)]
           /\ AbsCalls[t] = CallOf(routine[t]) /\ AbsCalls' = [AbsCalls EXCEPT ![t] = CallOf(rn)]
  <1>1. /\ UserLocksInv' /\ Made(rn.lock)' /\ base'[Place(rn.lock)'] = bn
        /\ \A m \in Lock : m # rn.lock => AbstractLock(m)' = AbstractLock(m)
    BY BaseStep
  <1>2. rn.lock \in Lock /\ Made(rn.lock)
    BY InUse
  <1>3. AbsLocks[rn.lock] = Seen(Word(t), base[Loc(t)])
    BY <1>2, MadeIsSeen DEF Word, Loc
  <1>4. AbstractLock(rn.lock)' = Seen(Word(t), bn)
    BY <1>1 DEF AbstractLock, Seen, LockState, Word
  <1>5. AbsLocks' = [AbsLocks EXCEPT ![rn.lock] = AbstractLock(rn.lock)']
    BY <1>1, <1>2, LocksChange
  <1>6. UserTypes
    BY DEF UserLocksInv
  <1> QED BY <1>1, <1>2, <1>3, <1>4, <1>5, <1>6, CallsChange

(* The same step when the program sees nothing of it.                       *)
LEMMA Stutters ==
    ASSUME NEW l \in Lock, NEW t \in Caller, AbsLocks' = [AbsLocks EXCEPT ![l] = AbsLocks[l]],
           AbsCalls' = [AbsCalls EXCEPT ![t] = AbsCalls[t]]
    PROVE  UNCHANGED Interface!vars
  <1>1. AbsLocks' = AbsLocks /\ AbsCalls' = AbsCalls
    BY DEF AbsLocks, AbsCalls
  <1> QED BY <1>1 DEF AbsLocks, AbsCalls, Interface!vars

LEMMA AcquireSeen ==
    ASSUME NEW l \in Lock, NEW t \in Caller, NEW o \in {"set", "test"},
           AbsCalls[t] = Called(l, o), AbsLocks[l].owner = Nil,
           AbsLocks' = [AbsLocks EXCEPT ![l] = LockState(AbsLocks[l].nest, t, 1)],
           AbsCalls' = [AbsCalls EXCEPT ![t] = Done(1)]
    PROVE  Interface!Next
  <1>1. AbsCalls[t].at = "called" /\ AbsCalls[t].lock = l /\ AbsCalls[t].op = o
    BY DEF Called
  <1>2. Interface!Calls(t, {"set", "test"})
    BY <1>1 DEF AbsCalls, Interface!Calls
  <1>3. Interface!Acquire(t)
    BY <1>1 DEF AbsLocks, AbsCalls, Done, Interface!Acquire, Interface!Finish, Interface!Become,
                 Interface!LockState, LockState
  <1> QED BY <1>2, <1>3 DEF Interface!Next

LEMMA ReacquireSeen ==
    ASSUME NEW l \in Lock, NEW t \in Caller, NEW o \in {"set", "test"},
           AbsCalls[t] = Called(l, o), AbsLocks[l].owner = t, AbsLocks[l].nest,
           AbsLocks' = [AbsLocks EXCEPT ![l] = LockState(AbsLocks[l].nest, t, AbsLocks[l].count + 1)],
           AbsCalls' = [AbsCalls EXCEPT ![t] = Done(IF o = "set" THEN 0 ELSE AbsLocks[l].count + 1)]
    PROVE  Interface!Next
  <1>1. AbsCalls[t].at = "called" /\ AbsCalls[t].lock = l /\ AbsCalls[t].op = o
    BY DEF Called
  <1>2. Interface!Calls(t, {"set", "test"})
    BY <1>1 DEF AbsCalls, Interface!Calls
  <1>3. Interface!Reacquire(t)
    BY <1>1 DEF AbsLocks, AbsCalls, Done, Interface!Reacquire, Interface!Finish, Interface!Become,
                 Interface!LockState, LockState
  <1> QED BY <1>2, <1>3 DEF Interface!Next

LEMMA RefuseSeen ==
    ASSUME NEW l \in Lock, NEW t \in Caller, AbsCalls[t] = Called(l, "test"),
           AbsLocks[l].owner # Nil, AbsLocks[l].nest => AbsLocks[l].owner # t,
           AbsLocks' = AbsLocks, AbsCalls' = [AbsCalls EXCEPT ![t] = Done(0)]
    PROVE  Interface!Next
  <1>1. AbsCalls[t].at = "called" /\ AbsCalls[t].lock = l /\ AbsCalls[t].op = "test"
    BY DEF Called
  <1>2. Interface!Calls(t, {"test"})
    BY <1>1 DEF AbsCalls, Interface!Calls
  <1>3. Interface!Refuse(t)
    BY <1>1 DEF AbsLocks, AbsCalls, Done, Interface!Refuse, Interface!Finish
  <1> QED BY <1>2, <1>3 DEF Interface!Next

LEMMA ReleaseSeen ==
    ASSUME NEW l \in Lock, NEW t \in Caller, NEW last \in BOOLEAN,
           AbsCalls[t] = Called(l, "unset"), AbsLocks[l].owner = t, last <=> AbsLocks[l].count = 1,
           AbsLocks' = [AbsLocks EXCEPT ![l] =
               IF last THEN LockState(AbsLocks[l].nest, Nil, 0)
               ELSE LockState(AbsLocks[l].nest, t, AbsLocks[l].count - 1)],
           AbsCalls' = [AbsCalls EXCEPT ![t] = Done(IF last THEN 1 ELSE 0)]
    PROVE  Interface!Next
  <1>1. AbsCalls[t].at = "called" /\ AbsCalls[t].lock = l /\ AbsCalls[t].op = "unset"
    BY DEF Called
  <1>2. Interface!Calls(t, {"unset"})
    BY <1>1 DEF AbsCalls, Interface!Calls
  <1>3. Interface!Release(t)
    BY <1>1 DEF AbsLocks, AbsCalls, Done, Interface!Release, Interface!Finish, Interface!Become, Interface!LockState, LockState
  <1> QED BY <1>2, <1>3 DEF Interface!Next

LEMMA MakeSeen ==
    ASSUME NEW l \in Lock, NEW t \in Caller, NEW o \in Making,
           AbsCalls[t] = Called(l, o),
           AbsLocks' = [AbsLocks EXCEPT ![l] = LockState(o = "initNest", Nil, 0)],
           AbsCalls' = [AbsCalls EXCEPT ![t] = Done(0)]
    PROVE  Interface!Next
  <1>1. AbsCalls[t].at = "called" /\ AbsCalls[t].lock = l /\ AbsCalls[t].op = o
    BY DEF Called
  <1>2. Interface!Calls(t, {"init", "initNest"})
    BY <1>1 DEF AbsCalls, Interface!Calls, Making
  <1>3. Interface!Make(t)
    BY <1>1, <1>2 DEF AbsLocks, AbsCalls, Done, Interface!Make, Interface!Finish, Interface!Become, Interface!LockState, LockState
  <1> QED BY <1>2, <1>3 DEF Interface!Next

LEMMA DestroySeen ==
    ASSUME NEW l \in Lock, NEW t \in Caller, AbsCalls[t] = Called(l, "destroy"),
           AbsLocks' = [AbsLocks EXCEPT ![l] = Nil], AbsCalls' = [AbsCalls EXCEPT ![t] = Done(0)]
    PROVE  Interface!Next
  <1>1. AbsCalls[t].at = "called" /\ AbsCalls[t].lock = l /\ AbsCalls[t].op = "destroy"
    BY DEF Called
  <1>2. Interface!Calls(t, {"destroy"})
    BY <1>1 DEF AbsCalls, Interface!Calls
  <1>3. Interface!Destroy(t)
    BY <1>1, <1>2 DEF AbsLocks, AbsCalls, Done, Interface!Destroy, Interface!Finish, Interface!Become
  <1> QED BY <1>2, <1>3 DEF Interface!Next

-----------------------------------------------------------------------------
(* The steps that leave the base lock alone.                                *)
LEMMA Quiet ==
    ASSUME NEW t \in Caller, NEW rn \in Routine, UserLocksInv,
           routine[t].at \in {"lookup", "entry", "found", "base", "undepth"},
           rn.lock = routine[t].lock, rn.op = routine[t].op,
           rn.at \notin {"idle", "allocate", "initialize"},
           routine' = [routine EXCEPT ![t] = rn],
           UNCHANGED <<word, base, lockTable, lockPool, made, family>>,
           WordFor(rn, Word(t)), rn.at # "done" => BaseFor(t, rn, Word(t), base[Loc(t)])
    PROVE  /\ UserLocksInv' /\ rn.lock \in Lock
           /\ AbsLocks[rn.lock] = Seen(Word(t), base[Loc(t)])
           /\ AbsLocks' = [AbsLocks EXCEPT ![rn.lock] = Seen(Word(t), base[Loc(t)])]
           /\ AbsCalls[t] = CallOf(routine[t]) /\ AbsCalls' = [AbsCalls EXCEPT ![t] = CallOf(rn)]
  <1>1. PICK bn : bn = base[Loc(t)]
    OBVIOUS
  <1>2. /\ bn \in BaseLock /\ BaseRight(rn.lock, Word(t), bn, routine[bn.holder])
        /\ Loc(t) \in Lock \cup Index
    BY <1>1, InUse
  <1>3. base' = [base EXCEPT ![Loc(t)] = bn]
    BY <1>1, <1>2 DEF UserLocksInv, UserTypes
  <1>4. routine'[t] = rn /\ \A u \in Caller : u # t => routine'[u] = routine[u]
    BY DEF UserLocksInv, UserTypes
  <1>6. BaseRight(rn.lock, Word(t), bn, routine'[bn.holder])
    <2>1. bn.holder # Nil /\ ~Moving(routine'[bn.holder], rn.lock) => ~Moving(routine[bn.holder], rn.lock)
      BY <1>2, <1>4 DEF Moving, BaseLock
    <2> QED BY <1>1, <1>2, <2>1 DEF BaseRight
  <1>7. /\ rn.at # "done" => BaseFor(t, rn, Word(t), bn)
        /\ bn = base[Loc(t)] \/ {base[Loc(t)].holder, bn.holder} \subseteq {Nil, t}
    BY <1>1
  <1>8. /\ routine[t].at \notin {"idle", "allocate", "initialize", "done"}
        /\ UNCHANGED <<word, lockTable, lockPool, made, family>> /\ bn \in BaseLock
    BY <1>2
  <1>9. /\ UserLocksInv' /\ rn.lock \in Lock
        /\ AbsLocks[rn.lock] = Seen(Word(t), base[Loc(t)])
        /\ AbsLocks' = [AbsLocks EXCEPT ![rn.lock] = Seen(Word(t), bn)]
        /\ AbsCalls[t] = CallOf(routine[t]) /\ AbsCalls' = [AbsCalls EXCEPT ![t] = CallOf(rn)]
    BY <1>3, <1>6, <1>7, <1>8, OnLock
  <1> QED BY <1>1, <1>9

LEMMA LookUpStep ==
    ASSUME NEW t \in Caller, UserLocksInv, LookUp(t) \/ LookUpEntry(t)
    PROVE  UserLocksInv' /\ UNCHANGED Interface!vars
  <1>1. PICK rn : \/ LookUp(t) /\ rn = [routine[t] EXCEPT !.row = lockTable.version, !.at = "entry"]
                  \/ LookUpEntry(t) /\ rn = [routine[t] EXCEPT !.row = 0,
                       !.at = IF routine[t].row = lockTable.version THEN "found" ELSE "lost"]
    OBVIOUS
  <1>2. routine[t] \in Routine /\ routine[t].at \in {"lookup", "entry"}
    BY DEF UserLocksInv, UserTypes, LookUp, LookUpEntry, InRoutine
  <1>3. /\ rn.lock = routine[t].lock /\ rn.op = routine[t].op /\ rn.result = routine[t].result
        /\ rn.at \in {"entry", "found", "lost"} /\ rn \in Routine
    <2>1. lockTable.version \in Nat
      BY DEF UserLocksInv, UserTypes
    <2>2. CASE rn = [routine[t] EXCEPT !.row = lockTable.version, !.at = "entry"]
      BY <1>2, <2>1, <2>2 DEF Routine, Places
    <2>3. CASE rn = [routine[t] EXCEPT !.row = 0,
                       !.at = IF routine[t].row = lockTable.version THEN "found" ELSE "lost"]
      <3>1. PICK at \in {"found", "lost"} : rn = [routine[t] EXCEPT !.row = 0, !.at = at]
        BY <2>3
      <3> QED BY <1>2, <3>1 DEF Routine, Places
    <2> QED BY <1>1, <2>2, <2>3
  <1>4. routine' = [routine EXCEPT ![t] = rn]
    BY <1>1 DEF LookUp, LookUpEntry, UserLocksInv, UserTypes
  <1>5. WordFor(rn, Word(t)) /\ BaseFor(t, rn, Word(t), base[Loc(t)])
    <2>1. WordFor(routine[t], Word(t)) /\ BaseFor(t, routine[t], Word(t), base[Loc(t)])
      BY <1>2, InUse
    <2> QED BY <1>2, <1>3, <2>1 DEF WordFor, BaseFor
  <1>6. UNCHANGED <<word, base, lockTable, lockPool, made, family>>
    BY DEF LookUp, LookUpEntry
  <1>7. /\ UserLocksInv' /\ rn.lock \in Lock
        /\ AbsLocks[rn.lock] = Seen(Word(t), base[Loc(t)])
        /\ AbsLocks' = [AbsLocks EXCEPT ![rn.lock] = Seen(Word(t), base[Loc(t)])]
        /\ AbsCalls[t] = CallOf(routine[t]) /\ AbsCalls' = [AbsCalls EXCEPT ![t] = CallOf(rn)]
    BY <1>2, <1>3, <1>4, <1>5, <1>6, Quiet
  <1>8. CallOf(rn) = CallOf(routine[t])
    BY <1>2, <1>3 DEF CallOf
  <1> QED BY <1>7, <1>8, Stutters

LEMMA BeginSimpleStep ==
    ASSUME NEW t \in Caller, UserLocksInv, BeginSimple(t)
    PROVE  UserLocksInv' /\ UNCHANGED Interface!vars
  <1>1. PICK rn : rn = [routine[t] EXCEPT !.at = IF routine[t].op = "unset" THEN "release" ELSE "base"]
    OBVIOUS
  <1>2. /\ routine[t] \in Routine /\ routine[t].at = "found" /\ Word(t).kind \notin Nested
        /\ routine[t].op \in {"set", "test", "unset"}
    BY DEF UserLocksInv, UserTypes, BeginSimple, InRoutine, Nests
  <1>3. /\ rn.lock = routine[t].lock /\ rn.op = routine[t].op /\ rn.result = routine[t].result
        /\ rn.at = (IF routine[t].op = "unset" THEN "release" ELSE "base") /\ rn \in Routine
    BY <1>1, <1>2 DEF Routine, Places
  <1>4. routine' = [routine EXCEPT ![t] = rn]
    BY <1>1 DEF BeginSimple, Continue, UserLocksInv, UserTypes
  <1>5. WordFor(rn, Word(t)) /\ BaseFor(t, rn, Word(t), base[Loc(t)])
    <2>1. /\ WordFor(routine[t], Word(t)) /\ BaseFor(t, routine[t], Word(t), base[Loc(t)])
          /\ BaseRight(routine[t].lock, Word(t), base[Loc(t)], routine[base[Loc(t)].holder])
      BY <1>2, InUse
    <2>2. Word(t).kind \notin KeepOwner
      BY <1>2, KindFacts
    <2> QED BY <1>2, <1>3, <2>1, <2>2 DEF WordFor, BaseFor, BaseRight
  <1>6. UNCHANGED <<word, base, lockTable, lockPool, made, family>>
    BY DEF BeginSimple
  <1>7. /\ UserLocksInv' /\ rn.lock \in Lock
        /\ AbsLocks[rn.lock] = Seen(Word(t), base[Loc(t)])
        /\ AbsLocks' = [AbsLocks EXCEPT ![rn.lock] = Seen(Word(t), base[Loc(t)])]
        /\ AbsCalls[t] = CallOf(routine[t]) /\ AbsCalls' = [AbsCalls EXCEPT ![t] = CallOf(rn)]
    BY <1>2, <1>3, <1>4, <1>5, <1>6, Quiet
  <1>8. CallOf(rn) = CallOf(routine[t])
    BY <1>2, <1>3 DEF CallOf
  <1> QED BY <1>7, <1>8, Stutters

LEMMA TestFailsStep ==
    ASSUME NEW t \in Caller, UserLocksInv, TestFails(t)
    PROVE  UserLocksInv' /\ Interface!Next
  <1>1. PICK rn : rn = [routine[t] EXCEPT !.at = "done", !.result = 0]
    OBVIOUS
  <1>2. /\ routine[t] \in Routine /\ routine[t].at = "base" /\ routine[t].op = "test"
        /\ base[Loc(t)].holder # Nil
    BY DEF UserLocksInv, UserTypes, TestFails, InRoutine
  <1>3. /\ rn.lock = routine[t].lock /\ rn.op = routine[t].op /\ rn.result = 0
        /\ rn.at = "done" /\ rn \in Routine
    BY <1>1, <1>2 DEF Routine, Places
  <1>4. routine' = [routine EXCEPT ![t] = rn]
    BY <1>1 DEF TestFails, DoneWith, UserLocksInv, UserTypes
  <1>5. WordFor(rn, Word(t)) /\ (Word(t).kind \in Nested => base[Loc(t)].holder # t)
    <2>1. WordFor(routine[t], Word(t)) /\ BaseFor(t, routine[t], Word(t), base[Loc(t)])
      BY <1>2, InUse
    <2> QED BY <1>2, <1>3, <2>1 DEF WordFor, BaseFor
  <1>6. UNCHANGED <<word, base, lockTable, lockPool, made, family>>
    BY DEF TestFails
  <1>7. /\ UserLocksInv' /\ rn.lock \in Lock
        /\ AbsLocks[rn.lock] = Seen(Word(t), base[Loc(t)])
        /\ AbsLocks' = [AbsLocks EXCEPT ![rn.lock] = Seen(Word(t), base[Loc(t)])]
        /\ AbsCalls[t] = CallOf(routine[t]) /\ AbsCalls' = [AbsCalls EXCEPT ![t] = CallOf(rn)]
    BY <1>2, <1>3, <1>4, <1>5, <1>6, Quiet
  <1>8. CallOf(rn) = Done(0) /\ CallOf(routine[t]) = Called(rn.lock, "test")
    BY <1>2, <1>3 DEF CallOf
  <1>9. AbsLocks' = AbsLocks
    BY <1>7 DEF AbsLocks
  <1>10. AbsLocks[rn.lock].owner # Nil /\ (AbsLocks[rn.lock].nest => AbsLocks[rn.lock].owner # t)
    BY <1>2, <1>5, <1>7, SeenFields
  <1> QED BY <1>7, <1>8, <1>9, <1>10, RefuseSeen

-----------------------------------------------------------------------------
(* The steps that change the base lock.                                     *)
LEMMA SeenNests ==
    ASSUME NEW w, NEW b, NEW x, x = Seen(w, b) PROVE x.nest = (w.kind \in Nested)
  BY DEF Seen, LockState

LEMMA NilHoldsNone == ~(Nil \in Caller)
  BY UserLocksAssumption

LEMMA AcquireBaseStep ==
    ASSUME NEW t \in Caller, UserLocksInv, AcquireBase(t)
    PROVE  UserLocksInv' /\ Interface!Next
  <1>1. PICK rn : rn = [routine[t] EXCEPT !.result = 1, !.at = IF Nests(t) THEN "depth" ELSE "done"]
    OBVIOUS
  <1>2. PICK b : b = base[Loc(t)]
    OBVIOUS
  <1>3. PICK bn : bn = [b EXCEPT !.holder = t]
    OBVIOUS
  <1>4. routine[t] \in Routine /\ routine[t].at = "base" /\ b.holder = Nil
    BY <1>2 DEF UserLocksInv, UserTypes, AcquireBase, InRoutine
  <1>5. /\ WordFor(routine[t], Word(t)) /\ BaseFor(t, routine[t], Word(t), b)
        /\ BaseRight(routine[t].lock, Word(t), b, routine[b.holder]) /\ b \in BaseLock
    BY <1>2, <1>4, InUse
  <1>6. /\ rn.lock = routine[t].lock /\ rn.op = routine[t].op /\ rn.result = 1 /\ rn \in Routine
        /\ rn.at = IF Word(t).kind \in Nested THEN "depth" ELSE "done"
    BY <1>1, <1>4 DEF Routine, Places, Nests
  <1>7. bn.holder = t /\ bn.depth = 0 /\ bn.owner = Nil /\ bn \in BaseLock
    BY <1>3, <1>4, <1>5 DEF BaseLock, BaseRight
  <1>8. /\ routine' = [routine EXCEPT ![t] = rn] /\ base' = [base EXCEPT ![Loc(t)] = bn]
        /\ UNCHANGED <<word, lockTable, lockPool, made, family>>
    BY <1>1, <1>2, <1>3 DEF AcquireBase, Set, UserLocksInv, UserTypes
  <1>9. routine[t].op \in {"set", "test"} /\ WordFor(rn, Word(t))
        /\ (rn.at # "done" => BaseFor(t, rn, Word(t), bn))
    BY <1>4, <1>5, <1>6, <1>7 DEF WordFor, BaseFor
  <1>10. BaseRight(rn.lock, Word(t), bn, routine'[bn.holder])
    <2>1. routine'[bn.holder] = rn
      BY <1>7, <1>8 DEF UserLocksInv, UserTypes
    <2> QED BY <1>6, <1>7, <2>1, NilHoldsNone DEF BaseRight, Moving
  <1>11. /\ bn = base[Loc(t)] \/ {base[Loc(t)].holder, bn.holder} \subseteq {Nil, t}
         /\ routine[t].at \notin {"idle", "allocate", "initialize", "done"}
         /\ rn.at \notin {"idle", "allocate", "initialize"}
    BY <1>2, <1>4, <1>6, <1>7
  <1>12. /\ UserLocksInv' /\ rn.lock \in Lock
         /\ AbsLocks[rn.lock] = Seen(Word(t), base[Loc(t)])
         /\ AbsLocks' = [AbsLocks EXCEPT ![rn.lock] = Seen(Word(t), bn)]
         /\ AbsCalls[t] = CallOf(routine[t]) /\ AbsCalls' = [AbsCalls EXCEPT ![t] = CallOf(rn)]
    BY <1>6, <1>7, <1>8, <1>9, <1>10, <1>11, OnLock
  <1>13. CallOf(rn) = Done(1) /\ CallOf(routine[t]) = Called(rn.lock, routine[t].op)
    BY <1>4, <1>6 DEF CallOf
  <1>14. AbsLocks[rn.lock].owner = Nil
    BY <1>2, <1>4, <1>12, SeenFields
  <1>15. Seen(Word(t), bn) = LockState(AbsLocks[rn.lock].nest, t, 1)
    <2>1. AbsLocks[rn.lock].nest = (Word(t).kind \in Nested)
      BY <1>12, SeenNests
    <2> QED BY <1>7, <2>1, NilHoldsNone DEF Seen
  <1> QED BY <1>9, <1>12, <1>13, <1>14, <1>15, AcquireSeen

LEMMA ReleaseBaseStep ==
    ASSUME NEW t \in Caller, UserLocksInv, ReleaseBase(t)
    PROVE  UserLocksInv' /\ Interface!Next
  <1>1. PICK rn : rn = [routine[t] EXCEPT !.at = "done", !.result = 1]
    OBVIOUS
  <1>2. PICK b : b = base[Loc(t)]
    OBVIOUS
  <1>3. PICK bn : bn = [b EXCEPT !.holder = Nil]
    OBVIOUS
  <1>4. routine[t] \in Routine /\ routine[t].at = "release"
    BY DEF UserLocksInv, UserTypes, ReleaseBase, InRoutine
  <1>5. /\ WordFor(routine[t], Word(t)) /\ BaseFor(t, routine[t], Word(t), b) /\ b \in BaseLock
    BY <1>2, <1>4, InUse
  <1>6. /\ rn.lock = routine[t].lock /\ rn.op = routine[t].op /\ rn.result = 1 /\ rn \in Routine
        /\ rn.at = "done" /\ routine[t].op = "unset"
    BY <1>1, <1>4, <1>5 DEF Routine, Places, WordFor
  <1>7. /\ b.holder = t /\ b.depth = 0 /\ b.owner = Nil
        /\ bn.holder = Nil /\ bn.depth = 0 /\ bn.owner = Nil /\ bn \in BaseLock
    BY <1>3, <1>4, <1>5, <1>6 DEF BaseLock, BaseFor
  <1>8. /\ routine' = [routine EXCEPT ![t] = rn] /\ base' = [base EXCEPT ![Loc(t)] = bn]
        /\ UNCHANGED <<word, lockTable, lockPool, made, family>>
    BY <1>1, <1>2, <1>3 DEF ReleaseBase, Set, DoneWith, UserLocksInv, UserTypes
  <1>9. WordFor(rn, Word(t))
    BY <1>4, <1>5, <1>6 DEF WordFor
  <1>10. BaseRight(rn.lock, Word(t), bn, routine'[bn.holder])
    BY <1>7 DEF BaseRight
  <1>11. /\ bn = base[Loc(t)] \/ {base[Loc(t)].holder, bn.holder} \subseteq {Nil, t}
         /\ routine[t].at \notin {"idle", "allocate", "initialize", "done"}
         /\ rn.at \notin {"idle", "allocate", "initialize"}
         /\ rn.at # "done" => BaseFor(t, rn, Word(t), bn)
    BY <1>2, <1>4, <1>6, <1>7
  <1>12. /\ UserLocksInv' /\ rn.lock \in Lock
         /\ AbsLocks[rn.lock] = Seen(Word(t), base[Loc(t)])
         /\ AbsLocks' = [AbsLocks EXCEPT ![rn.lock] = Seen(Word(t), bn)]
         /\ AbsCalls[t] = CallOf(routine[t]) /\ AbsCalls' = [AbsCalls EXCEPT ![t] = CallOf(rn)]
    BY <1>6, <1>7, <1>8, <1>9, <1>10, <1>11, OnLock
  <1>13. CallOf(rn) = Done(1) /\ CallOf(routine[t]) = Called(rn.lock, "unset")
    BY <1>4, <1>6 DEF CallOf
  <1>14. AbsLocks[rn.lock].owner = t /\ AbsLocks[rn.lock].count = 1
    BY <1>2, <1>7, <1>12, SeenFields, NilHoldsNone
  <1>15. Seen(Word(t), bn) = LockState(AbsLocks[rn.lock].nest, Nil, 0)
    <2>1. AbsLocks[rn.lock].nest = (Word(t).kind \in Nested)
      BY <1>12, SeenNests
    <2> QED BY <1>7, <2>1 DEF Seen
  <1> QED BY <1>12, <1>13, <1>14, <1>15, ReleaseSeen

-----------------------------------------------------------------------------
(* The steps of nestable locks.  Whether they keep an owner depends on the  *)
(* kind.                                                                    *)
LEMMA Reenter ==
    ASSUME NEW t \in Caller, UserLocksInv, Word(t).kind \in Nested, NEW owner,
           owner = IF Word(t).kind \in KeepOwner THEN base[Loc(t)].owner ELSE base[Loc(t)].holder,
           BeginNested(t, owner), routine[t].op # "unset", owner = t,
           UNCHANGED <<word, lockTable, lockPool, made, family>>
    PROVE  UserLocksInv' /\ Interface!Next
  <1>1. PICK result : result = IF routine[t].op = "set" THEN 0 ELSE base[Loc(t)].depth + 1
    OBVIOUS
  <1>2. PICK b : b = base[Loc(t)]
    OBVIOUS
  <1>3. PICK bn, rn : /\ bn = [b EXCEPT !.depth = @ + 1]
                      /\ rn = [routine[t] EXCEPT !.at = "done", !.result = result]
    OBVIOUS
  <1>4. routine[t] \in Routine /\ routine[t].at = "found" /\ routine[t].op \in {"set", "test"}
    BY DEF UserLocksInv, UserTypes, BeginNested, InRoutine
  <1>5. /\ WordFor(routine[t], Word(t)) /\ BaseFor(t, routine[t], Word(t), b) /\ b \in BaseLock
        /\ BaseRight(routine[t].lock, Word(t), b, routine[b.holder])
    BY <1>2, <1>4, InUse
  <1>6. /\ rn.lock = routine[t].lock /\ rn.op = routine[t].op /\ rn.result = result /\ rn \in Routine
        /\ rn.at = "done"
    <2>1. result \in Nat
      BY <1>1, <1>2, <1>5 DEF BaseLock
    <2> QED BY <1>3, <1>4, <2>1 DEF Routine, Places
  <1>7. /\ b.holder = t /\ b.depth \in Nat /\ b.depth > 0 /\ bn.holder = t /\ bn.depth = b.depth + 1
        /\ bn.owner = b.owner /\ bn \in BaseLock
        /\ (Word(t).kind \in KeepOwner => b.owner = t) /\ (Word(t).kind \notin KeepOwner => b.owner = Nil)
    <2>1. b.holder = t /\ (Word(t).kind \in KeepOwner => b.owner = t)
      BY <1>2, <1>5, NilHoldsNone DEF BaseRight
    <2>2. b.depth \in Nat /\ b.depth > 0 /\ (Word(t).kind \notin KeepOwner => b.owner = Nil)
      BY <1>4, <1>5, <2>1, NilHoldsNone DEF BaseRight, BaseLock, Moving
    <2> QED BY <1>3, <1>5, <2>1, <2>2 DEF BaseLock
  <1>8. /\ routine' = [routine EXCEPT ![t] = rn] /\ base' = [base EXCEPT ![Loc(t)] = bn]
        /\ UNCHANGED <<word, lockTable, lockPool, made, family>>
    BY <1>1, <1>2, <1>3 DEF BeginNested, Set, DoneWith, UserLocksInv, UserTypes
  <1>9. WordFor(rn, Word(t)) /\ (rn.at # "done" => BaseFor(t, rn, Word(t), bn))
    BY <1>4, <1>5, <1>6 DEF WordFor
  <1>10. BaseRight(rn.lock, Word(t), bn, routine'[bn.holder])
    <2>1. routine'[bn.holder] = rn
      BY <1>7, <1>8 DEF UserLocksInv, UserTypes
    <2> QED BY <1>4, <1>6, <1>7, <2>1, NilHoldsNone, KindFacts DEF BaseRight, Moving
  <1>11. /\ bn = base[Loc(t)] \/ {base[Loc(t)].holder, bn.holder} \subseteq {Nil, t}
         /\ routine[t].at \notin {"idle", "allocate", "initialize", "done"}
         /\ rn.at \notin {"idle", "allocate", "initialize"}
    BY <1>2, <1>4, <1>6, <1>7
  <1>12. /\ UserLocksInv' /\ rn.lock \in Lock
         /\ AbsLocks[rn.lock] = Seen(Word(t), base[Loc(t)])
         /\ AbsLocks' = [AbsLocks EXCEPT ![rn.lock] = Seen(Word(t), bn)]
         /\ AbsCalls[t] = CallOf(routine[t]) /\ AbsCalls' = [AbsCalls EXCEPT ![t] = CallOf(rn)]
    BY <1>6, <1>7, <1>8, <1>9, <1>10, <1>11, OnLock
  <1>13. CallOf(rn) = Done(result) /\ CallOf(routine[t]) = Called(rn.lock, routine[t].op)
    BY <1>4, <1>6 DEF CallOf
  <1>14. /\ AbsLocks[rn.lock].owner = t /\ AbsLocks[rn.lock].nest /\ AbsLocks[rn.lock].count = b.depth
         /\ result = IF routine[t].op = "set" THEN 0 ELSE AbsLocks[rn.lock].count + 1
    <2>1. AbsLocks[rn.lock].owner = t /\ AbsLocks[rn.lock].count = b.depth
      BY <1>2, <1>7, <1>12, SeenFields, NilHoldsNone
    <2>2. AbsLocks[rn.lock].nest
      BY <1>12, SeenFields
    <2> QED BY <1>1, <1>2, <2>1, <2>2
  <1>15. Seen(Word(t), bn) = LockState(AbsLocks[rn.lock].nest, t, AbsLocks[rn.lock].count + 1)
    <2>1. AbsLocks[rn.lock].nest = (Word(t).kind \in Nested)
      BY <1>12, SeenNests
    <2>2. bn.depth = AbsLocks[rn.lock].count + 1 /\ bn.depth # 0
      BY <1>7, <1>14
    <2> QED BY <1>7, <2>1, <2>2, NilHoldsNone DEF Seen
  <1> QED BY <1>4, <1>12, <1>13, <1>14, <1>15, ReacquireSeen

LEMMA BeginNestedStep ==
    ASSUME NEW t \in Caller, UserLocksInv, Word(t).kind \in Nested, NEW owner,
           owner = IF Word(t).kind \in KeepOwner THEN base[Loc(t)].owner ELSE base[Loc(t)].holder,
           BeginNested(t, owner), UNCHANGED <<word, lockTable, lockPool, made, family>>
    PROVE  UserLocksInv' /\ (Interface!Next \/ UNCHANGED Interface!vars)
  <1>1. CASE routine[t].op # "unset" /\ owner = t
    BY <1>1, Reenter
  <1>2. CASE ~(routine[t].op # "unset" /\ owner = t)
    <2>1. PICK rn : rn = [routine[t] EXCEPT !.at = IF routine[t].op = "unset" THEN "undepth" ELSE "base"]
      OBVIOUS
    <2>2. routine[t] \in Routine /\ routine[t].at = "found" /\ routine[t].op \in {"set", "test", "unset"}
      BY DEF UserLocksInv, UserTypes, BeginNested, InRoutine
    <2>3. /\ rn.lock = routine[t].lock /\ rn.op = routine[t].op /\ rn.result = routine[t].result
          /\ rn.at = (IF routine[t].op = "unset" THEN "undepth" ELSE "base") /\ rn \in Routine
      BY <2>1, <2>2 DEF Routine, Places
    <2>4. routine' = [routine EXCEPT ![t] = rn] /\ base' = base
      BY <1>2, <2>1 DEF BeginNested, Continue, UserLocksInv, UserTypes
    <2>5. WordFor(rn, Word(t)) /\ BaseFor(t, rn, Word(t), base[Loc(t)])
      <3>1. PICK b : b = base[Loc(t)]
        OBVIOUS
      <3>2. /\ WordFor(routine[t], Word(t)) /\ BaseFor(t, routine[t], Word(t), b)
            /\ BaseRight(routine[t].lock, Word(t), b, routine[b.holder]) /\ b \in BaseLock
        BY <2>2, <3>1, InUse
      <3>3. CASE routine[t].op = "unset"
        <4>1. b.holder = t
          BY <2>2, <3>2, <3>3 DEF BaseFor
        <4>2. b.depth > 0 /\ (Word(t).kind \in KeepOwner => b.owner = t)
          BY <2>2, <3>2, <4>1, NilHoldsNone DEF BaseRight, Moving
        <4> QED BY <2>2, <2>3, <3>1, <3>2, <3>3, <4>1, <4>2 DEF WordFor, BaseFor
      <3>4. CASE routine[t].op # "unset"
        <4>1. b.holder # t
          BY <1>2, <2>2, <3>1, <3>2, <3>4, NilHoldsNone DEF BaseRight, Moving
        <4> QED BY <2>2, <2>3, <3>1, <3>2, <3>4, <4>1 DEF WordFor, BaseFor
      <3> QED BY <3>3, <3>4
    <2>6. /\ UNCHANGED <<word, base, lockTable, lockPool, made, family>>
          /\ rn.at \notin {"idle", "allocate", "initialize"}
          /\ routine[t].at \in {"lookup", "entry", "found", "base", "undepth"}
      BY <2>2, <2>3, <2>4
    <2>7. /\ UserLocksInv' /\ rn.lock \in Lock
          /\ AbsLocks[rn.lock] = Seen(Word(t), base[Loc(t)])
          /\ AbsLocks' = [AbsLocks EXCEPT ![rn.lock] = Seen(Word(t), base[Loc(t)])]
          /\ AbsCalls[t] = CallOf(routine[t]) /\ AbsCalls' = [AbsCalls EXCEPT ![t] = CallOf(rn)]
      BY <2>3, <2>4, <2>5, <2>6, Quiet
    <2>8. CallOf(rn) = CallOf(routine[t])
      BY <2>2, <2>3 DEF CallOf
    <2> QED BY <2>7, <2>8, Stutters
  <1> QED BY <1>1, <1>2

LEMMA SetDepthStep ==
    ASSUME NEW t \in Caller, UserLocksInv, Word(t).kind \in Nested, NEW next,
           next = IF Word(t).kind \in KeepOwner THEN "own" ELSE "done", SetDepth(t, next),
           UNCHANGED <<word, lockTable, lockPool, made, family>>
    PROVE  UserLocksInv' /\ UNCHANGED Interface!vars
  <1>2. PICK b : b = base[Loc(t)]
    OBVIOUS
  <1>3. PICK bn, rn : bn = [b EXCEPT !.depth = 1] /\ rn = [routine[t] EXCEPT !.at = next]
    OBVIOUS
  <1>4. routine[t] \in Routine /\ routine[t].at = "depth"
    BY DEF UserLocksInv, UserTypes, SetDepth, InRoutine
  <1>5. /\ WordFor(routine[t], Word(t)) /\ BaseFor(t, routine[t], Word(t), b) /\ b \in BaseLock
        /\ BaseRight(routine[t].lock, Word(t), b, routine[b.holder])
    BY <1>2, <1>4, InUse
  <1>6. /\ rn.lock = routine[t].lock /\ rn.op = routine[t].op /\ rn.result = routine[t].result
        /\ rn \in Routine /\ rn.at = IF Word(t).kind \in KeepOwner THEN "own" ELSE "done"
    BY <1>3, <1>4 DEF Routine, Places
  <1>7. /\ b.holder = t /\ b.depth = 0 /\ b.owner = Nil
        /\ bn.holder = t /\ bn.depth = 1 /\ bn.owner = Nil
        /\ bn \in BaseLock
    BY <1>2, <1>3, <1>4, <1>5, NilHoldsNone, KindFacts DEF BaseLock, BaseFor, BaseRight, WordFor
  <1>8. /\ routine' = [routine EXCEPT ![t] = rn] /\ base' = [base EXCEPT ![Loc(t)] = bn]
        /\ UNCHANGED <<word, lockTable, lockPool, made, family>>
    BY <1>2, <1>3, <1>5 DEF SetDepth, Set, Continue, UserLocksInv, UserTypes, BaseLock
  <1>9. WordFor(rn, Word(t)) /\ (rn.at # "done" => BaseFor(t, rn, Word(t), bn))
    BY <1>4, <1>5, <1>6, <1>7 DEF WordFor, BaseFor
  <1>10. BaseRight(rn.lock, Word(t), bn, routine'[bn.holder])
    <2>1. routine'[bn.holder] = rn
      BY <1>7, <1>8 DEF UserLocksInv, UserTypes
    <2> QED BY <1>4, <1>6, <1>7, <2>1, NilHoldsNone, KindFacts DEF BaseRight, Moving
  <1>11. /\ bn = base[Loc(t)] \/ {base[Loc(t)].holder, bn.holder} \subseteq {Nil, t}
         /\ routine[t].at \notin {"idle", "allocate", "initialize", "done"}
         /\ rn.at \notin {"idle", "allocate", "initialize"}
    BY <1>2, <1>4, <1>6, <1>7
  <1>12. /\ UserLocksInv' /\ rn.lock \in Lock
         /\ AbsLocks[rn.lock] = Seen(Word(t), base[Loc(t)])
         /\ AbsLocks' = [AbsLocks EXCEPT ![rn.lock] = Seen(Word(t), bn)]
         /\ AbsCalls[t] = CallOf(routine[t]) /\ AbsCalls' = [AbsCalls EXCEPT ![t] = CallOf(rn)]
    BY <1>6, <1>7, <1>8, <1>9, <1>10, <1>11, OnLock
  <1>13. CallOf(rn) = CallOf(routine[t])
    BY <1>4, <1>6 DEF CallOf
  <1>14. Seen(Word(t), bn) = Seen(Word(t), b)
    BY <1>7 DEF Seen
  <1> QED BY <1>2, <1>12, <1>13, <1>14, Stutters

LEMMA SetOwnerStep ==
    ASSUME NEW t \in Caller, UserLocksInv, Word(t).kind \in Nested, SetOwner(t),
           UNCHANGED <<word, lockTable, lockPool, made, family>>
    PROVE  UserLocksInv' /\ UNCHANGED Interface!vars
  <1>2. PICK b : b = base[Loc(t)]
    OBVIOUS
  <1>3. PICK bn, rn : bn = [b EXCEPT !.owner = t] /\ rn = [routine[t] EXCEPT !.at = "done"]
    OBVIOUS
  <1>4. routine[t] \in Routine /\ routine[t].at = "own"
    BY DEF UserLocksInv, UserTypes, SetOwner, InRoutine
  <1>5. /\ WordFor(routine[t], Word(t)) /\ BaseFor(t, routine[t], Word(t), b) /\ b \in BaseLock
        /\ BaseRight(routine[t].lock, Word(t), b, routine[b.holder])
    BY <1>2, <1>4, InUse
  <1>6. /\ rn.lock = routine[t].lock /\ rn.op = routine[t].op /\ rn.result = routine[t].result
        /\ rn \in Routine /\ rn.at = "done" /\ Word(t).kind \in KeepOwner
    BY <1>3, <1>4, <1>5 DEF Routine, Places, WordFor
  <1>7. /\ b.holder = t /\ b.depth = 1
        /\ bn.holder = t /\ bn.depth = 1 /\ bn.owner = t
        /\ bn \in BaseLock
    BY <1>2, <1>3, <1>4, <1>5, NilHoldsNone, KindFacts DEF BaseLock, BaseFor, BaseRight, WordFor
  <1>8. /\ routine' = [routine EXCEPT ![t] = rn] /\ base' = [base EXCEPT ![Loc(t)] = bn]
        /\ UNCHANGED <<word, lockTable, lockPool, made, family>>
    BY <1>2, <1>3, <1>5 DEF SetOwner, Set, Continue, UserLocksInv, UserTypes, BaseLock
  <1>9. WordFor(rn, Word(t)) /\ (rn.at # "done" => BaseFor(t, rn, Word(t), bn))
    BY <1>4, <1>5, <1>6, <1>7 DEF WordFor, BaseFor
  <1>10. BaseRight(rn.lock, Word(t), bn, routine'[bn.holder])
    <2>1. routine'[bn.holder] = rn
      BY <1>7, <1>8 DEF UserLocksInv, UserTypes
    <2> QED BY <1>4, <1>6, <1>7, <2>1, NilHoldsNone, KindFacts DEF BaseRight, Moving
  <1>11. /\ bn = base[Loc(t)] \/ {base[Loc(t)].holder, bn.holder} \subseteq {Nil, t}
         /\ routine[t].at \notin {"idle", "allocate", "initialize", "done"}
         /\ rn.at \notin {"idle", "allocate", "initialize"}
    BY <1>2, <1>4, <1>6, <1>7
  <1>12. /\ UserLocksInv' /\ rn.lock \in Lock
         /\ AbsLocks[rn.lock] = Seen(Word(t), base[Loc(t)])
         /\ AbsLocks' = [AbsLocks EXCEPT ![rn.lock] = Seen(Word(t), bn)]
         /\ AbsCalls[t] = CallOf(routine[t]) /\ AbsCalls' = [AbsCalls EXCEPT ![t] = CallOf(rn)]
    BY <1>6, <1>7, <1>8, <1>9, <1>10, <1>11, OnLock
  <1>13. CallOf(rn) = CallOf(routine[t])
    BY <1>4, <1>6 DEF CallOf
  <1>14. Seen(Word(t), bn) = Seen(Word(t), b)
    BY <1>7 DEF Seen
  <1> QED BY <1>2, <1>12, <1>13, <1>14, Stutters

LEMMA LastDepthStep ==
    ASSUME NEW t \in Caller, UserLocksInv, Word(t).kind \in Nested, NEW next,
           next = IF Word(t).kind \in KeepOwner THEN "disown" ELSE "release", LowerDepth(t, next),
           ~(base[Loc(t)].depth > 1),
           UNCHANGED <<word, lockTable, lockPool, made, family>>
    PROVE  UserLocksInv' /\ UNCHANGED Interface!vars
  <1>2. PICK b : b = base[Loc(t)]
    OBVIOUS
  <1>3. PICK bn, rn : bn = [b EXCEPT !.depth = @ - 1] /\ rn = [routine[t] EXCEPT !.at = next]
    OBVIOUS
  <1>4. routine[t] \in Routine /\ routine[t].at = "undepth"
    BY DEF UserLocksInv, UserTypes, LowerDepth, InRoutine
  <1>5. /\ WordFor(routine[t], Word(t)) /\ BaseFor(t, routine[t], Word(t), b) /\ b \in BaseLock
        /\ BaseRight(routine[t].lock, Word(t), b, routine[b.holder])
    BY <1>2, <1>4, InUse
  <1>6. /\ rn.lock = routine[t].lock /\ rn.op = routine[t].op /\ rn.result = routine[t].result
        /\ rn \in Routine /\ rn.at = IF Word(t).kind \in KeepOwner THEN "disown" ELSE "release"
    BY <1>3, <1>4 DEF Routine, Places
  <1>7. /\ b.holder = t /\ b.depth = 1 /\ routine[t].op = "unset"
        /\ bn.holder = t /\ bn.depth = 0 /\ bn.owner = b.owner
        /\ b.owner = IF Word(t).kind \in KeepOwner THEN t ELSE Nil
        /\ bn \in BaseLock
    BY <1>2, <1>3, <1>4, <1>5, NilHoldsNone, KindFacts DEF BaseLock, BaseFor, BaseRight, WordFor
  <1>8. /\ routine' = [routine EXCEPT ![t] = rn] /\ base' = [base EXCEPT ![Loc(t)] = bn]
        /\ UNCHANGED <<word, lockTable, lockPool, made, family>>
    BY <1>2, <1>3, <1>5 DEF LowerDepth, Set, Continue, UserLocksInv, UserTypes, BaseLock
  <1>9. WordFor(rn, Word(t)) /\ (rn.at # "done" => BaseFor(t, rn, Word(t), bn))
    BY <1>4, <1>5, <1>6, <1>7 DEF WordFor, BaseFor
  <1>10. BaseRight(rn.lock, Word(t), bn, routine'[bn.holder])
    <2>1. routine'[bn.holder] = rn
      BY <1>7, <1>8 DEF UserLocksInv, UserTypes
    <2> QED BY <1>4, <1>6, <1>7, <2>1, NilHoldsNone, KindFacts DEF BaseRight, Moving
  <1>11. /\ bn = base[Loc(t)] \/ {base[Loc(t)].holder, bn.holder} \subseteq {Nil, t}
         /\ routine[t].at \notin {"idle", "allocate", "initialize", "done"}
         /\ rn.at \notin {"idle", "allocate", "initialize"}
    BY <1>2, <1>4, <1>6, <1>7
  <1>12. /\ UserLocksInv' /\ rn.lock \in Lock
         /\ AbsLocks[rn.lock] = Seen(Word(t), base[Loc(t)])
         /\ AbsLocks' = [AbsLocks EXCEPT ![rn.lock] = Seen(Word(t), bn)]
         /\ AbsCalls[t] = CallOf(routine[t]) /\ AbsCalls' = [AbsCalls EXCEPT ![t] = CallOf(rn)]
    BY <1>6, <1>7, <1>8, <1>9, <1>10, <1>11, OnLock
  <1>13. CallOf(rn) = CallOf(routine[t])
    BY <1>4, <1>6 DEF CallOf
  <1>14. Seen(Word(t), bn) = Seen(Word(t), b)
    BY <1>7 DEF Seen
  <1> QED BY <1>2, <1>12, <1>13, <1>14, Stutters

LEMMA LeaveStep ==
    ASSUME NEW t \in Caller, UserLocksInv, Word(t).kind \in Nested, NEW next, LowerDepth(t, next),
           base[Loc(t)].depth > 1, UNCHANGED <<word, lockTable, lockPool, made, family>>
    PROVE  UserLocksInv' /\ Interface!Next
  <1>2. PICK b : b = base[Loc(t)]
    OBVIOUS
  <1>3. PICK bn, rn : /\ bn = [b EXCEPT !.depth = @ - 1]
                      /\ rn = [routine[t] EXCEPT !.at = "done", !.result = 0]
    OBVIOUS
  <1>4. routine[t] \in Routine /\ routine[t].at = "undepth"
    BY DEF UserLocksInv, UserTypes, LowerDepth, InRoutine
  <1>5. /\ WordFor(routine[t], Word(t)) /\ BaseFor(t, routine[t], Word(t), b) /\ b \in BaseLock
        /\ BaseRight(routine[t].lock, Word(t), b, routine[b.holder])
    BY <1>2, <1>4, InUse
  <1>6. /\ rn.lock = routine[t].lock /\ rn.op = routine[t].op /\ rn.result = 0 /\ rn \in Routine
        /\ rn.at = "done" /\ routine[t].op = "unset"
    BY <1>3, <1>4, <1>5 DEF Routine, Places, WordFor
  <1>7. /\ b.holder = t /\ b.depth \in Nat /\ b.depth > 1 /\ bn.holder = t /\ bn.depth = b.depth - 1
        /\ bn.owner = b.owner /\ b.owner = (IF Word(t).kind \in KeepOwner THEN t ELSE Nil)
        /\ bn \in BaseLock
    BY <1>2, <1>3, <1>4, <1>5, <1>6 DEF BaseLock, BaseFor, BaseRight
  <1>8. /\ routine' = [routine EXCEPT ![t] = rn] /\ base' = [base EXCEPT ![Loc(t)] = bn]
        /\ UNCHANGED <<word, lockTable, lockPool, made, family>>
    BY <1>2, <1>3 DEF LowerDepth, Set, DoneWith, UserLocksInv, UserTypes
  <1>9. WordFor(rn, Word(t)) /\ (rn.at # "done" => BaseFor(t, rn, Word(t), bn))
    BY <1>4, <1>5, <1>6 DEF WordFor
  <1>10. BaseRight(rn.lock, Word(t), bn, routine'[bn.holder])
    <2>1. routine'[bn.holder] = rn
      BY <1>7, <1>8 DEF UserLocksInv, UserTypes
    <2> QED BY <1>4, <1>6, <1>7, <2>1, NilHoldsNone, KindFacts DEF BaseRight, Moving
  <1>11. /\ bn = base[Loc(t)] \/ {base[Loc(t)].holder, bn.holder} \subseteq {Nil, t}
         /\ routine[t].at \notin {"idle", "allocate", "initialize", "done"}
         /\ rn.at \notin {"idle", "allocate", "initialize"}
    BY <1>2, <1>4, <1>6, <1>7
  <1>12. /\ UserLocksInv' /\ rn.lock \in Lock
         /\ AbsLocks[rn.lock] = Seen(Word(t), base[Loc(t)])
         /\ AbsLocks' = [AbsLocks EXCEPT ![rn.lock] = Seen(Word(t), bn)]
         /\ AbsCalls[t] = CallOf(routine[t]) /\ AbsCalls' = [AbsCalls EXCEPT ![t] = CallOf(rn)]
    BY <1>6, <1>7, <1>8, <1>9, <1>10, <1>11, OnLock
  <1>13. CallOf(rn) = Done(0) /\ CallOf(routine[t]) = Called(rn.lock, "unset")
    BY <1>4, <1>6 DEF CallOf
  <1>14. AbsLocks[rn.lock].owner = t /\ AbsLocks[rn.lock].count = b.depth
    BY <1>2, <1>7, <1>12, SeenFields, NilHoldsNone
  <1>15. Seen(Word(t), bn) = LockState(AbsLocks[rn.lock].nest, t, AbsLocks[rn.lock].count - 1)
    <2>1. AbsLocks[rn.lock].nest = (Word(t).kind \in Nested)
      BY <1>12, SeenNests
    <2>2. bn.depth = AbsLocks[rn.lock].count - 1 /\ bn.depth # 0
      BY <1>7, <1>14
    <2> QED BY <1>7, <2>1, <2>2, NilHoldsNone DEF Seen
  <1>16. PICK last \in BOOLEAN : last = FALSE
    OBVIOUS
  <1>17. AbsLocks[rn.lock].count # 1
    BY <1>7, <1>14
  <1> QED BY <1>12, <1>13, <1>14, <1>15, <1>16, <1>17, ReleaseSeen

LEMMA LowerDepthStep ==
    ASSUME NEW t \in Caller, UserLocksInv, Word(t).kind \in Nested, NEW next,
           next = IF Word(t).kind \in KeepOwner THEN "disown" ELSE "release", LowerDepth(t, next),
           UNCHANGED <<word, lockTable, lockPool, made, family>>
    PROVE  UserLocksInv' /\ (Interface!Next \/ UNCHANGED Interface!vars)
  BY LastDepthStep, LeaveStep

LEMMA ClearOwnerStep ==
    ASSUME NEW t \in Caller, UserLocksInv, Word(t).kind \in Nested, ClearOwner(t),
           UNCHANGED <<word, lockTable, lockPool, made, family>>
    PROVE  UserLocksInv' /\ UNCHANGED Interface!vars
  <1>2. PICK b : b = base[Loc(t)]
    OBVIOUS
  <1>3. PICK bn, rn : bn = [b EXCEPT !.owner = Nil] /\ rn = [routine[t] EXCEPT !.at = "release"]
    OBVIOUS
  <1>4. routine[t] \in Routine /\ routine[t].at = "disown"
    BY DEF UserLocksInv, UserTypes, ClearOwner, InRoutine
  <1>5. /\ WordFor(routine[t], Word(t)) /\ BaseFor(t, routine[t], Word(t), b) /\ b \in BaseLock
        /\ BaseRight(routine[t].lock, Word(t), b, routine[b.holder])
    BY <1>2, <1>4, InUse
  <1>6. /\ rn.lock = routine[t].lock /\ rn.op = routine[t].op /\ rn.result = routine[t].result
        /\ rn \in Routine /\ rn.at = "release" /\ routine[t].op = "unset"
    BY <1>3, <1>4, <1>5 DEF Routine, Places, WordFor
  <1>7. /\ b.holder = t /\ b.depth = 0
        /\ bn.holder = t /\ bn.depth = 0 /\ bn.owner = Nil
        /\ bn \in BaseLock
    BY <1>2, <1>3, <1>4, <1>5, NilHoldsNone, KindFacts DEF BaseLock, BaseFor, BaseRight, WordFor
  <1>8. /\ routine' = [routine EXCEPT ![t] = rn] /\ base' = [base EXCEPT ![Loc(t)] = bn]
        /\ UNCHANGED <<word, lockTable, lockPool, made, family>>
    BY <1>2, <1>3, <1>5 DEF ClearOwner, Set, Continue, UserLocksInv, UserTypes, BaseLock
  <1>9. WordFor(rn, Word(t)) /\ (rn.at # "done" => BaseFor(t, rn, Word(t), bn))
    BY <1>4, <1>5, <1>6, <1>7 DEF WordFor, BaseFor
  <1>10. BaseRight(rn.lock, Word(t), bn, routine'[bn.holder])
    <2>1. routine'[bn.holder] = rn
      BY <1>7, <1>8 DEF UserLocksInv, UserTypes
    <2> QED BY <1>4, <1>6, <1>7, <2>1, NilHoldsNone, KindFacts DEF BaseRight, Moving
  <1>11. /\ bn = base[Loc(t)] \/ {base[Loc(t)].holder, bn.holder} \subseteq {Nil, t}
         /\ routine[t].at \notin {"idle", "allocate", "initialize", "done"}
         /\ rn.at \notin {"idle", "allocate", "initialize"}
    BY <1>2, <1>4, <1>6, <1>7
  <1>12. /\ UserLocksInv' /\ rn.lock \in Lock
         /\ AbsLocks[rn.lock] = Seen(Word(t), base[Loc(t)])
         /\ AbsLocks' = [AbsLocks EXCEPT ![rn.lock] = Seen(Word(t), bn)]
         /\ AbsCalls[t] = CallOf(routine[t]) /\ AbsCalls' = [AbsCalls EXCEPT ![t] = CallOf(rn)]
    BY <1>6, <1>7, <1>8, <1>9, <1>10, <1>11, OnLock
  <1>13. CallOf(rn) = CallOf(routine[t])
    BY <1>4, <1>6 DEF CallOf
  <1>14. Seen(Word(t), bn) = Seen(Word(t), b)
    BY <1>7 DEF Seen
  <1> QED BY <1>2, <1>12, <1>13, <1>14, Stutters

LEMMA NestedStep ==
    ASSUME NEW t \in Caller, UserLocksInv,
           NestedTas(t) \/ NestedTicket(t) \/ NestedQueuing(t) \/ NestedDrdpa(t)
    PROVE  UserLocksInv' /\ (Interface!Next \/ UNCHANGED Interface!vars)
  <1>1. CASE NestedTas(t)
    <2>1. /\ Word(t).kind \in Nested /\ Word(t).kind \notin KeepOwner
          /\ UNCHANGED <<word, lockTable, lockPool, made, family>>
      BY <1>1, KindFacts DEF NestedTas, OfKind
    <2>2. BeginNested(t, base[Loc(t)].holder) \/ SetDepth(t, "done") \/ LowerDepth(t, "release")
      BY <1>1 DEF NestedTas
    <2> QED BY <2>1, <2>2, BeginNestedStep, SetDepthStep, LowerDepthStep
  <1>2. CASE NestedTicket(t) \/ NestedQueuing(t) \/ NestedDrdpa(t)
    <2>1. /\ Word(t).kind \in Nested /\ Word(t).kind \in KeepOwner
          /\ UNCHANGED <<word, lockTable, lockPool, made, family>>
      BY <1>2 DEF NestedTicket, NestedQueuing, NestedDrdpa, OfKind, KeepOwner, Nested
    <2>2. \/ BeginNested(t, base[Loc(t)].owner) \/ SetDepth(t, "own") \/ SetOwner(t)
          \/ LowerDepth(t, "disown") \/ ClearOwner(t)
      BY <1>2 DEF NestedTicket, NestedQueuing, NestedDrdpa, KeepsOwner
    <2> QED BY <2>1, <2>2, BeginNestedStep, SetDepthStep, SetOwnerStep, LowerDepthStep, ClearOwnerStep
  <1> QED BY <1>1, <1>2

-----------------------------------------------------------------------------
(* Calls and returns change only the record of the thread.                  *)
LEMMA CallStep ==
    ASSUME NEW t \in Caller, NEW rn \in Routine, UserLocksInv,
           routine' = [routine EXCEPT ![t] = rn], UNCHANGED <<word, base, lockTable, lockPool, family>>,
           made' \in 0..MaxMade, routine[t].at \in {"idle", "done"},
           rn.at \in {"idle", "allocate", "found", "lookup"},
           MadeAlone', EntriesLeft', WordFor(rn, word[rn.lock]),
           rn.at \notin {"idle", "allocate"} => BaseFor(t, rn, word[rn.lock], base[Place(rn.lock)])
    PROVE  UserLocksInv' /\ AbsLocks' = AbsLocks
  <1>1. routine'[t] = rn /\ \A u \in Caller : u # t => routine'[u] = routine[u]
    BY DEF UserLocksInv, UserTypes
  <1>2. UserTypes'
    BY <1>1 DEF UserLocksInv, UserTypes
  <1>3. EntriesApart'
    BY DEF UserLocksInv, EntriesApart, EntryOf
  <1>4. WordsRight'
    <2> SUFFICES ASSUME NEW u \in Caller PROVE WordFor(routine'[u], word'[routine'[u].lock])
      BY DEF WordsRight, WordFor
    <2>1. CASE u = t
      BY <1>1, <2>1
    <2>2. CASE u # t
      BY <1>1, <2>2 DEF UserLocksInv, WordsRight
    <2> QED BY <2>1, <2>2
  <1>5. \A m \in Lock : Place(m)' = Place(m)
    BY DEF Place
  <1>6. \A m \in Lock : Made(m)' <=> Made(m)
    BY <1>1 DEF Made
  <1>7. RoutinesRight'
    <2> SUFFICES ASSUME NEW u \in Caller, routine'[u].at \notin {"idle", "allocate", "initialize", "done"}
                 PROVE  BaseFor(u, routine[u], word[routine[u].lock], base[Place(routine[u].lock)])'
      BY DEF RoutinesRight
    <2>1. CASE u = t
      <3>1. BaseFor(t, rn, word[rn.lock], base[Place(rn.lock)]) /\ rn.lock \in Lock
        BY <1>1, <2>1 DEF WordFor
      <3>2. Place(rn.lock)' = Place(rn.lock)
        BY DEF Place
      <3> QED BY <1>1, <2>1, <3>1, <3>2 DEF BaseFor
    <2>2. CASE u # t
      <3>1. PICK r : r = routine[u]
        OBVIOUS
      <3>2. routine'[u] = r /\ BaseFor(u, r, word[r.lock], base[Place(r.lock)])
        BY <1>1, <2>2, <3>1 DEF UserLocksInv, RoutinesRight
      <3>3. Place(r.lock)' = Place(r.lock)
        BY DEF Place
      <3> QED BY <3>2, <3>3 DEF BaseFor
    <2> QED BY <2>1, <2>2
  <1>8. BasesRight'
    <2> SUFFICES ASSUME NEW m \in Lock, Made(m)' PROVE BaseRight(m, word[m], base[Place(m)], routine[base[Place(m)].holder])'
      BY DEF BasesRight
    <2>1. word'[m] = word[m] /\ base'[Place(m)'] = base[Place(m)] /\ word[m] # Nil
      BY <1>5, <1>6 DEF Made
    <2>2. BaseRight(m, word[m], base[Place(m)], routine[base[Place(m)].holder])
      BY <1>6 DEF UserLocksInv, BasesRight
    <2>3. base[Place(m)].holder \in Caller \cup {Nil}
      BY <2>1, PlacesApart DEF UserLocksInv, UserTypes, BaseLock
    <2>4. base[Place(m)].holder # Nil =>
              (Moving(routine'[base[Place(m)].holder], m) <=> Moving(routine[base[Place(m)].holder], m))
      BY <1>1, <2>3 DEF Moving
    <2> QED BY <2>1, <2>2, <2>4 DEF BaseRight, Moving
  <1>9. UserLocksInv'
    BY <1>2, <1>3, <1>4, <1>7, <1>8 DEF UserLocksInv
  <1>10. \A m \in Lock : AbstractLock(m)' = AbstractLock(m)
    BY <1>5, <1>6 DEF AbstractLock
  <1> QED BY <1>9, <1>10 DEF AbsLocks

LEMMA ReturnFromStep ==
    ASSUME NEW t \in Caller, UserLocksInv, ReturnFrom(t)
    PROVE  UserLocksInv' /\ Interface!Next
  <1>1. PICK rn : rn = IdleRoutine
    OBVIOUS
  <1>2. /\ rn \in Routine /\ rn.at = "idle" /\ rn.op = "none" /\ rn.lock = Nil
        /\ routine' = [routine EXCEPT ![t] = rn] /\ routine[t] \in Routine /\ routine[t].at = "done"
        /\ UNCHANGED <<word, base, lockTable, lockPool, made, family>>
    BY <1>1 DEF IdleRoutine, Routine, Places, ReturnFrom, InRoutine, UserLocksInv, UserTypes
  <1>3. routine'[t] = rn /\ \A u \in Caller : u # t => routine'[u] = routine[u]
    BY <1>2 DEF UserLocksInv, UserTypes
  <1>4. MadeAlone'
    BY <1>2, <1>3 DEF UserLocksInv, MadeAlone
  <1>5. EntriesLeft'
    <2>1. {u \in Caller : routine'[u].at = "allocate"} = {u \in Caller : routine[u].at = "allocate"}
      BY <1>2, <1>3
    <2> QED BY <1>2, <2>1 DEF UserLocksInv, EntriesLeft
  <1>6. WordFor(rn, word[rn.lock]) /\ made' \in 0..MaxMade
    BY <1>1, <1>2 DEF WordFor, UserLocksInv, UserTypes
  <1>7. UserLocksInv' /\ AbsLocks' = AbsLocks
    BY <1>2, <1>4, <1>5, <1>6, CallStep
  <1>8. AbsCalls[t] = Done(routine[t].result) /\ AbsCalls' = [AbsCalls EXCEPT ![t] = [at |-> "idle"]]
    <2>1. CallOf(rn) = [at |-> "idle"] /\ CallOf(routine[t]) = Done(routine[t].result)
      BY <1>2 DEF CallOf
    <2>2. UserTypes
      BY DEF UserLocksInv
    <2>3. AbsCalls' = [AbsCalls EXCEPT ![t] = CallOf(rn)] /\ AbsCalls[t] = CallOf(routine[t])
      BY <1>2, <2>2, CallsChange
    <2> QED BY <2>1, <2>3
  <1>9. Interface!Return(t)
    BY <1>7, <1>8 DEF AbsLocks, AbsCalls, Done, Interface!Return, Interface!Idle
  <1> QED BY <1>7, <1>9 DEF Interface!Next

(* What a legal call finds.                                                 *)
LEMMA LegalFinds ==
    ASSUME UserLocksInv, NEW t \in Caller, NEW l \in Lock, NEW o \in Operations,
           Interface!Legal(t, l, o),
           \A u \in Caller : routine[u].lock = l => {routine[u].op, o} \cap {"init", "initNest", "destroy"} = {}
    PROVE  /\ o \in Making => word[l] = Nil
           /\ o \notin Making => word[l] # Nil /\ Made(l)
           /\ o = "destroy" => base[Place(l)].holder = Nil
           /\ o = "unset" => base[Place(l)].holder = t
  <1>1. /\ o \in Making => AbsLocks[l] = Nil
        /\ o \notin Making => AbsLocks[l] # Nil
        /\ o = "destroy" => AbsLocks[l].owner = Nil
        /\ o = "unset" => AbsLocks[l].owner = t
    BY DEF Interface!Legal, AbsLocks, Operations, Making
  <1>2. ASSUME o \in Making PROVE word[l] = Nil
    <2>1. ~Made(l)
      BY <1>1, <1>2, MadeIsSeen
    <2>2. ASSUME NEW u \in Caller, routine[u].lock = l, routine[u].at = "initialize" PROVE FALSE
      BY <1>2, <2>2 DEF Making
    <2> QED BY <2>1, <2>2 DEF Made
  <1>3. ASSUME o \notin Making
        PROVE  Made(l) /\ word[l] # Nil /\ AbsLocks[l] = Seen(word[l], base[Place(l)])
    BY <1>1, <1>3, MadeIsSeen DEF Made
  <1>4. o \in {"destroy", "unset"} => o \notin Making
    BY DEF Making
  <1> QED BY <1>1, <1>2, <1>3, <1>4, SeenFields

LEMMA EnterStep ==
    ASSUME NEW t \in Caller, NEW o \in Operations, UserLocksInv, Enter(t, o),
           \/ o \in Making /\ made < MaxMade /\ made' = made + 1
           \/ o \notin Making /\ made' = made
    PROVE  UserLocksInv' /\ Interface!Next
  <1>1. PICK l \in Lock :
          /\ Interface!Legal(t, l, o)
          /\ \A u \in Caller : routine[u].lock = l =>
               {routine[u].op, o} \cap {"init", "initNest", "destroy"} = {}
          /\ routine' = [routine EXCEPT ![t] =
               [IdleRoutine EXCEPT !.op = o, !.lock = l, !.at = Beginning(o, l)]]
    BY DEF Enter
  <1>2. PICK at : at = Beginning(o, l)
    OBVIOUS
  <1>3. PICK rn : rn = [IdleRoutine EXCEPT !.op = o, !.lock = l, !.at = at]
    OBVIOUS
  <1>4. \/ at = "allocate" /\ o \in Making
        \/ at \in {"found", "lookup"} /\ o \notin Making
    <2>1. CASE o \in Making
      BY <1>2, <2>1 DEF Beginning, Making
    <2>2. CASE o \notin Making /\ word[l].kind \in Direct
      BY <1>2, <2>2 DEF Beginning, Making
    <2>3. CASE o \notin Making /\ word[l].kind \notin Direct
      BY <1>2, <2>3 DEF Beginning, Making
    <2> QED BY <2>1, <2>2, <2>3
  <1>5. rn \in Routine /\ rn.at = at /\ rn.op = o /\ rn.lock = l /\ rn.row = 0 /\ rn.result = 0
    BY <1>3, <1>4 DEF IdleRoutine, Routine, Places
  <1>6. /\ routine' = [routine EXCEPT ![t] = rn] /\ routine[t].at = "idle"
        /\ UNCHANGED <<word, base, lockTable, lockPool, family>>
    BY <1>1, <1>2, <1>3 DEF Enter, InRoutine
  <1>7. routine'[t] = rn /\ \A u \in Caller : u # t => routine'[u] = routine[u]
    BY <1>6 DEF UserLocksInv, UserTypes
  <1>8. /\ o \in Making => word[l] = Nil
        /\ o \notin Making => word[l] # Nil /\ Made(l)
        /\ o = "destroy" => base[Place(l)].holder = Nil
        /\ o = "unset" => base[Place(l)].holder = t
    BY <1>1, LegalFinds
  <1>9. MadeAlone'
    <2>1. \A u \in Caller : u # t /\ routine[u].lock = l =>
            {o, routine[u].op} \cap (Making \cup {"destroy"}) = {}
      BY <1>1 DEF Making
    <2> QED BY <1>5, <1>7, <2>1 DEF UserLocksInv, MadeAlone
  <1>10. EntriesLeft'
    <2> DEFINE A == {u \in Caller : routine[u].at = "allocate"}
    <2>1. IsFiniteSet(A) /\ t \notin A
      BY <1>6, FS_Subset, UserLocksAssumption
    <2>2. CASE o \in Making
      <3>1. {u \in Caller : routine'[u].at = "allocate"} = A \cup {t}
        BY <1>4, <1>5, <1>7, <2>2
      <3>2. Cardinality(A \cup {t}) = Cardinality(A) + 1 /\ Cardinality(A) \in Nat
        BY <2>1, FS_AddElement, FS_CardinalityType
      <3>3. lockTable'.next + Cardinality(A \cup {t}) <= made'
        <4>1. lockTable.next + Cardinality(A) <= made
          BY DEF UserLocksInv, EntriesLeft
        <4> HIDE DEF A
        <4>2. made' = made + 1 /\ lockTable' = lockTable /\ lockTable.next \in Nat /\ made \in Nat
          BY <1>6, <2>2 DEF UserLocksInv, UserTypes
        <4> QED BY <3>2, <4>1, <4>2
      <3> QED BY <3>1, <3>3 DEF EntriesLeft
    <2>3. CASE o \notin Making
      <3>1. {u \in Caller : routine'[u].at = "allocate"} = A
        BY <1>4, <1>5, <1>6, <1>7, <2>3
      <3> QED BY <1>6, <2>3, <3>1 DEF UserLocksInv, EntriesLeft
    <2> QED BY <2>2, <2>3
  <1>11. /\ WordFor(rn, word[rn.lock]) /\ made' \in 0..MaxMade
         /\ rn.at \notin {"idle", "allocate"} => BaseFor(t, rn, word[rn.lock], base[Place(rn.lock)])
    <2>1. WordFor(rn, word[rn.lock])
      BY <1>4, <1>5, <1>8 DEF WordFor
    <2>2. rn.at \notin {"idle", "allocate"} => BaseFor(t, rn, word[rn.lock], base[Place(rn.lock)])
      BY <1>4, <1>5, <1>8 DEF BaseFor
    <2>3. made' \in 0..MaxMade
      BY UserLocksAssumption DEF UserLocksInv, UserTypes
    <2> QED BY <2>1, <2>2, <2>3
  <1>12. rn.at \in {"idle", "allocate", "found", "lookup"} /\ routine[t].at \in {"idle", "done"}
    BY <1>4, <1>5, <1>6
  <1>13. UserLocksInv' /\ AbsLocks' = AbsLocks
    BY <1>5, <1>6, <1>9, <1>10, <1>11, <1>12, CallStep
  <1>14. AbsCalls[t] = [at |-> "idle"] /\ AbsCalls' = [AbsCalls EXCEPT ![t] = Called(l, o)]
    <2>1. CallOf(rn) = Called(l, o) /\ CallOf(routine[t]) = [at |-> "idle"]
      BY <1>4, <1>5, <1>6 DEF CallOf
    <2>2. UserTypes
      BY DEF UserLocksInv
    <2>3. AbsCalls' = [AbsCalls EXCEPT ![t] = CallOf(rn)] /\ AbsCalls[t] = CallOf(routine[t])
      BY <1>6, <2>2, CallsChange
    <2> QED BY <2>1, <2>3
  <1>15. \A u \in Caller : AbsCalls[u].at = "called" /\ AbsCalls[u].lock = l =>
           {AbsCalls[u].op, o} \cap {"init", "initNest", "destroy"} = {}
    <2> SUFFICES ASSUME NEW u \in Caller, AbsCalls[u].at = "called", AbsCalls[u].lock = l
                 PROVE  routine[u].lock = l /\ AbsCalls[u].op = routine[u].op
      BY <1>1
    <2>1. AbsCalls[u] = CallOf(routine[u])
      BY DEF AbsCalls, AbstractCall, CallOf, Done, Called
    <2>2. CASE routine[u].at = "idle" \/ routine[u].at \in {"depth", "own", "done"}
      BY <2>1, <2>2 DEF CallOf, Done
    <2>3. CASE ~(routine[u].at = "idle" \/ routine[u].at \in {"depth", "own", "done"})
      BY <2>1, <2>3 DEF CallOf, Called
    <2> QED BY <2>2, <2>3
  <1>16. Interface!Invoke(t)
    <2>1. Interface!Legal(t, l, o) /\ o \in {"init", "initNest", "destroy", "set", "test", "unset"}
      BY <1>1 DEF Operations
    <2> QED BY <1>13, <1>14, <1>15, <2>1 DEF AbsLocks, AbsCalls, Called, Interface!Invoke, Interface!Idle
  <1> QED BY <1>13, <1>16 DEF Interface!Next

-----------------------------------------------------------------------------
(* Making and destroying: no other thread is about the lock.                *)
LEMMA AloneStep ==
    ASSUME NEW t \in Caller, NEW l \in Lock, NEW rn \in Routine, NEW w, UserLocksInv,
           l = routine[t].lock, routine[t].op \in Making \cup {"destroy"},
           routine[t].at \in {"allocate", "initialize", "found"},
           rn.lock = l, rn.op = routine[t].op, rn.at \in {"initialize", "done"},
           routine' = [routine EXCEPT ![t] = rn], word' = [word EXCEPT ![l] = w],
           \/ base' = base
           \/ word[l] # Nil /\ base' = [base EXCEPT ![Loc(t)] = FreeBase],
           UserTypes', EntriesLeft', EntriesApart', WordFor(rn, w),
           \/ rn.at = "initialize" \/ w = Nil
           \/ w = word[l] /\ w # Nil /\ base' = [base EXCEPT ![Loc(t)] = FreeBase]
    PROVE  /\ UserLocksInv'
           /\ AbsLocks' = [AbsLocks EXCEPT ![l] =
                IF rn.at = "initialize" \/ w = Nil THEN Nil ELSE Seen(w, FreeBase)]
           /\ AbsCalls' = [AbsCalls EXCEPT ![t] = CallOf(rn)] /\ AbsCalls[t] = CallOf(routine[t])
  <1>1. routine'[t] = rn /\ \A u \in Caller : u # t => routine'[u] = routine[u]
    BY DEF UserLocksInv, UserTypes
  <1>2. word'[l] = w /\ \A m \in Lock : m # l => word'[m] = word[m]
    BY DEF UserLocksInv, UserTypes
  <1>3. \A u \in Caller : u # t => routine[u].lock # l
    BY UserLocksAssumption DEF UserLocksInv, MadeAlone
  <1>4. MadeAlone'
    <2>1. \A u \in Caller : routine'[u].lock = routine[u].lock /\ routine'[u].op = routine[u].op
      BY <1>1
    <2> QED BY <2>1 DEF UserLocksInv, MadeAlone
  <1>5. WordsRight'
    <2> SUFFICES ASSUME NEW u \in Caller PROVE WordFor(routine'[u], word'[routine'[u].lock])
      BY DEF WordsRight, WordFor
    <2>1. CASE u = t
      BY <1>1, <1>2, <2>1
    <2>2. CASE u # t
      <3>1. PICK r : r = routine[u]
        OBVIOUS
      <3>2. WordFor(r, word[r.lock]) /\ routine'[u] = r /\ r.lock # l
        BY <1>1, <1>3, <2>2, <3>1 DEF UserLocksInv, WordsRight
      <3>3. CASE r.at = "idle"
        BY <3>2, <3>3 DEF WordFor
      <3>4. CASE r.at # "idle"
        <4>1. word'[r.lock] = word[r.lock]
          BY <1>2, <3>2, <3>4 DEF WordFor
        <4> QED BY <3>2, <4>1
      <3> QED BY <3>3, <3>4
    <2> QED BY <2>1, <2>2
  <1>6. \A m \in Lock : m # l => Place(m)' = Place(m)
    BY <1>2 DEF Place
  <1>7. ASSUME NEW m \in Lock, m # l, word[m] # Nil
        PROVE  base'[Place(m)'] = base[Place(m)] /\ Place(m) \in Lock \cup Index
    <2>1. Place(m) \in Lock \cup Index /\ Place(m)' = Place(m)
      BY <1>6, <1>7, PlacesApart
    <2>2. word[l] # Nil => Place(m) # Loc(t)
      BY <1>7, PlacesApart DEF Loc
    <2> QED BY <2>1, <2>2 DEF UserLocksInv, UserTypes
  <1>8. \A m \in Lock : m # l => (Made(m)' <=> Made(m))
    BY <1>1, <1>2 DEF Made
  <1>9. RoutinesRight'
    <2> SUFFICES ASSUME NEW u \in Caller, routine'[u].at \notin {"idle", "allocate", "initialize", "done"}
                 PROVE  BaseFor(u, routine[u], word[routine[u].lock], base[Place(routine[u].lock)])'
      BY DEF RoutinesRight
    <2>1. u # t
      BY <1>1
    <2>2. PICK r : r = routine[u]
      OBVIOUS
    <2>3. routine'[u] = r /\ r.lock # l /\ r.at \notin {"idle", "allocate", "initialize", "done"}
      BY <1>1, <1>3, <2>1, <2>2
    <2>4. r.lock \in Lock /\ word[r.lock] # Nil /\ BaseFor(u, r, word[r.lock], base[Place(r.lock)])
      BY <2>2, <2>3, InUse DEF Word, Loc
    <2>5. base'[Place(r.lock)'] = base[Place(r.lock)] /\ word'[r.lock] = word[r.lock]
      BY <1>2, <1>7, <2>3, <2>4
    <2> QED BY <2>3, <2>4, <2>5 DEF BaseFor
  <1>10. ASSUME Made(l)'
         PROVE  rn.at # "initialize" /\ w # Nil /\ w = word[l] /\ base'[Place(l)'] = FreeBase
    <2>1. rn.at # "initialize" /\ w # Nil
      BY <1>1, <1>2, <1>10 DEF Made
    <2>2. Place(l)' = Place(l) /\ Loc(t) = Place(l) /\ word[l] # Nil
      BY <1>2, <2>1 DEF Place, Loc
    <2>3. Place(l) \in Lock \cup Index
      BY <2>2, PlacesApart
    <2> QED BY <2>1, <2>2, <2>3 DEF UserLocksInv, UserTypes
  <1>11. BasesRight'
    <2> SUFFICES ASSUME NEW m \in Lock, Made(m)' PROVE BaseRight(m, word[m], base[Place(m)], routine[base[Place(m)].holder])'
      BY DEF BasesRight
    <2>1. CASE m = l
      BY <1>10, <2>1, UserLocksAssumption DEF BaseRight, FreeBase
    <2>2. CASE m # l
      <3>1. /\ word'[m] = word[m] /\ word[m] # Nil /\ base'[Place(m)'] = base[Place(m)]
            /\ Place(m) \in Lock \cup Index
        BY <1>2, <1>7, <1>8, <2>2 DEF Made
      <3>2. BaseRight(m, word[m], base[Place(m)], routine[base[Place(m)].holder])
        BY <1>8, <2>2 DEF UserLocksInv, BasesRight
      <3>3. base[Place(m)].holder \in Caller \cup {Nil}
        BY <3>1 DEF UserLocksInv, UserTypes, BaseLock
      <3>4. base[Place(m)].holder # Nil =>
              (Moving(routine'[base[Place(m)].holder], m) <=> Moving(routine[base[Place(m)].holder], m))
        BY <1>1, <2>2, <3>3 DEF Moving
      <3> QED BY <3>1, <3>2, <3>4 DEF BaseRight, Moving
    <2> QED BY <2>1, <2>2
  <1>12. UserLocksInv'
    BY <1>4, <1>5, <1>9, <1>11 DEF UserLocksInv
  <1>13. AbstractLock(l)' = IF rn.at = "initialize" \/ w = Nil THEN Nil ELSE Seen(w, FreeBase)
    <2>1. CASE Made(l)'
      <3>1. AbstractLock(l)' = Seen(word'[l], base'[Place(l)'])
        BY <2>1 DEF AbstractLock, Seen, LockState
      <3> QED BY <1>2, <1>10, <2>1, <3>1
    <2>2. CASE ~Made(l)'
      <3>1. rn.at = "initialize" \/ w = Nil
        BY <1>1, <1>2, <1>3, <2>2 DEF Made
      <3> QED BY <2>2, <3>1 DEF AbstractLock
    <2> QED BY <2>1, <2>2
  <1>14. \A m \in Lock : m # l => AbstractLock(m)' = AbstractLock(m)
    <2> SUFFICES ASSUME NEW m \in Lock, m # l PROVE AbstractLock(m)' = AbstractLock(m)
      OBVIOUS
    <2>1. CASE Made(m)
      <3>1. word'[m] = word[m] /\ base'[Place(m)'] = base[Place(m)]
        BY <1>2, <1>7, <2>1 DEF Made
      <3> QED BY <1>8, <2>1, <3>1 DEF AbstractLock
    <2>2. CASE ~Made(m)
      BY <1>8, <2>2 DEF AbstractLock
    <2> QED BY <2>1, <2>2
  <1>15. AbsLocks' = [AbsLocks EXCEPT ![l] = AbstractLock(l)']
    BY <1>14, LocksChange
  <1>16. UserTypes
    BY DEF UserLocksInv
  <1> QED BY <1>12, <1>13, <1>15, <1>16, CallsChange

LEMMA InitializeBaseStep ==
    ASSUME NEW t \in Caller, UserLocksInv, InitializeBase(t)
    PROVE  UserLocksInv' /\ Interface!Next
  <1>1. PICK rn, l, w : /\ rn = [routine[t] EXCEPT !.at = "done", !.result = 0]
                        /\ l = routine[t].lock /\ w = word[routine[t].lock]
    OBVIOUS
  <1>2. /\ routine[t] \in Routine /\ routine[t].at = "initialize" /\ WordFor(routine[t], w)
    BY <1>1 DEF UserLocksInv, UserTypes, InitializeBase, InRoutine, WordsRight
  <1>3. /\ l \in Lock /\ routine[t].op \in Making /\ w # Nil
        /\ (w.kind \in Nested <=> routine[t].op = "initNest")
    BY <1>1, <1>2 DEF WordFor
  <1>4. /\ rn \in Routine /\ rn.lock = l /\ rn.op = routine[t].op /\ rn.at = "done" /\ rn.result = 0
    BY <1>1, <1>2 DEF Routine, Places
  <1>5. /\ routine' = [routine EXCEPT ![t] = rn] /\ base' = [base EXCEPT ![Loc(t)] = FreeBase]
        /\ UNCHANGED <<word, lockTable, lockPool, made, family>>
    BY <1>1 DEF InitializeBase, Set, DoneWith, UserLocksInv, UserTypes
  <1>6. word' = [word EXCEPT ![l] = w]
    BY <1>1, <1>3, <1>5 DEF UserLocksInv, UserTypes
  <1>7. routine'[t] = rn /\ \A u \in Caller : u # t => routine'[u] = routine[u]
    BY <1>5 DEF UserLocksInv, UserTypes
  <1>8. UserTypes'
    <2>1. FreeBase \in BaseLock
      BY DEF FreeBase, BaseLock
    <2> QED BY <1>4, <1>5, <2>1 DEF UserLocksInv, UserTypes
  <1>9. EntriesLeft'
    <2>1. {u \in Caller : routine'[u].at = "allocate"} = {u \in Caller : routine[u].at = "allocate"}
      BY <1>2, <1>4, <1>7
    <2> QED BY <1>5, <2>1 DEF UserLocksInv, EntriesLeft
  <1>10. EntriesApart'
    BY <1>5 DEF UserLocksInv, EntriesApart, EntryOf
  <1>11. WordFor(rn, w)
    BY <1>2, <1>3, <1>4 DEF WordFor
  <1>12. /\ \/ base' = base
            \/ word[l] # Nil /\ base' = [base EXCEPT ![Loc(t)] = FreeBase]
         /\ \/ rn.at = "initialize" \/ w = Nil
            \/ w = word[l] /\ w # Nil /\ base' = [base EXCEPT ![Loc(t)] = FreeBase]
         /\ routine[t].op \in Making \cup {"destroy"} /\ routine[t].at \in {"allocate", "initialize", "found"}
         /\ rn.at \in {"initialize", "done"} /\ l = routine[t].lock
    BY <1>1, <1>2, <1>3, <1>4, <1>5
  <1>13. /\ UserLocksInv'
         /\ AbsLocks' = [AbsLocks EXCEPT ![l] =
              IF rn.at = "initialize" \/ w = Nil THEN Nil ELSE Seen(w, FreeBase)]
         /\ AbsCalls' = [AbsCalls EXCEPT ![t] = CallOf(rn)] /\ AbsCalls[t] = CallOf(routine[t])
    BY <1>3, <1>4, <1>5, <1>6, <1>8, <1>9, <1>10, <1>11, <1>12, AloneStep
  <1>14. Seen(w, FreeBase) = LockState(routine[t].op = "initNest", Nil, 0)
    <2>1. (w.kind \in Nested) = (routine[t].op = "initNest")
      BY <1>3
    <2>2. FreeBase.holder = Nil
      BY DEF FreeBase
    <2> QED BY <2>1, <2>2 DEF Seen
  <1>15. AbsLocks' = [AbsLocks EXCEPT ![l] = LockState(routine[t].op = "initNest", Nil, 0)]
    BY <1>3, <1>4, <1>13, <1>14
  <1>16. CallOf(rn) = Done(0) /\ CallOf(routine[t]) = Called(l, routine[t].op)
    BY <1>1, <1>2, <1>4 DEF CallOf
  <1>17. PICK o \in Making : o = routine[t].op
    BY <1>3
  <1>18. /\ AbsLocks' = [AbsLocks EXCEPT ![l] = LockState(o = "initNest", Nil, 0)]
         /\ AbsCalls' = [AbsCalls EXCEPT ![t] = Done(0)] /\ AbsCalls[t] = Called(l, o)
    BY <1>13, <1>15, <1>16, <1>17
  <1> QED BY <1>3, <1>13, <1>18, MakeSeen

(* A lock that is given to a routine starts with an entry of its own.       *)
LEMMA EntriesStayApart ==
    ASSUME UserLocksInv, NEW l \in Lock, word[l] = Nil, NEW k \in Direct \cup Indirect, NEW i \in Nat,
           word' = [word EXCEPT ![l] = [kind |-> k, index |-> i]],
           \/ k \in Direct /\ UNCHANGED <<lockTable, lockPool>>
           \/ /\ k \in Indirect /\ lockPool[k] # <<>> /\ i = Head(lockPool[k])
              /\ lockPool' = [lockPool EXCEPT ![k] = Tail(lockPool[k])] /\ UNCHANGED lockTable
           \/ /\ k \in Indirect /\ i = lockTable.next /\ lockTable'.next = lockTable.next + 1
              /\ UNCHANGED lockPool
    PROVE  EntriesApart'
  <1>1. PICK next : next = lockTable.next
    OBVIOUS
  <1>2. /\ next \in Nat /\ lockPool \in [Indirect -> Seq(Nat)]
        /\ lockTable'.next \in {next, next + 1}
    BY <1>1 DEF UserLocksInv, UserTypes
  <1>3. /\ \A m \in Lock : \A j \in Nat : m # l => (EntryOf(m, j)' <=> EntryOf(m, j))
        /\ \A j \in Nat : EntryOf(l, j)' => k \in Indirect /\ j = i
        /\ \A j \in Nat : ~EntryOf(l, j)
    BY DEF EntryOf, UserLocksInv, UserTypes
  <1>4. /\ \A m \in Lock : \A j \in Nat : EntryOf(m, j) =>
             /\ j < next
             /\ \A p \in Lock : EntryOf(p, j) => m = p
             /\ \A q \in Indirect : \A n \in 1..Len(lockPool[q]) : lockPool[q][n] # j
        /\ \A q \in Indirect : \A n \in 1..Len(lockPool[q]) :
             /\ lockPool[q][n] < next
             /\ \A r \in Indirect : \A m \in 1..Len(lockPool[r]) :
                  lockPool[q][n] = lockPool[r][m] => q = r /\ n = m
    BY <1>1 DEF UserLocksInv, EntriesApart
  <1>5. CASE k \in Direct /\ UNCHANGED <<lockTable, lockPool>>
    <2>1. \A m \in Lock : \A j \in Nat : EntryOf(m, j)' => EntryOf(m, j)
      BY <1>3, <1>5, KindFacts
    <2> QED BY <1>1, <1>4, <1>5, <2>1 DEF EntriesApart
  <1>6. CASE /\ k \in Indirect /\ lockPool[k] # <<>> /\ i = Head(lockPool[k])
             /\ lockPool' = [lockPool EXCEPT ![k] = Tail(lockPool[k])] /\ UNCHANGED lockTable
    <2>1. PICK s, z : s = lockPool[k] /\ z = Tail(s)
      OBVIOUS
    <2>2. /\ s \in Seq(Nat) /\ s # <<>>
      BY <1>2, <1>6, <2>1
    <2>3. /\ z \in Seq(Nat) /\ Len(s) \in Nat /\ Len(s) > 0 /\ i = s[1] /\ Len(z) = Len(s) - 1
          /\ \A n \in 1..Len(z) : z[n] = s[n + 1]
      BY <1>6, <2>1, <2>2, TailFacts
    <2>4. lockPool'[k] = z /\ \A q \in Indirect : q # k => lockPool'[q] = lockPool[q]
      BY <1>2, <1>6, <2>1
    <2>5. \A q \in Indirect : \A n \in 1..Len(lockPool'[q]) : \E m \in 1..Len(lockPool[q]) :
            /\ lockPool'[q][n] = lockPool[q][m] /\ m = IF q = k THEN n + 1 ELSE n
      <3> SUFFICES ASSUME NEW q \in Indirect, NEW n \in 1..Len(lockPool'[q])
                   PROVE  \E m \in 1..Len(lockPool[q]) :
                            lockPool'[q][n] = lockPool[q][m] /\ m = IF q = k THEN n + 1 ELSE n
        OBVIOUS
      <3>1. CASE q = k
        <4>1. n \in 1..Len(z) /\ n + 1 \in 1..Len(s) /\ z[n] = s[n + 1]
          BY <2>3, <2>4, <3>1
        <4> QED BY <2>1, <2>4, <3>1, <4>1
      <3>2. CASE q # k
        BY <2>4, <3>2
      <3> QED BY <3>1, <3>2
    <2>6. /\ i < next
          /\ \A m \in Lock : ~EntryOf(m, i)
          /\ \A q \in Indirect : \A n \in 1..Len(lockPool[q]) : lockPool[q][n] = i => q = k /\ n = 1
      <3>1. 1 \in 1..Len(lockPool[k]) /\ lockPool[k][1] = i /\ k \in Indirect
        BY <1>6, <2>1, <2>3
      <3> QED BY <1>4, <3>1
    <2>7. \A q \in Indirect : \A n \in 1..Len(lockPool'[q]) : lockPool'[q][n] # i /\ lockPool'[q][n] < next
      <3> SUFFICES ASSUME NEW q \in Indirect, NEW n \in 1..Len(lockPool'[q])
                   PROVE  lockPool'[q][n] # i /\ lockPool'[q][n] < next
        OBVIOUS
      <3>1. PICK m \in 1..Len(lockPool[q]) :
              lockPool'[q][n] = lockPool[q][m] /\ m = IF q = k THEN n + 1 ELSE n
        BY <2>5
      <3>2. q = k => m # 1
        <4>1. q = k => n \in 1..Len(z) /\ Len(z) \in Nat
          BY <2>3, <2>4
        <4> QED BY <3>1, <4>1
      <3> QED BY <1>4, <2>6, <3>1, <3>2
    <2>8. \A q, r \in Indirect : \A n \in 1..Len(lockPool'[q]), m \in 1..Len(lockPool'[r]) :
            lockPool'[q][n] = lockPool'[r][m] => q = r /\ n = m
      <3> SUFFICES ASSUME NEW q \in Indirect, NEW r \in Indirect, NEW n \in 1..Len(lockPool'[q]),
                          NEW m \in 1..Len(lockPool'[r]), lockPool'[q][n] = lockPool'[r][m]
                   PROVE  q = r /\ n = m
        OBVIOUS
      <3>1. PICK nn \in 1..Len(lockPool[q]) :
              lockPool'[q][n] = lockPool[q][nn] /\ nn = IF q = k THEN n + 1 ELSE n
        BY <2>5
      <3>2. PICK mm \in 1..Len(lockPool[r]) :
              lockPool'[r][m] = lockPool[r][mm] /\ mm = IF r = k THEN m + 1 ELSE m
        BY <2>5
      <3>3. q = r /\ nn = mm
        <4>1. lockPool[q][nn] = lockPool[r][mm]
          BY <3>1, <3>2
        <4> QED BY <1>4, <4>1, Zenon
      <3>4. CASE q = k
        <4>1. n \in 1..Len(z) /\ m \in 1..Len(z) /\ Len(z) \in Nat
          BY <2>3, <2>4, <3>3, <3>4
        <4>2. n \in Nat /\ m \in Nat /\ n + 1 = m + 1
          BY <3>1, <3>2, <3>3, <3>4, <4>1
        <4>3. n = m
          BY <4>2
        <4> QED BY <3>3, <4>3
      <3>5. CASE q # k
        BY <3>1, <3>2, <3>3, <3>5
      <3> QED BY <3>4, <3>5
    <2>9. \A m \in Lock : \A j \in Nat : EntryOf(m, j)' =>
             /\ j < next
             /\ \A p \in Lock : EntryOf(p, j)' => m = p
             /\ \A q \in Indirect : \A n \in 1..Len(lockPool'[q]) : lockPool'[q][n] # j
      <3> SUFFICES ASSUME NEW m \in Lock, NEW j \in Nat, EntryOf(m, j)'
                   PROVE  /\ j < next
                          /\ \A p \in Lock : EntryOf(p, j)' => m = p
                          /\ \A q \in Indirect : \A n \in 1..Len(lockPool'[q]) : lockPool'[q][n] # j
        OBVIOUS
      <3>1. CASE m = l
        BY <1>3, <2>6, <2>7, <3>1
      <3>2. CASE m # l
        <4>1. EntryOf(m, j) /\ j # i
          BY <1>3, <2>6, <3>2
        <4>2. j < next /\ \A p \in Lock : EntryOf(p, j)' => m = p
          BY <1>3, <1>4, <4>1
        <4>3. \A q \in Indirect : \A n \in 1..Len(lockPool'[q]) : lockPool'[q][n] # j
          BY <1>4, <2>5, <4>1
        <4> QED BY <4>2, <4>3
      <3> QED BY <3>1, <3>2
    <2>10. lockTable'.next = next
      BY <1>1, <1>6
    <2> QED BY <2>7, <2>8, <2>9, <2>10 DEF EntriesApart
  <1>7. CASE /\ k \in Indirect /\ i = lockTable.next /\ lockTable'.next = lockTable.next + 1
             /\ UNCHANGED lockPool
    <2>1. \A x \in Nat : x < next => x < lockTable'.next /\ x # i
      BY <1>1, <1>2, <1>7
    <2>2. i < lockTable'.next
      BY <1>1, <1>2, <1>7
    <2>3. \A q \in Indirect : \A n \in 1..Len(lockPool[q]) : lockPool[q][n] \in Nat
      BY <1>2
    <2>4. \A m \in Lock : \A j \in Nat : EntryOf(m, j)' =>
             /\ j < lockTable'.next
             /\ \A p \in Lock : EntryOf(p, j)' => m = p
             /\ \A q \in Indirect : \A n \in 1..Len(lockPool[q]) : lockPool[q][n] # j
      <3> SUFFICES ASSUME NEW m \in Lock, NEW j \in Nat, EntryOf(m, j)'
                   PROVE  /\ j < lockTable'.next
                          /\ \A p \in Lock : EntryOf(p, j)' => m = p
                          /\ \A q \in Indirect : \A n \in 1..Len(lockPool[q]) : lockPool[q][n] # j
        OBVIOUS
      <3>1. CASE m = l
        <4>1. j = i
          BY <1>3, <3>1
        <4> QED BY <1>3, <1>4, <2>1, <2>2, <2>3, <3>1, <4>1
      <3>2. CASE m # l
        <4>1. EntryOf(m, j) /\ j < next /\ j # i
          BY <1>3, <1>4, <2>1, <3>2
        <4> QED BY <1>3, <1>4, <2>1, <4>1
      <3> QED BY <3>1, <3>2
    <2>5. \A q \in Indirect : \A n \in 1..Len(lockPool[q]) : lockPool[q][n] < lockTable'.next
      BY <1>4, <2>1, <2>3
    <2> QED BY <1>4, <1>7, <2>4, <2>5 DEF EntriesApart
  <1> QED BY <1>5, <1>6, <1>7

LEMMA AllocateLockStep ==
    ASSUME NEW t \in Caller, UserLocksInv, AllocateLock(t)
    PROVE  UserLocksInv' /\ UNCHANGED Interface!vars
  <1>1. PICK kind \in KindsFor(routine[t].op) :
          IF kind \in Direct
            THEN /\ word' = [word EXCEPT ![routine[t].lock] = [kind |-> kind, index |-> 0]]
                 /\ UNCHANGED <<lockTable, lockPool>>
            ELSE AllocateIndirect(t, kind)
    BY DEF AllocateLock
  <1>2. PICK rn, l : rn = [routine[t] EXCEPT !.at = "initialize"] /\ l = routine[t].lock
    OBVIOUS
  <1>3. /\ routine[t] \in Routine /\ routine[t].at = "allocate" /\ WordFor(routine[t], word[l])
        /\ UNCHANGED <<base, made, family>>
    BY <1>2 DEF UserLocksInv, UserTypes, AllocateLock, InRoutine, WordsRight
  <1>4. l \in Lock /\ routine[t].op \in Making /\ word[l] = Nil
    BY <1>2, <1>3 DEF WordFor
  <1>5. PICK o \in Making : o = routine[t].op
    BY <1>4
  <1>6. kind \in Direct \cup Indirect /\ (kind \in Nested <=> o = "initNest")
    BY <1>1, <1>5, KindsMade DEF UserLocksInv
  <1>7. PICK i \in Nat :
          /\ word' = [word EXCEPT ![l] = [kind |-> kind, index |-> i]]
          /\ \/ kind \in Direct /\ UNCHANGED <<lockTable, lockPool>>
             \/ /\ kind \in Indirect /\ lockPool[kind] # <<>> /\ i = Head(lockPool[kind])
                /\ lockPool' = [lockPool EXCEPT ![kind] = Tail(lockPool[kind])] /\ UNCHANGED lockTable
             \/ /\ kind \in Indirect /\ i = lockTable.next /\ lockTable' = Grown
                /\ UNCHANGED lockPool
    <2>1. CASE kind \in Direct
      BY <1>1, <1>2, <2>1
    <2>2. CASE kind \notin Direct /\ lockPool[kind] # <<>>
      <3>1. kind \in Indirect /\ lockPool[kind] \in Seq(Nat)
        BY <1>6, <2>2 DEF UserLocksInv, UserTypes
      <3>2. Head(lockPool[kind]) \in Nat
        BY <2>2, <3>1
      <3> QED BY <1>1, <1>2, <2>2, <3>1, <3>2 DEF AllocateIndirect
    <2>3. CASE kind \notin Direct /\ lockPool[kind] = <<>>
      <3>1. kind \in Indirect /\ lockTable.next \in Nat
        BY <1>6, <2>3 DEF UserLocksInv, UserTypes
      <3> QED BY <1>1, <1>2, <2>3, <3>1 DEF AllocateIndirect
    <2> QED BY <2>1, <2>2, <2>3
  <1>8. /\ lockTable' \in [version : Nat, size : Nat, next : Nat]
        /\ lockTable' = lockTable \/ lockTable'.next = lockTable.next + 1
        /\ lockTable' = Grown => lockTable'.next = lockTable.next + 1
    <2>1. lockTable \in [version : Nat, size : Nat, next : Nat]
      BY DEF UserLocksInv, UserTypes
    <2>2. Grown \in [version : Nat, size : Nat, next : Nat] /\ Grown.next = lockTable.next + 1
      <3>1. CASE lockTable.next = lockTable.size
        <4>1. PICK v \in Nat, z \in Nat, x \in Nat :
                v = lockTable.version + 1 /\ z = 2 * lockTable.size /\ x = lockTable.next + 1
          BY <2>1
        <4>2. Grown = [lockTable EXCEPT !.version = v, !.size = z, !.next = x]
          BY <3>1, <4>1 DEF Grown
        <4>3. Grown = [version |-> v, size |-> z, next |-> x]
          BY <2>1, <4>2
        <4> QED BY <4>1, <4>3
      <3>2. CASE lockTable.next # lockTable.size
        BY <2>1, <3>2 DEF Grown
      <3> QED BY <3>1, <3>2
    <2> QED BY <1>7, <2>1, <2>2
  <1>9. rn \in Routine /\ rn.lock = l /\ rn.op = o /\ rn.at = "initialize" /\ rn.result = routine[t].result
    BY <1>2, <1>3, <1>5 DEF Routine, Places
  <1>10. routine' = [routine EXCEPT ![t] = rn]
    BY <1>2 DEF AllocateLock, Continue, UserLocksInv, UserTypes
  <1>11. routine'[t] = rn /\ \A u \in Caller : u # t => routine'[u] = routine[u]
    BY <1>10 DEF UserLocksInv, UserTypes
  <1>12. PICK w : w = [kind |-> kind, index |-> i]
    OBVIOUS
  <1>13. /\ word' = [word EXCEPT ![l] = w] /\ w.kind = kind
         /\ w \in [kind : Direct \cup Indirect, index : Nat] /\ w # Nil
    BY <1>6, <1>7, <1>12, UserLocksAssumption
  <1>14. UserTypes'
    <2>1. word' \in [Lock -> {Nil} \cup [kind : Direct \cup Indirect, index : Nat]]
      BY <1>13 DEF UserLocksInv, UserTypes
    <2>2. lockPool' \in [Indirect -> Seq(Nat)]
      <3>1. CASE lockPool' = lockPool
        BY <3>1 DEF UserLocksInv, UserTypes
      <3>2. CASE /\ kind \in Indirect /\ lockPool[kind] # <<>>
                 /\ lockPool' = [lockPool EXCEPT ![kind] = Tail(lockPool[kind])]
        <4>1. lockPool[kind] \in Seq(Nat) /\ lockPool \in [Indirect -> Seq(Nat)]
          BY <3>2 DEF UserLocksInv, UserTypes
        <4>2. Tail(lockPool[kind]) \in Seq(Nat)
          BY <3>2, <4>1
        <4> QED BY <3>2, <4>1, <4>2
      <3> QED BY <1>7, <3>1, <3>2
    <2>3. routine' \in [Caller -> Routine]
      BY <1>9, <1>10 DEF UserLocksInv, UserTypes
    <2> QED BY <1>3, <1>8, <2>1, <2>2, <2>3 DEF UserLocksInv, UserTypes
  <1>15. EntriesLeft'
    <2> DEFINE A == {u \in Caller : routine[u].at = "allocate"}
    <2>1. IsFiniteSet(A) /\ t \in A
      BY <1>3, FS_Subset, UserLocksAssumption
    <2>2. {u \in Caller : routine'[u].at = "allocate"} = A \ {t}
      BY <1>9, <1>11
    <2>3. Cardinality(A \ {t}) = Cardinality(A) - 1 /\ Cardinality(A) \in Nat
      BY <2>1, FS_RemoveElement, FS_CardinalityType
    <2>4. lockTable'.next + Cardinality(A \ {t}) <= made'
      <3>1. lockTable.next + Cardinality(A) <= made
        BY DEF UserLocksInv, EntriesLeft
      <3> HIDE DEF A
      <3>2. made' = made /\ lockTable.next \in Nat /\ made \in Nat
        BY <1>3 DEF UserLocksInv, UserTypes
      <3> QED BY <1>8, <2>3, <3>1, <3>2
    <2> QED BY <2>2, <2>4 DEF EntriesLeft
  <1>16. EntriesApart'
    BY <1>4, <1>6, <1>7, <1>8, EntriesStayApart
  <1>17. WordFor(rn, w)
    BY <1>4, <1>5, <1>6, <1>9, <1>13 DEF WordFor, Making, Operations
  <1>18. /\ rn.at \in {"initialize", "done"} /\ l = routine[t].lock /\ rn.op = routine[t].op
         /\ routine[t].op \in Making \cup {"destroy"}
         /\ routine[t].at \in {"allocate", "initialize", "found"}
         /\ \/ base' = base
            \/ word[l] # Nil /\ base' = [base EXCEPT ![Loc(t)] = FreeBase]
         /\ \/ rn.at = "initialize" \/ w = Nil
            \/ w = word[l] /\ w # Nil /\ base' = [base EXCEPT ![Loc(t)] = FreeBase]
    BY <1>2, <1>3, <1>4, <1>5, <1>9
  <1>19. /\ UserLocksInv'
         /\ AbsLocks' = [AbsLocks EXCEPT ![l] =
              IF rn.at = "initialize" \/ w = Nil THEN Nil ELSE Seen(w, FreeBase)]
         /\ AbsCalls' = [AbsCalls EXCEPT ![t] = CallOf(rn)] /\ AbsCalls[t] = CallOf(routine[t])
    BY <1>4, <1>9, <1>10, <1>13, <1>14, <1>15, <1>16, <1>17, <1>18, AloneStep
  <1>20. AbsLocks[l] = Nil
    <2>1. ~Made(l)
      BY <1>4 DEF Made
    <2> QED BY <1>4, <2>1, MadeIsSeen
  <1>21. CallOf(rn) = CallOf(routine[t])
    BY <1>2, <1>3, <1>5, <1>9 DEF CallOf
  <1>22. AbsLocks' = [AbsLocks EXCEPT ![l] = AbsLocks[l]] /\ AbsCalls' = [AbsCalls EXCEPT ![t] = AbsCalls[t]]
    BY <1>9, <1>19, <1>20, <1>21
  <1> QED BY <1>4, <1>19, <1>22, Stutters

LEMMA EntriesPooledApart ==
    ASSUME UserLocksInv, NEW l \in Lock, NEW w \in [kind : Direct \cup Indirect, index : Nat],
           word[l] = w, w # Nil, word' = [word EXCEPT ![l] = Nil], UNCHANGED lockTable,
           IF w.kind \in Direct THEN UNCHANGED lockPool
           ELSE lockPool' = [lockPool EXCEPT ![w.kind] = <<w.index>> \o lockPool[w.kind]]
    PROVE  EntriesApart' /\ lockPool' \in [Indirect -> Seq(Nat)]
  <1>1. PICK next, k, i : next = lockTable.next /\ k = w.kind /\ i = w.index
    OBVIOUS
  <1>2. /\ next \in Nat /\ lockPool \in [Indirect -> Seq(Nat)] /\ i \in Nat /\ lockTable'.next = next
    BY <1>1 DEF UserLocksInv, UserTypes
  <1>3. /\ \A m \in Lock : \A j \in Nat : EntryOf(m, j)' => m # l /\ EntryOf(m, j)
        /\ k \in Indirect => EntryOf(l, i)
    BY <1>1, <1>2 DEF EntryOf, UserLocksInv, UserTypes
  <1>4. /\ \A m \in Lock : \A j \in Nat : EntryOf(m, j) =>
             /\ j < next
             /\ \A p \in Lock : EntryOf(p, j) => m = p
             /\ \A q \in Indirect : \A n \in 1..Len(lockPool[q]) : lockPool[q][n] # j
        /\ \A q \in Indirect : \A n \in 1..Len(lockPool[q]) :
             /\ lockPool[q][n] < next
             /\ \A r \in Indirect : \A m \in 1..Len(lockPool[r]) :
                  lockPool[q][n] = lockPool[r][m] => q = r /\ n = m
    BY <1>1 DEF UserLocksInv, EntriesApart
  <1>5. CASE k \in Direct
    <2>1. lockPool' = lockPool
      BY <1>1, <1>5
    <2> QED BY <1>1, <1>2, <1>3, <1>4, <2>1 DEF EntriesApart
  <1>6. CASE k \notin Direct
    <2>1. k \in Indirect
      BY <1>1, <1>6
    <2>2. PICK s, z : s = lockPool[k] /\ z = <<i>> \o s
      OBVIOUS
    <2>3. s \in Seq(Nat)
      BY <1>2, <2>1, <2>2
    <2>4. /\ z \in Seq(Nat) /\ Len(z) = Len(s) + 1 /\ Len(s) \in Nat /\ z[1] = i
          /\ \A n \in 1..Len(z) : n # 1 => z[n] = s[n - 1]
      BY <1>2, <2>2, <2>3, ConsFacts
    <2>5. lockPool' = [lockPool EXCEPT ![k] = z]
      BY <1>1, <1>6, <2>2
    <2>6. /\ lockPool'[k] = z /\ \A q \in Indirect : q # k => lockPool'[q] = lockPool[q]
          /\ lockPool' \in [Indirect -> Seq(Nat)]
      BY <1>2, <2>1, <2>4, <2>5
    <2>7. \A q \in Indirect : \A n \in 1..Len(lockPool'[q]) :
            \/ q = k /\ n = 1 /\ lockPool'[q][n] = i
            \/ \E m \in 1..Len(lockPool[q]) :
                 lockPool'[q][n] = lockPool[q][m] /\ m = IF q = k THEN n - 1 ELSE n
      <3> SUFFICES ASSUME NEW q \in Indirect, NEW n \in 1..Len(lockPool'[q]), ~(q = k /\ n = 1)
                   PROVE  \E m \in 1..Len(lockPool[q]) :
                            lockPool'[q][n] = lockPool[q][m] /\ m = IF q = k THEN n - 1 ELSE n
        BY <2>4, <2>6
      <3>1. CASE q = k
        <4>1. n \in 1..Len(z) /\ n # 1 /\ n - 1 \in 1..Len(s) /\ z[n] = s[n - 1]
          BY <2>4, <2>6, <3>1
        <4> QED BY <2>2, <2>6, <3>1, <4>1
      <3>2. CASE q # k
        BY <2>6, <3>2
      <3> QED BY <3>1, <3>2
    <2>8. /\ i < next
          /\ \A m \in Lock : ~EntryOf(m, i)'
          /\ \A q \in Indirect : \A n \in 1..Len(lockPool[q]) : lockPool[q][n] # i
      BY <1>2, <1>3, <1>4, <2>1
    <2>9. \A q \in Indirect : \A n \in 1..Len(lockPool'[q]) : lockPool'[q][n] < next
      BY <1>4, <2>7, <2>8
    <2>10. \A q, r \in Indirect : \A n \in 1..Len(lockPool'[q]), m \in 1..Len(lockPool'[r]) :
            lockPool'[q][n] = lockPool'[r][m] => q = r /\ n = m
      <3> SUFFICES ASSUME NEW q \in Indirect, NEW r \in Indirect, NEW n \in 1..Len(lockPool'[q]),
                          NEW m \in 1..Len(lockPool'[r]), lockPool'[q][n] = lockPool'[r][m]
                   PROVE  q = r /\ n = m
        OBVIOUS
      <3>1. CASE q = k /\ n = 1 /\ lockPool'[q][n] = i
        <4>1. CASE r = k /\ m = 1
          BY <3>1, <4>1
        <4>2. ASSUME NEW j \in 1..Len(lockPool[r]), lockPool'[r][m] = lockPool[r][j]
              PROVE  FALSE
          BY <2>8, <3>1, <4>2
        <4> QED BY <2>7, <4>1, <4>2
      <3>2. CASE r = k /\ m = 1 /\ lockPool'[r][m] = i
        <4>1. CASE q = k /\ n = 1
          BY <3>2, <4>1
        <4>2. ASSUME NEW j \in 1..Len(lockPool[q]), lockPool'[q][n] = lockPool[q][j]
              PROVE  FALSE
          BY <2>8, <3>2, <4>2
        <4> QED BY <2>7, <4>1, <4>2
      <3>3. CASE ~(q = k /\ n = 1 /\ lockPool'[q][n] = i) /\ ~(r = k /\ m = 1 /\ lockPool'[r][m] = i)
        <4>1. PICK nn \in 1..Len(lockPool[q]) :
                lockPool'[q][n] = lockPool[q][nn] /\ nn = IF q = k THEN n - 1 ELSE n
          BY <2>7, <3>3
        <4>2. PICK mm \in 1..Len(lockPool[r]) :
                lockPool'[r][m] = lockPool[r][mm] /\ mm = IF r = k THEN m - 1 ELSE m
          BY <2>7, <3>3
        <4>3. q = r /\ nn = mm
          <5>1. lockPool[q][nn] = lockPool[r][mm]
            BY <4>1, <4>2
          <5>2. \A x \in Indirect : \A y \in 1..Len(lockPool[x]) :
                  lockPool[q][nn] = lockPool[x][y] => q = x /\ nn = y
            BY <1>4, Zenon
          <5> QED BY <5>1, <5>2, Zenon
        <4>4. CASE q = k
          <5>1. n \in 1..Len(z) /\ m \in 1..Len(z) /\ Len(z) \in Nat
            BY <2>4, <2>6, <4>3, <4>4
          <5>2. n \in Nat /\ m \in Nat /\ n - 1 = m - 1
            BY <4>1, <4>2, <4>3, <4>4, <5>1
          <5>3. n = m
            BY <5>2
          <5> QED BY <4>3, <5>3
        <4>5. CASE q # k
          BY <4>1, <4>2, <4>3, <4>5
        <4> QED BY <4>4, <4>5
      <3> QED BY <3>1, <3>2, <3>3
    <2>11. \A m \in Lock : \A j \in Nat : EntryOf(m, j)' =>
             /\ j < next
             /\ \A p \in Lock : EntryOf(p, j)' => m = p
             /\ \A q \in Indirect : \A n \in 1..Len(lockPool'[q]) : lockPool'[q][n] # j
      <3> SUFFICES ASSUME NEW m \in Lock, NEW j \in Nat, EntryOf(m, j)'
                   PROVE  /\ j < next
                          /\ \A p \in Lock : EntryOf(p, j)' => m = p
                          /\ \A q \in Indirect : \A n \in 1..Len(lockPool'[q]) : lockPool'[q][n] # j
        OBVIOUS
      <3>1. EntryOf(m, j) /\ j # i
        BY <1>3, <2>8
      <3>2. j < next /\ \A p \in Lock : EntryOf(p, j)' => m = p
        BY <1>3, <1>4, <3>1
      <3>3. ASSUME NEW q \in Indirect, NEW n \in 1..Len(lockPool'[q]), lockPool'[q][n] # i
            PROVE  lockPool'[q][n] # j
        <4>1. PICK p \in 1..Len(lockPool[q]) : lockPool'[q][n] = lockPool[q][p]
          BY <2>7, <3>3
        <4>2. lockPool[q][p] # j
          BY <1>4, <3>1
        <4> QED BY <4>1, <4>2
      <3>4. \A q \in Indirect : \A n \in 1..Len(lockPool'[q]) : lockPool'[q][n] # j
        BY <3>1, <3>3
      <3> QED BY <3>2, <3>4
    <2> QED BY <1>2, <2>6, <2>9, <2>10, <2>11 DEF EntriesApart
  <1> QED BY <1>5, <1>6

LEMMA DestroyLockStep ==
    ASSUME NEW t \in Caller, UserLocksInv, DestroyLock(t)
    PROVE  UserLocksInv' /\ Interface!Next
  <1>1. PICK rn, l, w : /\ rn = [routine[t] EXCEPT !.at = "done", !.result = 0]
                        /\ l = routine[t].lock /\ w = word[routine[t].lock]
    OBVIOUS
  <1>2. /\ routine[t] \in Routine /\ routine[t].at = "found" /\ routine[t].op = "destroy"
        /\ UNCHANGED <<base, lockTable, made, family>>
    BY <1>1 DEF UserLocksInv, UserTypes, DestroyLock, InRoutine
  <1>3. l \in Lock /\ w # Nil /\ w \in [kind : Direct \cup Indirect, index : Nat]
    <2>1. l \in Lock /\ w # Nil
      BY <1>1, <1>2, InUse
    <2> QED BY <1>1, <2>1 DEF UserLocksInv, UserTypes
  <1>4. rn \in Routine /\ rn.lock = l /\ rn.op = "destroy" /\ rn.at = "done" /\ rn.result = 0
    BY <1>1, <1>2 DEF Routine, Places
  <1>5. /\ routine' = [routine EXCEPT ![t] = rn] /\ word' = [word EXCEPT ![l] = Nil]
        /\ IF w.kind \in Direct THEN UNCHANGED lockPool
           ELSE lockPool' = [lockPool EXCEPT ![w.kind] = <<w.index>> \o lockPool[w.kind]]
    BY <1>1 DEF DestroyLock, DoneWith, Word, UserLocksInv, UserTypes
  <1>6. EntriesApart' /\ lockPool' \in [Indirect -> Seq(Nat)]
    BY <1>1, <1>2, <1>3, <1>5, EntriesPooledApart
  <1>7. routine'[t] = rn /\ \A u \in Caller : u # t => routine'[u] = routine[u]
    BY <1>5 DEF UserLocksInv, UserTypes
  <1>8. UserTypes'
    <2>1. word' \in [Lock -> {Nil} \cup [kind : Direct \cup Indirect, index : Nat]]
      BY <1>5 DEF UserLocksInv, UserTypes
    <2>2. routine' \in [Caller -> Routine]
      BY <1>4, <1>5 DEF UserLocksInv, UserTypes
    <2> QED BY <1>2, <1>6, <2>1, <2>2 DEF UserLocksInv, UserTypes
  <1>9. EntriesLeft'
    <2>1. {u \in Caller : routine'[u].at = "allocate"} = {u \in Caller : routine[u].at = "allocate"}
      BY <1>2, <1>4, <1>7
    <2> QED BY <1>2, <2>1 DEF UserLocksInv, EntriesLeft
  <1>10. WordFor(rn, Nil)
    BY <1>3, <1>4 DEF WordFor, Operations
  <1>11. PICK none : none = Nil
    OBVIOUS
  <1>12. /\ rn.at \in {"initialize", "done"} /\ l = routine[t].lock /\ rn.op = routine[t].op
         /\ routine[t].op \in Making \cup {"destroy"}
         /\ routine[t].at \in {"allocate", "initialize", "found"}
         /\ \/ base' = base
            \/ word[l] # Nil /\ base' = [base EXCEPT ![Loc(t)] = FreeBase]
         /\ \/ rn.at = "initialize" \/ none = Nil
            \/ none = word[l] /\ none # Nil /\ base' = [base EXCEPT ![Loc(t)] = FreeBase]
         /\ WordFor(rn, none) /\ word' = [word EXCEPT ![l] = none]
    BY <1>1, <1>2, <1>4, <1>5, <1>10, <1>11
  <1>13. /\ UserLocksInv'
         /\ AbsLocks' = [AbsLocks EXCEPT ![l] =
              IF rn.at = "initialize" \/ none = Nil THEN Nil ELSE Seen(none, FreeBase)]
         /\ AbsCalls' = [AbsCalls EXCEPT ![t] = CallOf(rn)] /\ AbsCalls[t] = CallOf(routine[t])
    BY <1>3, <1>4, <1>5, <1>6, <1>8, <1>9, <1>12, AloneStep
  <1>14. AbsLocks' = [AbsLocks EXCEPT ![l] = Nil]
    BY <1>11, <1>13
  <1>15. CallOf(rn) = Done(0) /\ CallOf(routine[t]) = Called(l, "destroy")
    BY <1>1, <1>2, <1>4 DEF CallOf
  <1>16. AbsCalls' = [AbsCalls EXCEPT ![t] = Done(0)] /\ AbsCalls[t] = Called(l, "destroy")
    BY <1>13, <1>15
  <1> QED BY <1>3, <1>13, <1>14, <1>16, DestroySeen

-----------------------------------------------------------------------------
LEMMA Beginnings == UserLocksInit => UserLocksInv /\ Interface!Init
  <1> SUFFICES ASSUME UserLocksInit PROVE UserLocksInv /\ Interface!Init
    OBVIOUS
  <1>1. \A t \in Caller : /\ routine[t] = IdleRoutine /\ routine[t].at = "idle"
                          /\ routine[t].lock = Nil /\ routine[t].op = "none"
    BY DEF UserLocksInit, IdleRoutine
  <1>2. \A l \in Lock : word[l] = Nil /\ ~Made(l)
    BY DEF UserLocksInit, Made
  <1>3. UserTypes
    <2>1. IdleRoutine \in Routine /\ FreeBase \in BaseLock
      BY DEF IdleRoutine, Routine, Places, FreeBase, BaseLock
    <2> QED BY <2>1, UserLocksAssumption DEF UserLocksInit, UserTypes
  <1>4. EntriesLeft
    <2>1. {t \in Caller : routine[t].at = "allocate"} = {}
      BY <1>1
    <2>2. lockTable.next = 0 /\ made = 0 /\ Cardinality({}) = 0
      BY FS_EmptySet DEF UserLocksInit
    <2>3. lockTable.next + Cardinality({}) <= made
      BY <2>2
    <2> QED BY <2>1, <2>3 DEF EntriesLeft
  <1>5. EntriesApart
    <2>1. \A l \in Lock : \A i \in Nat : ~EntryOf(l, i)
      BY <1>2 DEF EntryOf
    <2>2. \A k \in Indirect : lockPool[k] = <<>> /\ 1..Len(lockPool[k]) = {}
      BY DEF UserLocksInit
    <2> QED BY <2>1, <2>2 DEF EntriesApart
  <1>6. WordsRight
    <2>1. \A t \in Caller : WordFor(routine[t], word[routine[t].lock])
      BY <1>1 DEF WordFor
    <2> QED BY <2>1 DEF WordsRight
  <1>7. MadeAlone /\ RoutinesRight /\ BasesRight
    BY <1>1, <1>2 DEF MadeAlone, RoutinesRight, BasesRight
  <1>8. AbsLocks = [l \in Lock |-> Nil] /\ AbsCalls = [t \in Caller |-> [at |-> "idle"]]
    BY <1>1, <1>2 DEF AbsLocks, AbsCalls, AbstractLock, AbstractCall
  <1> QED BY <1>3, <1>4, <1>5, <1>6, <1>7, <1>8 DEF UserLocksInv, AbsLocks, AbsCalls, Interface!Init, Interface!Idle

LEMMA EveryStep ==
    UserLocksInv /\ [UserLocksNext]_userLockVars => UserLocksInv' /\ (Interface!Next \/ UNCHANGED Interface!vars)
  <1>1. ASSUME UserLocksInv, UserLocksNext PROVE UserLocksInv' /\ (Interface!Next \/ UNCHANGED Interface!vars)
    <2>1. PICK t \in Caller :
            \/ CallInit(t) \/ CallInitNest(t) \/ CallDestroy(t) \/ CallSet(t) \/ CallUnset(t) \/ CallTest(t)
            \/ AllocateLock(t) \/ InitializeBase(t) \/ DestroyLock(t) \/ LookUp(t) \/ LookUpEntry(t)
            \/ BeginSimple(t) \/ AcquireBase(t) \/ TestFails(t) \/ ReleaseBase(t)
            \/ NestedTas(t) \/ NestedTicket(t) \/ NestedQueuing(t) \/ NestedDrdpa(t)
            \/ ReturnFrom(t)
      BY <1>1 DEF UserLocksNext
    <2>2. CASE CallInit(t) \/ CallInitNest(t) \/ CallDestroy(t) \/ CallSet(t) \/ CallUnset(t) \/ CallTest(t)
      <3>1. PICK o \in Operations : /\ Enter(t, o)
                                     /\ \/ o \in Making /\ made < MaxMade /\ made' = made + 1
                                        \/ o \notin Making /\ made' = made
        BY <2>2 DEF CallInit, CallInitNest, CallDestroy, CallSet, CallUnset, CallTest, Operations, Making
      <3> QED BY <1>1, <3>1, EnterStep
    <2>3. CASE AllocateLock(t)
      BY <1>1, <2>3, AllocateLockStep
    <2>4. CASE InitializeBase(t)
      BY <1>1, <2>4, InitializeBaseStep
    <2>5. CASE DestroyLock(t)
      BY <1>1, <2>5, DestroyLockStep
    <2>6. CASE LookUp(t) \/ LookUpEntry(t)
      BY <1>1, <2>6, LookUpStep
    <2>7. CASE BeginSimple(t)
      BY <1>1, <2>7, BeginSimpleStep
    <2>8. CASE AcquireBase(t)
      BY <1>1, <2>8, AcquireBaseStep
    <2>9. CASE TestFails(t)
      BY <1>1, <2>9, TestFailsStep
    <2>10. CASE ReleaseBase(t)
      BY <1>1, <2>10, ReleaseBaseStep
    <2>11. CASE NestedTas(t) \/ NestedTicket(t) \/ NestedQueuing(t) \/ NestedDrdpa(t)
      BY <1>1, <2>11, NestedStep
    <2>12. CASE ReturnFrom(t)
      BY <1>1, <2>12, ReturnFromStep
    <2> QED BY <2>1, <2>2, <2>3, <2>4, <2>5, <2>6, <2>7, <2>8, <2>9, <2>10, <2>11, <2>12
  <1>2. ASSUME UserLocksInv, UNCHANGED userLockVars PROVE UserLocksInv' /\ UNCHANGED Interface!vars
    <2>1. UNCHANGED <<word, base, lockTable, lockPool, routine, made, family>>
      BY <1>2 DEF userLockVars
    <2>2. \A l \in Lock : (Made(l)' <=> Made(l)) /\ Place(l)' = Place(l)
      BY <2>1 DEF Made, Place
    <2>3. UserTypes' /\ MadeAlone' /\ EntriesLeft' /\ EntriesApart'
      BY <1>2, <2>1 DEF UserLocksInv, UserTypes, MadeAlone, EntriesLeft, EntriesApart, EntryOf
    <2>4. WordsRight' /\ RoutinesRight' /\ BasesRight'
      <3>1. WordsRight'
        BY <1>2, <2>1 DEF UserLocksInv, WordsRight
      <3>2. RoutinesRight'
        <4>1. \A x : Place(x)' = Place(x)
          BY <2>1 DEF Place
        <4> QED BY <1>2, <2>1, <4>1 DEF UserLocksInv, RoutinesRight, BaseFor
      <3>3. BasesRight'
        BY <1>2, <2>1, <2>2 DEF UserLocksInv, BasesRight, BaseRight, Moving
      <3> QED BY <3>1, <3>2, <3>3
    <2>5. AbsLocks' = AbsLocks /\ AbsCalls' = AbsCalls
      BY <2>1, <2>2 DEF AbsLocks, AbsCalls, AbstractLock, AbstractCall
    <2> QED BY <2>3, <2>4, <2>5 DEF UserLocksInv, AbsLocks, AbsCalls, Interface!vars
  <1> QED BY <1>1, <1>2

(* Whatever the program makes, destroys and makes again, each entry of the  *)
(* table is one lock's or once in one pool, the base lock under each lock   *)
(* is held by the thread whose routine says so, and depth and owner around  *)
(* it agree with the holder except on the way in and out.                   *)
THEOREM UserLocksStayRight == UserLocksSpec => []UserLocksInv
  <1>1. UserLocksInit => UserLocksInv
    BY Beginnings
  <1>2. UserLocksInv /\ [UserLocksNext]_userLockVars => UserLocksInv'
    BY EveryStep
  <1> QED BY <1>1, <1>2, PTL DEF UserLocksSpec

(* Each step of a routine is one step of what the interface promises or is  *)
(* invisible: a lock has one owner, who counts right, over any kinds of     *)
(* locks, entries taken again and tables grown.                             *)
THEOREM UserLocksImplement == UserLocksSpec => ImplementsUserLocks
  <1>1. UserLocksInit => UserLocksInv /\ Interface!Init
    BY Beginnings
  <1>2. UserLocksInv /\ [UserLocksNext]_userLockVars => UserLocksInv' /\ [Interface!Next]_(Interface!vars)
    BY EveryStep
  <1> QED BY <1>1, <1>2, PTL DEF UserLocksSpec, ImplementsUserLocks, Interface!Spec

-----------------------------------------------------------------------------
(* Atomics.  Every routine takes effect in one step, for any number of      *)
(* threads, operands and calls, as long as all routines that a program uses *)
(* on the location exclude each other by the same means.  That is what the  *)
(* tables of kmp_atomic.cpp have to see to, and these lemmas say where they *)
(* do.                                                                      *)

MethodOf(p, f, o) ==
    LET r == RoutineOf(p.type, f, o) IN IF r.gomp /\ p.mode = 2 THEN Region ELSE r

Locking(p, f, o) == MethodOf(p, f, o).how = "critical"
Takes(p, f, o, l) == Locking(p, f, o) /\ MethodOf(p, f, o).lock = l

AllOperations == {"add", "sub", "rsub", "mul", "max", "min", "andl", "eqv", "read", "write", "swap"}

(* All routines of the program take the same lock, or none does.            *)
UsesNone(p) == \A f \in p.forms : \A o \in OperationsOf(p.type, f) : ~Locking(p, f, o)
UsesOnly(p, l) == \A f \in p.forms : \A o \in OperationsOf(p.type, f) : Takes(p, f, o, l)
Compatible(p) == UsesNone(p) \/ \E l \in Locks : UsesOnly(p, l)

(* A capture of a minimum or maximum is not one step (kmp_atomic.cpp:2624). *)
Sound(p) == Compatible(p) /\ "captureMinMax" \notin p.forms

Plain == {"update", "reversed", "read", "write", "swap", "capture", "captureReversed"}
MixedForms == {"mixed", "captureMixed", "captureReversedMixed"}

(* Instructions and loops for the small types; in the GNU compatible mode   *)
(* the common lock for the others; and else the lock of the type.           *)
Small64(p) == p.type \in Fixed \cup Real /\ p.forms \subseteq Plain \cup MixedForms \cup {"generic"}
GnuLocked(p) ==
    /\ p.mode = 2 /\ p.type \in Wide
    /\ p.forms \subseteq Plain \cup {"region"}
           \cup (IF p.type = "cmplx4" THEN {} ELSE {"generic"})
           \cup (IF p.type = "float10" THEN MixedForms ELSE {})
TypeLocked(p) ==
    /\ p.mode = 1 /\ p.type \in {"float10", "cmplx8", "cmplx10", "cmplx16"}
    /\ p.forms \subseteq Plain \cup {"generic"} \cup (IF p.type = "float10" THEN MixedForms ELSE {})

(* What an entry of the tables looks like.                                  *)
Free(e) == e.how \in {"fetch", "exchange", "cmpxchg"} /\ e.gomp = FALSE
Locked(e, l) == e.how = "critical" /\ e.lock = l /\ e.gomp = TRUE

LEMMA TableEntries ==
    /\ Free(FetchAdd) /\ Free(Exchange) /\ Free(CmpXchg)
    /\ \A type : Locked(Critical(type), LockOf[type])
    /\ Locked(Region, "0") /\ Region.how = "critical" /\ Region.lock = "0"
BY DEF Free, Locked, FetchAdd, Exchange, CmpXchg, Critical, Region, Entry

LEMMA SmallEntries ==
    ASSUME NEW type \in Fixed \cup Real
    PROVE  /\ \A o : Free(Update(type, o)) /\ Free(Capture(type, o))
           /\ Free(Reversed(type)) /\ Free(Mixed(type)) /\ Free(Read(type)) /\ Free(Write(type))
           /\ Free(Swap(type)) /\ Free(CaptureReversed(type)) /\ Free(CaptureMixed(type))
           /\ Free(CaptureReversedMixed(type)) /\ Free(GenericSmall(type))
<1> USE TableEntries
<1>1. type \notin Wide
  BY DEF Fixed, Real, Wide
<1>2. type # "float16" /\ type # "float10"
  BY DEF Fixed, Real
<1>3. \A o : Free(Update(type, o))
  BY <1>1, <1>2 DEF Update, UpdateFixed, UpdateLogical, UpdateMinMax, UpdateEqv
<1>4. \A o : Free(Capture(type, o))
  BY <1>1, <1>2 DEF Capture, CaptureFixed, CaptureLogical, CaptureMinMax, CaptureEqv
<1>5. Free(Read(type))
  BY DEF Read
<1>6. Free(Reversed(type)) /\ Free(Mixed(type)) /\ Free(GenericSmall(type))
  BY <1>2 DEF Reversed, Mixed, GenericSmall
<1>7. Free(Write(type)) /\ Free(Swap(type)) /\ Free(CaptureReversed(type))
  BY <1>1 DEF Write, Swap, CaptureReversed
<1>8. Free(CaptureMixed(type)) /\ Free(CaptureReversedMixed(type))
  BY <1>2 DEF CaptureMixed, CaptureReversedMixed
<1> QED
  BY <1>3, <1>4, <1>5, <1>6, <1>7, <1>8

LEMMA SmallTypes ==
    ASSUME NEW p, Small64(p), NEW f \in p.forms, NEW o
    PROVE  ~Locking(p, f, o)
<1>1. p.type \in Fixed \cup Real /\ p.type \notin Wide /\ p.type # "cmplx4"
  BY DEF Small64, Fixed, Real, Wide
<1>2. f \in Plain \cup MixedForms \cup {"generic"}
  BY DEF Small64
<1>3. Free(RoutineOf(p.type, f, o))
  BY <1>1, <1>2, SmallEntries DEF RoutineOf, Plain, MixedForms, Small
<1> QED
  BY <1>3 DEF Locking, MethodOf, Free

(* The types that need a lock, with the operations that the tables have.    *)
LEMMA WideEntries ==
    ASSUME NEW type \in Wide, NEW f, NEW o \in OperationsOf(type, f),
           f \in Plain \cup {"generic"} \/ (type = "float10" /\ f \in MixedForms),
           type = "cmplx4" => f # "generic"
    PROVE  LET r == RoutineOf(type, f, o) IN
           r.gomp = TRUE /\ (type \notin {"cmplx4", "float16"} => Locked(r, LockOf[type]))
<1> USE TableEntries
<1>1. type \notin Fixed /\ type \notin Real
  BY DEF Fixed, Real, Wide
<1>2. o \notin {"andl", "eqv"} /\ (o \in {"max", "min"} => f = "update" /\ type = "float16")
  BY <1>1 DEF OperationsOf, Plain, MixedForms, Fixed, Real
<1>3. \A l : \A e : Locked(e, l) => e.gomp = TRUE
  BY DEF Locked
<1>4. CASE f = "update"
  <2>1. RoutineOf(type, f, o) = Update(type, o)
    BY <1>4 DEF RoutineOf
  <2>2. CASE type = "cmplx4"
    BY <1>2, <2>1, <2>2 DEF Update, UpdateWide, Entry, Wide
  <2>3. CASE type # "cmplx4"
    <3>1. Update(type, o) = Critical(type)
      BY <1>2, <2>3 DEF Update, UpdateWide, UpdateMinMax
    <3> QED
      BY <3>1, <2>1, <1>3, <2>3
  <2> QED
    BY <2>2, <2>3
<1>5. CASE f = "capture"
  <2>1. RoutineOf(type, f, o) = Critical(type)
    BY <1>5, <1>2 DEF RoutineOf, Capture, CaptureWide
  <2> QED
    BY <2>1, <1>3
<1>6. CASE f \in {"reversed", "read", "write", "swap", "captureReversed"}
  <2>1. RoutineOf(type, f, o) = Critical(type)
    BY <1>6, <1>1 DEF RoutineOf, ReversedWide, Read, Write, Swap, CaptureReversed
  <2> QED
    BY <2>1, <1>3
<1>7. CASE f \in MixedForms
  <2>1. type = "float10"
    BY <1>7 DEF MixedForms, Plain
  <2>2. RoutineOf(type, f, o) = Critical(type)
    BY <1>7, <2>1 DEF MixedForms, RoutineOf, Mixed, CaptureMixed, CaptureReversedMixed
  <2> QED
    BY <2>2, <1>3
<1>8. CASE f = "generic"
  <2>1. type # "cmplx4" /\ ~Small(type)
    BY <1>8 DEF Small
  <2>2. RoutineOf(type, f, o) = GenericLarge(type)
    BY <1>8, <2>1 DEF RoutineOf
  <2> QED
    BY <2>2, <1>3 DEF GenericLarge, Entry
<1> QED
  BY <1>4, <1>5, <1>6, <1>7, <1>8 DEF Plain

LEMMA GnuTypes ==
    ASSUME NEW p, GnuLocked(p), NEW f \in p.forms, NEW o \in OperationsOf(p.type, f)
    PROVE  Takes(p, f, o, "0")
<1>1. CASE f = "region"
  <2>1. RoutineOf(p.type, f, o) = Region
    BY <1>1 DEF RoutineOf
  <2> QED
    BY <2>1, TableEntries DEF Takes, Locking, MethodOf
<1>2. CASE f # "region"
  <2>1. p.type \in Wide /\ (p.type = "cmplx4" => f # "generic")
    BY <1>2 DEF GnuLocked, Plain, MixedForms
  <2>2. f \in Plain \cup {"generic"} \/ (p.type = "float10" /\ f \in MixedForms)
    BY <1>2 DEF GnuLocked
  <2>3. RoutineOf(p.type, f, o).gomp = TRUE
    BY <2>1, <2>2, WideEntries
  <2> QED
    BY <2>3, TableEntries DEF Takes, Locking, MethodOf, GnuLocked
<1> QED
  BY <1>1, <1>2

LEMMA LockedTypes ==
    ASSUME NEW p, TypeLocked(p), NEW f \in p.forms, NEW o \in OperationsOf(p.type, f)
    PROVE  Takes(p, f, o, LockOf[p.type])
<1>1. p.type \in Wide /\ p.type \notin {"cmplx4", "float16"} /\ p.mode = 1
  BY DEF TypeLocked, Wide
<1>2. f \in Plain \cup {"generic"} \/ (p.type = "float10" /\ f \in MixedForms)
  BY DEF TypeLocked
<1>3. Locked(RoutineOf(p.type, f, o), LockOf[p.type])
  BY <1>1, <1>2, WideEntries
<1> QED
  BY <1>1, <1>3 DEF Takes, Locking, MethodOf, Locked

(* The programs whose routines get along.                                   *)
LEMMA ProgramsSound ==
    ASSUME NEW p, Small64(p) \/ GnuLocked(p) \/ TypeLocked(p)
    PROVE  Sound(p)
<1>1. "captureMinMax" \notin p.forms
  BY DEF Small64, GnuLocked, TypeLocked, Plain, MixedForms
<1>2. CASE Small64(p)
  <2>1. UsesNone(p)
    BY <1>2, SmallTypes DEF UsesNone
  <2> QED
    BY <1>1, <2>1 DEF Sound, Compatible
<1>3. CASE GnuLocked(p)
  <2>1. UsesOnly(p, "0")
    BY <1>3, GnuTypes DEF UsesOnly
  <2>2. "0" \in Locks
    BY DEF Locks
  <2> QED
    BY <1>1, <2>1, <2>2 DEF Sound, Compatible
<1>4. CASE TypeLocked(p)
  <2>1. LockOf[p.type] \in Locks
    BY <1>4 DEF TypeLocked, LockOf, Locks, Wide
  <2>2. UsesOnly(p, LockOf[p.type])
    BY <1>4, LockedTypes DEF UsesOnly
  <2> QED
    BY <1>1, <2>1, <2>2 DEF Sound, Compatible
<1> QED
  BY <1>2, <1>3, <1>4

-----------------------------------------------------------------------------
(* A routine of the program in progress, and what its place says of it.     *)

RoutinePlaces == {"look", "enter", "swap", "locked", "store", "release", "done"}
Routines == [at : RoutinePlaces, form : program.forms, o : AllOperations, rhs : Operands \cup {0},
             capture : {"none", "old", "new"}, old : Nat, result : Nat]
InProgress(t) ==
    /\ op[t] \in Routines
    /\ op[t].o \in OperationsOf(program.type, op[t].form)
    /\ MinMax(t) => op[t].capture = "none"

Excluding(t) == op[t].at \in {"locked", "store", "release"}
PlaceRight(t) ==
    /\ op[t].at = "look" => MinMax(t)
    /\ op[t].at = "swap" => Method(t).how = "cmpxchg"
    /\ Excluding(t) => Method(t).how = "critical" /\ holder[Method(t).lock] = {t}
    /\ op[t].at = "store" => op[t].old = mem

AtomicInv ==
    /\ program \in Programs /\ mem \in Nat
    /\ op = [t \in Thread |-> op[t]] /\ holder = [l \in Locks |-> holder[l]]
    /\ \A t \in Thread : op[t] = Idle \/ (InProgress(t) /\ PlaceRight(t))

AtomicConstants ==
    /\ \A p \in Programs : Sound(p)
    /\ (\A r \in Operands : r \in Nat) /\ Size \in Nat \ {0}

LEMMA Values ==
    ASSUME Size \in Nat \ {0}, NEW o \in AllOperations, NEW x \in Nat, NEW r \in Nat
    PROVE  Apply(o, x, r) \in Nat
<1> DEFINE sum == CASE o = "add"  -> x + r
                   [] o = "sub"  -> x + Size - r
                   [] o = "rsub" -> r + Size - x
                   [] o = "mul"  -> x * r
                   [] o = "max"  -> x + r - Lower(x, r)
                   [] o = "min"  -> Lower(x, r)
                   [] o = "andl" -> IF x # 0 /\ r # 0 THEN 1 ELSE 0
                   [] o = "eqv"  -> IF x = r THEN 1 ELSE 0
                   [] o = "read" -> x
                   [] o \in {"write", "swap"} -> r
<1>1. Lower(x, r) \in Nat
  BY DEF Lower
<1>2. x * r \in Nat
  OBVIOUS
<1>3. sum \in Int
  BY <1>1, <1>2 DEF AllOperations
<1>4. Apply(o, x, r) = sum % Size
  BY DEF Apply
<1> HIDE DEF sum
<1> QED
  BY <1>3, <1>4

LEMMA MethodRight ==
    ASSUME NEW t
    PROVE  Method(t) = MethodOf(program, op[t].form, op[t].o)
BY DEF Method, MethodOf

(* Routines that exclude each other by a lock all take the same one.        *)
LEMMA SameLock ==
    ASSUME AtomicConstants, program \in Programs, NEW t, NEW u, InProgress(t), InProgress(u),
           Method(t).how = "critical"
    PROVE  Method(u).how = "critical" /\ Method(u).lock = Method(t).lock
<1>1. Compatible(program)
  BY DEF AtomicConstants, Sound
<1>2. /\ op[t].form \in program.forms /\ op[t].o \in OperationsOf(program.type, op[t].form)
      /\ op[u].form \in program.forms /\ op[u].o \in OperationsOf(program.type, op[u].form)
  BY DEF InProgress, Routines
<1>3. Locking(program, op[t].form, op[t].o)
  BY MethodRight DEF Locking
<1>4. PICK l \in Locks : UsesOnly(program, l)
  BY <1>1, <1>2, <1>3 DEF Compatible, UsesNone
<1>5. Takes(program, op[t].form, op[t].o, l) /\ Takes(program, op[u].form, op[u].o, l)
  BY <1>2, <1>4 DEF UsesOnly
<1> QED
  BY <1>5, MethodRight DEF Takes, Locking

LEMMA LockKnown ==
    ASSUME AtomicConstants, program \in Programs, NEW t, InProgress(t), Method(t).how = "critical"
    PROVE  Method(t).lock \in Locks
<1>1. Compatible(program)
  BY DEF AtomicConstants, Sound
<1>2. op[t].form \in program.forms /\ op[t].o \in OperationsOf(program.type, op[t].form)
  BY DEF InProgress, Routines
<1>3. Locking(program, op[t].form, op[t].o)
  BY MethodRight DEF Locking
<1>4. PICK l \in Locks : UsesOnly(program, l)
  BY <1>1, <1>2, <1>3 DEF Compatible, UsesNone
<1>5. Takes(program, op[t].form, op[t].o, l)
  BY <1>2, <1>4 DEF UsesOnly
<1> QED
  BY <1>5, MethodRight DEF Takes

(* Whoever writes is alone between taking a lock and giving it back.        *)
LEMMA Alone ==
    ASSUME AtomicConstants, AtomicInv, NEW t \in Thread, op[t] # Idle,
           Excluding(t) \/ Method(t).how # "critical"
    PROVE  \A u \in Thread \ {t} : ~Excluding(u)
<1> SUFFICES ASSUME NEW u \in Thread \ {t}, Excluding(u) PROVE FALSE
  OBVIOUS
<1>1. InProgress(t) /\ PlaceRight(t)
  BY DEF AtomicInv
<1>2. op[u] # Idle
  BY DEF Excluding, Idle
<1>3. InProgress(u) /\ PlaceRight(u)
  BY <1>2 DEF AtomicInv
<1>4. Method(u).how = "critical" /\ holder[Method(u).lock] = {u}
  BY <1>3 DEF PlaceRight
<1>5. Method(t).how = "critical" /\ Method(t).lock = Method(u).lock
  BY <1>1, <1>3, <1>4, SameLock DEF AtomicInv
<1>6. holder[Method(t).lock] = {t}
  BY <1>1, <1>5 DEF PlaceRight
<1> QED
  BY <1>4, <1>5, <1>6

(* What a step of t leaves of the invariant.                                *)
LEMMA Kept ==
    ASSUME AtomicInv, NEW t \in Thread, NEW r, op' = [op EXCEPT ![t] = r], UNCHANGED program, mem' \in Nat,
           holder' = [l \in Locks |-> holder'[l]],
           \A u \in Thread \ {t} : Excluding(u) =>
               mem' = mem /\ holder'[Method(u).lock] = holder[Method(u).lock],
           r = Idle \/ (InProgress(t)' /\ PlaceRight(t)')
    PROVE  AtomicInv'
<1>1. op' = [u \in Thread |-> op'[u]] /\ op'[t] = r /\ \A u \in Thread \ {t} : op'[u] = op[u]
  BY DEF AtomicInv
<1>2. ASSUME NEW u \in Thread \ {t}, op[u] # Idle
      PROVE  InProgress(u)' /\ PlaceRight(u)'
  <2>1. InProgress(u) /\ PlaceRight(u)
    BY <1>2 DEF AtomicInv
  <2>2. op'[u] = op[u]
    BY <1>1
  <2>3. InProgress(u)'
    BY <2>1, <2>2 DEF InProgress, Routines, MinMax
  <2>4. Method(u)' = Method(u)
    BY <2>2 DEF Method
  <2>5. Excluding(u)' <=> Excluding(u)
    BY <2>2 DEF Excluding
  <2>6. op[u].at = "store" => Excluding(u)
    BY DEF Excluding
  <2> QED
    BY <2>1, <2>2, <2>3, <2>4, <2>5, <2>6 DEF PlaceRight, MinMax
<1>3. \A u \in Thread : op'[u] = Idle \/ (InProgress(u)' /\ PlaceRight(u)')
  BY <1>1, <1>2
<1>4. Idle' = Idle
  BY DEF Idle
<1> QED
  BY <1>1, <1>3, <1>4 DEF AtomicInv

LEMMA AtomicInvInit == AtomicConstants /\ Init => AtomicInv
BY DEF AtomicConstants, Init, AtomicInv

(* A routine goes on: its place changes, and what it has read or returns.   *)
Put(t, at, old, result) ==
    op' = [op EXCEPT ![t] = [op[t] EXCEPT !.at = at, !.old = old, !.result = result]]

LEMMA GoesOn ==
    ASSUME AtomicInv, NEW t \in Thread, InProgress(t), UNCHANGED program,
           NEW at \in RoutinePlaces, NEW old \in Nat, NEW result \in Nat, Put(t, at, old, result)
    PROVE  /\ InProgress(t)' /\ op'[t].at = at /\ op'[t].old = old /\ op'[t].result = result
           /\ Method(t)' = Method(t)
<1>1. op'[t] = [op[t] EXCEPT !.at = at, !.old = old, !.result = result]
  BY DEF AtomicInv, Put
<1>2. op[t] \in Routines
  BY DEF InProgress
<1>3. /\ op'[t] \in Routines
      /\ op'[t].at = at /\ op'[t].old = old /\ op'[t].result = result
      /\ op'[t].form = op[t].form /\ op'[t].o = op[t].o /\ op'[t].capture = op[t].capture
      /\ op'[t].rhs = op[t].rhs
  BY <1>1, <1>2 DEF Routines
<1>4. Method(t)' = Method(t)
  BY <1>3 DEF Method
<1>5. InProgress(t)'
  BY <1>3 DEF InProgress, MinMax, Routines
<1> QED
  BY <1>3, <1>4, <1>5

(* The assignments of the actions in that form.                             *)
LEMMA MovePuts ==
    ASSUME AtomicInv, NEW t \in Thread, InProgress(t), NEW at, MoveTo(t, at)
    PROVE  op[t].old \in Nat /\ op[t].result \in Nat /\ Put(t, at, op[t].old, op[t].result)
<1>1. op[t] \in Routines
  BY DEF InProgress
<1>2. [op[t] EXCEPT !.at = at] = [op[t] EXCEPT !.at = at, !.old = op[t].old, !.result = op[t].result]
  BY <1>1 DEF Routines
<1>3. op' = [op EXCEPT ![t] = [op[t] EXCEPT !.at = at]]
  BY DEF MoveTo
<1>4. op[t].old \in Nat /\ op[t].result \in Nat
  BY <1>1 DEF Routines
<1> QED
  BY <1>2, <1>3, <1>4 DEF Put

LEMMA EndPuts ==
    ASSUME AtomicInv, NEW t \in Thread, InProgress(t), NEW result, EndWith(t, result)
    PROVE  op[t].old \in Nat /\ Put(t, "done", op[t].old, result)
<1>1. op[t] \in Routines
  BY DEF InProgress
<1>2. [op[t] EXCEPT !.at = "done", !.result = result]
        = [op[t] EXCEPT !.at = "done", !.old = op[t].old, !.result = result]
  BY <1>1 DEF Routines
<1>3. op' = [op EXCEPT ![t] = [op[t] EXCEPT !.at = "done", !.result = result]]
  BY DEF EndWith
<1>4. op[t].old \in Nat
  BY <1>1 DEF Routines
<1> QED
  BY <1>2, <1>3, <1>4 DEF Put

(* What a routine computes is a value.                                      *)
LEMMA NewValue ==
    ASSUME AtomicConstants, NEW t, InProgress(t), NEW x \in Nat
    PROVE  New(t, x) \in Nat /\ Result(t, x) \in Nat
<1>1. op[t] \in Routines /\ (\A r \in Operands : r \in Nat) /\ Size \in Nat \ {0}
  BY DEF InProgress, AtomicConstants
<1>2. op[t].o \in AllOperations /\ op[t].rhs \in Operands \cup {0}
        /\ op[t].capture \in {"none", "old", "new"}
  BY <1>1 DEF Routines
<1>7. op[t].rhs \in Nat
  BY <1>1, <1>2
<1>3. New(t, x) \in Nat
  BY <1>1, <1>2, <1>7, Values DEF New
<1>4. CASE op[t].capture = "none"
  BY <1>3, <1>4 DEF Result
<1>5. CASE op[t].capture = "old"
  BY <1>3, <1>5 DEF Result
<1>6. CASE op[t].capture = "new"
  BY <1>3, <1>6 DEF Result
<1> QED
  BY <1>2, <1>4, <1>5, <1>6

-----------------------------------------------------------------------------
(* The steps as the program sees them.                                      *)

View == [t \in Thread |-> CallSeen(t)]
AbstractStep == Constructs!Next \/ UNCHANGED <<mem, View>>
Before(t) == op[t].at \in {"look", "enter", "swap", "locked", "store"}
After(t) == op[t].at \in {"release", "done"}

LEMMA CallBefore ==
    ASSUME NEW t, Before(t)
    PROVE  CallSeen(t) =
             [at |-> "called", op |-> op[t].o, rhs |-> op[t].rhs, capture |-> op[t].capture]
BY DEF CallSeen, Before

LEMMA CallAfter ==
    ASSUME NEW t, After(t)
    PROVE  CallSeen(t) = [at |-> "done", result |-> op[t].result]
BY DEF CallSeen, After

LEMMA OthersSeen ==
    ASSUME AtomicInv, NEW t \in Thread, NEW r, op' = [op EXCEPT ![t] = r]
    PROVE  View' = [View EXCEPT ![t] = CallSeen(t)']
<1>1. \A u \in Thread \ {t} : op'[u] = op[u]
  BY DEF AtomicInv
<1>2. \A u \in Thread \ {t} : CallSeen(u)' = CallSeen(u)
  BY <1>1 DEF CallSeen, Idle
<1> QED
  BY <1>2 DEF View

LEMMA Invisible ==
    ASSUME AtomicInv, NEW t \in Thread, NEW r, op' = [op EXCEPT ![t] = r], UNCHANGED mem,
           CallSeen(t)' = CallSeen(t)
    PROVE  AbstractStep
<1>1. View' = [View EXCEPT ![t] = View[t]]
  BY OthersSeen DEF View
<1>2. View' = View
  BY <1>1 DEF View
<1> QED
  BY <1>2 DEF AbstractStep

LEMMA Performs ==
    ASSUME NEW t
    PROVE  Constructs!Perform(t) <=>
             /\ View[t].at = "called"
             /\ mem' = Apply(View[t].op, mem, View[t].rhs)
             /\ View' = [View EXCEPT ![t] =
                  [at |-> "done", result |-> CASE View[t].capture = "none" -> 0
                                               [] View[t].capture = "old"  -> mem
                                               [] View[t].capture = "new"  -> mem']]
BY DEF Constructs!Perform, View

LEMMA Performed ==
    ASSUME AtomicInv, NEW t \in Thread, InProgress(t), Before(t), NEW r, op' = [op EXCEPT ![t] = r],
           mem' = New(t, mem), CallSeen(t)' = [at |-> "done", result |-> Result(t, mem)]
    PROVE  AbstractStep
<1>1. View' = [View EXCEPT ![t] = [at |-> "done", result |-> Result(t, mem)]]
  BY OthersSeen
<1>2. View[t] = [at |-> "called", op |-> op[t].o, rhs |-> op[t].rhs, capture |-> op[t].capture]
  BY CallBefore DEF View
<1>3. mem' = Apply(View[t].op, mem, View[t].rhs)
  BY <1>2 DEF New
<1>4. op[t].capture \in {"none", "old", "new"}
  BY DEF InProgress, Routines
<1>5. Result(t, mem) = CASE View[t].capture = "none" -> 0
                         [] View[t].capture = "old"  -> mem
                         [] View[t].capture = "new"  -> mem'
  BY <1>2, <1>4 DEF Result
<1>6. Constructs!Perform(t)
  <2>1. View[t].at = "called"
    BY <1>2
  <2> QED
    BY <1>1, <1>3, <1>5, <2>1, Performs
<1> QED
  BY <1>6 DEF AbstractStep, Constructs!Next

-----------------------------------------------------------------------------
(* The actions keep the invariant, and each is a step of the program's view *)
(* or none.                                                                 *)

LEMMA Offered ==
    ASSUME NEW type, NEW f, NEW o \in OperationsOf(type, f)
    PROVE  /\ o \in AllOperations /\ Captures(f) \subseteq {"none", "old", "new"}
           /\ o \in {"max", "min"} /\ f # "captureMinMax" => Captures(f) = {"none"}
<1>1. o \in AllOperations
  <2>1. CASE f \in {"read", "write", "swap"}
    BY <2>1 DEF OperationsOf, AllOperations
  <2>2. CASE f \notin {"read", "write", "swap"}
    BY <2>2 DEF OperationsOf, AllOperations
  <2> QED
    BY <2>1, <2>2
<1>2. Captures(f) \subseteq {"none", "old", "new"}
  BY DEF Captures
<1>3. ASSUME o \in {"max", "min"}, f # "captureMinMax"
      PROVE  Captures(f) = {"none"}
  <2>1. f = "update"
    BY <1>3 DEF OperationsOf
  <2> QED
    BY <2>1 DEF Captures
<1> QED
  BY <1>1, <1>2, <1>3

LEMMA BeginCallStep ==
    ASSUME AtomicConstants, AtomicInv, NEW t \in Thread, BeginCall(t)
    PROVE  AtomicInv' /\ AbstractStep
<1>1. op[t] = Idle
  BY DEF AtomicInv, BeginCall, InProgress, Routines, RoutinePlaces
<1>2. PICK f \in program.forms, r \in Operands :
        \E o \in OperationsOf(program.type, f), c \in Captures(f) :
           op' = [op EXCEPT ![t] =
             [at |-> IF o \in {"max", "min"} THEN "look" ELSE "enter", form |-> f, o |-> o,
              rhs |-> IF f = "read" THEN 0 ELSE r, capture |-> c, old |-> 0, result |-> 0]]
  BY DEF BeginCall
<1>3. PICK o \in OperationsOf(program.type, f), c \in Captures(f) :
           op' = [op EXCEPT ![t] =
             [at |-> IF o \in {"max", "min"} THEN "look" ELSE "enter", form |-> f, o |-> o,
              rhs |-> IF f = "read" THEN 0 ELSE r, capture |-> c, old |-> 0, result |-> 0]]
  BY <1>2
<1> DEFINE at == IF o \in {"max", "min"} THEN "look" ELSE "enter"
           rhs == IF f = "read" THEN 0 ELSE r
           new == [at |-> at, form |-> f, o |-> o, rhs |-> rhs, capture |-> c, old |-> 0, result |-> 0]
<1>4. op' = [op EXCEPT ![t] = new] /\ op'[t] = new
  BY <1>3 DEF AtomicInv
<1>5. at \in {"look", "enter"} /\ rhs \in Operands \cup {0}
  OBVIOUS
<1>6. o \in AllOperations /\ c \in {"none", "old", "new"}
  BY Offered
<1>7. f # "captureMinMax"
  BY DEF AtomicConstants, Sound, AtomicInv
<1>8. o \in {"max", "min"} => c = "none"
  BY <1>7, Offered
<1> HIDE DEF at, rhs
<1>9. UNCHANGED <<program, mem, holder>>
  BY DEF BeginCall
<1>10. new \in Routines
  BY <1>5, <1>6 DEF Routines, RoutinePlaces
<1>11. InProgress(t)'
  <2>1. Routines' = Routines
    BY <1>9 DEF Routines
  <2>2. op'[t].form = f /\ op'[t].o = o /\ op'[t].capture = c
    BY <1>4
  <2> QED
    BY <1>4, <1>8, <1>9, <1>10, <2>1, <2>2 DEF InProgress, MinMax
<1>12. PlaceRight(t)'
  BY <1>4, <1>5 DEF PlaceRight, Excluding, MinMax, at
<1>13. AtomicInv'
  <2>1. mem' \in Nat /\ holder' = [l \in Locks |-> holder'[l]]
    BY <1>9 DEF AtomicInv
  <2> HIDE DEF new
  <2> QED
    BY <1>4, <1>9, <1>11, <1>12, <2>1, Kept
<1>14. CallSeen(t)' = [at |-> "called", op |-> o, rhs |-> rhs, capture |-> c]
  BY <1>4, <1>5 DEF CallSeen
<1>15. View[t] = [at |-> "idle"]
  BY <1>1 DEF View, CallSeen, Idle
<1>16. View' = [View EXCEPT ![t] = CallSeen(t)']
  <2> HIDE DEF new
  <2> QED
    BY <1>4, OthersSeen
<1>17. View'[t] = CallSeen(t)'
  BY DEF View
<1>18. CallSeen(t)' \in Constructs!Called
  BY <1>5, <1>6, <1>14 DEF Constructs!Called, AllOperations
<1>19. Constructs!Invoke(t)
  <2>1. Constructs!Invoke(t) <=>
          /\ View[t] = [at |-> "idle"]
          /\ View'[t] \in Constructs!Called /\ View' = [View EXCEPT ![t] = View'[t]]
          /\ mem' = mem
    BY DEF Constructs!Invoke, Constructs!Idle, View
  <2> QED
    BY <1>9, <1>15, <1>16, <1>17, <1>18, <2>1
<1> QED
  BY <1>13, <1>19 DEF AbstractStep, Constructs!Next

(* A routine that goes on, before it takes effect, when, and after.         *)
LEMMA Hidden ==
    ASSUME AtomicInv, NEW t \in Thread, InProgress(t), UNCHANGED <<program, mem>>,
           NEW at \in RoutinePlaces, NEW old \in Nat, NEW result \in Nat, Put(t, at, old, result),
           \/ Before(t) /\ at \in {"look", "enter", "swap", "locked", "store"}
           \/ After(t) /\ at \in {"release", "done"} /\ result = op[t].result
    PROVE  AbstractStep
<1> DEFINE r == [op[t] EXCEPT !.at = at, !.old = old, !.result = result]
<1>1. op[t] \in Routines
  BY DEF InProgress
<1>2. op' = [op EXCEPT ![t] = r]
  BY DEF Put
<1>5. op'[t] = r
  BY <1>2 DEF AtomicInv
<1>3. /\ op'[t].at = at /\ op'[t].result = result /\ op'[t].o = op[t].o
      /\ op'[t].rhs = op[t].rhs /\ op'[t].capture = op[t].capture
  BY <1>1, <1>5 DEF Routines
<1>4. CallSeen(t)' = CallSeen(t)
  <2>1. CASE Before(t)
    <3>1. at \in {"look", "enter", "swap", "locked", "store"}
      BY <2>1 DEF Before, After
    <3>2. op'[t].at \in {"look", "enter", "swap", "locked", "store"}
      BY <3>1, <1>3
    <3>3. CallSeen(t)' = [at |-> "called", op |-> op'[t].o, rhs |-> op'[t].rhs,
                              capture |-> op'[t].capture]
      BY <3>2 DEF CallSeen
    <3> QED
      BY <2>1, <3>3, <1>3, CallBefore
  <2>2. CASE After(t)
    <3>1. at \in {"release", "done"} /\ result = op[t].result
      BY <2>2 DEF Before, After
    <3>2. CallSeen(t)' = [at |-> "done", result |-> op'[t].result]
      BY <3>1, <1>3 DEF CallSeen
    <3> QED
      BY <2>2, <3>1, <3>2, <1>3, CallAfter
  <2> QED
    BY <2>1, <2>2
<1> HIDE DEF r
<1> QED
  BY <1>2, <1>4, Invisible

LEMMA Effect ==
    ASSUME AtomicInv, NEW t \in Thread, InProgress(t), Before(t), UNCHANGED program,
           NEW at \in {"release", "done"}, NEW old, Put(t, at, old, Result(t, mem)),
           mem' = New(t, mem)
    PROVE  AbstractStep
<1> DEFINE r == [op[t] EXCEPT !.at = at, !.old = old, !.result = Result(t, mem)]
<1>1. op[t] \in Routines
  BY DEF InProgress
<1>2. op' = [op EXCEPT ![t] = r] /\ op'[t] = r
  BY DEF Put, AtomicInv
<1>3. op'[t].at = at /\ op'[t].result = Result(t, mem)
  BY <1>1, <1>2 DEF Routines
<1>4. CallSeen(t)' = [at |-> "done", result |-> Result(t, mem)]
  BY <1>3 DEF CallSeen
<1> HIDE DEF r
<1> QED
  BY <1>2, <1>4, Performed

(* Steps that hold no lock before or after them.                            *)
LEMMA Apart ==
    ASSUME AtomicConstants, AtomicInv, NEW t \in Thread, InProgress(t), UNCHANGED <<program, holder>>,
           mem' \in Nat, mem' = mem \/ Method(t).how # "critical",
           NEW at \in {"enter", "swap", "done"}, NEW old \in Nat, NEW result \in Nat,
           Put(t, at, old, result), at = "swap" => Method(t).how = "cmpxchg"
    PROVE  AtomicInv'
<1>1. at \in RoutinePlaces
  BY DEF RoutinePlaces
<1>2. /\ InProgress(t)' /\ op'[t].at = at /\ Method(t)' = Method(t)
  BY <1>1, GoesOn
<1>3. PlaceRight(t)'
  BY <1>2 DEF PlaceRight, Excluding
<1>4. \A u \in Thread \ {t} : Excluding(u) =>
          mem' = mem /\ holder'[Method(u).lock] = holder[Method(u).lock]
  <2>1. op[t] # Idle
    <3>1. op[t] \in Routines
      BY DEF InProgress
    <3> QED
      BY <3>1 DEF Routines, RoutinePlaces, Idle
  <2> QED
    BY <2>1, Alone
<1>5. holder' = [l \in Locks |-> holder'[l]]
  BY DEF AtomicInv
<1> DEFINE r == [op[t] EXCEPT !.at = at, !.old = old, !.result = result]
<1>6. op' = [op EXCEPT ![t] = r]
  BY DEF Put
<1> HIDE DEF r
<1> QED
  BY <1>2, <1>3, <1>4, <1>5, <1>6, Kept

(* A thread that takes a step of a routine is in one.                       *)
LEMMA Within ==
    ASSUME AtomicInv, NEW t \in Thread, op[t].at \in RoutinePlaces
    PROVE  InProgress(t) /\ PlaceRight(t) /\ op[t] # Idle
BY DEF AtomicInv, Idle, RoutinePlaces

LEMMA LookFirstStep ==
    ASSUME AtomicConstants, AtomicInv, NEW t \in Thread, Look(t)
    PROVE  AtomicInv' /\ AbstractStep
<1>1. op[t].at = "look" /\ UNCHANGED <<program, mem, holder>> /\ mem' \in Nat /\ mem \in Nat
  BY DEF Look, AtomicInv
<1>2. InProgress(t) /\ Before(t) /\ PlaceRight(t)
  BY <1>1, Within DEF RoutinePlaces, Before
<1>3. CASE Needed(t, mem)
  <2>1. op[t].old \in Nat /\ op[t].result \in Nat /\ Put(t, "enter", op[t].old, op[t].result)
    BY <1>2, <1>3, MovePuts DEF Look
  <2>2. AtomicInv'
    BY <1>1, <1>2, <2>1, Apart
  <2>3. AbstractStep
    BY <1>1, <1>2, <2>1, Hidden DEF RoutinePlaces
  <2> QED
    BY <2>2, <2>3
<1>4. CASE ~Needed(t, mem)
  <2>1. op[t].capture = "none"
    BY <1>1, <1>2 DEF PlaceRight, InProgress
  <2>2. EndWith(t, 0)
    BY <1>4, <2>1 DEF Look
  <2>3. op[t].old \in Nat /\ Put(t, "done", op[t].old, 0)
    BY <1>2, <2>2, EndPuts
  <2>4. AtomicInv'
    BY <1>1, <1>2, <2>3, Apart
  <2>5. mem' = New(t, mem) /\ Result(t, mem) = 0
    BY <1>1, <1>4, <2>1 DEF Needed, New, Result
  <2>6. AbstractStep
    BY <1>1, <1>2, <2>3, <2>5, Effect
  <2> QED
    BY <2>4, <2>6
<1> QED
  BY <1>3, <1>4

(* One instruction that reads and writes.                                   *)
LEMMA AtOnce ==
    ASSUME AtomicConstants, AtomicInv, NEW t \in Thread, op[t].at \in {"enter", "swap"},
           Method(t).how # "critical", UNCHANGED <<program, holder>>,
           mem' = New(t, mem), EndWith(t, Result(t, mem))
    PROVE  AtomicInv' /\ AbstractStep
<1>1. InProgress(t) /\ Before(t)
  BY Within DEF RoutinePlaces, Before
<1>2. mem \in Nat /\ mem' \in Nat /\ Result(t, mem) \in Nat
  BY <1>1, NewValue DEF AtomicInv
<1>3. op[t].old \in Nat /\ Put(t, "done", op[t].old, Result(t, mem))
  BY <1>1, EndPuts
<1>4. AtomicInv'
  BY <1>1, <1>2, <1>3, Apart
<1>5. AbstractStep
  BY <1>1, <1>3, Effect
<1> QED
  BY <1>4, <1>5

LEMMA FetchAndAddStep ==
    ASSUME AtomicConstants, AtomicInv, NEW t \in Thread, FetchAndAdd(t)
    PROVE  AtomicInv' /\ AbstractStep
BY AtOnce DEF FetchAndAdd

LEMMA ExchangeWordStep ==
    ASSUME AtomicConstants, AtomicInv, NEW t \in Thread, ExchangeWord(t)
    PROVE  AtomicInv' /\ AbstractStep
BY AtOnce DEF ExchangeWord

LEMMA LoadStep ==
    ASSUME AtomicConstants, AtomicInv, NEW t \in Thread, Load(t)
    PROVE  AtomicInv' /\ AbstractStep
<1>1. /\ op[t].at = "enter" /\ Method(t).how = "cmpxchg" /\ UNCHANGED <<program, mem, holder>>
      /\ mem' \in Nat /\ mem \in Nat
  BY DEF Load, AtomicInv
<1>2. InProgress(t) /\ Before(t)
  BY <1>1, Within DEF RoutinePlaces, Before
<1>3. CASE MinMax(t) /\ ~Needed(t, mem)
  <2>1. op[t].capture = "none"
    BY <1>2, <1>3 DEF InProgress
  <2>2. EndWith(t, 0)
    BY <1>3, <2>1 DEF Load
  <2>3. mem' = New(t, mem) /\ Result(t, mem) = 0
    BY <1>1, <1>3, <2>1 DEF Needed, New, Result
  <2>4. Method(t).how # "critical"
    BY <1>1
  <2> QED
    BY <1>1, <2>2, <2>3, <2>4, AtOnce
<1>4. CASE ~(MinMax(t) /\ ~Needed(t, mem))
  <2>1. op[t] \in Routines
    BY <1>2 DEF InProgress
  <2>2. op' = [op EXCEPT ![t].at = "swap", ![t].old = mem]
    BY <1>4 DEF Load
  <2>3. op' = [op EXCEPT ![t] = [op[t] EXCEPT !.at = "swap", !.old = mem]]
    BY <2>2
  <2>4. [op[t] EXCEPT !.at = "swap", !.old = mem]
          = [op[t] EXCEPT !.at = "swap", !.old = mem, !.result = op[t].result]
    BY <2>1 DEF Routines
  <2>5. Put(t, "swap", mem, op[t].result) /\ op[t].result \in Nat
    BY <2>1, <2>3, <2>4 DEF Put, Routines
  <2>6. AtomicInv'
    BY <1>1, <1>2, <2>5, Apart
  <2>7. AbstractStep
    BY <1>1, <1>2, <2>5, Hidden DEF RoutinePlaces
  <2> QED
    BY <2>6, <2>7
<1> QED
  BY <1>3, <1>4

LEMMA CompareAndSwapStep ==
    ASSUME AtomicConstants, AtomicInv, NEW t \in Thread, CompareAndSwap(t)
    PROVE  AtomicInv' /\ AbstractStep
<1>1. op[t].at = "swap" /\ UNCHANGED <<program, holder>> /\ mem \in Nat
  BY DEF CompareAndSwap, AtomicInv
<1>2. InProgress(t) /\ Before(t) /\ PlaceRight(t)
  BY <1>1, Within DEF RoutinePlaces, Before
<1>3. Method(t).how # "critical"
  BY <1>1, <1>2 DEF PlaceRight
<1>4. CASE op[t].o = "read" \/ mem = op[t].old
  BY <1>1, <1>3, <1>4, AtOnce DEF CompareAndSwap
<1>5. CASE ~(op[t].o = "read" \/ mem = op[t].old)
  <2>1. UNCHANGED mem /\ MoveTo(t, "enter")
    BY <1>5 DEF CompareAndSwap
  <2>2. op[t].old \in Nat /\ op[t].result \in Nat /\ Put(t, "enter", op[t].old, op[t].result)
    BY <1>2, <2>1, MovePuts
  <2>3. AtomicInv'
    BY <1>1, <1>2, <2>1, <2>2, Apart
  <2>4. AbstractStep
    BY <1>1, <1>2, <2>1, <2>2, Hidden DEF RoutinePlaces
  <2> QED
    BY <2>3, <2>4
<1> QED
  BY <1>4, <1>5

LEMMA AcquireStep ==
    ASSUME AtomicConstants, AtomicInv, NEW t \in Thread, Acquire(t)
    PROVE  AtomicInv' /\ AbstractStep
<1>1. /\ op[t].at = "enter" /\ Method(t).how = "critical" /\ UNCHANGED <<program, mem>>
      /\ holder[Method(t).lock] = {} /\ holder' = [holder EXCEPT ![Method(t).lock] = {t}]
      /\ mem' \in Nat
  BY DEF Acquire, AtomicInv
<1>2. InProgress(t) /\ Before(t)
  BY <1>1, Within DEF RoutinePlaces, Before
<1>3. Method(t).lock \in Locks
  BY <1>1, <1>2, LockKnown DEF AtomicInv
<1>4. op[t].old \in Nat /\ op[t].result \in Nat /\ Put(t, "locked", op[t].old, op[t].result)
  BY <1>2, MovePuts DEF Acquire
<1>5. InProgress(t)' /\ op'[t].at = "locked" /\ Method(t)' = Method(t)
  BY <1>1, <1>2, <1>4, GoesOn DEF RoutinePlaces
<1>6. holder' = [l \in Locks |-> holder'[l]] /\ holder'[Method(t).lock] = {t}
  BY <1>1, <1>3 DEF AtomicInv
<1>7. PlaceRight(t)'
  BY <1>1, <1>5, <1>6 DEF PlaceRight, Excluding
<1>8. ASSUME NEW u \in Thread \ {t}, Excluding(u)
      PROVE  holder'[Method(u).lock] = holder[Method(u).lock]
  <2>1. PlaceRight(u)
    BY <1>8 DEF AtomicInv, Excluding, Idle
  <2>2. holder[Method(u).lock] = {u}
    BY <1>8, <2>1 DEF PlaceRight
  <2>3. Method(u).lock # Method(t).lock
    BY <1>1, <2>2
  <2> QED
    BY <1>1, <2>3 DEF AtomicInv
<1>9. AtomicInv'
  <2> DEFINE r == [op[t] EXCEPT !.at = "locked", !.old = op[t].old, !.result = op[t].result]
  <2>1. op' = [op EXCEPT ![t] = r]
    BY <1>4 DEF Put
  <2> HIDE DEF r
  <2> QED
    BY <1>1, <1>5, <1>6, <1>7, <1>8, <2>1, Kept
<1>10. AbstractStep
  BY <1>1, <1>2, <1>4, Hidden DEF RoutinePlaces
<1> QED
  BY <1>9, <1>10

(* The steps between taking the lock and giving it back.                    *)
LEMMA LockedSteps ==
    ASSUME AtomicConstants, AtomicInv, NEW t \in Thread, op[t].at \in {"locked", "store"},
           UNCHANGED <<program, holder>>, mem' \in Nat,
           NEW at \in {"store", "release"}, NEW old \in Nat, NEW result \in Nat,
           Put(t, at, old, result), at = "store" => old = mem'
    PROVE  AtomicInv'
<1>1. InProgress(t) /\ PlaceRight(t) /\ op[t] # Idle
  BY Within DEF RoutinePlaces
<1>2. Excluding(t) /\ Method(t).how = "critical" /\ holder[Method(t).lock] = {t}
  BY <1>1 DEF PlaceRight, Excluding
<1>3. /\ InProgress(t)' /\ op'[t].at = at /\ op'[t].old = old /\ Method(t)' = Method(t)
  BY <1>1, GoesOn DEF RoutinePlaces
<1>4. PlaceRight(t)'
  BY <1>2, <1>3 DEF PlaceRight, Excluding
<1>5. \A u \in Thread \ {t} : ~Excluding(u)
  BY <1>1, <1>2, Alone
<1>6. holder' = [l \in Locks |-> holder'[l]]
  BY DEF AtomicInv
<1> DEFINE r == [op[t] EXCEPT !.at = at, !.old = old, !.result = result]
<1>7. op' = [op EXCEPT ![t] = r]
  BY DEF Put
<1> HIDE DEF r
<1> QED
  BY <1>3, <1>4, <1>5, <1>6, <1>7, Kept

LEMMA LoadLockedStep ==
    ASSUME AtomicConstants, AtomicInv, NEW t \in Thread, LoadLocked(t)
    PROVE  AtomicInv' /\ AbstractStep
<1>1. op[t].at = "locked" /\ UNCHANGED <<program, mem, holder>> /\ mem \in Nat /\ mem' \in Nat
  BY DEF LoadLocked, AtomicInv
<1>2. InProgress(t) /\ Before(t)
  BY <1>1, Within DEF RoutinePlaces, Before
<1>3. op[t] \in Routines
  BY <1>2 DEF InProgress
<1>4. op' = [op EXCEPT ![t] = [op[t] EXCEPT !.at = "store", !.old = mem]]
  BY DEF LoadLocked
<1>5. [op[t] EXCEPT !.at = "store", !.old = mem]
        = [op[t] EXCEPT !.at = "store", !.old = mem, !.result = op[t].result]
  BY <1>3 DEF Routines
<1>6. Put(t, "store", mem, op[t].result) /\ op[t].result \in Nat
  BY <1>3, <1>4, <1>5 DEF Put, Routines
<1>7. AtomicInv'
  BY <1>1, <1>6, LockedSteps
<1>8. AbstractStep
  BY <1>1, <1>2, <1>6, Hidden DEF RoutinePlaces
<1> QED
  BY <1>7, <1>8

(* The value that is stored was computed from the one still there.          *)
LEMMA StoreLockedStep ==
    ASSUME AtomicConstants, AtomicInv, NEW t \in Thread, StoreLocked(t)
    PROVE  AtomicInv' /\ AbstractStep
<1>1. op[t].at = "store" /\ UNCHANGED <<program, holder>> /\ mem \in Nat
  BY DEF StoreLocked, AtomicInv
<1>2. InProgress(t) /\ Before(t) /\ PlaceRight(t)
  BY <1>1, Within DEF RoutinePlaces, Before
<1>3. op[t].old = mem
  BY <1>1, <1>2 DEF PlaceRight
<1>4. mem' = New(t, mem) /\ mem' \in Nat /\ Result(t, mem) \in Nat
  BY <1>1, <1>2, <1>3, NewValue DEF StoreLocked
<1>5. op[t] \in Routines
  BY <1>2 DEF InProgress
<1>6. op' = [op EXCEPT ![t] = [op[t] EXCEPT !.at = "release", !.result = Result(t, mem)]]
  BY <1>3 DEF StoreLocked
<1>7. [op[t] EXCEPT !.at = "release", !.result = Result(t, mem)]
        = [op[t] EXCEPT !.at = "release", !.old = mem, !.result = Result(t, mem)]
  BY <1>3, <1>5 DEF Routines
<1>8. Put(t, "release", mem, Result(t, mem))
  BY <1>6, <1>7 DEF Put
<1>9. AtomicInv'
  BY <1>1, <1>4, <1>8, LockedSteps
<1>10. AbstractStep
  BY <1>1, <1>2, <1>4, <1>8, Effect
<1> QED
  BY <1>9, <1>10

LEMMA ReleaseStep ==
    ASSUME AtomicConstants, AtomicInv, NEW t \in Thread, Release(t)
    PROVE  AtomicInv' /\ AbstractStep
<1>1. /\ op[t].at = "release" /\ UNCHANGED <<program, mem>> /\ mem' \in Nat
      /\ holder' = [holder EXCEPT ![Method(t).lock] = @ \ {t}]
  BY DEF Release, AtomicInv
<1>2. InProgress(t) /\ After(t) /\ op[t] # Idle
  BY <1>1, Within DEF RoutinePlaces, After
<1>3. op[t].old \in Nat /\ op[t].result \in Nat /\ Put(t, "done", op[t].old, op[t].result)
  BY <1>2, MovePuts DEF Release
<1>4. InProgress(t)' /\ op'[t].at = "done" /\ Method(t)' = Method(t)
  BY <1>1, <1>2, <1>3, GoesOn DEF RoutinePlaces
<1>5. PlaceRight(t)'
  BY <1>4 DEF PlaceRight, Excluding
<1>6. \A u \in Thread \ {t} : ~Excluding(u)
  BY <1>1, <1>2, Alone DEF Excluding
<1>7. holder' = [l \in Locks |-> holder'[l]]
  BY <1>1 DEF AtomicInv
<1>8. AtomicInv'
  <2> DEFINE r == [op[t] EXCEPT !.at = "done", !.old = op[t].old, !.result = op[t].result]
  <2>1. op' = [op EXCEPT ![t] = r]
    BY <1>3 DEF Put
  <2> HIDE DEF r
  <2> QED
    BY <1>1, <1>4, <1>5, <1>6, <1>7, <2>1, Kept
<1>9. AbstractStep
  BY <1>1, <1>2, <1>3, Hidden DEF RoutinePlaces
<1> QED
  BY <1>8, <1>9

LEMMA EndCallStep ==
    ASSUME AtomicConstants, AtomicInv, NEW t \in Thread, EndCall(t)
    PROVE  AtomicInv' /\ AbstractStep
<1>1. /\ op[t].at = "done" /\ op' = [op EXCEPT ![t] = Idle] /\ op'[t] = Idle
      /\ UNCHANGED <<program, mem, holder>> /\ mem' \in Nat
  BY DEF EndCall, AtomicInv
<1>2. holder' = [l \in Locks |-> holder'[l]]
  BY <1>1 DEF AtomicInv
<1>3. AtomicInv'
  BY <1>1, <1>2, Kept
<1>4. CallSeen(t)' = Idle
  BY <1>1 DEF CallSeen, Idle
<1>5. View' = [View EXCEPT ![t] = Idle]
  BY <1>1, <1>4, OthersSeen
<1>6. View[t].at = "done"
  <2>1. CallSeen(t) = [at |-> "done", result |-> op[t].result]
    BY <1>1, CallAfter DEF After
  <2> QED
    BY <2>1 DEF View
<1>7. Constructs!Return(t) <=> View[t].at = "done" /\ View' = [View EXCEPT ![t] = Idle] /\ mem' = mem
  BY DEF Constructs!Return, Constructs!Idle, Idle, View
<1> QED
  BY <1>1, <1>3, <1>5, <1>6, <1>7 DEF AbstractStep, Constructs!Next

(* No thread rereads: only the captures of minima and maxima do.            *)
LEMMA AtomicNext ==
    ASSUME AtomicConstants, AtomicInv, [Next]_vars
    PROVE  AtomicInv' /\ AbstractStep
<1>1. CASE UNCHANGED vars
  <2>1. AtomicInv' = AtomicInv
    BY <1>1 DEF vars, AtomicInv, InProgress, PlaceRight, Excluding, Routines, Method, MinMax
  <2>2. UNCHANGED <<mem, View>>
    BY <1>1 DEF vars, View, CallSeen
  <2> QED
    BY <2>1, <2>2 DEF AbstractStep
<1>2. CASE Next
  <2> SUFFICES ASSUME NEW t \in Thread, BeginCall(t) \/ Step(t) \/ Acquire(t)
               PROVE  AtomicInv' /\ AbstractStep
    BY <1>2 DEF Next
  <2>1. ~Reread(t)
    BY DEF Reread, AtomicInv, Idle, InProgress, Routines, RoutinePlaces
  <2> QED
    BY <2>1, BeginCallStep, LookFirstStep, FetchAndAddStep, ExchangeWordStep, LoadStep, CompareAndSwapStep,
       AcquireStep, LoadLockedStep, StoreLockedStep, ReleaseStep, EndCallStep DEF Step
<1> QED
  BY <1>1, <1>2

-----------------------------------------------------------------------------
(* Mutual exclusion: at most one thread is between taking an atomic lock    *)
(* and giving it back, whatever routines it is in, and nobody writes the    *)
(* location meanwhile.                                                      *)
THEOREM RoutinesExclude ==
    AtomicConstants /\ Spec => [](\A t, u \in Thread : Excluding(t) /\ Excluding(u) => t = u)
<1>1. AtomicConstants /\ Init => AtomicInv
  BY AtomicInvInit
<1>2. AtomicConstants /\ AtomicInv /\ [Next]_vars => AtomicInv'
  BY AtomicNext
<1>4. AtomicConstants => AtomicConstants'
  BY DEF AtomicConstants
<1>3. AtomicConstants /\ AtomicInv => \A t, u \in Thread : Excluding(t) /\ Excluding(u) => t = u
  BY Alone DEF Excluding, Idle
<1> QED
  BY <1>1, <1>2, <1>3, <1>4, PTL DEF Spec

(* Every routine takes effect at one moment between its call and its        *)
(* return, and captures what it found or left then: the program's view      *)
(* starts and steps as the constructs promise.                              *)
THEOREM AtomicsImplement ==
    AtomicConstants /\ Spec => Constructs!Init /\ [][Constructs!Next]_(Constructs!vars)
<1>1. AtomicConstants /\ Init => AtomicInv
  BY AtomicInvInit
<1>2. AtomicConstants /\ AtomicInv /\ [Next]_vars => AtomicInv' /\ [Constructs!Next]_(Constructs!vars)
  BY AtomicNext DEF AbstractStep, View, Constructs!vars
<1>4. AtomicConstants => AtomicConstants'
  BY DEF AtomicConstants
<1>3. Init => Constructs!Init
  BY DEF Init, Constructs!Init, Constructs!Idle, CallSeen, Idle
<1> QED
  BY <1>1, <1>2, <1>3, <1>4, PTL DEF Spec
=============================================================================
