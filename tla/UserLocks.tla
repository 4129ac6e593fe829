------------------------------- MODULE UserLocks -------------------------------
(***************************************************************************)
(* The lock routines over the dynamic locks.  The word of the program      *)
(* either is a test-and-set lock itself or the index of an entry in the    *)
(* table of indirect locks.  Entries are allocated under the global lock,  *)
(* from the pool of destroyed ones of the same kind or from the table,     *)
(* which doubles when it is full; they are looked up without any lock.     *)
(* That is the word of a build for Linux, where it is as small as an int   *)
(* (kmp_lock.h:53); for VxWorks it is as large as a pointer and holds the  *)
(* address of the entry, which no growth of the table disturbs: then the   *)
(* two steps of the lookup are one and no thread is ever lost.  A nestable *)
(* lock is a base lock with an owner and a depth.  The base locks are      *)
(* those of module Locks, here one step to acquire and to release.         *)
(***************************************************************************)
EXTENDS Integers, Sequences, FiniteSets

CONSTANTS Caller, Lock, Nil, MaxDepth,
    MaxMade     \* how many locks the program makes

(* The kinds a program may meet: the default one, and those of its hints.   *)
Families == {{"tas", "queuing"}, {"ticket"}, {"drdpa"}, {"hle"}}
Simple == UNION Families
Direct == {"tas", "hle"}
Nested == {"nested_tas", "nested_ticket", "nested_queuing", "nested_drdpa"}
Indirect == (Simple \ Direct) \cup Nested
Index == 0 .. (MaxMade - 1)     \* entries that so many locks can take

(* A word, what the program sees of a lock, and nothing are different.      *)
ASSUME UserLocksAssumption ==
    /\ Nil \notin Caller \cup Lock /\ Lock \cap Index = {} /\ IsFiniteSet(Caller)
    /\ Nil \notin [kind : Direct \cup Indirect, index : Nat]
    /\ Nil \notin [nest : BOOLEAN, owner : Caller \cup {Nil}, count : Nat]
    /\ MaxMade \in Nat

VARIABLES
    word,       \* the word of each lock: the kind and the index of its entry
    base,       \* the base lock in each word or entry
    lockTable,  \* the table: its version, size and next entry
    lockPool,   \* the destroyed entries of each kind
    routine,    \* the routine each thread is in
    made,       \* how many locks the program has made
    family      \* the kinds of locks the program uses

userLockVars == <<word, base, lockTable, lockPool, routine, made, family>>

IdleRoutine == [at |-> "idle", op |-> "none", lock |-> Nil, row |-> 0, result |-> 0]
FreeBase == [holder |-> Nil, depth |-> 0, owner |-> Nil]

UserLocksInit ==
    /\ word = [l \in Lock |-> Nil]
    /\ base = [x \in Lock \cup Index |-> FreeBase]
    /\ lockTable = [version |-> 0, size |-> 1, next |-> 0]
    /\ lockPool = [k \in Indirect |-> <<>>]
    /\ routine = [t \in Caller |-> IdleRoutine]
    /\ made = 0 /\ family \in Families

(* The locks and calls as the program sees them.                            *)
Place(l) == IF word[l].kind \in Direct THEN l ELSE word[l].index
Made(l) == word[l] # Nil /\ \A t \in Caller : ~(routine[t].lock = l /\ routine[t].at = "initialize")
AbstractLock(l) ==
    IF ~Made(l) THEN Nil
    ELSE LET b == base[Place(l)] IN
         [nest |-> word[l].kind \in Nested, owner |-> b.holder,
          count |-> IF b.holder = Nil THEN 0 ELSE IF b.depth = 0 THEN 1 ELSE b.depth]
AbstractCall(t) ==
    CASE routine[t].at = "idle" -> [at |-> "idle"]
      [] routine[t].at \in {"depth", "own", "done"} -> [at |-> "done", result |-> routine[t].result]
      [] OTHER -> [at |-> "called", lock |-> routine[t].lock, op |-> routine[t].op]

Interface == INSTANCE UserLockSpec WITH
    locks <- [l \in Lock |-> AbstractLock(l)], call <- [t \in Caller |-> AbstractCall(t)]

-----------------------------------------------------------------------------
InRoutine(t, where) == routine[t].at = where
Continue(t, where) == routine' = [routine EXCEPT ![t].at = where]
DoneWith(t, result) == routine' = [routine EXCEPT ![t].at = "done", ![t].result = result]
Word(t) == word[routine[t].lock]
Loc(t) == Place(routine[t].lock)
Set(t, b) == base' = [base EXCEPT ![Loc(t)] = b]

Beginning(op, l) ==
    IF op \in {"init", "initNest"} THEN "allocate"
    ELSE IF word[l].kind \in Direct THEN "found" ELSE "lookup"

(* The program calls a routine, legally.  A direct lock is its word; an     *)
(* indirect one is looked up.                                               *)
Enter(t, op) ==
    /\ InRoutine(t, "idle")
    /\ \E l \in Lock :
         /\ Interface!Legal(t, l, op)
         /\ \A u \in Caller : routine[u].lock = l =>
              {routine[u].op, op} \cap {"init", "initNest", "destroy"} = {}
         /\ routine' = [routine EXCEPT ![t] =
              [IdleRoutine EXCEPT !.op = op, !.lock = l, !.at = Beginning(op, l)]]
    /\ UNCHANGED <<word, base, lockTable, lockPool, family>>

CallInit(t) == Enter(t, "init") /\ made < MaxMade /\ made' = made + 1
CallInitNest(t) == Enter(t, "initNest") /\ made < MaxMade /\ made' = made + 1
CallDestroy(t) == Enter(t, "destroy") /\ UNCHANGED made
CallSet(t) == Enter(t, "set") /\ UNCHANGED made
CallUnset(t) == Enter(t, "unset") /\ UNCHANGED made
CallTest(t) == Enter(t, "test") /\ UNCHANGED made

-----------------------------------------------------------------------------
(* Making and destroying.  A speculative kind becomes the default one for   *)
(* nesting, here a queuing lock.                                            *)
NestedOf(kind) ==
    CASE kind = "tas" -> "nested_tas" [] kind = "ticket" -> "nested_ticket"
      [] kind = "drdpa" -> "nested_drdpa" [] OTHER -> "nested_queuing"
KindsFor(op) == IF op = "init" THEN family ELSE {NestedOf(k) : k \in family}

(* A full table moves to one of twice the size, and the old one is freed.   *)
Grown == IF lockTable.next = lockTable.size
         THEN [lockTable EXCEPT !.version = @ + 1, !.size = 2 * @, !.next = @ + 1]
         ELSE [lockTable EXCEPT !.next = @ + 1]

AllocateIndirect(t, kind) ==
    IF lockPool[kind] # <<>>
      THEN /\ word' = [word EXCEPT ![routine[t].lock] = [kind |-> kind, index |-> Head(lockPool[kind])]]
           /\ lockPool' = [lockPool EXCEPT ![kind] = Tail(@)] /\ UNCHANGED lockTable
      ELSE /\ lockTable' = Grown /\ UNCHANGED lockPool
           /\ word' = [word EXCEPT ![routine[t].lock] = [kind |-> kind, index |-> lockTable.next]]

AllocateLock(t) ==
    /\ InRoutine(t, "allocate") /\ Continue(t, "initialize")
    /\ \E kind \in KindsFor(routine[t].op) :
         IF kind \in Direct
           THEN /\ word' = [word EXCEPT ![routine[t].lock] = [kind |-> kind, index |-> 0]]
                /\ UNCHANGED <<lockTable, lockPool>>
           ELSE AllocateIndirect(t, kind)
    /\ UNCHANGED <<base, made, family>>

InitializeBase(t) ==
    /\ InRoutine(t, "initialize") /\ Set(t, FreeBase) /\ DoneWith(t, 0)
    /\ UNCHANGED <<word, lockTable, lockPool, made, family>>

DestroyLock(t) ==
    /\ InRoutine(t, "found") /\ routine[t].op = "destroy"
    /\ IF Word(t).kind \in Direct THEN UNCHANGED lockPool
       ELSE lockPool' = [lockPool EXCEPT ![Word(t).kind] = <<Word(t).index>> \o @]
    /\ word' = [word EXCEPT ![routine[t].lock] = Nil]
    /\ DoneWith(t, 0) /\ UNCHANGED <<base, lockTable, made, family>>

-----------------------------------------------------------------------------
(* The lookup reads the address of the table and then, through it, the      *)
(* entry.  A thread that finds the table freed is lost.  A word as large as *)
(* a pointer takes the entry from the word: one of these behaviours.        *)
LookUp(t) ==
    /\ InRoutine(t, "lookup")
    /\ routine' = [routine EXCEPT ![t].row = lockTable.version, ![t].at = "entry"]
    /\ UNCHANGED <<word, base, lockTable, lockPool, made, family>>

LookUpEntry(t) ==
    /\ InRoutine(t, "entry")
    /\ routine' = [routine EXCEPT ![t].row = 0,
         ![t].at = IF routine[t].row = lockTable.version THEN "found" ELSE "lost"]
    /\ UNCHANGED <<word, base, lockTable, lockPool, made, family>>

-----------------------------------------------------------------------------
(* The base lock.                                                           *)
Nests(t) == Word(t).kind \in Nested

BeginSimple(t) ==
    /\ InRoutine(t, "found") /\ routine[t].op \in {"set", "test", "unset"} /\ ~Nests(t)
    /\ Continue(t, IF routine[t].op = "unset" THEN "release" ELSE "base")
    /\ UNCHANGED <<word, base, lockTable, lockPool, made, family>>

AcquireBase(t) ==
    /\ InRoutine(t, "base") /\ base[Loc(t)].holder = Nil
    /\ Set(t, [base[Loc(t)] EXCEPT !.holder = t])
    /\ routine' = [routine EXCEPT ![t].result = 1, ![t].at = IF Nests(t) THEN "depth" ELSE "done"]
    /\ UNCHANGED <<word, lockTable, lockPool, made, family>>

TestFails(t) ==
    /\ InRoutine(t, "base") /\ routine[t].op = "test" /\ base[Loc(t)].holder # Nil
    /\ DoneWith(t, 0) /\ UNCHANGED <<word, base, lockTable, lockPool, made, family>>

ReleaseBase(t) ==
    /\ InRoutine(t, "release") /\ Set(t, [base[Loc(t)] EXCEPT !.holder = Nil])
    /\ DoneWith(t, 1) /\ UNCHANGED <<word, lockTable, lockPool, made, family>>

(* The nesting around it.  Only the test-and-set lock names its owner in    *)
(* the base lock; the others have a field for it, set after the depth and   *)
(* cleared before the base lock is released.                                *)
BeginNested(t, owner) ==
    /\ InRoutine(t, "found") /\ routine[t].op \in {"set", "test", "unset"}
    /\ IF routine[t].op # "unset" /\ owner = t
         THEN /\ Set(t, [base[Loc(t)] EXCEPT !.depth = @ + 1])
              /\ DoneWith(t, IF routine[t].op = "set" THEN 0 ELSE base[Loc(t)].depth + 1)
         ELSE /\ Continue(t, IF routine[t].op = "unset" THEN "undepth" ELSE "base")
              /\ UNCHANGED base

SetDepth(t, next) ==
    /\ InRoutine(t, "depth") /\ Set(t, [base[Loc(t)] EXCEPT !.depth = 1]) /\ Continue(t, next)
SetOwner(t) ==
    /\ InRoutine(t, "own") /\ Set(t, [base[Loc(t)] EXCEPT !.owner = t]) /\ Continue(t, "done")

LowerDepth(t, next) ==
    /\ InRoutine(t, "undepth") /\ Set(t, [base[Loc(t)] EXCEPT !.depth = @ - 1])
    /\ IF base[Loc(t)].depth > 1 THEN DoneWith(t, 0) ELSE Continue(t, next)
(* Mutant: the owner of a nested lock stays when it is left.                *)
ClearOwnerKeeps(t) ==
    /\ InRoutine(t, "disown") /\ UNCHANGED base
    /\ Continue(t, "release")

ClearOwner(t) ==
    /\ InRoutine(t, "disown") /\ Set(t, [base[Loc(t)] EXCEPT !.owner = Nil])
    /\ Continue(t, "release")

KeepsOwner(t) ==
    \/ BeginNested(t, base[Loc(t)].owner) \/ SetDepth(t, "own") \/ SetOwner(t)
    \/ LowerDepth(t, "disown") \/ ClearOwner(t)

OfKind(t, kind) ==
    /\ routine[t].at \in {"found", "depth", "own", "undepth", "disown"} /\ Word(t).kind = kind
    /\ UNCHANGED <<word, lockTable, lockPool, made, family>>

NestedTas(t) ==
    /\ OfKind(t, "nested_tas")
    /\ \/ BeginNested(t, base[Loc(t)].holder) \/ SetDepth(t, "done") \/ LowerDepth(t, "release")
NestedTicket(t) == OfKind(t, "nested_ticket") /\ KeepsOwner(t)
NestedQueuing(t) == OfKind(t, "nested_queuing") /\ KeepsOwner(t)
NestedDrdpa(t) == OfKind(t, "nested_drdpa") /\ KeepsOwner(t)

ReturnFrom(t) ==
    /\ InRoutine(t, "done") /\ routine' = [routine EXCEPT ![t] = IdleRoutine]
    /\ UNCHANGED <<word, base, lockTable, lockPool, made, family>>

UserLocksNext == \E t \in Caller :
    \/ CallInit(t) \/ CallInitNest(t) \/ CallDestroy(t) \/ CallSet(t) \/ CallUnset(t) \/ CallTest(t)
    \/ AllocateLock(t) \/ InitializeBase(t) \/ DestroyLock(t) \/ LookUp(t) \/ LookUpEntry(t)
    \/ BeginSimple(t) \/ AcquireBase(t) \/ TestFails(t) \/ ReleaseBase(t)
    \/ NestedTas(t) \/ NestedTicket(t) \/ NestedQueuing(t) \/ NestedDrdpa(t)
    \/ ReturnFrom(t)

UserLocksSpec == UserLocksInit /\ [][UserLocksNext]_userLockVars

-----------------------------------------------------------------------------
Operations == {"init", "initNest", "destroy", "set", "test", "unset"}
Making == {"init", "initNest"}
Places == {"idle", "allocate", "initialize", "lookup", "entry", "lost", "found", "base",
           "depth", "own", "undepth", "disown", "release", "done"}
BaseLock == [holder : Caller \cup {Nil}, depth : Nat, owner : Caller \cup {Nil}]
Routine == [at : Places, op : Operations \cup {"none"}, lock : Lock \cup {Nil},
            row : Nat, result : Nat]

UserTypes ==
    /\ word \in [Lock -> {Nil} \cup [kind : Direct \cup Indirect, index : Nat]]
    /\ base \in [Lock \cup Index -> BaseLock]
    /\ lockTable \in [version : Nat, size : Nat, next : Nat]
    /\ lockPool \in [Indirect -> Seq(Nat)]
    /\ routine \in [Caller -> Routine]
    /\ made \in 0..MaxMade /\ family \in Families

(* A lock is made or destroyed by one thread while no other uses it.        *)
MadeAlone ==
    \A t, u \in Caller : t # u /\ routine[t].lock = routine[u].lock /\ routine[t].lock # Nil =>
        routine[t].op \notin Making \cup {"destroy"}

(* There are entries for all that the program may still make.               *)
EntriesLeft ==
    lockTable.next + Cardinality({t \in Caller : routine[t].at = "allocate"}) <= made

(* An entry belongs to one lock, or is once in one pool.                    *)
EntryOf(l, i) == word[l] # Nil /\ word[l].kind \in Indirect /\ word[l].index = i
EntriesApart ==
    /\ \A l \in Lock : \A i \in Nat : EntryOf(l, i) =>
         /\ i < lockTable.next
         /\ \A m \in Lock : EntryOf(m, i) => l = m
         /\ \A k \in Indirect : \A n \in 1..Len(lockPool[k]) : lockPool[k][n] # i
    /\ \A k \in Indirect : \A n \in 1..Len(lockPool[k]) :
         /\ lockPool[k][n] < lockTable.next
         /\ \A j \in Indirect : \A m \in 1..Len(lockPool[j]) :
              lockPool[k][n] = lockPool[j][m] => k = j /\ n = m

(* What a thread at each place of a routine r may rely on, when w is the    *)
(* word of the lock and b its base lock.                                    *)
KeepOwner == Nested \ {"nested_tas"}
WordFor(r, w) ==
    /\ r.at = "idle" => r = IdleRoutine
    /\ r.at # "idle" => r.lock \in Lock /\ r.op \in Operations
    /\ r.at \in {"allocate", "initialize"} => r.op \in Making
    /\ r.at \notin {"idle", "allocate", "initialize", "done"} => r.op \notin Making /\ w # Nil
    /\ r.at = "allocate" => w = Nil
    /\ r.at = "initialize" => w # Nil /\ (w.kind \in Nested <=> r.op = "initNest")
    /\ r.at \in {"base", "depth", "own"} => r.op \in {"set", "test"}
    /\ r.at \in {"undepth", "disown", "release"} => r.op = "unset"
    /\ r.at \in {"depth", "undepth"} => w.kind \in Nested
    /\ r.at \in {"own", "disown"} => w.kind \in KeepOwner
BaseFor(t, r, w, b) ==
    /\ r.at # "done" /\ r.op = "destroy" => b.holder = Nil
    /\ r.at # "done" /\ r.op = "unset" => b.holder = t
    /\ r.at \in {"depth", "own"} => b.holder = t
    /\ r.at = "base" /\ w.kind \in Nested => b.holder # t
    /\ r.at = "depth" => b.depth = 0 /\ b.owner = Nil
    /\ r.at = "own" => b.depth = 1 /\ b.owner = Nil
    /\ r.at = "undepth" => b.depth > 0 /\ (w.kind \in KeepOwner => b.owner = t)
    /\ r.at = "disown" => b.depth = 0
    /\ r.at = "release" => b.depth = 0 /\ b.owner = Nil
WordsRight == \A t \in Caller : WordFor(routine[t], word[routine[t].lock])
RoutinesRight == \A t \in Caller : routine[t].at \notin {"idle", "allocate", "initialize", "done"} =>
    BaseFor(t, routine[t], word[routine[t].lock], base[Place(routine[t].lock)])

(* A nestable lock that is held has a depth and, unless it is test-and-set, *)
(* an owner, except while its holder, in routine r, is on the way in or out. *)
Moving(r, l) == r.lock = l /\ r.at \in {"depth", "own", "disown", "release"}
BaseRight(l, w, b, r) ==
    /\ b.holder = Nil => b.depth = 0 /\ b.owner = Nil
    /\ w.kind \notin Nested => b.depth = 0
    /\ w.kind \notin KeepOwner => b.owner = Nil
    /\ b.owner \in {Nil, b.holder}
    /\ w.kind \in Nested /\ b.holder # Nil /\ ~Moving(r, l) =>
         b.depth > 0 /\ (w.kind \in KeepOwner => b.owner = b.holder)
BasesRight == \A l \in Lock : Made(l) =>
    LET b == base[Place(l)] IN BaseRight(l, word[l], b, routine[b.holder])

UserLocksInv == UserTypes /\ MadeAlone /\ EntriesLeft /\ EntriesApart
                /\ WordsRight /\ RoutinesRight /\ BasesRight

(* Whatever locks the program makes, destroys and makes again, every call   *)
(* takes effect at one moment: a lock has one owner, who counts right, and  *)
(* no two locks share an entry.                                             *)
ImplementsUserLocks == Interface!Spec
=============================================================================
