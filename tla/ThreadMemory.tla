---------------------------- MODULE ThreadMemory ----------------------------
(***************************************************************************)
(* The memory of the threads (kmp_alloc.cpp).  Each thread has a heap of   *)
(* its own, bget, made of pools that it gets from malloc; only the thread  *)
(* itself works on it.  A buffer that another thread releases is put on    *)
(* the owner's bget_list with a compare-and-store, and released by the     *)
(* owner at its next call.  On top, the fast memory of tasks keeps free    *)
(* buffers of a few sizes in lists: the thread's own, those it holds back  *)
(* for one other thread, and those that others have given back to it.      *)
(*                                                                         *)
(* An address counts units of SizeQuant, and a header takes one unit.      *)
(***************************************************************************)
EXTENDS Integers, FiniteSets, SequencesExt

CONSTANTS
    Thread,
    PoolIncr,       \* __kmp_malloc_pool_incr, the size of a pool
    MaxPools,       \* the pools that malloc has for all threads
    MaxDirect,      \* and the buffers too large for a pool
    MaxHeld,        \* the buffers that the program has at a time
    BinSizes,       \* bget_bin_size, counted from 0
    SizeQ,          \* the smallest buffer
    Sizes,          \* sizes that are asked for
    FastSizes,      \* a sequence: the size of the buffers of each fast list
    ListLimit,      \* KMP_FREE_LIST_LIMIT
    None

ASSUME MemoryAssumption ==
    /\ {PoolIncr, SizeQ, ListLimit} \subseteq Nat \ {0}
    /\ {MaxPools, MaxDirect, MaxHeld} \subseteq Nat
    /\ BinSizes[0] = 0 /\ \A i \in DOMAIN BinSizes \ {0} : BinSizes[i] > BinSizes[i - 1]
    /\ Sizes \subseteq Nat \ {0} /\ \A c \in DOMAIN FastSizes : FastSizes[c] \in Nat \ {0}

VARIABLES
    heap,   \* headers, free lists, bget_list, pools and fast lists
    held,   \* the buffers that the program has
    at      \* where each thread is in a compare-and-store loop

vars == <<heap, held, at>>

Header == 1
Bins == DOMAIN BinSizes
Class == DOMAIN FastSizes

(* A header: size is negative for an allocated buffer, 0 for one that      *)
(* comes from malloc directly; prevfree is the size of the buffer before   *)
(* if that is free.                                                        *)
NewHeader(t, size, prevfree) == [owner |-> t, size |-> size, prevfree |-> prevfree]
Sentinel == -1000

Base(p) == p * PoolIncr
PoolOf(a) == a \div PoolIncr
Pools(h) == {PoolOf(a) : a \in DOMAIN h.hdr} \cap 1..MaxPools
DirectAddress == {Base(MaxPools + i) : i \in 1..MaxDirect}
Smallest(S) == CHOOSE x \in S : \A y \in S : x <= y

Init ==
    /\ \E mode \in {"fifo", "lifo", "best"} :
         heap = [hdr |-> <<>>, mode |-> mode,
                 free |-> [t \in Thread |-> [b \in Bins |-> <<>>]],
                 list |-> [t \in Thread |-> <<>>],
                 blocks |-> [t \in Thread |-> 0],
                 fast |-> [t \in Thread |-> [c \in Class |->
                              [self |-> <<>>, other |-> <<>>, sync |-> <<>>]]],
                 class |-> <<>>]
    /\ held = {}
    /\ at = [t \in Thread |-> [op |-> "idle"]]

(***************************************************************************)
(* The free lists, one for each range of sizes.                            *)
(***************************************************************************)
Bin(size) ==
    LET chop[lo \in Bins, hi \in Bins] ==
          IF hi - lo <= 1 THEN lo
          ELSE LET mid == (lo + hi) \div 2
               IN  IF size < BinSizes[mid] THEN chop[lo, mid - 1] ELSE chop[mid, hi]
    IN  chop[0, Cardinality(Bins) - 1]

InsertFree(h, a) ==
    [h EXCEPT !.free[h.hdr[a].owner][Bin(h.hdr[a].size)] = Append(@, a)]

RemoveFree(h, a) ==
    [h EXCEPT !.free[h.hdr[a].owner] = [b \in Bins |-> Remove(@[b], a)]]

Forget(h, A) == [h EXCEPT !.hdr = [a \in DOMAIN @ \ A |-> @[a]]]

(***************************************************************************)
(* Releasing a buffer of one's own: it is joined with free neighbours; a   *)
(* pool that is free as a whole goes back, except for the last one.        *)
(***************************************************************************)
JoinPrevious(h, a) ==
    LET size == -h.hdr[a].size
        b    == a - h.hdr[a].prevfree
    IN  IF b = a THEN [heap |-> [h EXCEPT !.hdr[a].size = size], at |-> a]
        ELSE [heap |-> Forget([RemoveFree(h, b) EXCEPT !.hdr[b].size = @ + size], {a}), at |-> b]

JoinNext(h, b) ==
    LET next == b + h.hdr[b].size
        size == h.hdr[next].size
    IN  IF size <= 0 THEN h
        ELSE InsertFree(Forget([RemoveFree(RemoveFree(h, next), b)
                                  EXCEPT !.hdr[b].size = @ + size], {next}), b)

ReleasePool(h, b) ==
    LET t    == h.hdr[b].owner
        next == b + h.hdr[b].size
    IN  IF h.hdr[b].size # PoolIncr - Header THEN h
        ELSE IF h.blocks[t] = 1 THEN h
        ELSE [Forget(RemoveFree(h, b), {b, next}) EXCEPT !.blocks[t] = @ - 1]

Release(h, a) ==
    LET previous == JoinPrevious(h, a)
        b        == previous.at
        joined   == JoinNext(InsertFree(previous.heap, b), b)
        size     == joined.hdr[b].size
    IN  ReleasePool([joined EXCEPT !.hdr[b + size].prevfree = size], b)

(* __kmp_bget_dequeue: take what others have released, and release it.     *)
Dequeue(h, t) == FoldLeft(Release, [h EXCEPT !.list[t] = <<>>], h.list[t])

(***************************************************************************)
(* Allocating.                                                             *)
(***************************************************************************)
(* The buffer that is found for size in the bins from its own upwards.     *)
Found(h, t, size) ==
    LET fits(b)  == SelectSeq(h.free[t][b], LAMBDA a : h.hdr[a].size >= size)
        bins     == {b \in Bins : b >= Bin(size) /\ fits(b) # <<>>}
        inBin    == fits(Smallest(bins))
        best     == SelectSeq(inBin, LAMBDA a : \A c \in ToSet(inBin) :
                                                   h.hdr[a].size <= h.hdr[c].size)
    IN  IF bins = {} THEN None
        ELSE CASE h.mode = "fifo" -> Head(inBin)
               [] h.mode = "lifo" -> Last(inBin)
               [] h.mode = "best" -> Head(best)

(* Mutant: the buffer after the one that is cut off still believes that    *)
(* the one before it is free.                                              *)
CutStale(h, t, a, size) ==
    LET rest == h.hdr[a].size - size
        new  == (a + rest) :> NewHeader(t, -size, rest)
    IN  IF rest > SizeQ + Header
          THEN [heap |-> InsertFree([RemoveFree(h, a) EXCEPT !.hdr = new @@ [@ EXCEPT ![a].size = rest]], a),
                buf |-> a + rest]
          ELSE [heap |-> [RemoveFree(h, a) EXCEPT !.hdr[a].size = -@], buf |-> a]

(* Size units of the free buffer a: its end, if enough is left of it, or   *)
(* all of it.                                                              *)
Cut(h, t, a, size) ==
    LET end  == a + h.hdr[a].size
        rest == h.hdr[a].size - size
        new  == (a + rest) :> NewHeader(t, -size, rest)
        next == [h EXCEPT !.hdr[end].prevfree = 0]
    IN  IF rest > SizeQ + Header
          THEN [heap |-> InsertFree([RemoveFree(next, a) EXCEPT
                                       !.hdr = new @@ [@ EXCEPT ![a].size = rest]], a),
                buf |-> a + rest]
          ELSE [heap |-> [RemoveFree(next, a) EXCEPT !.hdr[a].size = -@], buf |-> a]

(* bpool: a new pool, one free buffer and a sentinel at its end. *)
AddPool(h, t, p) ==
    LET len == PoolIncr - Header
        two == Base(p) :> NewHeader(t, len, 0) @@ (Base(p) + len) :> NewHeader(t, Sentinel, len)
    IN  InsertFree([h EXCEPT !.hdr = two @@ @, !.blocks[t] = @ + 1], Base(p))

(* bget: from the free buffers, or from malloc. *)
Bget(old, t, n) ==
    LET h      == Dequeue(old, t)
        size   == Max({n, SizeQ}) + Header
        a      == Found(h, t, size)
        pools  == (1..MaxPools) \ Pools(h)
        direct == DirectAddress \ DOMAIN h.hdr
        none   == [heap |-> h, buf |-> None]
        grown  == AddPool(h, t, Smallest(pools))
    IN  IF a # None THEN Cut(h, t, a, size)
        ELSE IF size > PoolIncr - Header
          THEN IF direct = {} THEN none
               ELSE [heap |-> [h EXCEPT !.hdr = Smallest(direct) :> NewHeader(t, 0, 0) @@ @],
                     buf |-> Smallest(direct)]
          ELSE IF pools = {} THEN none ELSE Cut(grown, t, Found(grown, t, size), size)

-----------------------------------------------------------------------------
Idle(t) == at[t].op = "idle"
Head0(s) == IF s = <<>> THEN None ELSE Head(s)
Got(r) == IF r.buf = None THEN {} ELSE {r.buf}

Malloc(t) ==
    /\ Idle(t) /\ Cardinality(held) < MaxHeld
    /\ \E n \in Sizes : LET r == Bget(heap, t, n)
                        IN  heap' = r.heap /\ held' = held \cup Got(r)
    /\ UNCHANGED at

(* brel: a direct buffer goes to free, one's own to the free lists, that   *)
(* of another thread to this thread's bget_list.                           *)
Brel(h, t, a) ==
    LET owner == h.hdr[a].owner
    IN  IF h.hdr[a].size = 0 THEN heap' = Forget(h, {a}) /\ UNCHANGED at
        ELSE IF owner = t THEN heap' = Release(h, a) /\ UNCHANGED at
        ELSE /\ heap' = h
             /\ at' = [at EXCEPT ![t] = [op |-> "enqueue", buf |-> a, old |-> Head0(h.list[owner])]]

Free(t) ==
    /\ Idle(t)
    /\ \E a \in held \ DOMAIN heap.class : Brel(Dequeue(heap, t), t, a) /\ held' = held \ {a}

Realloc(t) ==
    /\ Idle(t)
    /\ \E a \in held \ DOMAIN heap.class, n \in Sizes :
         LET r == Bget(heap, t, n)
         IN  IF r.buf = None THEN heap' = r.heap /\ UNCHANGED <<held, at>>
             ELSE Brel(r.heap, t, a) /\ held' = (held \ {a}) \cup {r.buf}

(* Mutant: a store where there is a compare-and-store, after the owner may *)
(* have taken the list whose first buffer was read.                        *)
EnqueueBlindly(t) ==
    /\ at[t].op = "enqueue"
    /\ LET owner == heap.hdr[at[t].buf].owner
           rest  == IF heap.list[owner] = <<>> THEN <<at[t].old>> ELSE heap.list[owner]
       IN  heap' = [heap EXCEPT !.list[owner] =
                      <<at[t].buf>> \o SelectSeq(rest, LAMBDA a : a # None)]
    /\ at' = [at EXCEPT ![t] = [op |-> "idle"]]
    /\ UNCHANGED held

(* The compare-and-store of __kmp_bget_enqueue. *)
Enqueue(t) ==
    /\ at[t].op = "enqueue"
    /\ LET owner == heap.hdr[at[t].buf].owner
           first == Head0(heap.list[owner])
       IN  IF first = at[t].old
             THEN /\ heap' = [heap EXCEPT !.list[owner] = <<at[t].buf>> \o @]
                  /\ at' = [at EXCEPT ![t] = [op |-> "idle"]]
             ELSE at' = [at EXCEPT ![t].old = first] /\ UNCHANGED heap
    /\ UNCHANGED held

(* The calls that only look at the heap release what is queued. *)
PoolStat(t) ==
    /\ Idle(t) /\ heap' = Dequeue(heap, t) /\ UNCHANGED <<held, at>>

(***************************************************************************)
(* The fast memory of tasks.                                               *)
(***************************************************************************)
FastAllocate(t) ==
    /\ Idle(t) /\ Cardinality(held) < MaxHeld
    /\ \E c \in Class :
         LET lists == heap.fast[t][c]
             r     == Bget(heap, t, FastSizes[c])
         IN  \/ /\ lists.self # <<>>
                /\ heap' = [heap EXCEPT !.fast[t][c].self = Tail(@)]
                /\ held' = held \cup {Head(lists.self)}
             \/ /\ lists.self = <<>> /\ lists.sync # <<>>
                /\ heap' = [heap EXCEPT !.fast[t][c].self = Tail(lists.sync),
                                        !.fast[t][c].sync = <<>>]
                /\ held' = held \cup {Head(lists.sync)}
             \/ /\ lists.self = <<>> /\ lists.sync = <<>> /\ r.buf # None
                /\ heap' = [r.heap EXCEPT !.class = (r.buf :> c) @@ @]
                /\ held' = held \cup {r.buf}
    /\ UNCHANGED at

(* One's own buffer goes to the own list; another's is held back, up to a  *)
(* limit and for one owner; what is held back is given to its owner when   *)
(* the next one does not fit.                                              *)
FastFree(t) ==
    /\ Idle(t)
    /\ \E a \in held \cap DOMAIN heap.class :
         LET c      == heap.class[a]
             owner  == heap.hdr[a].owner
             other  == heap.fast[t][c].other
             holder == heap.hdr[Head(other)].owner
         IN  /\ held' = held \ {a}
             /\ CASE owner = t ->
                       heap' = [heap EXCEPT !.fast[t][c].self = <<a>> \o @] /\ UNCHANGED at
                  [] owner # t /\ (other = <<>> \/ (holder = owner /\ Len(other) < ListLimit)) ->
                       heap' = [heap EXCEPT !.fast[t][c].other = <<a>> \o @] /\ UNCHANGED at
                  [] owner # t /\ other # <<>> /\ ~((holder = owner /\ Len(other) < ListLimit)) ->
                       /\ at' = [at EXCEPT ![t] = [op |-> "give", buf |-> a, class |-> c,
                                     old |-> Head0(heap.fast[holder][c].sync)]]
                       /\ UNCHANGED heap

(* The compare-and-store that gives the list back. *)
GiveBack(t) ==
    /\ at[t].op = "give"
    /\ LET c      == at[t].class
           other  == heap.fast[t][c].other
           holder == heap.hdr[Head(other)].owner
           first  == Head0(heap.fast[holder][c].sync)
       IN  IF first = at[t].old
             THEN /\ heap' = [heap EXCEPT !.fast[holder][c].sync = other \o @,
                                          !.fast[t][c].other = <<at[t].buf>>]
                  /\ at' = [at EXCEPT ![t] = [op |-> "idle"]]
             ELSE at' = [at EXCEPT ![t].old = first] /\ UNCHANGED heap
    /\ UNCHANGED held

Next == \E t \in Thread : \/ Malloc(t) \/ Free(t) \/ Realloc(t) \/ Enqueue(t) \/ PoolStat(t)
                          \/ FastAllocate(t) \/ FastFree(t) \/ GiveBack(t)

Spec == Init /\ [][Next]_vars

-----------------------------------------------------------------------------
Buffers == {a \in DOMAIN heap.hdr : heap.hdr[a].size # Sentinel}
Extent(a) == LET size == heap.hdr[a].size IN IF size < 0 THEN -size ELSE size
FreeBuffers(t) == {a \in Buffers : heap.hdr[a].owner = t /\ heap.hdr[a].size > 0}

(* The buffers fill each pool without gap or overlap; each tag agrees with *)
(* the buffer before it; no two free buffers are neighbours; and the free  *)
(* lists hold the free buffers, each once, in the list for its size.       *)
HeapIsWhole ==
    /\ \A a \in Buffers \ DirectAddress :
          LET next == a + Extent(a)
          IN  /\ next \in DOMAIN heap.hdr /\ PoolOf(next) = PoolOf(a)
              /\ heap.hdr[next].owner = heap.hdr[a].owner
              /\ \A b \in DOMAIN heap.hdr : ~(a < b /\ b < next)
              /\ heap.hdr[next].prevfree = IF heap.hdr[a].size > 0 THEN heap.hdr[a].size ELSE 0
              /\ heap.hdr[a].size > 0 => heap.hdr[next].size < 0
    /\ \A t \in Thread :
          /\ heap.blocks[t] = Cardinality({p \in Pools(heap) : heap.hdr[Base(p)].owner = t})
          /\ \A b \in Bins :
                /\ IsInjective(heap.free[t][b])
                /\ ToSet(heap.free[t][b]) = {a \in FreeBuffers(t) : Bin(heap.hdr[a].size) = b}

(* Every allocated buffer is in one place: with the program, on its        *)
(* owner's bget_list, in one fast list, or in the hands of a thread that   *)
(* is about to put it there.  Nothing is handed out twice, and nothing is  *)
(* lost between the threads.                                               *)
BuffersAccounted ==
    LET inLists(a) == {<<t, c, l>> \in Thread \X Class \X {"self", "other", "sync"} :
                          a \in ToSet(heap.fast[t][c][l])}
        queued(a)  == {t \in Thread : a \in ToSet(heap.list[t])}
        moving(a)  == {t \in Thread : at[t].op # "idle" /\ at[t].buf = a}
        places(a)  == Cardinality(inLists(a)) + Cardinality(queued(a)) + Cardinality(moving(a))
                        + Cardinality({a} \cap held)
    IN  /\ \A a \in Buffers : places(a) = IF heap.hdr[a].size > 0 THEN 0 ELSE 1
        /\ held \subseteq Buffers
        /\ \A t \in Thread :
              /\ IsInjective(heap.list[t])
              /\ \A a \in ToSet(heap.list[t]) : heap.hdr[a].owner = t
              /\ \A c \in Class :
                    LET lists == heap.fast[t][c]
                    IN  /\ IsInjective(lists.self \o lists.sync) /\ IsInjective(lists.other)
                        /\ \A a \in ToSet(lists.self \o lists.sync) : heap.hdr[a].owner = t
                        /\ Cardinality({heap.hdr[a].owner : a \in ToSet(lists.other)} \cup {t})
                             = IF lists.other = <<>> THEN 1 ELSE 2
                        /\ Len(lists.other) <= ListLimit

=============================================================================
