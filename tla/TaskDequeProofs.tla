--------------------------- MODULE TaskDequeProofs ---------------------------
(***************************************************************************)
(* What the task deques keep on the schedules of SafeSpec, for any number  *)
(* of threads and tasks and every initial size: the ring operations on a   *)
(* window of tasks, the inductive invariant IInv, one lemma per action,    *)
(* and the refinement of the pool, one lemma per kind of step.             *)
(***************************************************************************)
EXTENDS TaskDeque, SequenceTheorems, TLAPS

LEMMA RingFields ==
    ASSUME NEW d, IsRing(d)
    PROVE  /\ d.size \in Nat \ {0} /\ d.head \in 0..(d.size - 1) /\ d.ntasks \in 0..d.size
           /\ d.tail = Wrap(d.head + d.ntasks, d.size) /\ d.tail \in 0..(d.size - 1)
  <1>1. /\ d.size \in Nat \ {0} /\ d.head \in 0..(d.size - 1) /\ d.ntasks \in 0..d.size
        /\ d.tail = Wrap(d.head + d.ntasks, d.size)
    BY DEF IsRing
  <1> QED BY <1>1 DEF Wrap

LEMMA RingSlots ==
    ASSUME NEW d, IsRing(d)
    PROVE  /\ d.allocated /\ DOMAIN d = {"allocated", "slots", "size", "head", "tail", "ntasks"}
           /\ DOMAIN d.slots = 0..(d.size - 1)
           /\ \A s \in 0..(d.size - 1) : d.slots[s] \in Items \union {Null}
  BY DEF IsRing

LEMMA WrapArithmetic ==
    ASSUME NEW size \in Nat \ {0}, NEW head \in 0..(size - 1)
    PROVE  /\ \A i \in 1..size : Wrap(head + i - 1, size) \in 0..(size - 1)
           /\ \A i, j \in 1..size : Wrap(head + i - 1, size) = Wrap(head + j - 1, size) => i = j
           /\ \A i \in 1..(size - 1) :
                 /\ Wrap(Wrap(head + 1, size) + i - 1, size) = Wrap(head + (i + 1) - 1, size)
                 /\ Wrap(Wrap(head + i - 1, size) + 1, size) = Wrap(head + (i + 1) - 1, size)
           /\ \A n \in 0..(size - 1) : Wrap(Wrap(head + n, size) + 1, size) = Wrap(head + (n + 1), size)
  BY DEF Wrap

(* The slots of a ring are different, and follow each other.               *)
LEMMA Slots ==
    ASSUME NEW d, IsRing(d)
    PROVE  /\ \A i \in 1..d.size : Slot(d, i) \in 0..(d.size - 1)
           /\ \A i, j \in 1..d.size : Slot(d, i) = Slot(d, j) => i = j
           /\ \A i \in 1..(d.size - 1) :
                 /\ Wrap(Wrap(d.head + 1, d.size) + i - 1, d.size) = Slot(d, i + 1)
                 /\ Wrap(Slot(d, i) + 1, d.size) = Slot(d, i + 1)
  <1>1. d.size \in Nat \ {0} /\ d.head \in 0..(d.size - 1)
    BY RingFields
  <1> QED BY <1>1, WrapArithmetic DEF Slot

LEMMA WindowSeq ==
    ASSUME NEW d, IsRing(d)
    PROVE  /\ Window(d) \in Seq(Items \union {Null}) /\ Len(Window(d)) = d.ntasks
           /\ \A i \in 1..d.ntasks : Window(d)[i] = d.slots[Slot(d, i)]
  <1>1. \A i \in 1..d.ntasks : d.slots[Slot(d, i)] \in Items \union {Null}
    BY RingFields, RingSlots, Slots
  <1> QED BY <1>1, RingFields, IsASeq DEF Window

LEMMA PutTailRing ==
    ASSUME NEW d, IsRing(d), ~IsFull(d), NEW k \in Items
    PROVE  IsRing(PutTail(d, k)) /\ Window(PutTail(d, k)) = Append(Window(d), k)
  <1> DEFINE e == PutTail(d, k)
  <1>1. /\ e.slots = [i \in 0..(d.size - 1) |-> IF i = d.tail THEN k ELSE d.slots[i]]
        /\ e.size = d.size /\ e.head = d.head /\ e.tail = Wrap(d.tail + 1, d.size)
        /\ e.ntasks = d.ntasks + 1
        /\ e.allocated = d.allocated /\ DOMAIN e = {"allocated", "slots", "size", "head", "tail", "ntasks"}
    BY RingSlots DEF PutTail
  <1> HIDE DEF e
  <1>2. IsRing(e)
    <2>1. e.ntasks \in 0..e.size
      BY <1>1, RingFields DEF IsFull
    <2>2. e.tail = Wrap(e.head + e.ntasks, e.size)
      <3>1. d.ntasks \in 0..(d.size - 1) /\ d.size \in Nat \ {0} /\ d.head \in 0..(d.size - 1)
        BY RingFields DEF IsFull
      <3>2. Wrap(Wrap(d.head + d.ntasks, d.size) + 1, d.size) = Wrap(d.head + (d.ntasks + 1), d.size)
        BY <3>1, WrapArithmetic
      <3> QED BY <1>1, <3>2, RingFields
    <2>3. e.slots \in [0..(e.size - 1) -> Items \union {Null}]
      BY <1>1, RingSlots
    <2> QED BY <1>1, <2>1, <2>2, <2>3, RingFields, RingSlots DEF IsRing
  <1>3. \A i : Slot(e, i) = Slot(d, i)
    BY <1>1 DEF Slot
  <1>4. Slot(d, d.ntasks + 1) = d.tail
    BY RingFields DEF Slot
  <1>5. Window(e) = Append(Window(d), k)
    <2>1. \A i \in 1..d.ntasks : Slot(d, i) # d.tail /\ Slot(d, i) \in 0..(d.size - 1)
      BY <1>4, RingFields, Slots DEF IsFull
    <2>2. ASSUME NEW i \in 1..d.ntasks PROVE Window(e)[i] = Window(d)[i]
      <3>1. i \in 1..e.ntasks
        BY <1>1, RingFields
      <3>2. Window(e)[i] = e.slots[Slot(d, i)] /\ Window(d)[i] = d.slots[Slot(d, i)]
        BY <1>2, <1>3, <3>1, WindowSeq
      <3> QED BY <1>1, <2>1, <3>2
    <2>3. Window(e)[d.ntasks + 1] = k
      <3>1. d.ntasks + 1 \in 1..e.ntasks /\ d.tail \in 0..(d.size - 1)
        BY <1>1, RingFields
      <3>2. Window(e)[d.ntasks + 1] = e.slots[d.tail]
        BY <1>2, <1>3, <1>4, <3>1, WindowSeq
      <3> QED BY <1>1, <3>1, <3>2
    <2> QED BY <1>1, <1>2, <2>2, <2>3, RingFields, WindowSeq, AppendProperties, SeqEqual
  <1> QED BY <1>2, <1>5 DEF e

LEMMA RemoveAtProperties ==
    ASSUME NEW S, NEW s \in Seq(S), NEW i \in 1..Len(s)
    PROVE  /\ Abstract!RemoveAt(s, i) \in Seq(S)
           /\ Len(Abstract!RemoveAt(s, i)) = Len(s) - 1
           /\ \A j \in 1..(Len(s) - 1) :
                 Abstract!RemoveAt(s, i)[j] = IF j < i THEN s[j] ELSE s[j + 1]
  <1> DEFINE l == SubSeq(s, 1, i - 1)
             r == SubSeq(s, i + 1, Len(s))
  <1>1. /\ l \in Seq(S) /\ Len(l) = i - 1 /\ \A j \in 1..(i - 1) : l[j] = s[j]
        /\ r \in Seq(S) /\ Len(r) = Len(s) - i /\ \A j \in 1..(Len(s) - i) : r[j] = s[i + j]
    BY SubSeqProperties, ElementOfSeq, LenProperties
  <1>2. Abstract!RemoveAt(s, i) = l \o r
    BY DEF Abstract!RemoveAt
  <1> HIDE DEF l, r
  <1>3. Len(s) \in Nat
    BY LenProperties
  <1>4. /\ l \o r \in Seq(S) /\ Len(l \o r) = Len(l) + Len(r)
        /\ \A j \in 1..(Len(l) + Len(r)) : (l \o r)[j] = IF j <= Len(l) THEN l[j] ELSE r[j - Len(l)]
    BY <1>1, ConcatProperties
  <1>5. ASSUME NEW j \in 1..(Len(s) - 1)
        PROVE  (l \o r)[j] = IF j < i THEN s[j] ELSE s[j + 1]
    <2>1. CASE j < i
      BY <1>1, <1>3, <1>4, <2>1
    <2>2. CASE ~(j < i)
      <3>1. (l \o r)[j] = r[j - (i - 1)] /\ j - (i - 1) \in 1..(Len(s) - i)
        BY <1>1, <1>3, <1>4, <2>2
      <3>2. r[j - (i - 1)] = s[i + (j - (i - 1))] /\ i + (j - (i - 1)) = j + 1
        BY <1>1, <3>1
      <3> QED BY <2>2, <3>1, <3>2
    <2> QED BY <1>3, <2>1, <2>2
  <1> QED BY <1>1, <1>2, <1>3, <1>4, <1>5

(* To show that an operation removes the i-th task, compare the tasks left. *)
LEMMA WindowRemoved ==
    ASSUME NEW d, IsRing(d), NEW e, IsRing(e), NEW i \in 1..d.ntasks, e.ntasks = d.ntasks - 1,
           \A j \in 1..(d.ntasks - 1) : Window(e)[j] = IF j < i THEN Window(d)[j] ELSE Window(d)[j + 1]
    PROVE  Window(e) = Abstract!RemoveAt(Window(d), i)
  <1>1. /\ Window(d) \in Seq(Items \union {Null}) /\ Len(Window(d)) = d.ntasks
        /\ Window(e) \in Seq(Items \union {Null}) /\ Len(Window(e)) = d.ntasks - 1
    BY WindowSeq
  <1>2. /\ Abstract!RemoveAt(Window(d), i) \in Seq(Items \union {Null})
        /\ Len(Abstract!RemoveAt(Window(d), i)) = d.ntasks - 1
        /\ \A j \in 1..(d.ntasks - 1) : Abstract!RemoveAt(Window(d), i)[j] = Window(e)[j]
    BY <1>1, RemoveAtProperties
  <1> QED BY <1>1, <1>2, SeqEqual

LEMMA DropNewestRing ==
    ASSUME NEW d, IsRing(d), d.ntasks > 0
    PROVE  /\ IsRing(DropNewest(d)) /\ Newest(d) = Window(d)[d.ntasks]
           /\ Window(DropNewest(d)) = Abstract!RemoveAt(Window(d), d.ntasks)
  <1> DEFINE e == DropNewest(d)
  <1>1. /\ e.slots = d.slots /\ e.size = d.size /\ e.head = d.head
        /\ e.tail = WrapBack(d.tail - 1, d.size) /\ e.ntasks = d.ntasks - 1
        /\ e.allocated = d.allocated /\ DOMAIN e = {"allocated", "slots", "size", "head", "tail", "ntasks"}
    BY RingSlots DEF DropNewest
  <1> HIDE DEF e
  <1>2. WrapBack(d.tail - 1, d.size) = Slot(d, d.ntasks)
    BY RingFields DEF WrapBack, Wrap, Slot
  <1>3. IsRing(e)
    <2>1. e.ntasks \in 0..e.size
      BY <1>1, RingFields
    <2>2. e.tail = Wrap(e.head + e.ntasks, e.size)
      BY <1>1, <1>2, RingFields DEF Slot
    <2> QED BY <1>1, <2>1, <2>2, RingFields, RingSlots DEF IsRing
  <1>4. Newest(d) = Window(d)[d.ntasks]
    BY <1>2, RingFields, WindowSeq DEF Newest
  <1>5. ASSUME NEW i \in 1..(d.ntasks - 1) PROVE Window(e)[i] = Window(d)[i]
    <2>1. i \in 1..e.ntasks /\ i \in 1..d.ntasks /\ Slot(e, i) = Slot(d, i)
      BY <1>1, RingFields DEF Slot
    <2> QED BY <1>1, <1>3, <2>1, WindowSeq
  <1>6. Window(e) = Abstract!RemoveAt(Window(d), d.ntasks)
    <2>1. d.ntasks \in 1..d.ntasks /\ \A i \in 1..(d.ntasks - 1) : i < d.ntasks
      BY RingFields
    <2> QED BY <1>1, <1>3, <1>5, <2>1, WindowRemoved
  <1> QED BY <1>3, <1>4, <1>6 DEF e

LEMMA DropOldestRing ==
    ASSUME NEW d, IsRing(d), d.ntasks > 0
    PROVE  /\ IsRing(DropOldest(d)) /\ Oldest(d) = Window(d)[1]
           /\ Window(DropOldest(d)) = Abstract!RemoveAt(Window(d), 1)
  <1> DEFINE e == DropOldest(d)
  <1>1. /\ e.slots = d.slots /\ e.size = d.size /\ e.head = Wrap(d.head + 1, d.size)
        /\ e.tail = d.tail /\ e.ntasks = d.ntasks - 1
        /\ e.allocated = d.allocated /\ DOMAIN e = {"allocated", "slots", "size", "head", "tail", "ntasks"}
    BY RingSlots DEF DropOldest
  <1> HIDE DEF e
  <1>2. IsRing(e)
    <2>1. e.ntasks \in 0..e.size /\ e.head \in 0..(e.size - 1)
      BY <1>1, RingFields DEF Wrap
    <2>2. e.tail = Wrap(e.head + e.ntasks, e.size)
      BY <1>1, RingFields DEF Wrap
    <2> QED BY <1>1, <2>1, <2>2, RingFields, RingSlots DEF IsRing
  <1>3. 1 \in 1..d.ntasks /\ Slot(d, 1) = d.head
    BY RingFields DEF Slot, Wrap
  <1>4. Oldest(d) = Window(d)[1]
    BY <1>3, WindowSeq DEF Oldest
  <1>5. ASSUME NEW i \in 1..(d.ntasks - 1) PROVE Window(e)[i] = Window(d)[i + 1] /\ ~(i < 1)
    <2>1. i \in 1..e.ntasks /\ i + 1 \in 1..d.ntasks /\ ~(i < 1)
      BY <1>1, RingFields
    <2>2. Slot(e, i) = Slot(d, i + 1)
      <3>1. i \in 1..(d.size - 1)
        BY RingFields
      <3>2. Slot(e, i) = Wrap(Wrap(d.head + 1, d.size) + i - 1, d.size)
        BY <1>1 DEF Slot
      <3> QED BY <3>1, <3>2, Slots
    <2> QED BY <1>1, <1>2, <2>1, <2>2, WindowSeq
  <1>6. Window(e) = Abstract!RemoveAt(Window(d), 1)
    BY <1>1, <1>2, <1>3, <1>5, WindowRemoved
  <1> QED BY <1>2, <1>4, <1>6 DEF e

LEMMA DropInsideRing ==
    ASSUME NEW d, IsRing(d), NEW i \in 1..d.ntasks
    PROVE  /\ IsRing(DropInside(d, i))
           /\ Window(DropInside(d, i)) = Abstract!RemoveAt(Window(d), i)
  <1> DEFINE e == DropInside(d, i)
             Shifted(s) == \E j \in i..(d.ntasks - 1) : s = Slot(d, j)
  <1>1. /\ e.slots = [s \in 0..(d.size - 1) |->
                         IF Shifted(s) THEN d.slots[Wrap(s + 1, d.size)] ELSE d.slots[s]]
        /\ e.size = d.size /\ e.head = d.head
        /\ e.tail = Slot(d, d.ntasks) /\ e.ntasks = d.ntasks - 1
        /\ e.allocated = d.allocated /\ DOMAIN e = {"allocated", "slots", "size", "head", "tail", "ntasks"}
    BY RingSlots DEF DropInside
  <1> HIDE DEF e
  <1>2. IsRing(e)
    <2>1. e.ntasks \in 0..e.size
      BY <1>1, RingFields
    <2>2. e.tail = Wrap(e.head + e.ntasks, e.size)
      BY <1>1, RingFields DEF Slot
    <2>3. \A s \in 0..(d.size - 1) : Wrap(s + 1, d.size) \in 0..(d.size - 1)
      BY RingFields DEF Wrap
    <2>4. e.slots \in [0..(e.size - 1) -> Items \union {Null}]
      <3> HIDE DEF Shifted
      <3> QED BY <1>1, <2>3, RingSlots
    <2> QED BY <1>1, <2>1, <2>2, <2>4, RingFields, RingSlots DEF IsRing
  <1>3. ASSUME NEW j \in 1..(d.ntasks - 1)
        PROVE  Window(e)[j] = IF j < i THEN Window(d)[j] ELSE Window(d)[j + 1]
    <2>1. /\ j \in 1..e.ntasks /\ j \in 1..d.ntasks /\ j + 1 \in 1..d.ntasks
          /\ j \in 1..d.size /\ i \in Int
      BY <1>1, RingFields
    <2>2. Slot(e, j) = Slot(d, j) /\ Slot(d, j) \in 0..(d.size - 1)
      BY <1>1, <2>1, Slots DEF Slot
    <2>3. Window(e)[j] = e.slots[Slot(d, j)]
      BY <1>2, <2>1, <2>2, WindowSeq
    <2>4. Shifted(Slot(d, j)) <=> ~(j < i)
      <3>1. \A m \in i..(d.ntasks - 1) : m \in 1..d.size
        BY RingFields
      <3>2. \A m \in i..(d.ntasks - 1) : Slot(d, j) = Slot(d, m) => j = m
        BY <2>1, <3>1, Slots
      <3>3. j \in i..(d.ntasks - 1) <=> ~(j < i)
        BY <2>1, RingFields
      <3> QED BY <3>2, <3>3
    <2>5. Wrap(Slot(d, j) + 1, d.size) = Slot(d, j + 1)
      <3>1. j \in 1..(d.size - 1)
        BY RingFields
      <3> QED BY <3>1, Slots
    <2> QED BY <1>1, <2>1, <2>2, <2>3, <2>4, <2>5, WindowSeq
  <1>4. Window(e) = Abstract!RemoveAt(Window(d), i)
    BY <1>1, <1>2, <1>3, WindowRemoved
  <1> QED BY <1>2, <1>4 DEF e

LEMMA ReallocRing ==
    ASSUME NEW d, IsRing(d), IsFull(d)
    PROVE  IsRing(Realloc(d)) /\ Window(Realloc(d)) = Window(d) /\ ~IsFull(Realloc(d))
  <1> DEFINE e == Realloc(d)
  <1>0. d.ntasks = d.size
    BY RingFields DEF IsFull
  <1>1. /\ e.slots = [i \in 0..(2 * d.size - 1) |->
                         IF i < d.size THEN d.slots[Wrap(d.head + i, d.size)] ELSE Null]
        /\ e.size = 2 * d.size /\ e.head = 0 /\ e.tail = d.size /\ e.ntasks = d.ntasks
        /\ e.allocated = d.allocated /\ DOMAIN e = {"allocated", "slots", "size", "head", "tail", "ntasks"}
    BY RingSlots DEF Realloc
  <1> HIDE DEF e
  <1>2. IsRing(e) /\ ~IsFull(e)
    <2>1. /\ e.size \in Nat \ {0} /\ e.head \in 0..(e.size - 1) /\ e.ntasks \in 0..e.size
          /\ e.tail = Wrap(e.head + e.ntasks, e.size) /\ ~(e.ntasks >= e.size)
      BY <1>0, <1>1, RingFields DEF Wrap
    <2>2. \A i \in 0..(2 * d.size - 1) : i < d.size => Wrap(d.head + i, d.size) \in 0..(d.size - 1)
      BY RingFields DEF Wrap
    <2>3. e.slots \in [0..(e.size - 1) -> Items \union {Null}]
      BY <1>1, <2>2, RingSlots
    <2> QED BY <1>1, <2>1, <2>3, RingSlots DEF IsRing, IsFull
  <1>3. ASSUME NEW i \in 1..d.ntasks PROVE Window(e)[i] = Window(d)[i]
    <2>1. i \in 1..e.ntasks /\ Slot(e, i) = i - 1 /\ i - 1 \in 0..(2 * d.size - 1) /\ i - 1 < d.size
      BY <1>0, <1>1, RingFields DEF Slot, Wrap
    <2>2. Wrap(d.head + (i - 1), d.size) = Slot(d, i)
      BY <1>0, RingFields DEF Slot
    <2>3. e.slots[i - 1] = d.slots[Slot(d, i)]
      BY <1>1, <2>1, <2>2
    <2> QED BY <1>2, <2>1, <2>3, WindowSeq
  <1>4. Window(e) = Window(d)
    BY <1>1, <1>2, <1>3, WindowSeq, SeqEqual
  <1> QED BY <1>2, <1>4 DEF e

LEMMA NewRing == IsRing(StoreSize(StorePointer(NoDeque))) /\ Window(StoreSize(StorePointer(NoDeque))) = <<>>
  <1> DEFINE e == StoreSize(StorePointer(NoDeque))
  <1>1. /\ e.slots = [i \in 0..(InitialSize - 1) |-> Null] /\ e.size = InitialSize
        /\ e.head = 0 /\ e.tail = 0 /\ e.ntasks = 0
        /\ e.allocated /\ DOMAIN e = {"allocated", "slots", "size", "head", "tail", "ntasks"}
    BY DEF StoreSize, StorePointer, NoDeque
  <1> HIDE DEF e
  <1>2. IsRing(e)
    BY <1>1, SizeAssumption DEF IsRing, Wrap
  <1>3. Window(e) = <<>>
    BY <1>1 DEF Window
  <1> QED BY <1>2, <1>3 DEF e

-----------------------------------------------------------------------------

LEMMA InitInv == Init => IInv
  <1> SUFFICES ASSUME Init PROVE IInv
    OBVIOUS
  <1>1. \A t \in Thread : IsDeque(td[t], pc[t]) /\ pc[t] = "run" /\ hold[t] = Null
    BY DEF Init, IsDeque, NoDeque
  <1>2. \A p \in Proxies : give[p].at = "idle"
    BY DEF Init
  <1>3. give \in [Proxies -> [at : {"idle", "look", "grow", "append"}, k : Thread, pass : Nat]]
    <2>1. 0 \in Thread
      BY NProcAssumption DEF Thread
    <2> QED BY <2>1 DEF Init
  <1>4. TypeOK
    BY <1>1, <1>3 DEF Init, TypeOK
  <1>5. TasksQueuedOnce
    <2>1. \A t \in Thread : td[t].ntasks = 0
      BY DEF Init, NoDeque
    <2> QED BY <2>1 DEF Init, TasksQueuedOnce
  <1> QED BY <1>1, <1>2, <1>4, <1>5 DEF IInv, Hands, LooksHold

(* A step that puts a ring in the place of a ring.                         *)
LEMMA RingStep ==
    ASSUME TypeOK, NEW t \in Thread, NEW d, IsRing(d), td' = [td EXCEPT ![t] = d],
           IsRing(td[t]), pc'[t] # "alloc", \A u \in Thread \ {t} : pc'[u] = pc[u]
    PROVE  /\ DOMAIN td' = Thread /\ \A u \in Thread : IsDeque(td'[u], pc'[u])
           /\ \A u \in Thread : td[u].size > 0 => td'[u].size > 0
  <1>1. DOMAIN td' = Thread /\ td'[t] = d /\ \A u \in Thread \ {t} : td'[u] = td[u]
    BY DEF TypeOK
  <1>2. IsDeque(td'[t], pc'[t]) /\ td'[t].size > 0
    BY <1>1, RingSlots, RingFields DEF IsDeque
  <1> QED BY <1>1, <1>2 DEF TypeOK

(* A task pushed onto a ring, expanded first when it is full.              *)
LEMMA RoomRing ==
    ASSUME NEW d, IsRing(d), NEW k \in Items
    PROVE  /\ IsRing(PutTail(Room(d), k)) /\ Window(PutTail(Room(d), k)) = Append(Window(d), k)
           /\ IsFull(d) => Room(d) = Realloc(d)
  <1>1. CASE IsFull(d)
    BY <1>1, ReallocRing, PutTailRing DEF Room
  <1>2. CASE ~IsFull(d)
    BY <1>2, PutTailRing DEF Room
  <1> QED BY <1>1, <1>2

-----------------------------------------------------------------------------
(* The windows of all deques as one pool.                                  *)

LEMMA RingWhen ==
    ASSUME TypeOK, NEW t \in Thread,
           \/ td[t].ntasks > 0 \/ td[t].size > 0
           \/ pc[t] \in {"check", "expand", "append"}
    PROVE  IsRing(td[t]) /\ pc[t] # "alloc"
  <1>1. IsDeque(td[t], pc[t])
    BY DEF TypeOK
  <1>2. td[t] # NoDeque \/ pc[t] # "run"
    BY DEF NoDeque
  <1>3. StorePointer(NoDeque).ntasks = 0 /\ StorePointer(NoDeque).size = 0
    BY DEF StorePointer, NoDeque
  <1> QED BY <1>1, <1>2, <1>3 DEF IsDeque

LEMMA Windows ==
    ASSUME TypeOK
    PROVE  \A t \in Thread : Window(td[t]) \in Seq(Items \union {Null})
  <1> TAKE t \in Thread
  <1>1. IsDeque(td[t], pc[t])
    BY DEF TypeOK
  <1>2. ASSUME td[t].ntasks = 0 PROVE Window(td[t]) = <<>>
    BY <1>2 DEF Window
  <1>3. NoDeque.ntasks = 0 /\ StorePointer(NoDeque).ntasks = 0
    BY DEF StorePointer, NoDeque
  <1> QED BY <1>1, <1>2, <1>3, WindowSeq, EmptySeq DEF IsDeque

(* What a step does to the queues: it leaves them alone ...                *)
LEMMA KeepOnce ==
    ASSUME TypeOK, TasksQueuedOnce,
           \A t \in Thread : td'[t].ntasks = td[t].ntasks /\ Window(td'[t]) = Window(td[t]),
           \A k \in Items : state'[k] = "queued" <=> state[k] = "queued"
    PROVE  TasksQueuedOnce'
  BY DEF TasksQueuedOnce

(* ... or queues a task that is in nobody's queue ...                      *)
LEMMA QueueOnce ==
    ASSUME TypeOK, TasksQueuedOnce, NEW t \in Thread, NEW k \in Items, state[k] # "queued",
           state' = [state EXCEPT ![k] = "queued"],
           IsRing(td[t]), IsRing(td'[t]), Window(td'[t]) = Append(Window(td[t]), k),
           \A u \in Thread \ {t} : td'[u] = td[u]
    PROVE  TasksQueuedOnce'
  <1> DEFINE n == td[t].ntasks
             W(u) == Window(td[u])
             V(u) == Window(td'[u])
  <1>1. /\ n \in Nat /\ td'[t].ntasks = n + 1
        /\ V(t)[n + 1] = k /\ \A i \in 1..n : V(t)[i] = W(t)[i]
    BY RingFields, WindowSeq, AppendProperties
  <1>2. \A u \in Thread : \A i \in 1..td[u].ntasks : W(u)[i] # k
    BY DEF TasksQueuedOnce
  <1>3. \A u \in Thread \ {t} : V(u) = W(u) /\ td'[u].ntasks = td[u].ntasks
    OBVIOUS
  <1>4. \A j \in Items : state'[j] = "queued" <=> state[j] = "queued" \/ j = k
    BY DEF TypeOK
  <1> HIDE DEF n, W, V
  <1>5. ASSUME NEW u \in Thread, NEW i \in 1..td'[u].ntasks
        PROVE  \/ i \in 1..td[u].ntasks /\ V(u)[i] = W(u)[i]
               \/ u = t /\ i = n + 1 /\ V(u)[i] = k
    BY <1>1, <1>3 DEF n
  <1>6. \A u \in Thread : \A i \in 1..td[u].ntasks : i \in 1..td'[u].ntasks /\ V(u)[i] = W(u)[i]
    BY <1>1, <1>3 DEF n
  <1>7. \A j \in Items : state'[j] = "queued" <=>
           \E u \in Thread : \E i \in 1..td'[u].ntasks : V(u)[i] = j
    <2>1. n + 1 \in 1..td'[t].ntasks
      BY <1>1
    <2> QED BY <1>1, <1>4, <1>5, <1>6, <2>1 DEF TasksQueuedOnce, W
  <1>8. ASSUME NEW u \in Thread, NEW v \in Thread, NEW i \in 1..td'[u].ntasks,
               NEW j \in 1..td'[v].ntasks, V(u)[i] = V(v)[j]
        PROVE  u = v /\ i = j
    BY <1>2, <1>5, <1>8 DEF TasksQueuedOnce, W
  <1> QED BY <1>7, <1>8 DEF TasksQueuedOnce, V

(* ... or starts a task it takes out of a queue.                           *)
LEMMA TakeOnce ==
    ASSUME TypeOK, TasksQueuedOnce, NEW t \in Thread, IsRing(td[t]), IsRing(td'[t]),
           NEW i \in 1..td[t].ntasks, td'[t].ntasks = td[t].ntasks - 1,
           Window(td'[t]) = Abstract!RemoveAt(Window(td[t]), i),
           state' = [state EXCEPT ![Window(td[t])[i]] = "started"],
           \A u \in Thread \ {t} : td'[u] = td[u]
    PROVE  TasksQueuedOnce'
  <1> DEFINE n == td[t].ntasks
             W(u) == Window(td[u])
             V(u) == Window(td'[u])
             k == W(t)[i]
  <1>1. /\ n \in Nat /\ td'[t].ntasks = n - 1
        /\ \A j \in 1..(n - 1) : V(t)[j] = IF j < i THEN W(t)[j] ELSE W(t)[j + 1]
    <2>1. n \in Nat /\ W(t) \in Seq(Items \union {Null}) /\ Len(W(t)) = n
      BY RingFields, WindowSeq
    <2> HIDE DEF n, W
    <2>2. /\ i \in 1..n /\ V(t) = Abstract!RemoveAt(W(t), i) /\ td'[t].ntasks = n - 1
      BY DEF n, W
    <2> QED BY <2>1, <2>2, RemoveAtProperties
  <1>2. \A u \in Thread : \A j \in 1..td[u].ntasks : W(u)[j] = k => u = t /\ j = i
    BY DEF TasksQueuedOnce
  <1>3. \A u \in Thread \ {t} : V(u) = W(u) /\ td'[u].ntasks = td[u].ntasks
    OBVIOUS
  <1>4. \A j \in Items : state'[j] = "queued" <=> state[j] = "queued" /\ j # k
    BY DEF TypeOK
  <1> HIDE DEF n, W, V, k
  <1> DEFINE Old(u, j) == IF u = t /\ j >= i THEN j + 1 ELSE j
  <1>5. ASSUME NEW u \in Thread, NEW j \in 1..td'[u].ntasks
        PROVE  /\ Old(u, j) \in 1..td[u].ntasks /\ V(u)[j] = W(u)[Old(u, j)]
               /\ V(u)[j] # k
    <2>1. CASE u = t
      BY <1>1, <1>2, <2>1 DEF n
    <2>2. CASE u # t
      BY <1>2, <1>3, <2>2
    <2> QED BY <2>1, <2>2
  <1>6. ASSUME NEW u \in Thread, NEW j \in 1..td[u].ntasks, W(u)[j] # k
        PROVE  \E m \in 1..td'[u].ntasks : V(u)[m] = W(u)[j]
    <2>1. CASE u = t /\ j < i
      <3>1. j \in 1..(n - 1) /\ V(t)[j] = W(t)[j]
        BY <1>1, <2>1 DEF n
      <3> QED BY <1>1, <2>1, <3>1
    <2>2. CASE u = t /\ j > i
      <3>1. j - 1 \in 1..(n - 1) /\ ~(j - 1 < i) /\ (j - 1) + 1 = j
        BY <1>1, <2>2 DEF n
      <3> QED BY <1>1, <2>2, <3>1
    <2>3. CASE u = t /\ j = i
      BY <1>6, <2>3 DEF k
    <2>4. CASE u # t
      BY <1>3, <2>4
    <2> QED BY <1>1, <2>1, <2>2, <2>3, <2>4 DEF n
  <1>7. \A j \in Items : state'[j] = "queued" <=>
           \E u \in Thread : \E m \in 1..td'[u].ntasks : V(u)[m] = j
    <2> HIDE DEF Old
    <2>1. \A j \in Items : state[j] = "queued" <=>
             \E u \in Thread : \E m \in 1..td[u].ntasks : W(u)[m] = j
      BY DEF TasksQueuedOnce, W
    <2> QED BY <1>4, <1>5, <1>6, <2>1
  <1>8. ASSUME NEW u \in Thread, NEW v \in Thread, NEW j \in 1..td'[u].ntasks,
               NEW m \in 1..td'[v].ntasks, V(u)[j] = V(v)[m]
        PROVE  u = v /\ j = m
    <2>1. u = v /\ Old(u, j) = Old(v, m)
      <3> HIDE DEF Old
      <3> QED BY <1>5, <1>8 DEF TasksQueuedOnce, W
    <2>2. j \in Int /\ m \in Int /\ i \in Int
      OBVIOUS
    <2> QED BY <2>1, <2>2
  <1> QED BY <1>7, <1>8 DEF TasksQueuedOnce, V
-----------------------------------------------------------------------------
(* The steps.                                                              *)

Deques == DOMAIN td = Thread /\ \A t \in Thread : IsDeque(td[t], pc[t])
SizesKept == \A t \in Thread : td[t].size > 0 => td'[t].size > 0

LEMMA PutStep ==
    ASSUME IInv, NEW t \in Thread, IsRing(td[t]), NEW k \in Items, state[k] = "held",
           td' = [td EXCEPT ![t] = PutTail(Room(td[t]), k)],
           state' = [state EXCEPT ![k] = "queued"],
           pc'[t] # "alloc", \A u \in Thread \ {t} : pc'[u] = pc[u]
    PROVE  Deques' /\ SizesKept /\ TasksQueuedOnce'
  <1> DEFINE d == PutTail(Room(td[t]), k)
  <1>1. IsRing(d) /\ Window(d) = Append(Window(td[t]), k)
    BY RoomRing
  <1> HIDE DEF d
  <1>2. td' = [td EXCEPT ![t] = d] /\ td'[t] = d /\ \A u \in Thread \ {t} : td'[u] = td[u]
    BY DEF d, IInv, TypeOK
  <1>3. Deques' /\ SizesKept
    BY <1>1, <1>2, RingStep DEF IInv, Deques, SizesKept
  <1>4. TasksQueuedOnce'
    BY <1>1, <1>2, QueueOnce DEF IInv
  <1> QED BY <1>3, <1>4

LEMMA TakeStep ==
    ASSUME IInv, NEW t \in Thread, IsRing(td[t]), NEW i \in 1..td[t].ntasks,
           NEW d, IsRing(d), Window(d) = Abstract!RemoveAt(Window(td[t]), i),
           d.ntasks = td[t].ntasks - 1, pc[t] # "alloc",
           td' = [td EXCEPT ![t] = d], state' = [state EXCEPT ![Window(td[t])[i]] = "started"],
           UNCHANGED <<enabled, untied, pc, hold, give>>, LooksHold'
    PROVE  IInv'
  <1>1. td'[t] = d /\ \A u \in Thread \ {t} : td'[u] = td[u]
    BY DEF IInv, TypeOK
  <1>2. Deques' /\ SizesKept
    BY RingStep DEF IInv, Deques, SizesKept
  <1>3. TasksQueuedOnce'
    BY <1>1, TakeOnce DEF IInv
  <1>4. \A k \in Items : state[k] = "held" => state'[k] = "held"
    <2>1. ASSUME NEW k \in Items, k = Window(td[t])[i] PROVE state[k] = "queued"
      BY <2>1 DEF IInv, TasksQueuedOnce
    <2> QED BY <2>1 DEF IInv, TypeOK
  <1>5. state' \in [Items -> {"new", "held", "queued", "started"}]
    BY DEF IInv, TypeOK
  <1>6. TypeOK'
    BY <1>2, <1>5 DEF Deques, IInv, TypeOK
  <1>7. Hands'
    <2>1. \A u \in Thread : pc[u] # "run" => hold[u] \in Items
      BY DEF IInv, TypeOK, Hands
    <2>2. \A p \in Proxies : p \in Items /\ give[p].k \in Thread
      BY DEF Items, IInv, TypeOK
    <2> QED BY <1>2, <1>4, <2>1, <2>2 DEF SizesKept, IInv, Hands
  <1> QED BY <1>3, <1>6, <1>7 DEF IInv

LEMMA RemoveInv == ASSUME IInv, LooksHold', NEW t \in Thread, RemoveMyTask(t) PROVE IInv'
  <1>1. IsRing(td[t]) /\ pc[t] # "alloc" /\ td[t].ntasks > 0
    BY RingWhen DEF RemoveMyTask, IInv
  <1>2. td[t].ntasks \in 1..td[t].ntasks
    BY <1>1, RingFields
  <1>3. DropNewest(td[t]).ntasks = td[t].ntasks - 1
    BY <1>1, RingSlots DEF DropNewest
  <1> QED BY <1>1, <1>2, <1>3, DropNewestRing, TakeStep DEF RemoveMyTask

LEMMA StealInv == ASSUME IInv, LooksHold', NEW v \in Thread, Steal(v) PROVE IInv'
  <1>1. CASE StealOldest(v)
    <2>1. IsRing(td[v]) /\ pc[v] # "alloc" /\ td[v].ntasks > 0
      BY <1>1, RingWhen DEF StealOldest, IInv
    <2>2. 1 \in 1..td[v].ntasks
      BY <2>1, RingFields
    <2>3. DropOldest(td[v]).ntasks = td[v].ntasks - 1
      BY <2>1, RingSlots DEF DropOldest
    <2> QED BY <1>1, <2>1, <2>2, <2>3, DropOldestRing, TakeStep DEF StealOldest
  <1>2. ASSUME NEW i \in 2..td[v].ntasks, StealInside(v, i) PROVE IInv'
    <2>1. IsRing(td[v]) /\ pc[v] # "alloc"
      <3>1. IsDeque(td[v], pc[v]) /\ NoDeque.ntasks = 0 /\ StorePointer(NoDeque).ntasks = 0
        BY DEF IInv, TypeOK, NoDeque, StorePointer
      <3> QED BY <1>2, <3>1, RingFields DEF IsDeque
    <2>2. i \in 1..td[v].ntasks
      BY <2>1, RingFields
    <2>3. DropInside(td[v], i).ntasks = td[v].ntasks - 1
      BY <2>1, RingSlots DEF DropInside
    <2> QED BY <1>2, <2>1, <2>2, <2>3, DropInsideRing, TakeStep DEF StealInside
  <1> QED BY <1>1, <1>2 DEF Steal
(* The end of a push, whether the task was queued or executed.             *)
LEMMA EndPushStep ==
    ASSUME IInv, NEW t \in Thread, pc[t] \in {"check", "expand", "append"},
           NEW where \in {"queued", "started"}, EndPush(t, where),
           UNCHANGED <<enabled, untied, give>>, Deques', SizesKept
    PROVE  TypeOK' /\ Hands'
  <1>1. hold[t] \in Tasks /\ hold[t] \in Items /\ state[hold[t]] = "held"
    BY DEF IInv, Hands, Items
  <1>2. /\ state' = [state EXCEPT ![hold[t]] = where]
        /\ hold' = [hold EXCEPT ![t] = Null] /\ pc' = [pc EXCEPT ![t] = "run"]
    BY DEF EndPush, Goto
  <1>3. TypeOK'
    BY <1>2 DEF Deques, IInv, TypeOK
  <1>4. Hands'
    <2>1. \A u \in Thread : pc[u] # "run" => hold[u] \in Items
      BY DEF IInv, TypeOK, Hands
    <2>2. \A p \in Proxies : p \in Items /\ p \notin Tasks /\ give[p].k \in Thread
      BY ItemsAssumption DEF Items, IInv, TypeOK
    <2>3. /\ \A u \in Thread \ {t} : pc'[u] = pc[u] /\ hold'[u] = hold[u]
          /\ pc'[t] = "run" /\ hold'[t] = Null
          /\ \A k \in Items \ {hold[t]} : state'[k] = state[k]
      BY <1>2 DEF IInv, TypeOK
    <2>4. \A u \in Thread \ {t} : hold[u] # hold[t]
      BY <1>1, ItemsAssumption DEF IInv, Hands
    <2>5. \A u \in Thread : /\ pc'[u] = "run" <=> hold'[u] = Null
                            /\ pc'[u] \in {"check", "expand", "append"} => hold'[u] \in Tasks
                            /\ pc'[u] # "run" => state'[hold'[u]] = "held"
      BY <2>1, <2>3, <2>4 DEF IInv, Hands
    <2>6. \A u, v \in Thread : hold'[u] = hold'[v] => u = v \/ hold'[u] = Null
      BY <2>3 DEF IInv, Hands
    <2>7. \A p \in Proxies : give[p].at # "idle" =>
             state'[p] = "held" /\ \A u \in Thread : hold'[u] # p
      BY <1>1, <2>2, <2>3, ItemsAssumption DEF IInv, Hands
    <2>8. \A p \in Proxies : give[p].at = "append" => td'[give[p].k].size > 0
      BY <2>2 DEF SizesKept, IInv, Hands
    <2> QED BY <2>5, <2>6, <2>7, <2>8 DEF Hands
  <1> QED BY <1>3, <1>4

(* A push that goes on: only the place of its thread changes.              *)
LEMMA GotoStep ==
    ASSUME IInv, LooksHold', NEW t \in Thread, pc[t] = "check",
           NEW where \in {"expand", "append"}, Goto(t, where),
           UNCHANGED <<td, enabled, untied, hold, give, state>>
    PROVE  IInv'
  <1>1. pc' = [pc EXCEPT ![t] = where] /\ IsRing(td[t])
    BY RingWhen DEF Goto, IInv
  <1>2. \A u \in Thread : IsDeque(td[u], pc'[u])
    BY <1>1, RingSlots DEF IInv, TypeOK, IsDeque
  <1>3. TypeOK'
    BY <1>1, <1>2 DEF IInv, TypeOK
  <1>4. Hands'
    BY <1>1 DEF IInv, TypeOK, Hands
  <1>5. TasksQueuedOnce'
    BY KeepOnce DEF IInv
  <1> QED BY <1>3, <1>4, <1>5 DEF IInv

(* A task for which there is no room is executed by its creator.           *)
LEMMA ExecutedAtOnce ==
    ASSUME IInv, LooksHold', NEW t \in Thread, pc[t] \in {"check", "append"},
           EndPush(t, "started"), UNCHANGED <<td, enabled, untied, give>>
    PROVE  IInv'
  <1>1. /\ hold[t] \in Tasks /\ state[hold[t]] = "held"
        /\ state' = [state EXCEPT ![hold[t]] = "started"] /\ pc' = [pc EXCEPT ![t] = "run"]
    BY DEF IInv, Hands, EndPush, Goto
  <1>2. Deques' /\ SizesKept
    <2>1. IsRing(td[t])
      BY RingWhen DEF IInv
    <2>2. \A u \in Thread : IsDeque(td[u], pc'[u])
      BY <1>1, <2>1, RingSlots DEF IInv, TypeOK, IsDeque
    <2> QED BY <2>2 DEF Deques, SizesKept, IInv, TypeOK
  <1>3. TasksQueuedOnce'
    BY <1>1, KeepOnce DEF IInv, TypeOK
  <1> QED BY <1>1, <1>2, <1>3, EndPushStep DEF IInv

LEMMA PushCheckInv == ASSUME IInv, LooksHold', NEW t \in Thread, PushCheck(t) PROVE IInv'
  BY ExecutedAtOnce, GotoStep DEF PushCheck

LEMMA PushQueues ==
    ASSUME IInv, LooksHold', NEW t \in Thread, pc[t] \in {"check", "expand", "append"},
           td' = [td EXCEPT ![t] = PutTail(Room(td[t]), hold[t])], EndPush(t, "queued"),
           UNCHANGED <<enabled, untied, give>>
    PROVE  IInv'
  <1>1. hold[t] \in Items /\ state[hold[t]] = "held" /\ IsRing(td[t])
    BY RingWhen DEF IInv, Hands, Items
  <1>2. pc'[t] # "alloc" /\ \A u \in Thread \ {t} : pc'[u] = pc[u]
    BY DEF EndPush, Goto, IInv, TypeOK
  <1>3. Deques' /\ SizesKept /\ TasksQueuedOnce'
    BY <1>1, <1>2, PutStep DEF EndPush
  <1> QED BY <1>3, EndPushStep DEF IInv

LEMMA PushExpandInv == ASSUME IInv, LooksHold', NEW t \in Thread, PushExpand(t) PROVE IInv'
  <1>1. pc[t] = "expand" /\ IsFull(td[t])
    BY DEF PushExpand, IInv, LooksHold
  <1>2. Room(td[t]) = Realloc(td[t])
    BY <1>1 DEF Room
  <1> QED BY <1>1, <1>2, PushQueues DEF PushExpand

LEMMA PushAppendInv == ASSUME IInv, LooksHold', NEW t \in Thread, PushAppend(t) PROVE IInv'
  <1>1. CASE td' = [td EXCEPT ![t] = PutTail(Room(td[t]), hold[t])] /\ EndPush(t, "queued")
    BY <1>1, PushQueues DEF PushAppend
  <1>2. CASE EndPush(t, "started") /\ UNCHANGED td
    BY <1>2, ExecutedAtOnce DEF PushAppend
  <1> QED BY <1>1, <1>2 DEF PushAppend
(* A deque while it is allocated.                                          *)
LEMMA AllocStep ==
    ASSUME IInv, NEW t \in Thread, NEW d, d.ntasks = td[t].ntasks, Window(d) = Window(td[t]),
           td' = [td EXCEPT ![t] = d], IsDeque(d, pc'[t]), ~(td[t].size > 0) \/ d.size > 0,
           \A u \in Thread \ {t} : pc'[u] = pc[u],
           \A k \in Items : state'[k] = "queued" <=> state[k] = "queued"
    PROVE  Deques' /\ SizesKept /\ TasksQueuedOnce'
  <1>1. DOMAIN td' = Thread /\ td'[t] = d /\ \A u \in Thread \ {t} : td'[u] = td[u]
    BY DEF IInv, TypeOK
  <1>2. TasksQueuedOnce'
    BY <1>1, KeepOnce DEF IInv
  <1> QED BY <1>1, <1>2 DEF Deques, SizesKept, IInv, TypeOK

LEMMA EmptyDeques ==
    /\ NoDeque.ntasks = 0 /\ NoDeque.size = 0 /\ Window(NoDeque) = <<>> /\ ~NoDeque.allocated
    /\ StorePointer(NoDeque).ntasks = 0 /\ StorePointer(NoDeque).size = 0
    /\ Window(StorePointer(NoDeque)) = <<>> /\ StorePointer(NoDeque).allocated
    /\ StoreSize(StorePointer(NoDeque)).ntasks = 0
  BY DEF NoDeque, StorePointer, StoreSize, Window

LEMMA FinishAllocInv == ASSUME IInv, LooksHold', NEW t \in Thread, FinishAlloc(t) PROVE IInv'
  <1> DEFINE d == StoreSize(td[t])
  <1>1. /\ pc[t] = "alloc" /\ td[t] = StorePointer(NoDeque) /\ td' = [td EXCEPT ![t] = d]
        /\ hold[t] \in Items /\ state[hold[t]] = "held"
    BY EmptyDeques DEF FinishAlloc, IInv, TypeOK, IsDeque, Hands
  <1>2. /\ IsRing(d) /\ d.ntasks = td[t].ntasks /\ Window(d) = Window(td[t])
        /\ ~(td[t].size > 0)
    BY <1>1, NewRing, EmptyDeques
  <1> HIDE DEF d
  <1>3. \E where \in {"check", "run"} : pc' = [pc EXCEPT ![t] = where]
    BY DEF FinishAlloc, Goto
  <1>4. IsDeque(d, pc'[t]) /\ \A u \in Thread \ {t} : pc'[u] = pc[u]
    BY <1>2, <1>3, RingSlots DEF IsDeque, IInv, TypeOK
  <1>5. Deques' /\ SizesKept /\ TasksQueuedOnce'
    BY <1>1, <1>2, <1>4, AllocStep DEF FinishAlloc
  <1>6. TypeOK'
    BY <1>3, <1>5 DEF FinishAlloc, Deques, IInv, TypeOK
  <1>7. CASE hold[t] \in Tasks /\ Goto(t, "check") /\ UNCHANGED <<hold, give>>
    <2>1. Hands'
      <3>1. \A p \in Proxies : give[p].k \in Thread
        BY DEF IInv, TypeOK
      <3> QED BY <1>1, <1>5, <1>7, <3>1, ItemsAssumption
              DEF FinishAlloc, Goto, SizesKept, IInv, TypeOK, Hands, Items
    <2> QED BY <1>5, <1>6, <2>1 DEF IInv
  <1>8. CASE /\ hold[t] \in Proxies /\ Goto(t, "run") /\ give' = [give EXCEPT ![hold[t]].at = "look"]
             /\ hold' = [hold EXCEPT ![t] = Null]
    <2>1. /\ pc'[t] = "run" /\ hold'[t] = Null
          /\ \A u \in Thread \ {t} : pc'[u] = pc[u] /\ hold'[u] = hold[u] /\ hold[u] # hold[t]
          /\ \A p \in Proxies : give[p].k \in Thread
          /\ \A p \in Proxies : give'[p].k = give[p].k
          /\ \A p \in Proxies \ {hold[t]} : give'[p].at = give[p].at
          /\ give'[hold[t]].at = "look" /\ state' = state
      BY <1>1, <1>4, <1>8, ItemsAssumption DEF FinishAlloc, Goto, IInv, TypeOK, Hands
    <2>2. Hands'
      BY <1>1, <1>5, <2>1, ItemsAssumption DEF SizesKept, IInv, Hands, Items
    <2> QED BY <1>5, <1>6, <2>2 DEF IInv
  <1> QED BY <1>7, <1>8 DEF FinishAlloc
(* A task just created is in nobody's hands.                               *)
LEMMA NewIsFree ==
    ASSUME IInv, NEW k \in Items, state[k] = "new"
    PROVE  /\ \A u \in Thread : hold[u] # k
           /\ k \in Proxies => give[k].at = "idle"
  <1>1. \A u \in Thread : pc[u] = "run" => hold[u] # k
    BY ItemsAssumption DEF IInv, Hands
  <1> QED BY <1>1 DEF IInv, Hands

LEMMA CreateInv ==
    ASSUME IInv, LooksHold', NEW t \in Thread,
           \/ \E k \in Tasks : BeginPush(t, k)
           \/ \E p \in Proxies : CreateProxy(t, p)
    PROVE  IInv'
  <1>1. PICK k \in Items, allocates \in BOOLEAN, next \in {"check", "run"} :
            /\ CreateItem(t, k, allocates, next) /\ untied' \in BOOLEAN
            /\ \/ k \in Tasks /\ next = "check" /\ allocates /\ give' = give
               \/ /\ k \in Proxies /\ next = "run"
                  /\ give' = [give EXCEPT ![k].at = IF pc'[t] = "run" THEN "look" ELSE "idle"]
    <2>1. untied \in BOOLEAN /\ enabled \in BOOLEAN
      BY DEF IInv, TypeOK
    <2>2. CASE \E k \in Tasks : BeginPush(t, k)
      BY <2>1, <2>2 DEF BeginPush, Items
    <2>3. CASE \E p \in Proxies : CreateProxy(t, p)
      BY <2>1, <2>3 DEF CreateProxy, Items
    <2> QED BY <2>2, <2>3
  <1>2. /\ pc[t] = "run" /\ hold[t] = Null /\ state[k] = "new"
        /\ state' = [state EXCEPT ![k] = "held"] /\ enabled' = TRUE
    BY <1>1 DEF CreateItem, IInv, Hands
  <1>3. \A j \in Items : state'[j] = IF j = k THEN "held" ELSE state[j]
    BY <1>2 DEF IInv, TypeOK
  <1>4. CASE allocates /\ ~td[t].allocated
    <2>1. /\ td' = [td EXCEPT ![t] = StorePointer(td[t])]
          /\ hold' = [hold EXCEPT ![t] = k] /\ pc' = [pc EXCEPT ![t] = "alloc"]
      BY <1>1, <1>4 DEF CreateItem, Goto
    <2>2. td[t] = NoDeque
      BY <1>4 DEF IInv, TypeOK, IsDeque
    <2>3. /\ pc'[t] = "alloc" /\ hold'[t] = k
          /\ \A u \in Thread \ {t} : pc'[u] = pc[u] /\ hold'[u] = hold[u]
      BY <2>1 DEF IInv, TypeOK
    <2>4. Deques' /\ SizesKept /\ TasksQueuedOnce'
      <3> DEFINE d == StorePointer(NoDeque)
      <3>1. /\ d.ntasks = td[t].ntasks /\ Window(d) = Window(td[t]) /\ ~(td[t].size > 0)
            /\ IsDeque(d, "alloc") /\ td' = [td EXCEPT ![t] = d]
        BY <2>1, <2>2, EmptyDeques DEF IsDeque
      <3>2. IsDeque(d, pc'[t]) /\ \A u \in Thread \ {t} : pc'[u] = pc[u]
        BY <2>3, <3>1
      <3>3. \A j \in Items : state'[j] = "queued" <=> state[j] = "queued"
        BY <1>2, <1>3
      <3> HIDE DEF d
      <3> QED BY <3>1, <3>2, <3>3, AllocStep
    <2>5. /\ \A p \in Proxies : give'[p].at = give[p].at /\ give'[p].k = give[p].k /\ give[p].k \in Thread
          /\ give' \in [Proxies -> [at : {"idle", "look", "grow", "append"}, k : Thread, pass : Nat]]
      BY <1>1, <1>2, <2>3, NewIsFree DEF IInv, TypeOK
    <2>6. TypeOK'
      BY <1>1, <1>2, <2>1, <2>4, <2>5 DEF Deques, IInv, TypeOK
    <2>7. Hands'
      BY <1>2, <1>3, <2>3, <2>4, <2>5, NewIsFree, ItemsAssumption DEF SizesKept, IInv, Hands, Items
    <2> QED BY <2>4, <2>6, <2>7 DEF IInv
  <1>5. CASE ~(allocates /\ ~td[t].allocated)
    <2>1. /\ td' = td /\ pc' = [pc EXCEPT ![t] = next]
          /\ hold' = [hold EXCEPT ![t] = IF next = "run" THEN Null ELSE k]
      BY <1>1, <1>5 DEF CreateItem, Goto
    <2>2. /\ pc'[t] = next /\ hold'[t] = IF next = "run" THEN Null ELSE k
          /\ \A u \in Thread \ {t} : pc'[u] = pc[u] /\ hold'[u] = hold[u]
      BY <2>1 DEF IInv, TypeOK
    <2>3. Deques'
      <3>1. IsDeque(td[t], next)
        BY <1>1, <1>2, <1>5 DEF IInv, TypeOK, IsDeque
      <3> QED BY <2>1, <2>2, <3>1 DEF Deques, IInv, TypeOK
    <2>4. TasksQueuedOnce'
      BY <1>2, <1>3, <2>1, KeepOnce DEF IInv
    <2>5. /\ \A p \in Proxies : /\ give'[p].k = give[p].k /\ give[p].k \in Thread
                               /\ give'[p].at = IF p = k THEN "look" ELSE give[p].at
          /\ give' \in [Proxies -> [at : {"idle", "look", "grow", "append"}, k : Thread, pass : Nat]]
          /\ k \in Proxies <=> next = "run"
      BY <1>1, <2>2, ItemsAssumption DEF IInv, TypeOK
    <2>6. TypeOK'
      BY <1>1, <1>2, <2>1, <2>3, <2>5 DEF Deques, IInv, TypeOK
    <2>7. Hands'
      BY <1>1, <1>2, <1>3, <2>1, <2>2, <2>5, NewIsFree, ItemsAssumption DEF IInv, Hands, Items
    <2> QED BY <2>4, <2>6, <2>7 DEF IInv
  <1> QED BY <1>4, <1>5

-----------------------------------------------------------------------------
(* The giver of a proxy task.                                              *)

LEMMA GiveLookInv == ASSUME IInv, LooksHold', NEW p \in Proxies, GiveLook(p) PROVE IInv'
  <1>1. PICK at \in {"look", "grow", "append"}, k \in Thread, pass \in Nat :
            /\ give' = [give EXCEPT ![p] = [at |-> at, k |-> k, pass |-> pass]]
            /\ at = "append" => ~IsFull(td[k]) /\ td[k].allocated
    <2>1. NextThread(give[p].k) \in Thread
      <3>1. \A i \in Thread : NextThread(i) \in Thread
        BY NProcAssumption DEF NextThread, Thread
      <3> QED BY <3>1 DEF IInv, TypeOK
    <2>2. give[p].pass \in Nat /\ NextPass(give[p].pass) \in Nat
      BY SizeAssumption DEF IInv, TypeOK, NextPass
    <2> QED BY <2>1, <2>2 DEF GiveLook
  <1>2. give[p].at = "look" /\ UNCHANGED <<td, enabled, untied, pc, hold, state>>
    BY DEF GiveLook
  <1>3. at = "append" => td[k].size > 0
    <2>1. ASSUME at = "append" PROVE IsRing(td[k])
      BY <1>1, <2>1, EmptyDeques DEF IInv, TypeOK, IsDeque, IsFull
    <2> QED BY <2>1, RingFields
  <1>4. TypeOK'
    BY <1>1, <1>2 DEF IInv, TypeOK
  <1>5. Hands'
    BY <1>1, <1>2, <1>3 DEF IInv, TypeOK, Hands
  <1>6. TasksQueuedOnce'
    BY <1>2, KeepOnce DEF IInv
  <1> QED BY <1>4, <1>5, <1>6 DEF IInv

LEMMA GiveQueues ==
    ASSUME IInv, LooksHold', NEW p \in Proxies, give[p].at \in {"grow", "append"},
           td' = [td EXCEPT ![give[p].k] = PutTail(Room(td[give[p].k]), p)], Given(p),
           UNCHANGED <<enabled, untied, pc, hold>>
    PROVE  IInv'
  <1>1. /\ p \in Items /\ state[p] = "held" /\ give[p].k \in Thread
        /\ IsRing(td[give[p].k]) /\ pc[give[p].k] # "alloc"
    <2>1. give[p].k \in Thread /\ td[give[p].k].size > 0
      BY DEF IInv, TypeOK, Hands, LooksHold
    <2> QED BY <2>1, RingWhen DEF IInv, Hands, Items
  <1>2. /\ give' = [give EXCEPT ![p].at = "idle"] /\ state' = [state EXCEPT ![p] = "queued"]
    BY DEF Given
  <1>3. Deques' /\ SizesKept /\ TasksQueuedOnce'
    BY <1>1, <1>2, PutStep
  <1>4. TypeOK'
    BY <1>2, <1>3 DEF Deques, IInv, TypeOK
  <1>5. Hands'
    <2>1. /\ \A q \in Proxies : /\ q \in Items /\ give[q].k \in Thread /\ give'[q].k = give[q].k
                               /\ give'[q].at = IF q = p THEN "idle" ELSE give[q].at
      BY <1>2 DEF IInv, TypeOK, Items
    <2>2. \A u \in Thread : pc[u] # "run" => hold[u] \in Items
      BY DEF IInv, TypeOK, Hands
    <2>3. /\ \A k \in Items : state'[k] = IF k = p THEN "queued" ELSE state[k]
          /\ \A u \in Thread : hold[u] # p
      BY <1>2 DEF IInv, TypeOK, Hands
    <2> QED BY <1>3, <2>1, <2>2, <2>3 DEF SizesKept, IInv, Hands
  <1> QED BY <1>3, <1>4, <1>5 DEF IInv

LEMMA GiveInv == ASSUME IInv, LooksHold', NEW p \in Proxies, Give(p) PROVE IInv'
  <1>1. CASE GiveLook(p)
    BY <1>1, GiveLookInv
  <1>2. CASE GiveGrow(p)
    <2>1. give[p].at = "grow" /\ Room(td[give[p].k]) = Realloc(td[give[p].k])
      BY <1>2 DEF GiveGrow, IInv, LooksHold, Room
    <2> QED BY <1>2, <2>1, GiveQueues DEF GiveGrow
  <1>3. CASE GiveAppend(p)
    <2>1. CASE /\ td' = [td EXCEPT ![give[p].k] = PutTail(Room(td[give[p].k]), p)] /\ Given(p)
      BY <1>3, <2>1, GiveQueues DEF GiveAppend
    <2>2. CASE give' = [give EXCEPT ![p].at = "look"] /\ UNCHANGED <<td, state>>
      <3>1. give[p].at = "append" /\ UNCHANGED <<enabled, untied, pc, hold>>
        BY <1>3 DEF GiveAppend
      <3>2. TypeOK'
        BY <2>2, <3>1 DEF IInv, TypeOK
      <3>3. Hands'
        BY <2>2, <3>1 DEF IInv, TypeOK, Hands
      <3>4. TasksQueuedOnce'
        BY <2>2, KeepOnce DEF IInv
      <3> QED BY <3>2, <3>3, <3>4 DEF IInv
    <2> QED BY <1>3, <2>1, <2>2 DEF GiveAppend
  <1> QED BY <1>1, <1>2, <1>3 DEF Give

LEMMA StepInv == IInv /\ [Next /\ LooksHold']_vars => IInv'
  <1> SUFFICES ASSUME IInv, [Next /\ LooksHold']_vars PROVE IInv'
    OBVIOUS
  <1>1. CASE UNCHANGED vars
    <2>1. TypeOK' /\ Hands' /\ LooksHold'
      BY <1>1 DEF vars, IInv, TypeOK, Hands, LooksHold
    <2> QED BY <1>1, <2>1, KeepOnce DEF vars, IInv
  <1>2. CASE Next /\ LooksHold'
    <2>1. CASE \E t \in Thread : \/ \E k \in Tasks : BeginPush(t, k)
                               \/ \E p \in Proxies : CreateProxy(t, p)
      BY <1>2, <2>1, CreateInv
    <2>2. CASE \E t \in Thread : Push(t)
      BY <1>2, <2>2, FinishAllocInv, PushCheckInv, PushExpandInv, PushAppendInv DEF Push
    <2>3. CASE \E t \in Thread : RemoveMyTask(t) \/ Steal(t)
      BY <1>2, <2>3, RemoveInv, StealInv
    <2>4. CASE \E p \in Proxies : Give(p)
      BY <1>2, <2>4, GiveInv
    <2> QED BY <1>2, <2>1, <2>2, <2>3, <2>4 DEF Next
  <1> QED BY <1>1, <1>2

LEMMA SafeSteps == [SafeNext]_vars => [Next /\ LooksHold']_vars
  BY DEF SafeNext, Next, Push, Steal, Give

(* On the schedules of SafeSpec the invariant holds for any number of       *)
(* threads, tasks and proxy tasks and every initial size.                   *)
THEOREM Inductive == SafeSpec => []IInv
  BY InitInv, StepInv, SafeSteps, PTL DEF SafeSpec

(* The tasks of __kmp_push_task and __kmp_give_task are queued in one slot   *)
(* of one deque until __kmp_remove_my_task or __kmp_steal_task takes them.   *)
THEOREM QueuedOnce == SafeSpec => []TasksQueuedOnce
  BY Inductive, PTL DEF IInv
-----------------------------------------------------------------------------
(* The deques implement the pool.                                          *)

LEMMA InitRefines == Init => Abstract!Init
  <1>1. NoDeque.ntasks = 0
    BY DEF NoDeque
  <1>2. Window(NoDeque) = <<>>
    BY <1>1 DEF Window
  <1> QED BY <1>2 DEF Init, Abstract!Init

LEMMA PutRefines ==
    ASSUME IInv, NEW t \in Thread, IsRing(td[t]), NEW k \in Items, state[k] = "held",
           td' = [td EXCEPT ![t] = PutTail(Room(td[t]), k)],
           state' = [state EXCEPT ![k] = "queued"]
    PROVE  Abstract!Next
  <1>1. /\ \A u \in Thread : Window(td'[u]) = IF u = t THEN Append(Window(td[t]), k) ELSE Window(td[u])
    BY RoomRing DEF IInv, TypeOK
  <1>2. Abstract!Queue(t, k)
    BY <1>1 DEF Abstract!Queue
  <1> QED BY <1>2 DEF Abstract!Next

LEMMA TakeRefines ==
    ASSUME IInv, NEW t \in Thread, IsRing(td[t]), NEW i \in 1..td[t].ntasks, NEW d,
           Window(d) = Abstract!RemoveAt(Window(td[t]), i), td' = [td EXCEPT ![t] = d],
           state' = [state EXCEPT ![Window(td[t])[i]] = "started"]
    PROVE  Abstract!Next
  <1>1. \A u \in Thread : Window(td'[u]) = IF u = t THEN Abstract!RemoveAt(Window(td[t]), i)
                                         ELSE Window(td[u])
    BY DEF IInv, TypeOK
  <1>2. Abstract!Take(t, i)
    BY <1>1 DEF Abstract!Take
  <1>3. i \in 1..Len(Window(td[t]))
    BY WindowSeq
  <1>4. Abstract!TakeOlder(t)
    BY <1>2, <1>3 DEF Abstract!TakeOlder
  <1> QED BY <1>4 DEF Abstract!Next

(* A task that is executed by its creator or whose push goes on.           *)
LEMMA PushRefines ==
    ASSUME IInv, LooksHold', NEW t \in Thread, Push(t)
    PROVE  Abstract!Next \/ UNCHANGED Abstract!vars
  <1>1. ASSUME UNCHANGED td PROVE \A u \in Thread : Window(td'[u]) = Window(td[u])
    BY <1>1
  <1>2. ASSUME pc[t] \in {"check", "append"}, UNCHANGED td, EndPush(t, "started")
        PROVE  Abstract!Next
    <2>1. hold[t] \in Items /\ state[hold[t]] = "held"
      BY <1>2 DEF IInv, Hands, Items
    <2>2. Abstract!ExecuteAtOnce(hold[t])
      BY <1>1, <1>2, <2>1 DEF EndPush, Abstract!ExecuteAtOnce
    <2> QED BY <2>1, <2>2 DEF Abstract!Next
  <1>3. ASSUME pc[t] \in {"expand", "append"}, EndPush(t, "queued"),
               td' = [td EXCEPT ![t] = PutTail(Room(td[t]), hold[t])]
        PROVE  Abstract!Next
    <2>1. hold[t] \in Items /\ state[hold[t]] = "held" /\ IsRing(td[t])
      BY <1>3, RingWhen DEF IInv, Hands, Items
    <2> QED BY <1>3, <2>1, PutRefines DEF EndPush
  <1>4. CASE FinishAlloc(t)
    <2>1. td[t] = StorePointer(NoDeque) /\ td' = [td EXCEPT ![t] = StoreSize(td[t])]
      BY <1>4, EmptyDeques DEF FinishAlloc, IInv, TypeOK, IsDeque
    <2>2. Window(StoreSize(StorePointer(NoDeque))) = <<>>
      BY EmptyDeques DEF Window
    <2>3. \A u \in Thread : Window(td'[u]) = Window(td[u])
      BY <2>1, <2>2, EmptyDeques DEF IInv, TypeOK
    <2> QED BY <1>4, <2>3 DEF FinishAlloc, Abstract!vars
  <1>5. CASE PushCheck(t)
    BY <1>1, <1>2, <1>5 DEF PushCheck, Abstract!vars
  <1>6. CASE PushExpand(t)
    <2>1. pc[t] = "expand" /\ Room(td[t]) = Realloc(td[t])
      BY <1>6 DEF PushExpand, IInv, LooksHold, Room
    <2> QED BY <1>3, <1>6, <2>1 DEF PushExpand
  <1>7. CASE PushAppend(t)
    BY <1>2, <1>3, <1>7 DEF PushAppend
  <1> QED BY <1>4, <1>5, <1>6, <1>7 DEF Push

LEMMA CreateRefines ==
    ASSUME IInv, NEW t \in Thread, NEW k \in Items, NEW allocates, NEW next,
           CreateItem(t, k, allocates, next)
    PROVE  Abstract!Next
  <1>1. \A u \in Thread : Window(td'[u]) = Window(td[u])
    <2>1. CASE td' = td
      BY <2>1
    <2>2. CASE ~td[t].allocated /\ td' = [td EXCEPT ![t] = StorePointer(td[t])]
      <3>1. td[t] = NoDeque
        BY <2>2 DEF IInv, TypeOK, IsDeque
      <3> QED BY <2>2, <3>1, EmptyDeques DEF IInv, TypeOK
    <2> QED BY <2>1, <2>2 DEF CreateItem
  <1>2. Abstract!Create(k)
    BY <1>1 DEF CreateItem, Abstract!Create
  <1> QED BY <1>2 DEF Abstract!Next

LEMMA RemoveRefines ==
    ASSUME IInv, NEW t \in Thread, RemoveMyTask(t) \/ Steal(t)
    PROVE  Abstract!Next
  <1>1. ASSUME td[t].ntasks > 0 PROVE IsRing(td[t])
    BY <1>1, RingWhen DEF IInv
  <1>2. CASE RemoveMyTask(t)
    <2>1. IsRing(td[t]) /\ td[t].ntasks \in 1..td[t].ntasks
      BY <1>1, <1>2, RingFields DEF RemoveMyTask
    <2> QED BY <1>2, <2>1, DropNewestRing, TakeRefines DEF RemoveMyTask
  <1>3. CASE StealOldest(t)
    <2>1. IsRing(td[t]) /\ 1 \in 1..td[t].ntasks
      BY <1>1, <1>3, RingFields DEF StealOldest
    <2> QED BY <1>3, <2>1, DropOldestRing, TakeRefines DEF StealOldest
  <1>4. ASSUME NEW i \in 2..td[t].ntasks, StealInside(t, i) PROVE Abstract!Next
    <2>1. IsRing(td[t])
      <3>1. IsDeque(td[t], pc[t])
        BY DEF IInv, TypeOK
      <3> QED BY <1>4, <3>1, EmptyDeques DEF IsDeque
    <2>2. i \in 1..td[t].ntasks
      BY <2>1, RingFields
    <2> QED BY <1>4, <2>1, <2>2, DropInsideRing, TakeRefines DEF StealInside
  <1> QED BY <1>2, <1>3, <1>4 DEF Steal

LEMMA GiveRefines ==
    ASSUME IInv, NEW p \in Proxies, Give(p)
    PROVE  Abstract!Next \/ UNCHANGED Abstract!vars
  <1>1. ASSUME UNCHANGED <<td, state>> PROVE UNCHANGED Abstract!vars
    BY <1>1 DEF Abstract!vars
  <1>2. ASSUME give[p].at \in {"grow", "append"}, Given(p),
               td' = [td EXCEPT ![give[p].k] = PutTail(Room(td[give[p].k]), p)]
        PROVE  Abstract!Next
    <2>1. give[p].k \in Thread /\ td[give[p].k].size > 0 /\ p \in Items /\ state[p] = "held"
      BY <1>2 DEF IInv, TypeOK, Hands, LooksHold, Items
    <2> QED BY <1>2, <2>1, RingWhen, PutRefines DEF Given, IInv
  <1>3. CASE GiveLook(p)
    BY <1>1, <1>3 DEF GiveLook
  <1>4. CASE GiveGrow(p)
    <2>1. give[p].at = "grow" /\ Room(td[give[p].k]) = Realloc(td[give[p].k])
      BY <1>4 DEF GiveGrow, IInv, LooksHold, Room
    <2> QED BY <1>2, <1>4, <2>1 DEF GiveGrow
  <1>5. CASE GiveAppend(p)
    BY <1>1, <1>2, <1>5 DEF GiveAppend
  <1> QED BY <1>3, <1>4, <1>5 DEF Give

LEMMA StepRefines ==
    IInv /\ [Next /\ LooksHold']_vars => [Abstract!Next]_Abstract!vars
  <1> SUFFICES ASSUME IInv, [Next /\ LooksHold']_vars PROVE [Abstract!Next]_Abstract!vars
    OBVIOUS
  <1>1. CASE UNCHANGED vars
    BY <1>1 DEF vars, Abstract!vars
  <1>2. ASSUME NEW t \in Thread, NEW k \in Tasks, BeginPush(t, k) PROVE Abstract!Next
    BY <1>2, CreateRefines DEF BeginPush, Items
  <1>3. ASSUME NEW t \in Thread, NEW p \in Proxies, CreateProxy(t, p) PROVE Abstract!Next
    BY <1>3, CreateRefines DEF CreateProxy, Items
  <1> QED BY <1>1, <1>2, <1>3, PushRefines, RemoveRefines, GiveRefines DEF Next

(* Every push, gift, removal, steal and expansion of the deques is a step   *)
(* of the pool or leaves it alone, so no task is lost or handed out twice.  *)
THEOREM Refinement == SafeSpec => Abstract!Init /\ [][Abstract!Next]_Abstract!vars
  BY InitRefines, StepRefines, SafeSteps, Inductive, PTL DEF SafeSpec

-----------------------------------------------------------------------------
(* A team without restricted and without proxy tasks expands no deque       *)
(* unlooked, so there the schedules need no restriction at all.             *)

NoExpansion == \A t \in Thread : pc[t] # "expand"

LEMMA PlainStep ==
    ASSUME Restricted = {}, Proxies = {}, IInv, NoExpansion, Next
    PROVE  NoExpansion' /\ LooksHold'
  <1>1. DOMAIN pc = Thread
    BY DEF IInv, TypeOK
  <1>2. ASSUME NEW t \in Thread, NEW where \in {"run", "alloc", "check", "append"}, Goto(t, where)
        PROVE  NoExpansion'
    BY <1>1, <1>2 DEF Goto, NoExpansion
  <1>3. ASSUME NEW t \in Thread, NEW k \in Tasks, BeginPush(t, k) PROVE NoExpansion'
    BY <1>2, <1>3 DEF BeginPush, CreateItem
  <1>4. ASSUME NEW t \in Thread, FinishAlloc(t) PROVE NoExpansion'
    BY <1>2, <1>4 DEF FinishAlloc
  <1>5. ASSUME NEW t \in Thread, PushCheck(t) PROVE NoExpansion'
    BY <1>2, <1>5 DEF PushCheck, EndPush
  <1>6. ASSUME NEW t \in Thread, PushExpand(t) \/ PushAppend(t) PROVE NoExpansion'
    BY <1>2, <1>6 DEF PushExpand, PushAppend, EndPush
  <1>7. ASSUME NEW t \in Thread, RemoveMyTask(t) \/ Steal(t) PROVE NoExpansion'
    BY <1>7 DEF RemoveMyTask, Steal, StealOldest, StealInside, NoExpansion
  <1>8. NoExpansion'
    BY <1>3, <1>4, <1>5, <1>6, <1>7 DEF Next, Push
  <1> QED BY <1>8 DEF NoExpansion, LooksHold

(* Whatever the interleaving of the threads' pushes, removals and steals,   *)
(* no task that may be executed anywhere is lost or executed twice.          *)
THEOREM PlainQueuedOnce ==
    ASSUME Restricted = {}, Proxies = {}
    PROVE  Spec => []TasksQueuedOnce
  <1>1. Init => IInv /\ NoExpansion
    BY InitInv DEF Init, NoExpansion
  <1>2. IInv /\ NoExpansion /\ [Next]_vars => (IInv /\ NoExpansion)'
    <2>1. ASSUME IInv, NoExpansion, Next PROVE (IInv /\ NoExpansion)'
      BY <2>1, PlainStep, StepInv
    <2>2. ASSUME IInv, NoExpansion, UNCHANGED vars PROVE (IInv /\ NoExpansion)'
      BY <2>2, StepInv DEF NoExpansion, vars
    <2> QED BY <2>1, <2>2
  <1>3. IInv => TasksQueuedOnce
    BY DEF IInv
  <1> QED BY <1>1, <1>2, <1>3, PTL DEF Spec
=============================================================================
