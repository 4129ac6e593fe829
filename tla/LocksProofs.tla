------------------------------ MODULE LocksProofs ------------------------------
(***************************************************************************)
(* Mutual exclusion of the user locks, and the soundness of their checks,  *)
(* for any number of threads and of calls, in the schedules in which no    *)
(* thread polls outside an area (SafeSpec).                                *)
(***************************************************************************)
EXTENDS Locks, FiniteSetTheorems, TLAPS

(* Where a thread may be, inside every kind of lock and inside each.        *)
Common == {"idle", "set", "test", "own", "unset"}
Within ==
    CASE kind = "tas" -> {}
      [] kind = "ticket" -> {"wait", "testnow", "testcas"}
      [] kind = "queuing" -> {"read", "readtail", "first", "append", "grab", "link", "wait",
                              "free", "reltail", "rellast", "relnext", "clear", "wake"}
      [] OTHER -> {"mask", "polls", "look", "serve", "pubmask", "pubcleanup",
                  "testpolls", "testmask", "testlook", "testcas"}

TypeOK ==
    /\ kind \in AllKinds /\ mode \in Modes
    /\ pc \in [Thread -> Common \cup Within]
    /\ held \in [Thread -> Nat] /\ calls \in Nat
    /\ owner \in Thread \cup {0} /\ depth \in Int /\ poll \in Thread \cup {0}
    /\ nextTicket \in Nat /\ nowServing \in Nat /\ my \in [Thread -> Nat]
    /\ headId \in Thread \cup {0, -1} /\ tailId \in Thread \cup {0}
    /\ spinHere \in [Thread -> BOOLEAN] /\ nextWaiting \in [Thread -> Thread \cup {0}]
    /\ hd \in [Thread -> Thread \cup {0, -1}] /\ tl \in [Thread -> Thread \cup {0}]

(* A thread has the lock from the step that lets it in to the step that     *)
(* lets the next one in.  A waiter of a queuing lock is let in by the       *)
(* thread that ends its spinning.                                           *)
Releasing == {"unset", "free", "reltail", "rellast", "relnext", "clear", "wake"}
Serving == {"serve", "pubmask", "pubcleanup"}
Woken(t) == kind = "queuing" /\ pc[t] \in {"link", "wait"} /\ ~spinHere[t]
Has(t) == held[t] > 0 \/ pc[t] \in Releasing \cup Serving \/ Woken(t)

Exclusive == \A t, u \in Thread : Has(t) /\ Has(u) => t = u

(* What the program holds, and what the lock says of its owner.             *)
OwnerInv ==
    \A t \in Thread :
        /\ held[t] > 0 => pc[t] \in {"idle", "own"}
        /\ pc[t] = "own" => held[t] = 1 /\ mode # "plain"
        /\ mode # "nested" => held[t] <= 1
        /\ held[t] > 0 /\ pc[t] = "idle" /\ mode = "nested" => depth = held[t]
        /\ held[t] > 0 /\ pc[t] = "idle" /\ mode # "plain" => Owner = t
        /\ kind # "tas" /\ owner = t => held[t] > 0 /\ pc[t] = "idle"

TasInv == kind = "tas" => \A t \in Thread : Has(t) <=> poll = t

(* The tickets of the threads that wait or have the lock are different, and *)
(* the one that has it, or that a test is about to take, comes first.       *)
Testing == {"testnow", "testpolls", "testmask", "testlook", "testcas"}
Claim(t) == Has(t) \/ pc[t] \in {"wait", "mask", "polls", "look"}

TicketInv == kind \in {"ticket", "drdpa"} =>
    /\ \A t \in Thread : Claim(t) => my[t] < nextTicket
    /\ \A t \in Thread : pc[t] \in Testing => my[t] <= nextTicket
    /\ \A t, u \in Thread : Claim(t) /\ Claim(u) /\ t # u => my[t] # my[u]
    /\ \A t, u \in Thread : (Has(t) \/ pc[t] = "testcas") /\ Claim(u) => my[t] <= my[u]

NowInv == kind = "ticket" =>
    /\ nowServing <= nextTicket
    /\ \A t \in Thread : Has(t) => my[t] = nowServing
    /\ \A t \in Thread : Claim(t) => nowServing <= my[t]
    /\ \A t \in Thread : pc[t] = "testcas" => my[t] <= nowServing

(* No slot of any area, freed or not, lets in a thread whose turn has not   *)
(* come.                                                                    *)
AreaType ==
    /\ Len(area) \in Nat /\ DOMAIN area = 1..Len(area)
    /\ polls \in DOMAIN area /\ p \in [Thread -> DOMAIN area]
    /\ \A a \in DOMAIN area : /\ area[a] \in [slots : {area[a].slots}, live : BOOLEAN]
                              /\ area[a].slots \in [DOMAIN area[a].slots -> Nat]
Posted(v) == v <= nextTicket /\ \A t \in Thread : Claim(t) => v <= my[t]

PollInv == kind = "drdpa" =>
    /\ AreaType
    /\ \A a \in DOMAIN area : \A i \in DOMAIN area[a].slots : Posted(area[a].slots[i])
    /\ \A t \in Thread : Has(t) /\ pc[t] # "serve" => nowServing = my[t]
    /\ PollsInsideArea

(* A thread that a link or a release names waits, and nothing else names    *)
(* it: the head is linked only while its predecessor clears its link.       *)
Enqueued(t) == pc[t] \in {"link", "wait"} /\ spinHere[t]
Named(t) == \E r \in Thread : pc[r] \in {"clear", "wake"} /\ hd[r] = t

HeadInv ==
    /\ headId = 0 => \A t \in Thread : ~Has(t)
    /\ headId \in Thread => Enqueued(headId)
LinkInv ==
    /\ \A t \in Thread : nextWaiting[t] # 0 =>
          /\ pc[nextWaiting[t]] = "wait" /\ spinHere[nextWaiting[t]]
          /\ headId = nextWaiting[t] => \E r \in Thread : pc[r] = "clear" /\ hd[r] = t
    /\ \A t, u \in Thread : nextWaiting[t] = nextWaiting[u] => nextWaiting[t] = 0 \/ t = u
ReleaseInv ==
    \A r \in Thread :
        /\ pc[r] \in {"reltail", "rellast", "relnext"} => hd[r] = headId /\ headId \in Thread
        /\ pc[r] \in {"clear", "wake"} =>
             /\ hd[r] \in Thread /\ Enqueued(hd[r]) /\ headId # hd[r]
             /\ \A t \in Thread : nextWaiting[t] # hd[r]
EnterInv ==
    \A t \in Thread :
        /\ pc[t] \in {"read", "readtail", "first", "append", "grab"} => spinHere[t]
        /\ pc[t] = "first" => tl[t] = 0
        /\ pc[t] = "link" /\ tl[t] # 0 => headId # t /\ spinHere[t] /\ ~Named(t)

QueueInv == kind = "queuing" => HeadInv /\ LinkInv /\ ReleaseInv /\ EnterInv

IInv == TypeOK /\ Exclusive /\ OwnerInv /\ TasInv /\ TicketInv /\ NowInv /\ PollInv /\ QueueInv

-----------------------------------------------------------------------------
(* Threads are positive numbers, so that 0 and -1 name none of them.        *)
LEMMA ThreadNumbers == 0 \notin Thread /\ -1 \notin Thread /\ \A t \in Thread : t \in Nat /\ t > 0
  BY ThreadAssumption

LEMMA InitInv == Init => IInv
  <1> SUFFICES ASSUME Init PROVE IInv
    OBVIOUS
  <1> USE ThreadNumbers
  <1>1. TypeOK
    BY KindAssumption DEF Init, TypeOK, Common, Within
  <1>2. \A t \in Thread : pc[t] = "idle" /\ held[t] = 0 /\ ~Has(t) /\ ~Claim(t)
    BY DEF Init, Has, Claim, Woken, Releasing, Serving
  <1>3. Exclusive /\ OwnerInv /\ TasInv /\ TicketInv /\ NowInv /\ QueueInv
    BY <1>1, <1>2 DEF Init, Exclusive, OwnerInv, TasInv, TicketInv, NowInv, Owner, Testing,
       QueueInv, HeadInv, LinkInv, ReleaseInv, EnterInv
  <1>4. PollInv
    <2>1. AreaType
      <3>1. Len(area) = 1 /\ DOMAIN area = {1} /\ area[1] = [slots |-> <<0>>, live |-> TRUE]
        BY DEF Init
      <3>2. area[1].slots = <<0>> /\ <<0>> \in [1..1 -> Nat] /\ DOMAIN <<0>> = 1..1
        BY <3>1
      <3>3. area[1] \in [slots : {area[1].slots}, live : BOOLEAN]
        BY <3>1
      <3>4. area[1].slots \in [DOMAIN area[1].slots -> Nat]
        <4>1. area[1].slots = <<0>>
          BY <3>1
        <4> QED BY <4>1, <3>2
      <3>5. polls = 1 /\ p \in [Thread -> {1}]
        BY DEF Init
      <3>6. DOMAIN area = 1..Len(area)
        BY <3>1
      <3>7. \A a \in DOMAIN area : a = 1
        BY <3>1
      <3>8. polls \in DOMAIN area /\ p \in [Thread -> DOMAIN area]
        BY <3>1, <3>5
      <3>9. Len(area) \in Nat
        BY <3>1
      <3> QED BY <3>3, <3>4, <3>6, <3>7, <3>8, <3>9 DEF AreaType
    <2>2. \A a \in DOMAIN area : \A i \in DOMAIN area[a].slots : area[a].slots[i] = 0
      BY DEF Init
    <2>3. PollsInsideArea
      BY <1>2 DEF PollsInsideArea
    <2> QED BY <1>1, <1>2, <2>1, <2>2, <2>3 DEF PollInv, Posted, TypeOK, Init
  <1> QED BY <1>1, <1>3, <1>4 DEF IInv

(* What the tickets say suffices for one thread at a time.                  *)
LEMMA TicketsExclude == TypeOK' /\ TicketInv' /\ kind' \in {"ticket", "drdpa"} => Exclusive'
  <1> SUFFICES ASSUME TypeOK', TicketInv', kind' \in {"ticket", "drdpa"},
                      NEW t \in Thread, NEW u \in Thread, Has(t)', Has(u)', t # u
               PROVE  FALSE
    BY DEF Exclusive
  <1>1. Claim(t)' /\ Claim(u)'
    BY DEF Claim
  <1>2. my'[t] <= my'[u] /\ my'[u] <= my'[t] /\ my'[t] # my'[u]
    BY <1>1 DEF TicketInv
  <1> QED BY <1>2 DEF TypeOK

-----------------------------------------------------------------------------
(* Steps outside the lock itself: a thread that does not go in or out, and  *)
(* is not inside, changes nothing of what the kinds of lock rely on.        *)
LEMMA OutsideInv ==
    ASSUME IInv, NEW t \in Thread, NEW x \in Common, pc[t] \in Common,
           pc' = [pc EXCEPT ![t] = x], Has(t)' <=> Has(t),
           \A u \in Thread \ {t} : held'[u] = held[u],
           UNCHANGED <<kind, poll, tickets, queue, polling>>
    PROVE  Exclusive' /\ TasInv' /\ TicketInv' /\ NowInv' /\ PollInv' /\ QueueInv'
  <1> USE ThreadNumbers DEF IInv, tickets, queue, polling
  <1>1. \A u \in Thread : (Has(u)' <=> Has(u)) /\ (Claim(u)' <=> Claim(u))
    BY DEF TypeOK, Has, Claim, Woken, Common
  <1>2. \A u \in Thread : pc'[u] = pc[u] \/ (pc'[u] \in Common /\ pc[u] \in Common)
    BY DEF TypeOK
  <1>3. Exclusive' /\ TasInv'
    BY <1>1 DEF Exclusive, TasInv
  <1>4. TicketInv' /\ NowInv'
    BY <1>1, <1>2 DEF TicketInv, NowInv, Testing, Common
  <1>5. PollInv'
    <2>1. PollsInsideArea'
      BY <1>2 DEF PollsInsideArea, Common, Reachable, Index, PollInv
    <2> QED BY <1>1, <1>2, <2>1 DEF PollInv, AreaType, Posted, Common
  <1>6. QueueInv'
    <2>1. \A u \in Thread : (Enqueued(u)' <=> Enqueued(u)) /\ (Named(u)' <=> Named(u))
      BY <1>2 DEF Enqueued, Named, Common
    <2> QED BY <1>1, <1>2, <2>1 DEF QueueInv, HeadInv, LinkInv, ReleaseInv, EnterInv, Common
  <1> QED BY <1>3, <1>4, <1>5, <1>6

LEMMA SetCallInv == ASSUME IInv, NEW t \in Thread, SetCall(t) PROVE IInv'
  <1> USE ThreadNumbers
  <1>1. held[t] = 0 => Owner # t
    BY DEF IInv, TypeOK, OwnerInv, TasInv, Owner, Has, Woken, Releasing, Serving, SetCall
  <1>2. mode # "nested" \/ Owner # t => held[t] = 0
    BY DEF SetCall, IInv, TypeOK, OwnerInv
  <1>3. TypeOK'
    BY <1>1 DEF IInv, TypeOK, Within, SetCall, Goto, Common, config, tickets, queue
  <1>4. OwnerInv'
    BY <1>1, <1>2 DEF IInv, TypeOK, OwnerInv, TasInv, Has, Woken, Releasing, Serving, SetCall, Goto, Owner, config, tickets, queue
  <1>5. Has(t)' <=> Has(t)
    BY <1>1, <1>2 DEF IInv, TypeOK, SetCall, Goto, Has, Woken, Releasing, Serving, config, queue
  <1>6. \E x \in Common : pc' = [pc EXCEPT ![t] = x]
    BY <1>1, <1>2 DEF SetCall, Goto, Common, IInv, TypeOK
  <1>7. pc[t] \in Common /\ \A u \in Thread \ {t} : held'[u] = held[u]
    BY DEF SetCall, Common, IInv, TypeOK
  <1>8. UNCHANGED <<kind, poll, tickets, queue, polling>>
    BY DEF SetCall, config
  <1> QED BY <1>3, <1>4, <1>5, <1>6, <1>7, <1>8, OutsideInv DEF IInv

LEMMA TestCallInv == ASSUME IInv, NEW t \in Thread, TestCall(t) PROVE IInv'
  <1> USE ThreadNumbers
  <1>1. held[t] = 0 => Owner # t
    BY DEF IInv, TypeOK, OwnerInv, TasInv, Owner, Has, Woken, Releasing, Serving, TestCall
  <1>2. mode # "nested" \/ Owner # t => held[t] = 0
    BY DEF TestCall, IInv, TypeOK, OwnerInv
  <1>3. TypeOK'
    BY <1>1 DEF IInv, TypeOK, Within, TestCall, Goto, Common, config, tickets, queue
  <1>4. OwnerInv'
    BY <1>1, <1>2 DEF IInv, TypeOK, OwnerInv, TasInv, Has, Woken, Releasing, Serving, TestCall, Goto, Owner, config, tickets, queue
  <1>5. Has(t)' <=> Has(t)
    BY <1>1, <1>2 DEF IInv, TypeOK, TestCall, Goto, Has, Woken, Releasing, Serving, config, queue
  <1>6. \E x \in Common : pc' = [pc EXCEPT ![t] = x]
    BY <1>1, <1>2 DEF TestCall, Goto, Common, IInv, TypeOK
  <1>7. pc[t] \in Common /\ \A u \in Thread \ {t} : held'[u] = held[u]
    BY DEF TestCall, Common, IInv, TypeOK
  <1>8. UNCHANGED <<kind, poll, tickets, queue, polling>>
    BY DEF TestCall, config
  <1> QED BY <1>3, <1>4, <1>5, <1>6, <1>7, <1>8, OutsideInv DEF IInv

(* Only one thread is about to store itself as the owner.                   *)
LEMMA StoreOwnerInv == ASSUME IInv, NEW t \in Thread, StoreOwner(t) PROVE IInv'
  <1> USE ThreadNumbers
  <1>1. Has(t) /\ \A u \in Thread : Has(u) => u = t
    BY DEF IInv, TypeOK, OwnerInv, Exclusive, Has, StoreOwner
  <1>2. TypeOK'
    BY DEF IInv, TypeOK, Within, StoreOwner, Goto, Common, config, tickets, queue
  <1>3. OwnerInv'
    BY <1>1 DEF IInv, TypeOK, OwnerInv, TasInv, StoreOwner, Goto, Owner, Has, config, tickets, queue
  <1>4. Has(t)' <=> Has(t)
    BY <1>1 DEF IInv, TypeOK, OwnerInv, StoreOwner, Goto, Has
  <1>5. UNCHANGED <<kind, poll, tickets, queue, polling>> /\ UNCHANGED held
    BY DEF StoreOwner, config
  <1> QED BY <1>2, <1>3, <1>4, <1>5, OutsideInv DEF IInv, StoreOwner, Goto, Common

LEMMA UnsetCallInv == ASSUME IInv, NEW t \in Thread, UnsetCall(t) PROVE IInv'
  <1> USE ThreadNumbers
  <1>1. Has(t) /\ \A u \in Thread : Has(u) => u = t
    BY DEF IInv, TypeOK, Exclusive, Has, UnsetCall
  <1>2. mode # "plain" => Owner = t
    BY DEF IInv, TypeOK, OwnerInv, UnsetCall
  <1>3. \A u \in Thread \ {t} : held'[u] = held[u] /\ held[u] = 0
    BY <1>1 DEF IInv, TypeOK, UnsetCall, Has
  <1>4. \/ mode = "nested" /\ depth > 1 /\ depth = held[t] /\ UNCHANGED <<pc, owner>>
        \/ held[t] = 1 /\ Goto(t, "unset") /\ owner' = 0
    BY <1>2 DEF IInv, TypeOK, OwnerInv, UnsetCall
  <1>5. TypeOK'
    BY <1>4 DEF IInv, TypeOK, Within, UnsetCall, Goto, Common, config, tickets, queue
  <1>6. OwnerInv'
    BY <1>1, <1>2, <1>3, <1>4 DEF IInv, TypeOK, OwnerInv, UnsetCall, Goto, Owner, config, tickets, queue
  <1>7. Has(t)' <=> Has(t)
    BY <1>1, <1>4 DEF IInv, TypeOK, UnsetCall, Goto, Has, Releasing
  <1>8. \E x \in Common : pc' = [pc EXCEPT ![t] = x]
    BY <1>4 DEF UnsetCall, Goto, Common, IInv, TypeOK
  <1>9. pc[t] \in Common /\ UNCHANGED <<kind, poll, tickets, queue, polling>>
    BY DEF UnsetCall, config, Common
  <1> QED BY <1>3, <1>5, <1>6, <1>7, <1>8, <1>9, OutsideInv DEF IInv

-----------------------------------------------------------------------------
(* Steps inside the lock.  A thread that only goes on holds nothing, and    *)
(* the owner is not its concern; a thread that acquires has only itself to  *)
(* store as the owner.                                                      *)
LEMMA GoesOn ==
    ASSUME IInv, NEW t \in Thread, NEW x, Goto(t, x), pc[t] \notin {"idle", "own"}, x # "own",
           UNCHANGED <<kind, mode, held, owner, depth, poll>>
    PROVE  OwnerInv'
  BY DEF IInv, TypeOK, OwnerInv, Owner, Goto

LEMMA Acquires ==
    ASSUME IInv, NEW t \in Thread, Acquired(t), pc[t] \notin {"idle", "own"},
           \A u \in Thread : ~Has(u) \/ u = t,
           UNCHANGED <<kind, mode, owner, depth>>, poll' = IF kind = "tas" THEN t ELSE poll
    PROVE  OwnerInv'
  <1>1. \A u \in Thread : u # t => held[u] = 0
    BY DEF IInv, TypeOK, Has
  <1>2. \A u \in Thread : kind # "tas" => owner # u
    BY <1>1 DEF IInv, TypeOK, OwnerInv
  <1> QED BY <1>1, <1>2 DEF IInv, TypeOK, OwnerInv, Owner, Acquired, Goto, Modes

(* A test-and-set lock.                                                     *)
TasStep(t) == TasAcquire(t) \/ TasTestFails(t) \/ TasRelease(t)

LEMMA TasStepInv == ASSUME IInv, NEW t \in Thread, TasStep(t) PROVE IInv'
  <1> USE ThreadNumbers
  <1>1. kind = "tas" /\ kind' = kind
    BY DEF TasStep, TasAcquire, TasTestFails, TasRelease, At, config
  <1>2. TypeOK'
    BY <1>1 DEF IInv, TypeOK, Within, Common, TasStep, TasAcquire, TasTestFails, TasRelease, Acquired, Goto,
       config, ownership, tickets, queue
  <1>3. OwnerInv'
    <2>1. CASE TasAcquire(t)
      <3>1. \A u \in Thread : ~Has(u) \/ u = t
        BY <1>1, <2>1 DEF TasAcquire, IInv, TasInv
      <3> QED BY <1>1, <2>1, <3>1, Acquires DEF TasAcquire, config, ownership
    <2>2. CASE TasTestFails(t)
      BY <2>2, GoesOn DEF TasTestFails, At, config, ownership
    <2>3. CASE TasRelease(t)
      <3>1. Has(t) /\ \A u \in Thread : Has(u) => u = t
        BY <2>3 DEF TasRelease, At, IInv, Exclusive, Has, Releasing
      <3>2. \A u \in Thread : held[u] = 0
        BY <2>3, <3>1 DEF TasRelease, At, IInv, TypeOK, OwnerInv, Has
      <3> QED BY <1>1, <2>3, <3>2 DEF TasRelease, Goto, At, IInv, TypeOK, OwnerInv, config, ownership
    <2> QED BY <2>1, <2>2, <2>3 DEF TasStep
  <1>4. TasInv'
    <2>1. CASE TasAcquire(t)
      BY <1>1, <2>1 DEF TasAcquire, Acquired, Goto, IInv, TypeOK, TasInv, Has, Woken, Releasing, Serving
    <2>2. CASE TasTestFails(t)
      BY <1>1, <2>2 DEF TasTestFails, At, Goto, IInv, TypeOK, TasInv, Has, Woken, Releasing, Serving
    <2>3. CASE TasRelease(t)
      <3>1. poll = t /\ held[t] = 0
        BY <1>1, <2>3 DEF TasRelease, At, IInv, TypeOK, TasInv, OwnerInv, Has, Releasing
      <3> QED BY <1>1, <2>3, <3>1 DEF TasRelease, At, Goto, IInv, TypeOK, TasInv, Has, Woken, Releasing, Serving
    <2> QED BY <2>1, <2>2, <2>3 DEF TasStep
  <1>5. Exclusive' /\ TicketInv' /\ NowInv' /\ PollInv' /\ QueueInv'
    BY <1>1, <1>4 DEF TasInv, Exclusive, TicketInv, NowInv, PollInv, QueueInv
  <1> QED BY <1>2, <1>3, <1>4, <1>5 DEF IInv

-----------------------------------------------------------------------------
(* Tickets, those of DRDPA locks included.                                  *)

LEMMA TakeTicketInv == ASSUME IInv, NEW t \in Thread, TakeTicket(t) PROVE IInv'
  <1> USE ThreadNumbers DEF TakeTicket, Goto, config, ownership, queue, polling
  <1>1. kind \in {"ticket", "drdpa"} /\ kind' = kind /\ pc[t] = "set"
    OBVIOUS
  <1>2. ~Claim(t) /\ held[t] = 0
    BY DEF Claim, Has, Woken, Releasing, Serving, IInv, TypeOK, OwnerInv
  <1>3. Claim(t)' /\ ~Has(t)' /\ my'[t] = nextTicket /\ pc'[t] \notin Testing
    BY <1>2 DEF Claim, Has, Woken, Releasing, Serving, Testing, IInv, TypeOK
  <1>4. \A u \in Thread \ {t} : /\ Claim(u)' <=> Claim(u)
                                /\ Has(u)' <=> Has(u)
                                /\ my'[u] = my[u] /\ pc'[u] = pc[u]
    BY DEF Claim, Has, Woken, IInv, TypeOK
  <1>5. TypeOK'
    BY DEF IInv, TypeOK, Within, Common
  <1>6. OwnerInv'
    BY GoesOn
  <1>7. TicketInv'
    <2>1. TicketInv /\ nextTicket' = nextTicket + 1 /\ nextTicket \in Nat /\ \A u \in Thread : my[u] \in Nat
      BY DEF IInv, TypeOK
    <2>2. \A u \in Thread : Claim(u)' => my'[u] < nextTicket'
      BY <1>1, <1>3, <1>4, <2>1 DEF TicketInv
    <2>3. \A u \in Thread : pc'[u] \in Testing => my'[u] <= nextTicket'
      BY <1>1, <1>3, <1>4, <2>1 DEF TicketInv
    <2>4. \A u, v \in Thread : Claim(u)' /\ Claim(v)' /\ u # v => my'[u] # my'[v]
      BY <1>1, <1>3, <1>4, <2>1 DEF TicketInv
    <2>5. \A u, v \in Thread : (Has(u)' \/ pc'[u] = "testcas") /\ Claim(v)' => my'[u] <= my'[v]
      <3>1. \A u \in Thread : Has(u) => Claim(u)
        BY DEF Claim
      <3>2. "testcas" \in Testing
        BY DEF Testing
      <3> QED BY <1>1, <1>3, <1>4, <2>1, <3>1, <3>2 DEF TicketInv
    <2> QED BY <2>2, <2>3, <2>4, <2>5 DEF TicketInv
  <1>8. NowInv'
    BY <1>1, <1>3, <1>4 DEF IInv, TypeOK, NowInv
  <1>9. PollInv'
    <2> SUFFICES ASSUME kind = "drdpa" PROVE PollInv'
      BY <1>1 DEF PollInv
    <2>1. PollInv /\ AreaType
      BY DEF IInv, PollInv
    <2>2. \A v \in Nat : Posted(v) => Posted(v)'
      BY <1>3, <1>4 DEF Posted, IInv, TypeOK
    <2>3. PollsInsideArea'
      BY <1>1, <1>3, <1>4, <2>1 DEF PollInv, PollsInsideArea, Reachable, Index
    <2>4. AreaType'
      BY <2>1 DEF AreaType
    <2> QED BY <1>1, <1>3, <1>4, <2>1, <2>2, <2>3, <2>4 DEF PollInv, AreaType
  <1>10. TasInv' /\ QueueInv' /\ Exclusive'
    BY <1>1, <1>5, <1>7, TicketsExclude DEF TasInv, QueueInv
  <1> QED BY <1>5, <1>6, <1>7, <1>8, <1>9, <1>10 DEF IInv

LEMMA BakeryCheckInv == ASSUME IInv, NEW t \in Thread, BakeryCheck(t) PROVE IInv'
  <1> USE ThreadNumbers DEF BakeryCheck, At, config, ownership, tickets, queue, polling
  <1>1. kind = "ticket" /\ kind' = kind /\ Claim(t)
    BY DEF Claim
  <1>2. \A u \in Thread : ~Has(u) \/ u = t
    BY <1>1 DEF IInv, TypeOK, NowInv, TicketInv, Claim
  <1>3. Has(t)' /\ pc'[t] \in {"idle", "own"}
    BY DEF IInv, TypeOK, Has, Acquired, Goto
  <1>4. \A u \in Thread \ {t} : /\ Claim(u)' <=> Claim(u)
                                /\ Has(u)' <=> Has(u)
                                /\ pc'[u] = pc[u]
    BY DEF Claim, Has, Woken, IInv, TypeOK, Acquired, Goto
  <1>5. TypeOK'
    BY DEF IInv, TypeOK, Within, Common, Acquired, Goto
  <1>6. OwnerInv'
    BY <1>1, <1>2, Acquires
  <1>7. TicketInv'
    BY <1>1, <1>3, <1>4 DEF IInv, TypeOK, TicketInv, NowInv, Testing
  <1>8. NowInv'
    BY <1>1, <1>3, <1>4 DEF IInv, TypeOK, NowInv
  <1>9. TasInv' /\ QueueInv' /\ PollInv' /\ Exclusive'
    BY <1>1, <1>5, <1>7, TicketsExclude DEF TasInv, QueueInv, PollInv
  <1> QED BY <1>5, <1>6, <1>7, <1>8, <1>9 DEF IInv

(* A thread that goes on without a ticket leaves the order of the others.   *)
LEMMA TicketFrame ==
    ASSUME IInv, NEW t \in Thread, NEW x, Goto(t, x), kind \in {"ticket", "drdpa"},
           ~Claim(t), ~Claim(t)', pc[t] \notin {"idle", "own"}, x # "own",
           x \in Testing => my'[t] <= nextTicket,
           x = "testcas" => \A u \in Thread : Claim(u) => my'[t] <= my[u],
           x = "testcas" /\ kind = "ticket" => my'[t] <= nowServing,
           my'[t] \in Nat, my' = [my EXCEPT ![t] = my'[t]],
           UNCHANGED <<config, held, ownership, poll, nextTicket, nowServing, queue>>
    PROVE  /\ OwnerInv' /\ TicketInv' /\ NowInv' /\ TasInv' /\ QueueInv'
           /\ \A v \in Nat : Posted(v) => Posted(v)'
           /\ \A u \in Thread \ {t} : Has(u)' <=> Has(u)
  <1> USE DEF config, ownership, queue
  <1>1. \A u \in Thread \ {t} : /\ Claim(u)' <=> Claim(u)
                                /\ Has(u)' <=> Has(u)
                                /\ my'[u] = my[u] /\ pc'[u] = pc[u]
    BY DEF Claim, Has, Woken, IInv, TypeOK, Goto
  <1>2. ~Has(t)' /\ pc'[t] = x
    BY DEF Claim, Goto, IInv, TypeOK
  <1>3. OwnerInv'
    BY GoesOn
  <1>4. TicketInv'
    BY <1>1, <1>2 DEF IInv, TypeOK, TicketInv, Testing
  <1>5. NowInv'
    BY <1>1, <1>2 DEF IInv, TypeOK, NowInv
  <1>6. TasInv' /\ QueueInv'
    BY DEF TasInv, QueueInv
  <1>7. \A v \in Nat : Posted(v) => Posted(v)'
    BY <1>1 DEF Posted, IInv, TypeOK
  <1> QED BY <1>1, <1>3, <1>4, <1>5, <1>6, <1>7

LEMMA TestReadNextInv == ASSUME IInv, NEW t \in Thread, TestReadNext(t) PROVE IInv'
  <1> USE ThreadNumbers DEF TestReadNext, config, ownership, queue, polling
  <1>1. kind \in {"ticket", "drdpa"} /\ kind' = kind /\ my'[t] = nextTicket
    BY DEF IInv, TypeOK
  <1>2. ~Claim(t) /\ ~Claim(t)'
    BY DEF Claim, Has, Woken, Releasing, Serving, IInv, TypeOK, OwnerInv, Goto
  <1>3. TypeOK'
    BY DEF IInv, TypeOK, Within, Common, Goto
  <1>4. PICK x \in {"testnow", "testpolls"} : Goto(t, x)
    OBVIOUS
  <1>5. my' = [my EXCEPT ![t] = my'[t]] /\ my'[t] \in Nat
    BY <1>1 DEF IInv, TypeOK
  <1>6. /\ OwnerInv' /\ TicketInv' /\ NowInv' /\ TasInv' /\ QueueInv'
        /\ \A v \in Nat : Posted(v) => Posted(v)'
        /\ \A u \in Thread \ {t} : Has(u)' <=> Has(u)
    <2>1. x # "testcas" /\ x # "own" /\ pc[t] \notin {"idle", "own"} /\ my'[t] <= nextTicket
      BY <1>1 DEF IInv, TypeOK
    <2> QED BY <1>1, <1>2, <1>4, <1>5, <2>1, TicketFrame
  <1>7. PollInv'
    <2> SUFFICES ASSUME kind = "drdpa" PROVE PollInv'
      BY <1>1 DEF PollInv
    <2>1. PollInv /\ AreaType
      BY DEF IInv, PollInv
    <2>2. PollsInsideArea'
      BY <1>4, <2>1 DEF PollInv, PollsInsideArea, Reachable, Index, Goto, IInv, TypeOK
    <2>3. AreaType'
      BY <2>1 DEF AreaType
    <2>4. \A u \in Thread : Has(u)' => u # t /\ Has(u) /\ my'[u] = my[u] /\ pc'[u] = pc[u]
      BY <1>2, <1>4, <1>5, <1>6 DEF Claim, Goto, IInv, TypeOK
    <2>5. UNCHANGED <<area, nowServing>>
      OBVIOUS
    <2> QED BY <1>6, <2>1, <2>2, <2>3, <2>4, <2>5 DEF PollInv, AreaType
  <1> QED BY <1>1, <1>3, <1>6, <1>7, TicketsExclude DEF IInv

LEMMA TestLookNowInv == ASSUME IInv, NEW t \in Thread, TestLookNow(t) PROVE IInv'
  <1> USE ThreadNumbers DEF TestLookNow, At, config, ownership, tickets, queue, polling
  <1>1. kind = "ticket" /\ kind' = kind /\ pc[t] = "testnow"
    OBVIOUS
  <1>2. ~Claim(t) /\ ~Claim(t)'
    BY DEF Claim, Has, Woken, Releasing, Serving, IInv, TypeOK, OwnerInv, Goto
  <1>3. TypeOK'
    BY DEF IInv, TypeOK, Within, Common, Goto
  <1>4. \E x \in {"testcas", "idle"} : Goto(t, x) /\ (x = "testcas" => nowServing = my[t])
    OBVIOUS
  <1>5. my' = [my EXCEPT ![t] = my'[t]] /\ my'[t] \in Nat /\ my'[t] = my[t] /\ my[t] <= nextTicket
    BY <1>1 DEF IInv, TypeOK, TicketInv, Testing
  <1>6. nowServing = my[t] => \A u \in Thread : Claim(u) => my'[t] <= my[u]
    BY <1>1 DEF IInv, NowInv
  <1>7. nowServing = my[t] => my'[t] <= nowServing
    BY <1>5 DEF IInv, TypeOK
  <1>8. OwnerInv' /\ TicketInv' /\ NowInv' /\ TasInv' /\ QueueInv'
    BY <1>1, <1>2, <1>4, <1>5, <1>6, <1>7, TicketFrame
  <1>9. PollInv'
    BY <1>1 DEF PollInv
  <1> QED BY <1>1, <1>3, <1>8, <1>9, TicketsExclude DEF IInv

(* A test that finds its ticket still the next one has nobody before it.    *)
LEMMA TestCasInv == ASSUME IInv, NEW t \in Thread, TestCas(t) PROVE IInv'
  <1> USE ThreadNumbers DEF TestCas, config, ownership, queue, polling
  <1>1. kind \in {"ticket", "drdpa"} /\ kind' = kind /\ pc[t] = "testcas"
    BY DEF IInv, TypeOK, Common, Within, AllKinds
  <1>2. ~Claim(t) /\ held[t] = 0
    BY <1>1 DEF Claim, Has, Woken, Releasing, Serving, IInv, TypeOK, OwnerInv
  <1>3. TypeOK'
    BY DEF IInv, TypeOK, Within, Common, Goto, Acquired
  <1>4. CASE nextTicket # my[t]
    <2>1. Goto(t, "idle") /\ UNCHANGED <<held, nextTicket, nowServing, my>>
      BY <1>4
    <2>2. ~Claim(t)'
      BY <1>1, <1>2, <2>1 DEF Claim, Has, Woken, Releasing, Serving, Goto, IInv, TypeOK
    <2>3. my' = [my EXCEPT ![t] = my'[t]] /\ my'[t] \in Nat
      BY <2>1 DEF IInv, TypeOK
    <2>4. /\ OwnerInv' /\ TicketInv' /\ NowInv' /\ TasInv' /\ QueueInv'
          /\ \A v \in Nat : Posted(v) => Posted(v)'
          /\ \A u \in Thread \ {t} : Has(u)' <=> Has(u)
      BY <1>1, <1>2, <2>1, <2>2, <2>3, TicketFrame DEF Testing
    <2>5. PollInv'
      <3> SUFFICES ASSUME kind = "drdpa" PROVE PollInv'
        BY <1>1 DEF PollInv
      <3>1. PollInv /\ AreaType
        BY DEF IInv, PollInv
      <3>2. PollsInsideArea'
        BY <2>1, <3>1 DEF PollInv, PollsInsideArea, Reachable, Index, Goto, IInv, TypeOK
      <3>3. AreaType'
        BY <3>1 DEF AreaType
      <3>4. \A u \in Thread : Has(u)' => u # t /\ Has(u) /\ my'[u] = my[u] /\ pc'[u] = pc[u]
        BY <2>1, <2>2, <2>4 DEF Claim, Goto, IInv, TypeOK
      <3>5. UNCHANGED <<area, nowServing>>
        BY <2>1
      <3> QED BY <2>4, <3>1, <3>2, <3>3, <3>4, <3>5 DEF PollInv, AreaType
    <2> QED BY <1>1, <1>3, <2>4, <2>5, TicketsExclude DEF IInv
  <1>5. CASE nextTicket = my[t]
    <2>1. Acquired(t) /\ nextTicket' = nextTicket + 1 /\ UNCHANGED my
      BY <1>5
    <2>2. \A u \in Thread : ~Claim(u) /\ ~Has(u)
      BY <1>1, <1>2, <1>5 DEF IInv, TypeOK, TicketInv, Claim
    <2>3. Has(t)' /\ Claim(t)' /\ pc'[t] \in {"idle", "own"}
      BY <2>1 DEF IInv, TypeOK, Has, Claim, Acquired, Goto
    <2>4. \A u \in Thread \ {t} : ~Claim(u)' /\ ~Has(u)' /\ pc'[u] = pc[u]
      BY <2>1, <2>2 DEF Claim, Has, Woken, IInv, TypeOK, Acquired, Goto
    <2>5. OwnerInv'
      BY <1>1, <2>1, <2>2, Acquires
    <2>6. TicketInv'
      BY <1>1, <1>5, <2>1, <2>3, <2>4 DEF IInv, TypeOK, TicketInv, Testing
    <2>7. NowInv'
      <3> SUFFICES ASSUME kind = "ticket" PROVE NowInv'
        BY <1>1 DEF NowInv
      <3>1. nowServing = my[t] /\ UNCHANGED nowServing
        BY <1>1, <1>5 DEF IInv, TypeOK, NowInv
      <3> QED BY <1>1, <1>5, <2>1, <2>3, <2>4, <3>1 DEF IInv, TypeOK, NowInv
    <2>8. PollInv'
      <3> SUFFICES ASSUME kind = "drdpa" PROVE PollInv'
        BY <1>1 DEF PollInv
      <3>1. PollInv /\ AreaType
        BY DEF IInv, PollInv
      <3>2. \A v \in Nat : Posted(v) => Posted(v)'
        BY <1>5, <2>1, <2>3, <2>4 DEF Posted, IInv, TypeOK
      <3>3. nowServing' = my[t]
        BY <1>5
      <3>4. PollsInsideArea'
        BY <1>1, <2>1, <2>3, <2>4, <3>1 DEF PollInv, PollsInsideArea, Reachable, Index
      <3>5. AreaType'
        BY <3>1 DEF AreaType
      <3>6. \A u \in Thread : Has(u)' => nowServing' = my'[u]
        BY <2>1, <2>4, <3>3
      <3>7. UNCHANGED area
        OBVIOUS
      <3> QED BY <3>1, <3>2, <3>4, <3>5, <3>6, <3>7 DEF PollInv, AreaType
    <2> QED BY <1>1, <1>3, <2>5, <2>6, <2>7, <2>8, TicketsExclude DEF IInv, TasInv, QueueInv
  <1> QED BY <1>4, <1>5

(* The thread that lets the lock go leaves the order.                       *)
LEMMA Leaves ==
    ASSUME IInv, NEW t \in Thread, Goto(t, "idle"), pc[t] = "unset", kind \in {"ticket", "drdpa"},
           UNCHANGED <<config, held, ownership, poll, nextTicket, my, queue>>
    PROVE  /\ OwnerInv' /\ TicketInv' /\ TasInv' /\ QueueInv'
           /\ Has(t) /\ ~Has(t)' /\ ~Claim(t)' /\ pc'[t] = "idle"
           /\ \A u \in Thread : u # t =>
                /\ Claim(u)' <=> Claim(u)
                /\ Has(u)' <=> Has(u)
                /\ ~Has(u) /\ pc'[u] = pc[u]
                /\ Claim(u) => my[u] > my[t]
  <1> USE DEF config, ownership, queue
  <1>1. Has(t) /\ \A u \in Thread : Has(u) => u = t
    BY DEF IInv, Exclusive, Has, Releasing
  <1>2. ~Has(t)' /\ ~Claim(t)' /\ pc'[t] = "idle"
    BY DEF Has, Claim, Woken, Releasing, Serving, Goto, IInv, TypeOK, OwnerInv
  <1>3. \A u \in Thread : u # t =>
                /\ Claim(u)' <=> Claim(u)
                /\ Has(u)' <=> Has(u)
                /\ pc'[u] = pc[u]
    BY DEF Claim, Has, Woken, IInv, TypeOK, Goto
  <1>4. \A u \in Thread : u # t /\ Claim(u) => my[u] > my[t]
    BY <1>1 DEF IInv, TypeOK, TicketInv, Claim
  <1>5. OwnerInv'
    BY GoesOn
  <1>6. TicketInv'
    BY <1>2, <1>3 DEF IInv, TypeOK, TicketInv, Testing
  <1>7. TasInv' /\ QueueInv'
    BY DEF TasInv, QueueInv
  <1> QED BY <1>1, <1>2, <1>3, <1>4, <1>5, <1>6, <1>7

LEMMA TicketReleaseInv == ASSUME IInv, NEW t \in Thread, TicketRelease(t) PROVE IInv'
  <1> USE ThreadNumbers DEF TicketRelease, At
  <1>1. kind = "ticket" /\ kind' = kind
    BY DEF config
  <1>2. /\ OwnerInv' /\ TicketInv' /\ TasInv' /\ QueueInv'
        /\ Has(t) /\ ~Has(t)' /\ ~Claim(t)' /\ pc'[t] = "idle"
        /\ \A u \in Thread : u # t =>
                /\ Claim(u)' <=> Claim(u)
                /\ Has(u)' <=> Has(u)
                /\ ~Has(u) /\ pc'[u] = pc[u]
                /\ Claim(u) => my[u] > my[t]
    BY <1>1, Leaves
  <1>3. TypeOK'
    BY DEF IInv, TypeOK, Within, Common, Goto, config, ownership, queue
  <1>4. NowInv'
    <2>1. nowServing = my[t] /\ my[t] < nextTicket
      BY <1>1, <1>2 DEF IInv, NowInv, TicketInv, Claim
    <2> QED BY <1>1, <1>2, <2>1 DEF IInv, TypeOK, NowInv
  <1>5. PollInv'
    BY <1>1 DEF PollInv
  <1> QED BY <1>1, <1>2, <1>3, <1>4, <1>5, TicketsExclude DEF IInv

-----------------------------------------------------------------------------
(* The queuing lock.                                                        *)
QueueStep(t) ==
    \/ QueueEnter(t) \/ QueueRead(t) \/ QueueReadTail(t) \/ QueueFirst(t) \/ QueueAppend(t)
    \/ QueueGrab(t) \/ QueueLink(t) \/ QueueWait(t) \/ QueueTest(t)
    \/ QueueRelRead(t) \/ QueueRelFree(t) \/ QueueRelReadTail(t) \/ QueueRelLast(t)
    \/ QueueRelNext(t) \/ QueueRelClear(t) \/ QueueRelWake(t)

(* The parts of the invariant that concern another kind of lock, and those  *)
(* that every step of a queuing lock preserves in the same way.             *)
LEMMA QueueFrame ==
    ASSUME IInv, NEW t \in Thread, QueueStep(t), kind = "queuing" => TypeOK' /\ OwnerInv' /\ Exclusive' /\ QueueInv'
    PROVE  IInv'
  <1>1. kind = "queuing" /\ kind' = kind
    BY DEF QueueStep, QueueEnter, QueueRead, QueueReadTail, QueueFirst, QueueAppend, QueueGrab,
       QueueLink, QueueWait, QueueTest, QueueRelRead, QueueRelFree, QueueRelReadTail, QueueRelLast,
       QueueRelNext, QueueRelClear, QueueRelWake, At, config
  <1> QED BY <1>1 DEF IInv, TasInv, TicketInv, NowInv, PollInv

LEMMA QueueEnterInv == ASSUME IInv, NEW t \in Thread, QueueEnter(t) PROVE IInv'
  <1> USE ThreadNumbers DEF QueueEnter, At, config, ownership, tickets
  <1>1. TypeOK'
    BY DEF IInv, TypeOK, Within, Common, Goto
  <1>2. OwnerInv'
    BY GoesOn
  <1>3. \A u \in Thread : Has(u)' <=> Has(u)
    BY DEF IInv, TypeOK, OwnerInv, Has, Woken, Releasing, Serving, Goto
  <1>4. \A u \in Thread : Enqueued(u)' <=> Enqueued(u)
    BY DEF IInv, TypeOK, Enqueued, Goto
  <1>5. \A u \in Thread : Named(u)' <=> Named(u)
    BY DEF IInv, TypeOK, Named, Goto
  <1>6. HeadInv' /\ LinkInv' /\ ReleaseInv' /\ EnterInv'
    BY <1>3, <1>4, <1>5 DEF IInv, TypeOK, QueueInv, HeadInv, LinkInv, ReleaseInv, EnterInv, Goto
  <1> QED BY <1>1, <1>2, <1>3, <1>6, QueueFrame DEF QueueStep, QueueInv, IInv, Exclusive

(* A thread on its way in, whose name is nowhere yet.                       *)
LEMMA OnItsWayInv ==
    ASSUME IInv, NEW t \in Thread, kind = "queuing",
           NEW x \in {"read", "readtail", "first", "append", "grab"}, Goto(t, x),
           pc[t] \in {"read", "readtail", "first", "append", "grab"}, x = "first" => tl'[t] = 0,
           UNCHANGED <<kind, mode, held, owner, depth, poll, headId, nextWaiting, spinHere>>,
           \A u \in Thread \ {t} : hd'[u] = hd[u] /\ tl'[u] = tl[u]
    PROVE  OwnerInv' /\ Exclusive' /\ QueueInv'
  <1> USE ThreadNumbers
  <1>1. OwnerInv'
    BY GoesOn
  <1>2. \A u \in Thread : Has(u)' <=> Has(u)
    BY DEF IInv, TypeOK, OwnerInv, Has, Woken, Releasing, Serving, Goto
  <1>3. \A u \in Thread : Enqueued(u)' <=> Enqueued(u)
    BY DEF IInv, TypeOK, Enqueued, Goto
  <1>4. \A u \in Thread : Named(u)' <=> Named(u)
    BY DEF IInv, TypeOK, Named, Goto
  <1>5. HeadInv' /\ LinkInv' /\ ReleaseInv' /\ EnterInv'
    BY <1>2, <1>3, <1>4 DEF IInv, TypeOK, QueueInv, HeadInv, LinkInv, ReleaseInv, EnterInv, Goto
  <1> QED BY <1>1, <1>2, <1>5 DEF IInv, Exclusive, QueueInv

LEMMA QueueReadInv == ASSUME IInv, NEW t \in Thread, QueueRead(t) PROVE IInv'
  <1> USE ThreadNumbers DEF QueueRead, At, config, ownership, tickets
  <1>1. TypeOK'
    BY DEF IInv, TypeOK, Within, Common, Goto
  <1>2. \E x \in {"read", "readtail", "first", "append", "grab"} : Goto(t, x)
    OBVIOUS
  <1> QED BY <1>1, <1>2, OnItsWayInv, QueueFrame DEF QueueStep, IInv, TypeOK

LEMMA QueueReadTailInv == ASSUME IInv, NEW t \in Thread, QueueReadTail(t) PROVE IInv'
  <1> USE ThreadNumbers DEF QueueReadTail, At, config, ownership, tickets
  <1>1. TypeOK'
    BY DEF IInv, TypeOK, Within, Common, Goto
  <1>2. \E x \in {"read", "append"} : Goto(t, x)
    OBVIOUS
  <1> QED BY <1>1, <1>2, OnItsWayInv, QueueFrame DEF QueueStep, IInv, TypeOK

LEMMA QueueFirstInv == ASSUME IInv, NEW t \in Thread, QueueFirst(t) PROVE IInv'
  <1> USE ThreadNumbers DEF QueueFirst, At, config, ownership, tickets
  <1>1. TypeOK'
    BY DEF IInv, TypeOK, Within, Common, Goto
  <1>2. CASE ~(headId = -1 /\ tailId = 0)
    BY <1>1, <1>2, OnItsWayInv, QueueFrame DEF QueueStep
  <1>3. CASE headId = -1 /\ tailId = 0
    <2>1. headId' = t /\ Goto(t, "link") /\ spinHere[t] /\ tl[t] = 0
      BY <1>3 DEF IInv, QueueInv, EnterInv
    <2>2. OwnerInv'
      BY <2>1, GoesOn
    <2>3. \A u \in Thread : Has(u)' <=> Has(u)
      BY <2>1 DEF IInv, TypeOK, OwnerInv, Has, Woken, Releasing, Serving, Goto
    <2>4. Enqueued(t)' /\ \A u \in Thread \ {t} : Enqueued(u)' <=> Enqueued(u)
      BY <2>1 DEF IInv, TypeOK, Enqueued, Goto
    <2>5. \A u \in Thread : Named(u)' <=> Named(u)
      BY <2>1 DEF IInv, TypeOK, Named, Goto
    <2>6. HeadInv' /\ LinkInv' /\ ReleaseInv' /\ EnterInv'
      BY <1>3, <2>1, <2>3, <2>4, <2>5
      DEF IInv, TypeOK, QueueInv, HeadInv, LinkInv, ReleaseInv, EnterInv, Enqueued, Goto
    <2> QED BY <1>1, <2>2, <2>3, <2>6, QueueFrame DEF QueueStep, QueueInv, IInv, Exclusive
  <1> QED BY <1>2, <1>3

LEMMA QueueAppendInv == ASSUME IInv, NEW t \in Thread, QueueAppend(t) PROVE IInv'
  <1> USE ThreadNumbers DEF QueueAppend, At, config, ownership, tickets
  <1>1. TypeOK'
    BY DEF IInv, TypeOK, Within, Common, Goto
  <1>2. CASE tailId # tl[t]
    BY <1>1, <1>2, OnItsWayInv, QueueFrame DEF QueueStep
  <1>3. CASE tailId = tl[t]
    <2>1. Goto(t, "link") /\ spinHere[t] /\ ~Enqueued(t)
      BY <1>3 DEF IInv, QueueInv, EnterInv, Enqueued
    <2>2. OwnerInv'
      BY <2>1, GoesOn
    <2>3. \A u \in Thread : Has(u)' <=> Has(u)
      BY <2>1 DEF IInv, TypeOK, OwnerInv, Has, Woken, Releasing, Serving, Goto
    <2>4. Enqueued(t)' /\ \A u \in Thread \ {t} : Enqueued(u)' <=> Enqueued(u)
      BY <2>1 DEF IInv, TypeOK, Enqueued, Goto
    <2>5. ~Named(t) /\ \A u \in Thread : Named(u)' <=> Named(u)
      BY <2>1 DEF IInv, TypeOK, Named, Goto, QueueInv, ReleaseInv
    <2>6. HeadInv' /\ LinkInv' /\ ReleaseInv' /\ EnterInv'
      BY <1>3, <2>1, <2>3, <2>4, <2>5
      DEF IInv, TypeOK, QueueInv, HeadInv, LinkInv, ReleaseInv, EnterInv, Goto
    <2> QED BY <1>1, <2>2, <2>3, <2>6, QueueFrame DEF QueueStep, QueueInv, IInv, Exclusive
  <1> QED BY <1>2, <1>3

(* The lock was free, so nobody else has it.                                *)
LEMMA QueueGrabInv == ASSUME IInv, NEW t \in Thread, QueueGrab(t) PROVE IInv'
  <1> USE ThreadNumbers DEF QueueGrab, At, config, ownership, tickets
  <1>1. kind = "queuing" /\ pc[t] = "grab"
    BY DEF IInv, TypeOK, Within, Common, AllKinds
  <1>2. TypeOK'
    <2>1. pc' \in [Thread -> Common \cup Within] /\ kind' = kind /\ Within' = Within
      <3>1. \E x \in {"idle", "own", "read"} : pc' = [pc EXCEPT ![t] = x]
        BY DEF Acquired, Goto
      <3> QED BY <1>1, <3>1 DEF IInv, TypeOK, Within, Common
    <2>2. /\ held' \in [Thread -> Nat] /\ headId' \in Thread \cup {0, -1}
          /\ spinHere' \in [Thread -> BOOLEAN]
      <3>1. CASE headId = 0
        <4>1. headId' = -1 /\ spinHere' = [spinHere EXCEPT ![t] = FALSE] /\ held' = [held EXCEPT ![t] = 1]
          BY <3>1 DEF Acquired, Goto
        <4> QED BY <4>1 DEF IInv, TypeOK
      <3>2. CASE headId # 0
        BY <3>2 DEF IInv, TypeOK
      <3> QED BY <3>1, <3>2
    <2> QED BY <2>1, <2>2 DEF IInv, TypeOK
  <1>3. CASE headId # 0
    BY <1>1, <1>2, <1>3, OnItsWayInv, QueueFrame DEF QueueStep
  <1>4. CASE headId = 0
    <2>1. Acquired(t) /\ headId' = -1
      BY <1>4
    <2>2. \A u \in Thread : ~Has(u)
      BY <1>1, <1>4 DEF IInv, QueueInv, HeadInv
    <2>3. OwnerInv'
      BY <1>1, <2>1, <2>2, Acquires
    <2>4. \A u \in Thread \ {t} : ~Has(u)'
      BY <2>1, <2>2 DEF IInv, TypeOK, Has, Woken, Acquired, Goto
    <2>5. \A u \in Thread : Enqueued(u)' <=> Enqueued(u)
      BY <1>1, <2>1 DEF IInv, TypeOK, Enqueued, Acquired, Goto
    <2>6. \A u \in Thread : Named(u)' <=> Named(u)
      BY <1>1, <2>1 DEF IInv, TypeOK, Named, Acquired, Goto
    <2>7. HeadInv'
      BY <2>1 DEF HeadInv
    <2>9. LinkInv'
      <3>1. \A u \in Thread : pc[u] \in {"wait", "clear"} => pc'[u] = pc[u] /\ spinHere'[u] = spinHere[u]
        BY <1>1, <1>4, <2>1 DEF IInv, TypeOK, Acquired, Goto
      <3>2. \A u \in Thread : nextWaiting[u] # headId'
        BY <2>1 DEF IInv, TypeOK
      <3> QED BY <1>1, <3>1, <3>2 DEF IInv, TypeOK, QueueInv, LinkInv
    <2>8. ReleaseInv' /\ EnterInv'
      <3>1. \A u \in Thread : pc[u] \notin Releasing /\ pc'[u] \notin Releasing
        BY <2>1, <2>2 DEF Has, IInv, TypeOK, Acquired, Goto, Releasing
      <3>2. \A u \in Thread \ {t} : pc'[u] = pc[u] /\ spinHere'[u] = spinHere[u]
        BY <1>4, <2>1 DEF IInv, TypeOK, Acquired, Goto
      <3>3. pc'[t] \in {"idle", "own"}
        BY <2>1 DEF IInv, TypeOK, Acquired, Goto
      <3>4. \A u \in Thread : headId' # u
        BY <2>1
      <3>5. ReleaseInv'
        BY <3>1 DEF ReleaseInv, Releasing
      <3> QED BY <2>6, <3>2, <3>3, <3>4, <3>5 DEF IInv, QueueInv, EnterInv
    <2> QED BY <1>2, <2>3, <2>4, <2>7, <2>8, <2>9, QueueFrame DEF QueueStep, QueueInv, Exclusive
  <1> QED BY <1>3, <1>4

LEMMA QueueTestInv == ASSUME IInv, NEW t \in Thread, QueueTest(t) PROVE IInv'
  <1> USE ThreadNumbers DEF QueueTest, At, config, ownership, tickets
  <1>1. TypeOK'
    BY DEF IInv, TypeOK, Within, Common, Goto, Acquired
  <1>2. \A u \in Thread : /\ Enqueued(u)' <=> Enqueued(u)
                          /\ Named(u)' <=> Named(u)
    BY DEF IInv, TypeOK, Enqueued, Named, Acquired, Goto
  <1>3. LinkInv' /\ ReleaseInv' /\ EnterInv' /\ (headId' \in Thread => Enqueued(headId)')
    BY <1>2 DEF IInv, TypeOK, QueueInv, HeadInv, LinkInv, ReleaseInv, EnterInv, Acquired, Goto
  <1>4. CASE headId # 0
    <2>1. OwnerInv'
      BY <1>4, GoesOn
    <2>2. \A u \in Thread : Has(u)' <=> Has(u)
      BY <1>4 DEF IInv, TypeOK, OwnerInv, Has, Woken, Releasing, Serving, Goto
    <2> QED BY <1>1, <1>3, <1>4, <2>1, <2>2, QueueFrame DEF QueueStep, QueueInv, HeadInv, IInv, Exclusive
  <1>5. CASE headId = 0
    <2>1. \A u \in Thread : ~Has(u)
      BY <1>5 DEF IInv, QueueInv, HeadInv
    <2>2. OwnerInv'
      BY <1>5, <2>1, Acquires
    <2>3. \A u \in Thread \ {t} : ~Has(u)'
      BY <1>5, <2>1 DEF IInv, TypeOK, Has, Woken, Acquired, Goto
    <2> QED BY <1>1, <1>3, <1>5, <2>2, <2>3, QueueFrame DEF QueueStep, QueueInv, HeadInv, Exclusive
  <1> QED BY <1>4, <1>5

(* A thread that links itself has not been named, so that its predecessor   *)
(* is the only one that names it from now on.                               *)
LEMMA QueueLinkInv == ASSUME IInv, NEW t \in Thread, QueueLink(t) PROVE IInv'
  <1> USE ThreadNumbers DEF QueueLink, At, config, ownership, tickets
  <1>1. TypeOK'
    BY DEF IInv, TypeOK, Within, Common, Goto
  <1>2. OwnerInv'
    BY GoesOn
  <1>3. \A u \in Thread : Has(u)' <=> Has(u)
    BY DEF IInv, TypeOK, OwnerInv, Has, Woken, Releasing, Serving, Goto
  <1>4. \A u \in Thread : /\ Enqueued(u)' <=> Enqueued(u)
                          /\ Named(u)' <=> Named(u)
    BY DEF IInv, TypeOK, Enqueued, Named, Goto
  <1>5. \A u \in Thread : nextWaiting[u] # t
    BY DEF IInv, TypeOK, QueueInv, LinkInv
  <1>6. CASE tl[t] = 0
    <2>1. UNCHANGED nextWaiting
      BY <1>6
    <2>2. HeadInv' /\ LinkInv'
      BY <1>3, <1>4, <2>1 DEF IInv, TypeOK, QueueInv, HeadInv, LinkInv, Goto
    <2>3. ReleaseInv' /\ EnterInv'
      BY <1>4, <2>1 DEF IInv, TypeOK, QueueInv, ReleaseInv, EnterInv, Goto
    <2> QED BY <1>1, <1>2, <1>3, <2>2, <2>3, QueueFrame DEF QueueStep, QueueInv, IInv, Exclusive
  <1>7. CASE tl[t] # 0
    <2>1. tl[t] \in Thread /\ nextWaiting' = [nextWaiting EXCEPT ![tl[t]] = t]
      BY <1>7 DEF IInv, TypeOK
    <2>2. headId # t /\ spinHere[t] /\ ~Named(t)
      BY <1>7 DEF IInv, QueueInv, EnterInv
    <2>3. LinkInv'
      BY <1>5, <2>1, <2>2 DEF IInv, TypeOK, QueueInv, LinkInv, Goto
    <2>4. ReleaseInv'
      BY <1>4, <2>1, <2>2 DEF IInv, TypeOK, QueueInv, ReleaseInv, Named, Goto
    <2>5. HeadInv' /\ EnterInv'
      BY <1>3, <1>4 DEF IInv, TypeOK, QueueInv, HeadInv, EnterInv, Goto
    <2> QED BY <1>1, <1>2, <1>3, <2>3, <2>4, <2>5, QueueFrame DEF QueueStep, QueueInv, IInv, Exclusive
  <1> QED BY <1>6, <1>7

LEMMA QueueWaitInv == ASSUME IInv, NEW t \in Thread, QueueWait(t) PROVE IInv'
  <1> USE ThreadNumbers DEF QueueWait, At, config, ownership, tickets, queue
  <1>1. TypeOK'
    BY DEF IInv, TypeOK, Within, Common, Goto, Acquired
  <1>2. Has(t) /\ \A u \in Thread : Has(u) => u = t
    BY DEF IInv, Exclusive, Has, Woken
  <1>3. OwnerInv'
    BY <1>2, Acquires
  <1>4. \A u \in Thread \ {t} : ~Has(u)'
    BY <1>2 DEF IInv, TypeOK, Has, Woken, Acquired, Goto
  <1>5. \A u \in Thread : /\ Enqueued(u)' <=> Enqueued(u)
                          /\ Named(u)' <=> Named(u)
    BY DEF IInv, TypeOK, Enqueued, Named, Acquired, Goto
  <1>6. headId # 0
    BY <1>2 DEF IInv, QueueInv, HeadInv
  <1>7. HeadInv' /\ LinkInv' /\ ReleaseInv' /\ EnterInv'
    BY <1>5, <1>6 DEF IInv, TypeOK, QueueInv, HeadInv, LinkInv, ReleaseInv, EnterInv, Acquired, Goto
  <1> QED BY <1>1, <1>3, <1>4, <1>7, QueueFrame DEF QueueStep, QueueInv, Exclusive

(* The thread that releases the lock reads the head, which is not 0, and    *)
(* the tail.                                                                *)
LEMMA QueueReadingInv ==
    ASSUME IInv, NEW t \in Thread, QueueRelRead(t) \/ QueueRelReadTail(t) PROVE IInv'
  <1> USE ThreadNumbers DEF QueueRelRead, QueueRelReadTail, At, config, ownership, tickets
  <1>1. kind = "queuing" /\ pc[t] \in {"unset", "reltail"} /\ \E x \in Releasing : Goto(t, x)
    BY DEF Releasing
  <1>2. TypeOK'
    BY DEF IInv, TypeOK, Within, Common, Goto
  <1>3. OwnerInv'
    BY <1>1, GoesOn DEF Releasing
  <1>4. Has(t) /\ \A u \in Thread : Has(u) => u = t
    BY <1>1 DEF IInv, Exclusive, Has, Releasing
  <1>5. \A u \in Thread : Has(u)' <=> Has(u)
    BY <1>1 DEF IInv, TypeOK, Has, Woken, Releasing, Goto
  <1>6. \A u \in Thread : Enqueued(u)' <=> Enqueued(u)
    BY <1>1 DEF IInv, TypeOK, Enqueued, Releasing, Goto
  <1>7. \A u \in Thread : Named(u)' <=> Named(u)
    BY DEF IInv, TypeOK, Named, Goto
  <1>8. headId # 0 /\ headId \in Thread \cup {-1}
    BY <1>1, <1>4 DEF IInv, TypeOK, QueueInv, HeadInv
  <1>9. HeadInv' /\ LinkInv' /\ ReleaseInv' /\ EnterInv'
    BY <1>5, <1>6, <1>7, <1>8
    DEF IInv, TypeOK, QueueInv, HeadInv, LinkInv, ReleaseInv, EnterInv, Goto
  <1> QED BY <1>2, <1>3, <1>5, <1>9, QueueFrame DEF QueueStep, QueueInv, IInv, Exclusive

LEMMA QueueRelFreeInv == ASSUME IInv, NEW t \in Thread, QueueRelFree(t) PROVE IInv'
  <1> USE ThreadNumbers DEF QueueRelFree, At, config, ownership, tickets
  <1>1. TypeOK'
    BY DEF IInv, TypeOK, Within, Common, Goto
  <1>2. OwnerInv'
    BY GoesOn
  <1>3. Has(t) /\ \A u \in Thread : Has(u) => u = t
    BY DEF IInv, Exclusive, Has, Releasing
  <1>4. \A u \in Thread \ {t} : ~Has(u)' /\ pc'[u] = pc[u]
    BY <1>3 DEF IInv, TypeOK, Has, Woken, Goto
  <1>5. \A u \in Thread : /\ Enqueued(u)' <=> Enqueued(u)
                          /\ Named(u)' <=> Named(u)
    BY DEF IInv, TypeOK, Enqueued, Named, Goto
  <1>6. headId = -1 => ~Has(t)'
    BY DEF IInv, TypeOK, OwnerInv, Has, Woken, Releasing, Serving, Goto
  <1>7. headId # 0 /\ \A u \in Thread : pc[u] \notin {"clear", "wake", "reltail", "rellast", "relnext"}
    BY <1>3 DEF IInv, QueueInv, HeadInv, Has, Releasing
  <1>8. HeadInv' /\ LinkInv' /\ ReleaseInv' /\ EnterInv'
    BY <1>4, <1>5, <1>6, <1>7
    DEF IInv, TypeOK, QueueInv, HeadInv, LinkInv, ReleaseInv, EnterInv, Goto
  <1> QED BY <1>1, <1>2, <1>4, <1>8, QueueFrame DEF QueueStep, QueueInv, Exclusive

(* The head becomes nobody, and the thread it was is about to be woken.     *)
LEMMA QueueRelLastInv == ASSUME IInv, NEW t \in Thread, QueueRelLast(t) PROVE IInv'
  <1> USE ThreadNumbers DEF QueueRelLast, At, config, ownership, tickets
  <1>1. TypeOK'
    BY DEF IInv, TypeOK, Within, Common, Goto
  <1>2. OwnerInv'
    BY GoesOn
  <1>3. Has(t) /\ \A u \in Thread : Has(u) => u = t
    BY DEF IInv, Exclusive, Has, Releasing
  <1>4. \A u \in Thread : Has(u)' <=> Has(u)
    BY DEF IInv, TypeOK, Has, Woken, Releasing, Goto
  <1>5. \A u \in Thread : Enqueued(u)' <=> Enqueued(u)
    BY DEF IInv, TypeOK, Enqueued, Goto
  <1>6. \A u \in Thread : pc[u] \in Releasing => u = t
    BY <1>3 DEF Has
  <1>7. hd[t] = headId /\ headId \in Thread /\ \A u \in Thread : nextWaiting[u] # headId
    BY <1>6 DEF IInv, QueueInv, ReleaseInv, LinkInv, Releasing
  <1>8. \A u \in Thread : ~Named(u)
    BY <1>6 DEF Named, Releasing
  <1>9. HeadInv' /\ LinkInv'
    BY <1>4, <1>5, <1>6, <1>7
    DEF IInv, TypeOK, QueueInv, HeadInv, LinkInv, Enqueued, Releasing, Goto
  <1>10. ReleaseInv'
    BY <1>5, <1>6, <1>7
    DEF IInv, TypeOK, QueueInv, HeadInv, ReleaseInv, Releasing, Goto
  <1>11. EnterInv'
    <2>1. \A u \in Thread : Named(u)' => u = headId
      BY <1>6, <1>7, <1>8 DEF Named, Releasing, Goto, IInv, TypeOK
    <2> QED BY <2>1 DEF IInv, TypeOK, QueueInv, EnterInv, Goto
  <1> QED BY <1>1, <1>2, <1>4, <1>9, <1>10, <1>11, QueueFrame DEF QueueStep, QueueInv, IInv, Exclusive

(* The next thread in the queue becomes the head.                           *)
LEMMA QueueRelNextInv == ASSUME IInv, NEW t \in Thread, QueueRelNext(t) PROVE IInv'
  <1> USE ThreadNumbers DEF QueueRelNext, At, config, ownership, tickets
  <1>1. TypeOK'
    BY DEF IInv, TypeOK, QueueInv, ReleaseInv, Within, Common, Goto
  <1>2. OwnerInv'
    BY GoesOn
  <1>3. Has(t) /\ \A u \in Thread : Has(u) => u = t
    BY DEF IInv, Exclusive, Has, Releasing
  <1>4. \A u \in Thread : Has(u)' <=> Has(u)
    BY DEF IInv, TypeOK, Has, Woken, Releasing, Goto
  <1>5. \A u \in Thread : Enqueued(u)' <=> Enqueued(u)
    BY DEF IInv, TypeOK, Enqueued, Goto
  <1>6. \A u \in Thread : pc[u] \in Releasing => u = t
    BY <1>3 DEF Has
  <1>7. hd[t] = headId /\ headId \in Thread /\ \A u \in Thread : nextWaiting[u] # headId
    BY <1>6 DEF IInv, QueueInv, ReleaseInv, LinkInv, Releasing
  <1>8. /\ headId' \in Thread /\ headId' = nextWaiting[headId] /\ headId' # headId
        /\ pc[headId'] = "wait" /\ spinHere[headId']
    BY <1>7 DEF IInv, TypeOK, QueueInv, LinkInv
  <1>9. HeadInv'
    BY <1>5, <1>8 DEF HeadInv, Enqueued, Goto, IInv, TypeOK
  <1>10. LinkInv'
    BY <1>7, <1>8 DEF IInv, TypeOK, QueueInv, LinkInv, Goto
  <1>11. ReleaseInv'
    BY <1>5, <1>6, <1>7, <1>8
    DEF IInv, TypeOK, QueueInv, HeadInv, ReleaseInv, Releasing, Goto
  <1>12. EnterInv'
    <2>1. \A u \in Thread : Named(u)' => u = headId
      BY <1>6, <1>7 DEF Named, Releasing, Goto, IInv, TypeOK
    <2> QED BY <1>8, <2>1 DEF IInv, TypeOK, QueueInv, EnterInv, Goto
  <1> QED BY <1>1, <1>2, <1>4, <1>9, <1>10, <1>11, <1>12, QueueFrame DEF QueueStep, QueueInv, IInv, Exclusive

LEMMA QueueRelClearInv == ASSUME IInv, NEW t \in Thread, QueueRelClear(t) PROVE IInv'
  <1> USE ThreadNumbers DEF QueueRelClear, At, config, ownership, tickets
  <1>1. TypeOK'
    BY DEF IInv, TypeOK, Within, Common, Goto
  <1>2. OwnerInv'
    BY GoesOn
  <1>3. Has(t) /\ \A u \in Thread : Has(u) => u = t
    BY DEF IInv, Exclusive, Has, Releasing
  <1>4. \A u \in Thread : Has(u)' <=> Has(u)
    BY DEF IInv, TypeOK, Has, Woken, Releasing, Goto
  <1>5. \A u \in Thread : /\ Enqueued(u)' <=> Enqueued(u)
                          /\ Named(u)' <=> Named(u)
    BY DEF IInv, TypeOK, Enqueued, Named, Goto
  <1>6. \A u \in Thread : pc[u] \in Releasing => u = t
    BY <1>3 DEF Has
  <1>7. hd[t] \in Thread /\ nextWaiting'[hd[t]] = 0
        /\ \A u \in Thread : u # hd[t] => nextWaiting'[u] = nextWaiting[u]
    BY DEF IInv, TypeOK, QueueInv, ReleaseInv
  <1>8. \A u \in Thread : nextWaiting'[u] # 0 => headId # nextWaiting'[u]
    BY <1>6, <1>7 DEF IInv, QueueInv, LinkInv, Releasing
  <1>9. HeadInv' /\ ReleaseInv' /\ EnterInv'
    BY <1>4, <1>5, <1>7 DEF IInv, TypeOK, QueueInv, HeadInv, ReleaseInv, EnterInv, Goto
  <1>10. LinkInv'
    BY <1>7, <1>8 DEF IInv, TypeOK, QueueInv, LinkInv, Goto
  <1> QED BY <1>1, <1>2, <1>4, <1>9, <1>10, QueueFrame DEF QueueStep, QueueInv, IInv, Exclusive

(* The lock passes to the thread whose spinning ends.                       *)
LEMMA QueueRelWakeInv == ASSUME IInv, NEW t \in Thread, QueueRelWake(t) PROVE IInv'
  <1> USE ThreadNumbers DEF QueueRelWake, At, config, ownership, tickets
  <1>1. TypeOK'
    BY DEF IInv, TypeOK, Within, Common, Goto
  <1>2. OwnerInv'
    BY GoesOn
  <1>3. Has(t) /\ \A u \in Thread : Has(u) => u = t
    BY DEF IInv, Exclusive, Has, Releasing
  <1>4. /\ hd[t] \in Thread /\ Enqueued(hd[t]) /\ headId # hd[t] /\ hd[t] # t
        /\ \A u \in Thread : nextWaiting[u] # hd[t]
    BY DEF IInv, QueueInv, ReleaseInv, Enqueued
  <1>5. \A u \in Thread : Has(u)' => u = hd[t]
    BY <1>3, <1>4 DEF IInv, TypeOK, OwnerInv, Has, Woken, Releasing, Serving, Goto
  <1>6. \A u \in Thread : u # hd[t] => (Enqueued(u)' <=> Enqueued(u))
    BY <1>4 DEF IInv, TypeOK, Enqueued, Goto
  <1>7. \A u \in Thread : pc[u] \in Releasing => u = t
    BY <1>3 DEF Has
  <1>8. \A u \in Thread : ~Named(u)'
    BY <1>7 DEF Named, Releasing, Goto, IInv, TypeOK
  <1>9. headId # 0
    BY <1>3 DEF IInv, QueueInv, HeadInv
  <1>10. HeadInv'
    BY <1>4, <1>6, <1>9 DEF IInv, QueueInv, HeadInv
  <1>11. LinkInv'
    BY <1>4 DEF IInv, TypeOK, QueueInv, LinkInv, Goto
  <1>12. ReleaseInv'
    BY <1>7 DEF IInv, TypeOK, ReleaseInv, Releasing, Goto
  <1>13. EnterInv'
    <2>1. Named(hd[t])
      BY DEF Named
    <2> QED BY <1>4, <1>8, <2>1 DEF IInv, TypeOK, QueueInv, EnterInv, Enqueued, Goto
  <1> QED BY <1>1, <1>2, <1>5, <1>10, <1>11, <1>12, <1>13, QueueFrame DEF QueueStep, QueueInv, Exclusive

LEMMA QueueStepInv == ASSUME IInv, NEW t \in Thread, QueueStep(t) PROVE IInv'
  BY QueueEnterInv, QueueReadInv, QueueReadTailInv, QueueFirstInv, QueueAppendInv, QueueGrabInv,
     QueueLinkInv, QueueWaitInv, QueueTestInv, QueueReadingInv, QueueRelFreeInv, QueueRelLastInv,
     QueueRelNextInv, QueueRelClearInv, QueueRelWakeInv DEF QueueStep

-----------------------------------------------------------------------------
(* The DRDPA lock.  A waiter that looks into its slot keeps its ticket, and *)
(* is let in only when no thread has one before it.                         *)
LEMMA WaiterFrame ==
    ASSUME IInv, NEW t \in Thread, NEW x \in {"mask", "polls", "look", "serve"}, Goto(t, x),
           kind = "drdpa", pc[t] \in {"mask", "polls", "look"},
           x = "serve" => \A u \in Thread : Claim(u) => my[t] <= my[u],
           UNCHANGED <<config, held, ownership, poll, tickets, queue, area, polls>>
    PROVE  /\ OwnerInv' /\ TicketInv' /\ NowInv' /\ TasInv' /\ QueueInv'
           /\ p' \in [Thread -> DOMAIN area] /\ PollsInsideArea' => PollInv'
  <1> USE DEF config, ownership, tickets, queue
  <1>1. \A u \in Thread \ {t} : /\ Claim(u)' <=> Claim(u)
                                /\ Has(u)' <=> Has(u)
                                /\ pc'[u] = pc[u]
    BY DEF Claim, Has, Woken, IInv, TypeOK, Goto
  <1>2. Claim(t) /\ Claim(t)' /\ pc'[t] = x /\ (Has(t)' => x = "serve")
    BY DEF Claim, Goto, IInv, TypeOK, OwnerInv, Has, Woken, Releasing, Serving
  <1>3. OwnerInv'
    BY GoesOn
  <1>4. TicketInv'
    BY <1>1, <1>2 DEF IInv, TypeOK, TicketInv, Testing
  <1>5. NowInv' /\ TasInv' /\ QueueInv'
    BY DEF TasInv, QueueInv, NowInv
  <1>6. ASSUME p' \in [Thread -> DOMAIN area], PollsInsideArea' PROVE PollInv'
    <2>1. \A v : Posted(v) => Posted(v)'
      BY <1>1, <1>2 DEF Posted
    <2>2. AreaType'
      BY <1>6 DEF IInv, PollInv, AreaType
    <2>3. \A u \in Thread : Has(u)' /\ pc'[u] # "serve" => nowServing = my[u]
      BY <1>1, <1>2 DEF IInv, PollInv
    <2> QED BY <1>6, <2>1, <2>2, <2>3 DEF IInv, PollInv
  <1> QED BY <1>3, <1>4, <1>5, <1>6

LEMMA ReadMaskInv == ASSUME IInv, NEW t \in Thread, ReadMask(t) PROVE IInv'
  <1> USE ThreadNumbers DEF ReadMask, At
  <1>1. TypeOK'
    BY DEF IInv, TypeOK, Within, Common, Goto, config, ownership, tickets, queue
  <1>2. p' \in [Thread -> DOMAIN area] /\ PollsInsideArea'
    <2>1. p' \in [Thread -> DOMAIN area]
      BY DEF IInv, PollInv, AreaType
    <2>2. \A u \in Thread : pc'[u] \in {"look", "testlook"} => u # t /\ pc[u] \in {"look", "testlook"}
      BY DEF IInv, TypeOK, Goto
    <2>3. \A u \in Thread : u # t => m'[u] = m[u]
      OBVIOUS
    <2>4. UNCHANGED <<my, area, p>>
      BY DEF tickets
    <2> QED BY <2>1, <2>2, <2>3, <2>4 DEF IInv, PollInv, PollsInsideArea, Reachable, Index
  <1> QED BY <1>1, <1>2, WaiterFrame, TicketsExclude DEF IInv, config

LEMMA ReadPollsInv == ASSUME IInv, NEW t \in Thread, ReadPolls(t), PollsInsideArea' PROVE IInv'
  <1> USE ThreadNumbers DEF ReadPolls, At
  <1>1. TypeOK'
    BY DEF IInv, TypeOK, Within, Common, Goto, config, ownership, tickets, queue
  <1>2. p' \in [Thread -> DOMAIN area]
    BY DEF IInv, PollInv, AreaType
  <1> QED BY <1>1, <1>2, WaiterFrame, TicketsExclude DEF IInv, config

(* What a thread finds in a slot of a live area is a ticket that every      *)
(* waiter has reached.                                                      *)
LEMMA SlotPosted ==
    ASSUME IInv, NEW t \in Thread, kind = "drdpa", pc[t] \in {"look", "testlook"}
    PROVE  /\ Reachable(p[t], Index(my[t], m[t]))
           /\ Posted(area[p[t]].slots[Index(my[t], m[t]) + 1])
           /\ area[p[t]].slots[Index(my[t], m[t]) + 1] \in Nat
  <1>1. Reachable(p[t], Index(my[t], m[t]))
    BY DEF IInv, PollInv, PollsInsideArea
  <1>2. p[t] \in DOMAIN area /\ Index(my[t], m[t]) + 1 \in DOMAIN area[p[t]].slots
    BY <1>1 DEF Reachable, IInv, PollInv, AreaType
  <1> QED BY <1>1, <1>2 DEF IInv, PollInv, AreaType

LEMMA LookInv == ASSUME IInv, NEW t \in Thread, Look(t) PROVE IInv'
  <1> USE ThreadNumbers DEF Look, At
  <1> DEFINE v == area[p[t]].slots[Index(my[t], m[t]) + 1]
  <1>1. (Goto(t, "serve") /\ v >= my[t]) \/ Goto(t, "mask")
    BY SlotPosted DEF Found
  <1>2. PICK x \in {"serve", "mask"} : Goto(t, x) /\ (x = "serve" => v >= my[t])
    BY <1>1
  <1>3. v >= my[t] => \A u \in Thread : Claim(u) => my[t] <= my[u]
    BY SlotPosted DEF Posted, IInv, TypeOK
  <1>4. TypeOK'
    BY <1>2 DEF IInv, TypeOK, Within, Common, Goto, config, ownership, tickets, queue
  <1>5. p' \in [Thread -> DOMAIN area] /\ PollsInsideArea'
    <2>1. p' \in [Thread -> DOMAIN area]
      BY DEF IInv, PollInv, AreaType, polling
    <2>2. \A u \in Thread : pc'[u] \in {"look", "testlook"} => pc[u] \in {"look", "testlook"}
      BY <1>2 DEF IInv, TypeOK, Goto
    <2>3. UNCHANGED <<my, area, p, m>>
      BY DEF tickets, polling
    <2> QED BY <2>1, <2>2, <2>3 DEF IInv, PollInv, PollsInsideArea, Reachable, Index
  <1> HIDE DEF v
  <1>6. UNCHANGED <<area, polls>>
    BY DEF polling
  <1>7. /\ OwnerInv' /\ TicketInv' /\ NowInv' /\ TasInv' /\ QueueInv'
        /\ p' \in [Thread -> DOMAIN area] /\ PollsInsideArea' => PollInv'
    BY <1>2, <1>3, <1>6, WaiterFrame
  <1> QED BY <1>4, <1>5, <1>7, TicketsExclude DEF IInv, config

(* A test has no ticket yet.                                                *)
TestStep(t) == TestReadPolls(t) \/ (TestReadMask(t) /\ PollsInsideArea') \/ TestLook(t)

LEMMA TestStepInv == ASSUME IInv, NEW t \in Thread, TestStep(t) PROVE IInv'
  <1> USE ThreadNumbers DEF TestStep, TestReadPolls, TestReadMask, TestLook, At
  <1> DEFINE v == area[p[t]].slots[Index(my[t], m[t]) + 1]
  <1>1. /\ kind = "drdpa" /\ kind' = kind /\ pc[t] \in {"testpolls", "testmask", "testlook"}
        /\ UNCHANGED <<config, held, calls, ownership, poll, tickets, queue, area, polls>>
    BY DEF config, polling
  <1>2. \/ pc[t] = "testpolls" /\ Goto(t, "testmask") /\ p' = [p EXCEPT ![t] = polls]
        \/ pc[t] = "testmask" /\ Goto(t, "testlook") /\ UNCHANGED p /\ PollsInsideArea'
        \/ pc[t] = "testlook" /\ Goto(t, "testcas") /\ UNCHANGED <<p, m>> /\ v = my[t]
        \/ pc[t] = "testlook" /\ Goto(t, "idle") /\ UNCHANGED <<p, m>>
    BY SlotPosted DEF Found, polling
  <1>3. PICK x \in {"testmask", "testlook", "testcas", "idle"} :
          Goto(t, x) /\ (x = "testcas" => pc[t] = "testlook" /\ v = my[t])
    BY <1>2
  <1>4. ~Claim(t) /\ ~Claim(t)'
    BY <1>1, <1>3 DEF Claim, Has, Woken, Releasing, Serving, IInv, TypeOK, OwnerInv, Goto, tickets
  <1>5. my' = [my EXCEPT ![t] = my'[t]] /\ my'[t] \in Nat /\ my'[t] = my[t] /\ my[t] <= nextTicket
    BY <1>1 DEF IInv, TypeOK, TicketInv, Testing, tickets
  <1>6. x = "testcas" => \A u \in Thread : Claim(u) => my'[t] <= my[u]
    BY <1>1, <1>3, <1>5, SlotPosted DEF Posted, IInv, TypeOK
  <1>7. TypeOK'
    BY <1>1, <1>3 DEF IInv, TypeOK, Within, Common, Goto, config, ownership, tickets, queue
  <1>8. PollsInsideArea'
    <2>1. CASE pc[t] = "testmask"
      BY <1>2, <2>1
    <2>2. CASE pc[t] # "testmask"
      <3>1. \A u \in Thread : pc'[u] \in {"look", "testlook"} => u # t /\ pc'[u] = pc[u]
        BY <1>1, <1>2, <2>2 DEF IInv, TypeOK, Goto
      <3>2. \A u \in Thread : u # t => p'[u] = p[u] /\ m'[u] = m[u]
        BY <1>1, <1>2, <2>2 DEF IInv, PollInv, AreaType
      <3>3. UNCHANGED <<my, area>>
        BY <1>1 DEF tickets
      <3> QED BY <1>1, <3>1, <3>2, <3>3 DEF IInv, PollInv, PollsInsideArea, Reachable, Index
    <2> QED BY <2>1, <2>2
  <1>9. AreaType'
    BY <1>1, <1>2 DEF IInv, PollInv, AreaType
  <1> HIDE DEF v, TestStep, TestReadPolls, TestReadMask, TestLook
  <1>10. /\ OwnerInv' /\ TicketInv' /\ NowInv' /\ TasInv' /\ QueueInv'
         /\ \A w \in Nat : Posted(w) => Posted(w)'
         /\ \A u \in Thread \ {t} : Has(u)' <=> Has(u)
    <2>1. UNCHANGED <<config, held, ownership, poll, nextTicket, nowServing, queue>>
      BY <1>1 DEF tickets
    <2>2. pc[t] \notin {"idle", "own"} /\ x # "own" /\ (x \in Testing => my'[t] <= nextTicket)
      BY <1>1, <1>5
    <2> QED BY <1>1, <1>3, <1>4, <1>5, <1>6, <2>1, <2>2, TicketFrame
  <1>11. PollInv'
    <2>1. \A u \in Thread : Has(u)' => u # t /\ Has(u) /\ my'[u] = my[u] /\ pc'[u] = pc[u]
      BY <1>1, <1>3, <1>4, <1>10 DEF Claim, Goto, IInv, TypeOK, tickets
    <2>2. UNCHANGED <<area, nowServing>>
      BY <1>1 DEF tickets
    <2> QED BY <1>1, <1>8, <1>9, <1>10, <2>1, <2>2 DEF IInv, PollInv, AreaType
  <1> QED BY <1>1, <1>7, <1>10, <1>11, TicketsExclude DEF IInv

(* The thread that has the lock stays the first while it serves its ticket. *)
LEMMA HolderFrame ==
    ASSUME IInv, NEW t \in Thread, kind = "drdpa", pc[t] \in Serving,
           Acquired(t) \/ (Goto(t, "pubmask") /\ UNCHANGED held) \/ (Goto(t, "pubcleanup") /\ UNCHANGED held),
           nowServing' = my[t], UNCHANGED <<config, ownership, poll, nextTicket, my, queue>>
    PROVE  /\ OwnerInv' /\ TicketInv' /\ NowInv' /\ TasInv' /\ QueueInv'
           /\ \A v : Posted(v) => Posted(v)'
           /\ Posted(my[t])
           /\ \A u \in Thread : Has(u)' => nowServing' = my'[u]
           /\ \A u \in Thread : pc'[u] \notin {"look", "testlook"} \/ pc'[u] = pc[u]
  <1> USE DEF config, ownership, queue
  <1>1. Has(t) /\ Claim(t) /\ \A u \in Thread : Has(u) => u = t
    BY DEF IInv, Exclusive, Has, Claim
  <1>2. \A u \in Thread \ {t} : /\ Claim(u)' <=> Claim(u)
                                /\ ~Has(u)'
                                /\ pc'[u] = pc[u]
    BY <1>1 DEF Claim, Has, Woken, IInv, TypeOK, Goto, Acquired
  <1>3. Has(t)' /\ Claim(t)' /\ pc'[t] \in {"idle", "own", "pubmask", "pubcleanup"}
    BY DEF IInv, TypeOK, Has, Claim, Serving, Goto, Acquired
  <1>4. OwnerInv'
    <2>1. CASE Acquired(t)
      BY <1>1, <2>1, Acquires DEF Serving
    <2>2. CASE Goto(t, "pubmask") /\ UNCHANGED held
      BY <2>2, GoesOn DEF Serving
    <2>3. CASE Goto(t, "pubcleanup") /\ UNCHANGED held
      BY <2>3, GoesOn DEF Serving
    <2> QED BY <2>1, <2>2, <2>3
  <1>5. TicketInv'
    BY <1>1, <1>2, <1>3 DEF IInv, TypeOK, TicketInv, Testing
  <1>6. NowInv' /\ TasInv' /\ QueueInv'
    BY DEF TasInv, QueueInv, NowInv
  <1>7. \A v : Posted(v) => Posted(v)'
    BY <1>1, <1>2, <1>3 DEF Posted
  <1>8. Posted(my[t])
    BY <1>1 DEF Posted, IInv, TypeOK, TicketInv
  <1>9. \A u \in Thread : Has(u)' => nowServing' = my'[u]
    BY <1>2
  <1>10. \A u \in Thread : pc'[u] \notin {"look", "testlook"} \/ pc'[u] = pc[u]
    BY <1>2, <1>3
  <1> QED BY <1>4, <1>5, <1>6, <1>7, <1>8, <1>9, <1>10

(* What serving a ticket does to the areas: it adds one, or it frees one.   *)
(* The slots of the new one are tickets that have come, or 0.               *)
LEMMA PublishAreas ==
    ASSUME IInv, NEW t \in Thread, kind = "drdpa", Has(t), Posted(my[t]), NEW slots, Publish(t, slots),
           slots \in [DOMAIN slots -> Nat], \A i \in DOMAIN slots : Posted(slots[i]), UNCHANGED p
    PROVE  AreaType' /\ \A a \in DOMAIN area' : \A i \in DOMAIN area'[a].slots : Posted(area'[a].slots[i])
  <1>1. AreaType /\ \A a \in DOMAIN area : \A i \in DOMAIN area[a].slots : Posted(area[a].slots[i])
    BY DEF IInv, PollInv
  <1>2. DOMAIN area' = 1..(Len(area) + 1) /\ Len(area') = Len(area) + 1 /\ Len(area') \in Nat
    BY <1>1 DEF Publish, AreaType
  <1>3. \A a \in DOMAIN area :
          /\ a \in DOMAIN area' /\ area'[a].slots = area[a].slots
          /\ area'[a] \in [slots : {area[a].slots}, live : BOOLEAN]
    <2> SUFFICES ASSUME NEW a \in DOMAIN area
                 PROVE  /\ a \in DOMAIN area' /\ area'[a].slots = area[a].slots
                        /\ area'[a] \in [slots : {area[a].slots}, live : BOOLEAN]
      OBVIOUS
    <2>1. a \in 1..(Len(area) + 1) /\ ~(a > Len(area))
      BY <1>1 DEF AreaType
    <2>2. area'[a] = IF a = oldPolls THEN [area[a] EXCEPT !.live = FALSE] ELSE area[a]
      BY <2>1 DEF Publish
    <2>3. area[a] \in [slots : {area[a].slots}, live : BOOLEAN]
      BY <1>1 DEF AreaType
    <2> QED BY <1>2, <2>1, <2>2, <2>3
  <1>4. area'[Len(area) + 1] = [slots |-> slots, live |-> TRUE]
    BY <1>1, <1>2 DEF Publish, AreaType
  <1>5. polls' \in DOMAIN area' /\ p' \in [Thread -> DOMAIN area']
    BY <1>1, <1>2, <1>3 DEF Publish, AreaType
  <1>6. \A a \in DOMAIN area' : a \in DOMAIN area \/ a = Len(area) + 1
    BY <1>1, <1>2 DEF AreaType
  <1>7. area'[Len(area) + 1].slots = slots
        /\ area'[Len(area) + 1] \in [slots : {slots}, live : BOOLEAN]
    BY <1>4
  <1> QED BY <1>1, <1>2, <1>3, <1>5, <1>6, <1>7 DEF AreaType

LEMMA FreeAreas ==
    ASSUME IInv, NEW t \in Thread, kind = "drdpa", FreeOldPolls(t), UNCHANGED p
    PROVE  AreaType' /\ \A a \in DOMAIN area' : \A i \in DOMAIN area'[a].slots : Posted(area'[a].slots[i])
  <1>1. AreaType /\ \A a \in DOMAIN area : \A i \in DOMAIN area[a].slots : Posted(area[a].slots[i])
    BY DEF IInv, PollInv
  <1>2. DOMAIN area' = DOMAIN area /\ Len(area') = Len(area)
    BY <1>1 DEF FreeOldPolls, AreaType
  <1>3. \A a \in DOMAIN area :
          /\ area'[a].slots = area[a].slots
          /\ area'[a] \in [slots : {area[a].slots}, live : BOOLEAN]
    BY <1>1 DEF FreeOldPolls, AreaType
  <1> QED BY <1>1, <1>2, <1>3 DEF AreaType, FreeOldPolls

LEMMA ServeInv == ASSUME IInv, NEW t \in Thread, Serve(t), PollsInsideArea' PROVE IInv'
  <1> USE ThreadNumbers
  <1>1. /\ kind = "drdpa" /\ kind' = kind /\ pc[t] = "serve" /\ Has(t) /\ nowServing' = my[t]
        /\ UNCHANGED <<config, calls, ownership, poll, nextTicket, my, queue, p>>
    BY DEF Serve, At, config, Has, Serving
  <1>2. \/ Publish(t, <<my[t]>>)
        \/ \E n : Publish(t, [i \in 1..n |-> IF i \in DOMAIN area[polls].slots
                                             THEN area[polls].slots[i] ELSE 0])
        \/ FreeOldPolls(t) /\ Acquired(t)
    BY DEF Serve
  <1>3. Acquired(t) \/ (Goto(t, "pubmask") /\ UNCHANGED held)
    BY <1>2 DEF Publish
  <1>4. /\ OwnerInv' /\ TicketInv' /\ NowInv' /\ TasInv' /\ QueueInv'
        /\ \A v : Posted(v) => Posted(v)'
        /\ Posted(my[t])
        /\ \A u \in Thread : Has(u)' => nowServing' = my'[u]
    BY <1>1, <1>3, HolderFrame DEF Serving
  <1>5. AreaType' /\ \A a \in DOMAIN area' : \A i \in DOMAIN area'[a].slots : Posted(area'[a].slots[i])
    <2>1. CASE Publish(t, <<my[t]>>)
      <3>1. <<my[t]>> \in [DOMAIN <<my[t]>> -> Nat] /\ \A i \in DOMAIN <<my[t]>> : Posted(<<my[t]>>[i])
        BY <1>4 DEF IInv, TypeOK
      <3> QED BY <1>1, <1>4, <2>1, <3>1, PublishAreas
    <2>2. ASSUME NEW n, Publish(t, [i \in 1..n |-> IF i \in DOMAIN area[polls].slots
                                                   THEN area[polls].slots[i] ELSE 0])
          PROVE  AreaType' /\ \A a \in DOMAIN area' : \A i \in DOMAIN area'[a].slots : Posted(area'[a].slots[i])
      <3> DEFINE slots == [i \in 1..n |-> IF i \in DOMAIN area[polls].slots
                                          THEN area[polls].slots[i] ELSE 0]
      <3>1. Posted(0)
        BY DEF Posted, IInv, TypeOK
      <3>2. /\ \A i \in DOMAIN area[polls].slots : Posted(area[polls].slots[i])
            /\ area[polls].slots \in [DOMAIN area[polls].slots -> Nat]
        BY <1>1 DEF IInv, PollInv, AreaType
      <3>3. \A i \in 1..n : slots[i] \in Nat /\ Posted(slots[i])
        BY <3>1, <3>2
      <3>4. DOMAIN slots = 1..n /\ slots \in [1..n -> Nat]
        BY <3>3
      <3>5. Publish(t, slots)
        BY <2>2
      <3> HIDE DEF slots
      <3> QED BY <1>1, <1>4, <3>3, <3>4, <3>5, PublishAreas
    <2>3. CASE FreeOldPolls(t)
      BY <1>1, <2>3, FreeAreas
    <2> QED BY <1>2, <2>1, <2>2, <2>3
  <1>6. PollInv'
    BY <1>4, <1>5 DEF PollInv
  <1>7. TypeOK'
    BY <1>1, <1>3 DEF IInv, TypeOK, Within, Common, Goto, Acquired, config, ownership, queue
  <1> QED BY <1>1, <1>4, <1>6, <1>7, TicketsExclude DEF IInv

(* The mask of the new area, and how long the old one is kept.              *)
LEMMA PublishedInv ==
    ASSUME IInv, NEW t \in Thread, PublishMask(t) \/ PublishCleanup(t) PROVE IInv'
  <1> USE ThreadNumbers
  <1>1. /\ kind = "drdpa" /\ kind' = kind /\ pc[t] \in {"pubmask", "pubcleanup"}
        /\ UNCHANGED <<config, calls, ownership, poll, tickets, queue, area, polls, p, m>>
        /\ Acquired(t) \/ (Goto(t, "pubcleanup") /\ UNCHANGED held)
    BY DEF PublishMask, PublishCleanup, At, config
  <1>2. nowServing' = my[t]
    BY <1>1 DEF IInv, PollInv, Has, Serving, tickets
  <1>3. /\ OwnerInv' /\ TicketInv' /\ NowInv' /\ TasInv' /\ QueueInv'
        /\ \A v : Posted(v) => Posted(v)'
        /\ \A u \in Thread : Has(u)' => nowServing' = my'[u]
        /\ \A u \in Thread : pc'[u] \notin {"look", "testlook"} \/ pc'[u] = pc[u]
    BY <1>1, <1>2, HolderFrame DEF Serving, tickets
  <1>4. PollsInsideArea'
    BY <1>1, <1>3 DEF IInv, PollInv, PollsInsideArea, Reachable, Index, tickets
  <1>5. PollInv'
    BY <1>1, <1>3, <1>4 DEF IInv, PollInv, AreaType
  <1>6. TypeOK'
    BY <1>1 DEF IInv, TypeOK, Within, Common, Goto, Acquired, config, ownership, tickets, queue
  <1> QED BY <1>1, <1>3, <1>5, <1>6, TicketsExclude DEF IInv

(* The next ticket is posted: it is that of the first waiter, if there is   *)
(* one.                                                                     *)
LEMMA DrdpaReleaseInv == ASSUME IInv, NEW t \in Thread, DrdpaRelease(t) PROVE IInv'
  <1> USE ThreadNumbers
  <1>1. /\ kind = "drdpa" /\ kind' = kind /\ pc[t] = "unset" /\ Goto(t, "idle")
        /\ UNCHANGED <<config, held, calls, ownership, poll, tickets, queue, polls, p, m>>
    BY DEF DrdpaRelease, At, config
  <1>2. /\ OwnerInv' /\ TicketInv' /\ TasInv' /\ QueueInv'
        /\ Has(t) /\ ~Has(t)' /\ ~Claim(t)' /\ pc'[t] = "idle"
        /\ \A u \in Thread : u # t =>
                /\ Claim(u)' <=> Claim(u)
                /\ Has(u)' <=> Has(u)
                /\ ~Has(u) /\ pc'[u] = pc[u]
                /\ Claim(u) => my[u] > my[t]
    BY <1>1, Leaves DEF tickets
  <1>3. nowServing = my[t] /\ my[t] < nextTicket /\ my[t] \in Nat
    BY <1>1, <1>2 DEF IInv, TypeOK, PollInv, TicketInv, Claim
  <1>17. PICK ticket \in Nat : ticket = my[t] + 1
    BY <1>3
  <1> DEFINE slot == Index(ticket, mask) + 1
             old == area[polls].slots
  <1>4. AreaType /\ \A a \in DOMAIN area : \A i \in DOMAIN area[a].slots : Posted(area[a].slots[i])
    BY <1>1 DEF IInv, PollInv
  <1>5. \A v : Posted(v) => Posted(v)'
    BY <1>1, <1>2 DEF Posted, tickets
  <1>6. Posted(ticket)' /\ ticket \in Nat
    BY <1>1, <1>2, <1>3, <1>17 DEF Posted, IInv, TypeOK, tickets
  <1>7. area' = [area EXCEPT ![polls].slots[slot] = ticket]
    BY <1>1, <1>3, <1>17 DEF DrdpaRelease
  <1> HIDE DEF slot
  <1>8. area' = [area EXCEPT ![polls] = [area[polls] EXCEPT !.slots = [old EXCEPT ![slot] = ticket]]]
    BY <1>7
  <1>9. /\ area'[polls].slots = [old EXCEPT ![slot] = ticket] /\ area'[polls].live = area[polls].live
        /\ area'[polls] \in [slots : {area'[polls].slots}, live : BOOLEAN]
    BY <1>4, <1>8 DEF AreaType
  <1>10. DOMAIN area' = DOMAIN area /\ Len(area') = Len(area) /\ \A a \in DOMAIN area \ {polls} : area'[a] = area[a]
    BY <1>4, <1>8 DEF AreaType
  <1>11. DOMAIN area'[polls].slots = DOMAIN old /\ area'[polls].slots \in [DOMAIN old -> Nat]
    BY <1>4, <1>6, <1>9 DEF AreaType
  <1>12. AreaType'
    BY <1>1, <1>4, <1>9, <1>10, <1>11 DEF AreaType
  <1>13. (\A a \in DOMAIN area : \A i \in DOMAIN area[a].slots : Posted(area[a].slots[i]))'
    <2> SUFFICES ASSUME NEW a \in DOMAIN area', NEW i \in DOMAIN area'[a].slots
                 PROVE  Posted(area[a].slots[i])'
      OBVIOUS
    <2>1. CASE a # polls
      <3>1. area'[a] = area[a] /\ Posted(area[a].slots[i])
        BY <1>4, <1>10, <2>1
      <3> QED BY <1>5, <3>1
    <2>2. CASE a = polls /\ i = slot
      <3>1. area'[a].slots[i] = ticket
        BY <1>9, <1>11, <2>2
      <3> QED BY <1>6, <3>1 DEF Posted
    <2>3. CASE a = polls /\ i # slot
      <3>1. area'[a].slots[i] = area[a].slots[i] /\ Posted(area[a].slots[i])
        BY <1>4, <1>9, <1>10, <1>11, <2>3
      <3> QED BY <1>5, <3>1
    <2> QED BY <2>1, <2>2, <2>3
  <1>14. PollsInsideArea'
    <2>1. \A a \in DOMAIN area : area'[a].live = area[a].live /\ DOMAIN area'[a].slots = DOMAIN area[a].slots
      BY <1>9, <1>10, <1>11
    <2>2. \A u \in Thread : pc'[u] \in {"look", "testlook"} => pc[u] = pc'[u]
      BY <1>2
    <2> QED BY <1>1, <1>4, <2>1, <2>2 DEF IInv, PollInv, AreaType, PollsInsideArea, Reachable, Index, tickets
  <1>15. PollInv' /\ NowInv'
    <2>1. \A u \in Thread : ~Has(u)'
      BY <1>2
    <2> QED BY <1>1, <1>12, <1>13, <1>14, <2>1 DEF PollInv, NowInv
  <1>16. TypeOK'
    BY <1>1 DEF IInv, TypeOK, Within, Common, Goto, config, ownership, tickets, queue
  <1> QED BY <1>1, <1>2, <1>15, <1>16, TicketsExclude DEF IInv

-----------------------------------------------------------------------------
(* Every step of SafeSpec preserves the invariant.                          *)
LEMMA StepInv == IInv /\ [SafeNext]_vars => IInv'
  <1> SUFFICES ASSUME IInv, [SafeNext]_vars PROVE IInv'
    OBVIOUS
  <1>1. CASE UNCHANGED vars
    <2> USE <1>1 DEF vars, IInv
    <2>1. Within' = Within /\ Owner' = Owner /\ \A u \in Thread : (Has(u)' <=> Has(u)) /\ (Claim(u)' <=> Claim(u))
      BY DEF Within, Owner, Has, Woken, Claim
    <2>2. TypeOK'
      BY <2>1 DEF TypeOK
    <2>3. Exclusive' /\ OwnerInv' /\ TasInv' /\ TicketInv' /\ NowInv'
      BY <2>1 DEF Exclusive, OwnerInv, TasInv, TicketInv, NowInv
    <2>4. PollInv'
      <3>1. AreaType => AreaType'
        BY DEF AreaType
      <3>2. PollsInsideArea => PollsInsideArea'
        BY DEF PollsInsideArea, Reachable, Index
      <3>3. \A v : Posted(v) => Posted(v)'
        BY <2>1 DEF Posted
      <3> QED BY <2>1, <3>1, <3>2, <3>3 DEF PollInv
    <2>5. QueueInv'
      <3>1. \A u \in Thread : (Enqueued(u)' <=> Enqueued(u)) /\ (Named(u)' <=> Named(u))
        BY DEF Enqueued, Named
      <3> QED BY <2>1, <3>1 DEF QueueInv, HeadInv, LinkInv, ReleaseInv, EnterInv
    <2> QED BY <2>2, <2>3, <2>4, <2>5
  <1>2. ASSUME NEW t \in Thread,
               \/ SetCall(t) \/ TestCall(t) \/ UnsetCall(t) \/ Settle(t)
               \/ (ReadPolls(t) /\ PollsInsideArea')
               \/ (Serve(t) /\ PollsInsideArea')
               \/ (TestReadMask(t) /\ PollsInsideArea')
        PROVE  IInv'
    <2>1. CASE SetCall(t) \/ TestCall(t) \/ UnsetCall(t) \/ StoreOwner(t)
      BY <2>1, SetCallInv, TestCallInv, UnsetCallInv, StoreOwnerInv
    <2>2. CASE TasStep(t)
      BY <2>2, TasStepInv
    <2>3. CASE TakeTicket(t) \/ BakeryCheck(t) \/ TestReadNext(t) \/ TestLookNow(t) \/ TestCas(t) \/ TicketRelease(t)
      BY <2>3, TakeTicketInv, BakeryCheckInv, TestReadNextInv, TestLookNowInv, TestCasInv, TicketReleaseInv
    <2>4. CASE QueueStep(t)
      BY <2>4, QueueStepInv
    <2>5. CASE \/ ReadMask(t) \/ Look(t) \/ PublishMask(t) \/ PublishCleanup(t) \/ TestStep(t) \/ DrdpaRelease(t)
               \/ (ReadPolls(t) /\ PollsInsideArea') \/ (Serve(t) /\ PollsInsideArea')
      BY <2>5, ReadMaskInv, LookInv, PublishedInv, TestStepInv, DrdpaReleaseInv, ReadPollsInv, ServeInv
    <2> QED BY <1>2, <2>1, <2>2, <2>3, <2>4, <2>5 DEF Settle, TasStep, QueueStep, TestStep
  <1> QED BY <1>1, <1>2 DEF SafeNext

(* The invariant from which the safety of the four locks follows: where the *)
(* tickets, the queue and the polling areas say that the lock is.           *)
THEOREM LockInvariant == SafeSpec => []IInv
  BY InitInv, StepInv, PTL DEF SafeSpec

(* Every variable of the locks but those only compared keeps its type.      *)
THEOREM LockTypes == SafeSpec => []TypeOK
  BY LockInvariant, PTL DEF IInv

LEMMA IInvExcludes == IInv => MutualExclusion
  <1> SUFFICES ASSUME IInv PROVE MutualExclusion
    OBVIOUS
  <1>1. \A t, u \in Holders : t = u
    BY DEF IInv, Exclusive, Has, Holders
  <1>2. CASE Holders = {}
    BY <1>2, FS_EmptySet DEF MutualExclusion
  <1>3. CASE Holders # {}
    <2>1. PICK t : Holders = {t}
      BY <1>1, <1>3
    <2> QED BY <2>1, FS_Singleton DEF MutualExclusion
  <1> QED BY <1>2, <1>3

LEMMA IInvSound == IInv => NoFalseAlarm
  BY DEF IInv, TypeOK, Common, Within, NoFalseAlarm

(* At most one thread holds a lock, of whatever kind, with however many     *)
(* threads and calls.                                                       *)
THEOREM OneHolder == SafeSpec => []MutualExclusion
  BY IInvExcludes, LockInvariant, PTL

(* No correct program is told that it sets a lock it owns, or releases one  *)
(* that is free or another thread's.                                        *)
THEOREM ChecksAreSound == SafeSpec => []NoFalseAlarm
  BY IInvSound, LockInvariant, PTL

-----------------------------------------------------------------------------
(* Only a DRDPA lock has areas to poll outside of: of the other kinds every *)
(* schedule is one of SafeSpec.                                             *)
LEMMA KindStays == Next => UNCHANGED <<kind, mode>>
  <1> SUFFICES ASSUME NEW t \in Thread, SetCall(t) \/ TestCall(t) \/ UnsetCall(t) \/ Advance(t)
               PROVE  UNCHANGED config
    BY DEF Next, config
  <1>1. CASE SetCall(t) \/ TestCall(t) \/ UnsetCall(t) \/ StoreOwner(t) \/ TasStep(t)
    BY <1>1 DEF SetCall, TestCall, UnsetCall, StoreOwner, TasStep, TasAcquire, TasTestFails, TasRelease
  <1>2. CASE TakeTicket(t) \/ BakeryCheck(t) \/ TestReadNext(t) \/ TestLookNow(t) \/ TestCas(t) \/ TicketRelease(t)
    BY <1>2 DEF TakeTicket, BakeryCheck, TestReadNext, TestLookNow, TestCas, TicketRelease
  <1>3. CASE QueueStep(t)
    BY <1>3 DEF QueueStep, QueueEnter, QueueRead, QueueReadTail, QueueFirst, QueueAppend, QueueGrab,
       QueueLink, QueueWait, QueueTest, QueueRelRead, QueueRelFree, QueueRelReadTail, QueueRelLast,
       QueueRelNext, QueueRelClear, QueueRelWake
  <1>4. CASE \/ ReadMask(t) \/ Look(t) \/ PublishMask(t) \/ PublishCleanup(t) \/ TestReadPolls(t) \/ TestLook(t)
             \/ DrdpaRelease(t) \/ ReadPolls(t) \/ Serve(t) \/ TestReadMask(t)
    BY <1>4 DEF ReadMask, Look, PublishMask, PublishCleanup, TestReadPolls, TestLook, DrdpaRelease, ReadPolls,
       Serve, TestReadMask
  <1> QED BY <1>1, <1>2, <1>3, <1>4 DEF Advance, Settle, TasStep, QueueStep

LEMMA OtherKindsSafe == kind # "drdpa" /\ Next => SafeNext
  BY DEF Next, SafeNext, Advance, ReadPolls, Serve, TestReadMask, At

(* Test-and-set, ticket and queuing locks exclude and raise no false alarm  *)
(* in every schedule.                                                       *)
THEOREM OtherLocks == Spec => [](kind # "drdpa" => MutualExclusion /\ NoFalseAlarm)
  <1> DEFINE Inv == kind # "drdpa" => IInv
  <1>1. Init => Inv
    BY InitInv
  <1>2. Inv /\ [Next]_vars => Inv'
    <2>1. Next => UNCHANGED kind
      BY KindStays
    <2>2. UNCHANGED vars => UNCHANGED kind
      BY DEF vars
    <2> QED BY <2>1, <2>2, OtherKindsSafe, StepInv
  <1>3. Inv => (kind # "drdpa" => MutualExclusion /\ NoFalseAlarm)
    BY IInvExcludes, IInvSound
  <1> QED BY <1>1, <1>2, <1>3, PTL DEF Spec
=============================================================================
