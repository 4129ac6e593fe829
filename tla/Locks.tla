-------------------------------- MODULE Locks --------------------------------
(***************************************************************************)
(* The user locks of the runtime (kmp_lock.cpp): test-and-set, ticket,     *)
(* queuing and DRDPA locks, each as a simple lock without checks, a simple *)
(* lock with consistency checks, and a nestable lock.  The kind is chosen  *)
(* when the locks are initialised.  Threads are numbered from 1, as the    *)
(* gtid + 1 that the code stores.  Every load, store and compare-and-swap  *)
(* of a word that another thread may write is a step of its own.           *)
(*                                                                         *)
(* Tickets are unbounded here.  They wrap at 2^32 in a ticket lock, which  *)
(* matters only to a test that sleeps through 2^32 acquisitions.           *)
(***************************************************************************)
EXTENDS Naturals, Integers, Sequences, FiniteSets, FiniteSetsExt

CONSTANTS
    Thread,         \* gtid + 1 of the threads
    Kinds,          \* the kinds of lock a run may choose from
    MaxCalls,       \* bound: how often the program calls set or test, by kind
    Contracts,      \* there may be more threads than processors: a DRDPA lock
                    \*   then contracts its polling area
    None

AllKinds == {"tas", "ticket", "queuing", "drdpa"}
Modes == {"plain", "checked", "nested"}

ASSUME ThreadAssumption == Thread \subseteq Nat \ {0} /\ None \notin Thread
ASSUME KindAssumption == Kinds \subseteq AllKinds
ASSUME CallsAssumption == MaxCalls \in [AllKinds -> Nat]
ASSUME ContractAssumption == Contracts \in BOOLEAN

VARIABLES
    kind, mode,         \* the kind of lock, and simple, checked or nestable
    pc,                 \* where thread t is; idle between calls
    held,               \* the acquisitions of thread t the program has not released
    calls,              \* calls of set and test so far
    owner, depth,       \* owner_id and depth_locked
    poll,               \* of a test-and-set lock
    nextTicket, nowServing, my,              \* ticket and DRDPA locks; my[t] is t's ticket
    headId, tailId, spinHere, nextWaiting,   \* queuing lock and th_spin_here, th_next_waiting
    hd, tl,                                  \* what thread t read of head and tail
    area,               \* the polling areas allocated so far: slots and whether live
    polls, mask, numPolls, oldPolls, cleanup,   \* of a DRDPA lock; 0 is NULL
    p, m                                     \* what thread t read of polls and mask

config == <<kind, mode>>
program == <<pc, held, calls>>
ownership == <<owner, depth>>
tickets == <<nextTicket, nowServing, my>>
queue == <<headId, tailId, spinHere, nextWaiting, hd, tl>>
polling == <<area, polls, mask, numPolls, oldPolls, cleanup, p, m>>
vars == <<kind, mode, pc, held, calls, owner, depth, poll, nextTicket, nowServing, my,
          headId, tailId, spinHere, nextWaiting, hd, tl,
          area, polls, mask, numPolls, oldPolls, cleanup, p, m>>

Init ==
    /\ kind \in Kinds /\ mode \in Modes
    /\ pc = [t \in Thread |-> "idle"] /\ held = [t \in Thread |-> 0] /\ calls = 0
    /\ owner = 0 /\ depth = 0
    /\ poll = 0
    /\ nextTicket = 0 /\ nowServing = 0 /\ my = [t \in Thread |-> 0]
    /\ headId = 0 /\ tailId = 0
    /\ spinHere = [t \in Thread |-> FALSE] /\ nextWaiting = [t \in Thread |-> 0]
    /\ hd = [t \in Thread |-> 0] /\ tl = [t \in Thread |-> 0]
    /\ area = << [slots |-> <<0>>, live |-> TRUE] >>
    /\ polls = 1 /\ mask = 0 /\ numPolls = 1 /\ oldPolls = 0 /\ cleanup = 0
    /\ p = [t \in Thread |-> 1] /\ m = [t \in Thread |-> 0]

Goto(t, where) == pc' = [pc EXCEPT ![t] = where]
At(t, k, where) == kind = k /\ pc[t] = where

(* A test-and-set lock stores its owner as the value of the lock itself.    *)
Owner == IF kind = "tas" THEN poll ELSE owner

(* The lock is thread t's: its program holds it, and unless there is        *)
(* nothing to store the thread goes on to store the depth and the owner.    *)
Acquired(t) ==
    /\ held' = [held EXCEPT ![t] = 1]
    /\ Goto(t, IF mode = "plain" \/ (mode = "checked" /\ kind = "tas") THEN "idle" ELSE "own")

-----------------------------------------------------------------------------
(* Calls of the program.  It uses locks as it should: a simple lock is set  *)
(* or tested by a thread that does not hold it, and released by its holder. *)

SetCall(t) ==
    /\ pc[t] = "idle" /\ calls < MaxCalls[kind] /\ calls' = calls + 1
    /\ mode # "nested" => held[t] = 0
    /\ IF mode = "nested" /\ Owner = t
         THEN depth' = depth + 1 /\ held' = [held EXCEPT ![t] = @ + 1] /\ UNCHANGED <<pc, owner>>
         ELSE /\ Goto(t, IF mode = "checked" /\ Owner = t THEN "fatal" ELSE "set")
              /\ UNCHANGED <<held, owner, depth>>
    /\ UNCHANGED <<config, poll, tickets, queue, polling>>

TestCall(t) ==
    /\ pc[t] = "idle" /\ calls < MaxCalls[kind] /\ calls' = calls + 1
    /\ mode # "nested" => held[t] = 0
    /\ IF mode = "nested" /\ Owner = t
         THEN depth' = depth + 1 /\ held' = [held EXCEPT ![t] = @ + 1] /\ UNCHANGED <<pc, owner>>
         ELSE Goto(t, "test") /\ UNCHANGED <<held, owner, depth>>
    /\ UNCHANGED <<config, poll, tickets, queue, polling>>

(* depth_locked and owner_id, stored by the thread that has the lock.       *)
StoreOwner(t) ==
    /\ pc[t] = "own" /\ Goto(t, "idle")
    /\ depth' = IF mode = "nested" THEN 1 ELSE depth
    /\ owner' = IF kind = "tas" THEN owner ELSE t
    /\ UNCHANGED <<config, held, calls, poll, tickets, queue, polling>>

(* Mutant: the owner is reset by the next holder only.                      *)
UnsetCallKeepsOwner(t) ==
    /\ pc[t] = "idle" /\ held[t] > 0
    /\ held' = [held EXCEPT ![t] = @ - 1]
    /\ depth' = IF mode = "nested" THEN depth - 1 ELSE depth
    /\ Goto(t, IF mode = "nested" /\ depth > 1 THEN "idle" ELSE "unset")
    /\ UNCHANGED <<config, calls, owner, poll, tickets, queue, polling>>

(* A call of unset: the checks, the depth and the owner, all before the     *)
(* lock itself is let go.                                                   *)
UnsetCall(t) ==
    /\ pc[t] = "idle" /\ held[t] > 0
    /\ held' = [held EXCEPT ![t] = @ - 1]
    /\ IF mode # "plain" /\ Owner # t
         THEN Goto(t, "fatal") /\ UNCHANGED <<owner, depth>>
         ELSE /\ depth' = IF mode = "nested" THEN depth - 1 ELSE depth
              /\ IF mode = "nested" /\ depth > 1
                   THEN UNCHANGED <<pc, owner>>
                   ELSE Goto(t, "unset") /\ owner' = 0
    /\ UNCHANGED <<config, calls, poll, tickets, queue, polling>>

-----------------------------------------------------------------------------
(* Test-and-set lock.  A load that sees the lock busy, or a lost            *)
(* compare-and-swap, changes nothing; set tries again.                      *)

TasAcquire(t) ==
    /\ kind = "tas" /\ pc[t] \in {"set", "test"}
    /\ poll = 0 /\ poll' = t
    /\ Acquired(t)
    /\ UNCHANGED <<config, calls, ownership, tickets, queue, polling>>

TasTestFails(t) ==
    /\ At(t, "tas", "test") /\ poll # 0
    /\ Goto(t, "idle")
    /\ UNCHANGED <<config, held, calls, ownership, poll, tickets, queue, polling>>

TasRelease(t) ==
    /\ At(t, "tas", "unset") /\ Goto(t, "idle")
    /\ poll' = 0
    /\ UNCHANGED <<config, held, calls, ownership, tickets, queue, polling>>

-----------------------------------------------------------------------------
(* Ticket lock.                                                             *)

TakeTicket(t) ==
    /\ kind \in {"ticket", "drdpa"} /\ pc[t] = "set"
    /\ my' = [my EXCEPT ![t] = nextTicket] /\ nextTicket' = nextTicket + 1
    /\ Goto(t, IF kind = "ticket" THEN "wait" ELSE "mask")
    /\ UNCHANGED <<config, held, calls, ownership, poll, nowServing, queue, polling>>

(* Mutant: a thread whose turn has not come is let in.                      *)
BakeryCheckEarly(t) ==
    /\ At(t, "ticket", "wait") /\ nowServing + 1 >= my[t]
    /\ Acquired(t)
    /\ UNCHANGED <<config, calls, ownership, poll, tickets, queue, polling>>

BakeryCheck(t) ==
    /\ At(t, "ticket", "wait") /\ nowServing = my[t]
    /\ Acquired(t)
    /\ UNCHANGED <<config, calls, ownership, poll, tickets, queue, polling>>

(* __kmp_test_ticket_lock and __kmp_test_drdpa_lock read next_ticket first. *)
TestReadNext(t) ==
    /\ kind \in {"ticket", "drdpa"} /\ pc[t] = "test"
    /\ my' = [my EXCEPT ![t] = nextTicket]
    /\ Goto(t, IF kind = "ticket" THEN "testnow" ELSE "testpolls")
    /\ UNCHANGED <<config, held, calls, ownership, poll, nextTicket, nowServing, queue, polling>>

TestLookNow(t) ==
    /\ At(t, "ticket", "testnow")
    /\ Goto(t, IF nowServing = my[t] THEN "testcas" ELSE "idle")
    /\ UNCHANGED <<config, held, calls, ownership, poll, tickets, queue, polling>>

TestCas(t) ==
    /\ pc[t] = "testcas"
    /\ IF nextTicket = my[t]
         THEN /\ nextTicket' = nextTicket + 1 /\ Acquired(t)
              /\ nowServing' = IF kind = "drdpa" THEN my[t] ELSE nowServing
         ELSE Goto(t, "idle") /\ UNCHANGED <<held, nextTicket, nowServing>>
    /\ UNCHANGED <<config, calls, ownership, poll, my, queue, polling>>

TicketRelease(t) ==
    /\ At(t, "ticket", "unset") /\ Goto(t, "idle")
    /\ nowServing' = nowServing + 1
    /\ UNCHANGED <<config, held, calls, ownership, poll, nextTicket, my, queue, polling>>

-----------------------------------------------------------------------------
(* Queuing lock: (head, tail) is (0, 0) free, (-1, 0) held and nobody       *)
(* queued, (h, t) held with the queue from thread h to thread t.            *)

QueueEnter(t) ==
    /\ At(t, "queuing", "set") /\ Goto(t, "read")
    /\ spinHere' = [spinHere EXCEPT ![t] = TRUE]
    /\ UNCHANGED <<config, held, calls, ownership, poll, tickets,
                   headId, tailId, nextWaiting, hd, tl, polling>>

QueueRead(t) ==
    /\ At(t, "queuing", "read")
    /\ hd' = [hd EXCEPT ![t] = headId] /\ tl' = [tl EXCEPT ![t] = 0]
    /\ Goto(t, CASE headId = -1 -> "first" [] headId = 0 -> "grab" [] OTHER -> "readtail")
    /\ UNCHANGED <<config, held, calls, ownership, poll, tickets,
                   headId, tailId, spinHere, nextWaiting, polling>>

QueueReadTail(t) ==
    /\ At(t, "queuing", "readtail")
    /\ tl' = [tl EXCEPT ![t] = tailId]
    /\ Goto(t, IF tailId = 0 THEN "read" ELSE "append")
    /\ UNCHANGED <<config, held, calls, ownership, poll, tickets,
                   headId, tailId, spinHere, nextWaiting, hd, polling>>

(* (-1, 0) -> (t, t), both words at once.                                   *)
QueueFirst(t) ==
    /\ At(t, "queuing", "first")
    /\ IF headId = -1 /\ tailId = 0
         THEN headId' = t /\ tailId' = t /\ Goto(t, "link")
         ELSE Goto(t, "read") /\ UNCHANGED <<headId, tailId>>
    /\ UNCHANGED <<config, held, calls, ownership, poll, tickets,
                   spinHere, nextWaiting, hd, tl, polling>>

(* (h, tl) -> (h, t), the tail alone.                                       *)
QueueAppend(t) ==
    /\ At(t, "queuing", "append")
    /\ IF tailId = tl[t]
         THEN tailId' = t /\ Goto(t, "link")
         ELSE Goto(t, "read") /\ UNCHANGED tailId
    /\ UNCHANGED <<config, held, calls, ownership, poll, tickets,
                   headId, spinHere, nextWaiting, hd, tl, polling>>

(* (0, 0) -> (-1, 0): the lock was free.                                    *)
QueueGrab(t) ==
    /\ At(t, "queuing", "grab")
    /\ IF headId = 0
         THEN /\ headId' = -1 /\ spinHere' = [spinHere EXCEPT ![t] = FALSE] /\ Acquired(t)
         ELSE Goto(t, "read") /\ UNCHANGED <<held, headId, spinHere>>
    /\ UNCHANGED <<config, calls, ownership, poll, tickets,
                   tailId, nextWaiting, hd, tl, polling>>

QueueLink(t) ==
    /\ At(t, "queuing", "link") /\ Goto(t, "wait")
    /\ nextWaiting' = IF tl[t] > 0 THEN [nextWaiting EXCEPT ![tl[t]] = t] ELSE nextWaiting
    /\ UNCHANGED <<config, held, calls, ownership, poll, tickets,
                   headId, tailId, spinHere, hd, tl, polling>>

QueueWait(t) ==
    /\ At(t, "queuing", "wait") /\ ~spinHere[t]
    /\ Acquired(t)
    /\ UNCHANGED <<config, calls, ownership, poll, tickets, queue, polling>>

QueueTest(t) ==
    /\ At(t, "queuing", "test")
    /\ IF headId = 0
         THEN headId' = -1 /\ Acquired(t)
         ELSE Goto(t, "idle") /\ UNCHANGED <<held, headId>>
    /\ UNCHANGED <<config, calls, ownership, poll, tickets,
                   tailId, spinHere, nextWaiting, hd, tl, polling>>

QueueRelRead(t) ==
    /\ At(t, "queuing", "unset")
    /\ hd' = [hd EXCEPT ![t] = headId]
    /\ Goto(t, IF headId = -1 THEN "free" ELSE "reltail")
    /\ UNCHANGED <<config, held, calls, ownership, poll, tickets,
                   headId, tailId, spinHere, nextWaiting, tl, polling>>

QueueRelFree(t) ==
    /\ At(t, "queuing", "free")
    /\ IF headId = -1 THEN headId' = 0 /\ Goto(t, "idle")
                      ELSE Goto(t, "unset") /\ UNCHANGED headId
    /\ UNCHANGED <<config, held, calls, ownership, poll, tickets,
                   tailId, spinHere, nextWaiting, hd, tl, polling>>

QueueRelReadTail(t) ==
    /\ At(t, "queuing", "reltail")
    /\ tl' = [tl EXCEPT ![t] = tailId]
    /\ Goto(t, IF tailId = hd[t] THEN "rellast" ELSE "relnext")
    /\ UNCHANGED <<config, held, calls, ownership, poll, tickets,
                   headId, tailId, spinHere, nextWaiting, hd, polling>>

(* (h, h) -> (-1, 0), unless another thread was appended meanwhile.         *)
QueueRelLast(t) ==
    /\ At(t, "queuing", "rellast")
    /\ IF headId = hd[t] /\ tailId = hd[t]
         THEN headId' = -1 /\ tailId' = 0 /\ Goto(t, "clear")
         ELSE Goto(t, "unset") /\ UNCHANGED <<headId, tailId>>
    /\ UNCHANGED <<config, held, calls, ownership, poll, tickets,
                   spinHere, nextWaiting, hd, tl, polling>>

(* Mutant: the releasing thread does not wait for the link.                 *)
QueueRelNextUnlinked(t) ==
    /\ At(t, "queuing", "relnext") /\ Goto(t, "clear")
    /\ headId' = nextWaiting[hd[t]]
    /\ UNCHANGED <<config, held, calls, ownership, poll, tickets,
                   tailId, spinHere, nextWaiting, hd, tl, polling>>

(* (h, t) -> (h', t), once the thread after h has linked itself.            *)
QueueRelNext(t) ==
    /\ At(t, "queuing", "relnext") /\ nextWaiting[hd[t]] # 0
    /\ headId' = nextWaiting[hd[t]] /\ Goto(t, "clear")
    /\ UNCHANGED <<config, held, calls, ownership, poll, tickets,
                   tailId, spinHere, nextWaiting, hd, tl, polling>>

QueueRelClear(t) ==
    /\ At(t, "queuing", "clear") /\ Goto(t, "wake")
    /\ nextWaiting' = [nextWaiting EXCEPT ![hd[t]] = 0]
    /\ UNCHANGED <<config, held, calls, ownership, poll, tickets,
                   headId, tailId, spinHere, hd, tl, polling>>

QueueRelWake(t) ==
    /\ At(t, "queuing", "wake") /\ Goto(t, "idle")
    /\ spinHere' = [spinHere EXCEPT ![hd[t]] = FALSE]
    /\ UNCHANGED <<config, held, calls, ownership, poll, tickets,
                   headId, tailId, nextWaiting, hd, tl, polling>>

-----------------------------------------------------------------------------
(* DRDPA lock: a ticket lock whose waiters poll different slots of an area  *)
(* that the holder replaces by a larger or a smaller one.                   *)

Slots(a) == Len(area[a].slots)
Index(ticket, msk) == ticket % (msk + 1)        \* ticket & mask
Reachable(a, i) == area[a].live /\ i + 1 \in DOMAIN area[a].slots

(* The value a thread finds at slot i of area a.  Outside a live area it    *)
(* may find anything: that it lets the thread in, or that it does not.      *)
Found(a, i, Sees(_)) ==
    IF Reachable(a, i) THEN {Sees(area[a].slots[i + 1])} ELSE BOOLEAN

ReadMask(t) ==
    /\ At(t, "drdpa", "mask") /\ Goto(t, "polls")
    /\ m' = [m EXCEPT ![t] = mask]
    /\ UNCHANGED <<config, held, calls, ownership, poll, tickets, queue,
                   area, polls, mask, numPolls, oldPolls, cleanup, p>>

ReadPolls(t) ==
    /\ At(t, "drdpa", "polls") /\ Goto(t, "look")
    /\ p' = [p EXCEPT ![t] = polls]
    /\ UNCHANGED <<config, held, calls, ownership, poll, tickets, queue,
                   area, polls, mask, numPolls, oldPolls, cleanup, m>>

Look(t) ==
    /\ At(t, "drdpa", "look")
    /\ \E in \in Found(p[t], Index(my[t], m[t]), LAMBDA v : v >= my[t]) :
          Goto(t, IF in THEN "serve" ELSE "mask")
    /\ UNCHANGED <<config, held, calls, ownership, poll, tickets, queue, polling>>

(* num_polls is doubled until it exceeds the number of waiting threads.     *)
GrownSize(waiting) ==
    Min({numPolls * 2 ^ k : k \in 1..(waiting + 1)} \ (0..waiting))

(* A new area becomes the polling area; its mask follows in the next step.  *)
Publish(t, slots) ==
    /\ area' = [a \in 1..(Len(area) + 1) |->
                   IF a > Len(area) THEN [slots |-> slots, live |-> TRUE]
                   ELSE IF a = oldPolls THEN [area[a] EXCEPT !.live = FALSE] ELSE area[a]]
    /\ oldPolls' = polls /\ polls' = Len(area) + 1 /\ cleanup' = 0
    /\ Goto(t, "pubmask") /\ UNCHANGED held

FreeOldPolls(t) ==
    /\ area' = [a \in 1..Len(area) |->
                   IF a = oldPolls /\ my[t] >= cleanup
                   THEN [area[a] EXCEPT !.live = FALSE] ELSE area[a]]
    /\ oldPolls' = IF my[t] >= cleanup THEN 0 ELSE oldPolls
    /\ cleanup' = IF my[t] >= cleanup THEN 0 ELSE cleanup
    /\ UNCHANGED polls

(* The critical section begins: an area replaced long enough ago is freed,  *)
(* and if there is none left the area is replaced when it has the wrong     *)
(* size.                                                                    *)
Serve(t) ==
    LET waiting == nextTicket - my[t] - 1
        mayReplace == oldPolls = 0 \/ my[t] >= cleanup IN
    /\ At(t, "drdpa", "serve")
    /\ nowServing' = my[t]
    /\ \E crowded \in {FALSE, Contracts} :
         CASE mayReplace /\ crowded /\ numPolls > 1 -> Publish(t, <<my[t]>>)
           [] mayReplace /\ ~crowded /\ waiting > numPolls ->
                Publish(t, [i \in 1..GrownSize(waiting) |->
                               IF i \in DOMAIN area[polls].slots
                               THEN area[polls].slots[i] ELSE 0])
           [] OTHER -> FreeOldPolls(t) /\ Acquired(t)
    /\ UNCHANGED <<config, calls, ownership, poll, nextTicket, my, queue,
                   mask, numPolls, p, m>>

PublishMask(t) ==
    /\ At(t, "drdpa", "pubmask") /\ Goto(t, "pubcleanup")
    /\ numPolls' = Slots(polls) /\ mask' = Slots(polls) - 1
    /\ UNCHANGED <<config, held, calls, ownership, poll, tickets, queue,
                   area, polls, oldPolls, cleanup, p, m>>

PublishCleanup(t) ==
    /\ At(t, "drdpa", "pubcleanup") /\ Acquired(t)
    /\ cleanup' = nextTicket
    /\ UNCHANGED <<config, calls, ownership, poll, tickets, queue,
                   area, polls, mask, numPolls, oldPolls, p, m>>

TestReadPolls(t) ==
    /\ At(t, "drdpa", "testpolls") /\ Goto(t, "testmask")
    /\ p' = [p EXCEPT ![t] = polls]
    /\ UNCHANGED <<config, held, calls, ownership, poll, tickets, queue,
                   area, polls, mask, numPolls, oldPolls, cleanup, m>>

TestReadMask(t) ==
    /\ At(t, "drdpa", "testmask") /\ Goto(t, "testlook")
    /\ m' = [m EXCEPT ![t] = mask]
    /\ UNCHANGED <<config, held, calls, ownership, poll, tickets, queue,
                   area, polls, mask, numPolls, oldPolls, cleanup, p>>

TestLook(t) ==
    /\ At(t, "drdpa", "testlook")
    /\ \E same \in Found(p[t], Index(my[t], m[t]), LAMBDA v : v = my[t]) :
          Goto(t, IF same THEN "testcas" ELSE "idle")
    /\ UNCHANGED <<config, held, calls, ownership, poll, tickets, queue, polling>>

DrdpaRelease(t) ==
    /\ At(t, "drdpa", "unset") /\ Goto(t, "idle")
    /\ LET ticket == nowServing + 1 IN
         area' = [area EXCEPT ![polls].slots[Index(ticket, mask) + 1] = ticket]
    /\ UNCHANGED <<config, held, calls, ownership, poll, tickets, queue,
                   polls, mask, numPolls, oldPolls, cleanup, p, m>>

-----------------------------------------------------------------------------
Settle(t) ==
    \/ StoreOwner(t)
    \/ TasAcquire(t) \/ TasTestFails(t) \/ TasRelease(t)
    \/ TakeTicket(t) \/ BakeryCheck(t) \/ TestReadNext(t) \/ TestLookNow(t) \/ TestCas(t)
    \/ TicketRelease(t)
    \/ QueueEnter(t) \/ QueueRead(t) \/ QueueReadTail(t) \/ QueueFirst(t) \/ QueueAppend(t)
    \/ QueueGrab(t) \/ QueueLink(t) \/ QueueWait(t) \/ QueueTest(t)
    \/ QueueRelRead(t) \/ QueueRelFree(t) \/ QueueRelReadTail(t) \/ QueueRelLast(t)
    \/ QueueRelNext(t) \/ QueueRelClear(t) \/ QueueRelWake(t)
    \/ ReadMask(t) \/ Look(t) \/ PublishMask(t) \/ PublishCleanup(t)
    \/ TestReadPolls(t) \/ TestLook(t) \/ DrdpaRelease(t)

Advance(t) == Settle(t) \/ ReadPolls(t) \/ Serve(t) \/ TestReadMask(t)

Next == \E t \in Thread : SetCall(t) \/ TestCall(t) \/ UnsetCall(t) \/ Advance(t)

(* A thread inside the runtime goes on, and a holder releases the lock.     *)
Fairness == \A t \in Thread : WF_vars(Advance(t)) /\ WF_vars(UnsetCall(t))

Spec == Init /\ [][Next]_vars /\ Fairness

(* A thread polls a slot of an area that is allocated ("Make certain that   *)
(* mask is read before polls", kmp_lock.cpp:2258).                          *)
PollsInsideArea ==
    \A t \in Thread :
        kind = "drdpa" /\ pc[t] \in {"look", "testlook"} => Reachable(p[t], Index(my[t], m[t]))

(* The schedules in which no thread polls outside a live area.              *)
SafeNext == \E t \in Thread : \/ SetCall(t) \/ TestCall(t) \/ UnsetCall(t) \/ Settle(t)
                              \/ ReadPolls(t) /\ PollsInsideArea'
                              \/ Serve(t) /\ PollsInsideArea'
                              \/ TestReadMask(t) /\ PollsInsideArea'

SafeSpec == Init /\ [][SafeNext]_vars /\ Fairness

-----------------------------------------------------------------------------
(* Properties.                                                              *)

Holders == {t \in Thread : held[t] > 0}

(* The threads that wait in order.  With tickets: those that took one.  In  *)
(* a queuing lock: those that stored themselves as the tail, each one       *)
(* before the thread that found it there, the one being released first.     *)
Ticketed == {t \in Thread : kind \in {"ticket", "drdpa"} /\
                            pc[t] \in {"wait", "mask", "polls", "look", "serve", "pubmask", "pubcleanup"}}
Queued == {t \in Thread : kind = "queuing" /\ pc[t] \in {"link", "wait"}}
Dequeued == {t \in Queued : ~spinHere[t] \/ \E r \in Thread : pc[r] \in {"clear", "wake"} /\ hd[r] = t}

(* The queue up to thread t, back to its head.                              *)
UpTo(t) ==
    LET before[k \in 0..Cardinality(Thread)] ==
            IF k = 0 THEN {t}
            ELSE before[k - 1] \union {tl[u] : u \in before[k - 1] \ {headId, 0}} IN
    before[Cardinality(Thread)] \ {0}

Place(t) ==
    IF kind = "queuing"
    THEN IF t \in Dequeued THEN 1 ELSE Cardinality(Dequeued) + Cardinality(UpTo(t))
    ELSE Cardinality({u \in Ticketed : my[u] <= my[t]})

Waiting == Ticketed \union Queued
Line == [i \in 1..Cardinality(Waiting) |->
            LET there == {t \in Waiting : Place(t) = i} IN
            IF there = {} THEN None ELSE CHOOSE t \in there : TRUE]

Abstract == INSTANCE LockSpec WITH
    holder <- IF Holders = {} THEN None ELSE CHOOSE t \in Holders : TRUE,
    depth <- IF Holders = {} THEN 0
             ELSE LET t == CHOOSE u \in Holders : TRUE IN
                  IF mode = "nested" /\ pc[t] # "own" THEN depth ELSE 1,
    queue <- Line

(* Every kind of lock is a lock: one holder, its depth, waiters served in   *)
(* the order in which they queued and not overtaken by a test, and each of  *)
(* them served if the holders release.                                      *)
ImplementsLock == Abstract!Spec

(* The owner that the checks look at is stored and reset at moments when a  *)
(* correct program cannot be taken for one that sets a lock it owns or      *)
(* releases a lock that is free or another thread's.                        *)
NoFalseAlarm == \A t \in Thread : pc[t] # "fatal"

MutualExclusion == Cardinality(Holders) <= 1
=============================================================================
