---------------------------- MODULE TaskingProofs ----------------------------
(***************************************************************************)
(* What the waits of explicit tasks rest on, for any number of threads,    *)
(* tasks, proxy tasks and taskgroups: the count of a task's incomplete     *)
(* children is the number of its children that are still owed to it.  One  *)
(* lemma for every kind of step; the invariant and what follows from it    *)
(* come after them.  Then the memory of tasks, in the same way: the count  *)
(* of allocated children is the number of those that still have to touch   *)
(* the task.                                                               *)
(*                                                                         *)
(* The second half is about barriers: when the master opens one, every     *)
(* explicit task of the region has been executed.  The invariant says what *)
(* a thread that counts itself as finished has left behind, where the      *)
(* threads of a task team are when its barrier opens, and that the team    *)
(* counts its unfinished threads.  It rests on the first half: a task that *)
(* is owed is counted.                                                     *)
(***************************************************************************)
EXTENDS MCTasks, TaskDepsProofs

-----------------------------------------------------------------------------
(* The tasks of the invariant of the counts.                                *)

Depth(t) == Len(stack[t])
Base(t) == stack[t][1].doing

Places == {"-", "wait", "own", "steal", "dry"} \union (1..NProc)
Frames == [task : Tasks \union Thread, doing : Actions, at : Places]

StackTypes == stack \in [Thread -> Seq(Frames)]

TaskTypes ==
    /\ life \in [Tasks -> {"none", "queued", "live", "complete", "freed"}]
    /\ parent \in [Tasks -> Tasks \union Thread \union {None}]
    /\ incomplete \in [Tasks \union Thread -> Int]
    /\ deque \in [0..1 -> [Thread -> Seq(Tasks)]]
    /\ ext \in [Proxies -> {"none", "started", "give", "parent", "child", "done"}]

Working == {"run", "taskwait", "endgroup"}
InBarrier(t) == IF t = Master THEN {"gather", "teamwait", "letgo"} ELSE {"release"}
Halves == {"top1", "top2", "top3"}
Ends == {"count", "countgroup", "free", "bottom"} \union Halves

(* A frame that thread t may have at position i of its stack.               *)
GoodFrame(t, i, f) ==
    IF i = 1 THEN /\ f.task = t /\ f.doing \in Working \union InBarrier(t)
                  /\ f.doing = "letgo" => f.at \in 1..NProc
             ELSE /\ f.task \in Tasks /\ f.doing \in Working \union Ends
                  /\ f.doing \in Halves => f.task \in Proxies
                  /\ f.doing \in Working => f.task \notin Proxies

Shape ==
    \A t \in Thread :
        /\ Depth(t) >= 1
        /\ \A i \in 1..Depth(t) : GoodFrame(t, i, stack[t][i])
        /\ \A i \in 1..(Depth(t) - 1) : stack[t][i].doing \in Working \union {"gather", "release", "teamwait"}

(* A task is owed to its parent while it is in a deque, on the stack of a   *)
(* thread that has not counted it yet, or with the thread outside the team. *)
Owing == Working \union {"count", "top1", "top2"}
Hold(x, t, i) == i \in 1..Depth(t) /\ stack[t][i].task = x /\ stack[t][i].doing \in Owing
OnStack(x) == \E t \in Thread : \E i \in Nat : Hold(x, t, i)
Queued(x, k, t, i) == i \in 1..Len(deque[k][t]) /\ deque[k][t][i] = x
InDeque(x) == \E k \in 0..1, t \in Thread : \E i \in Nat : Queued(x, k, t, i)
Outside(x) == x \in Proxies /\ ext[x] \in {"started", "give", "parent"}
Owed(x) == (x \notin Proxies /\ InDeque(x)) \/ OnStack(x) \/ Outside(x)
OwedTo(y) == {x \in Tasks : parent[x] = y /\ Owed(x)}

Tallied(y) == y \in (Tasks \ Proxies) \union Thread
Counts == \A y \in Tasks \union Thread : Tallied(y) => incomplete[y] = Cardinality(OwedTo(y))

Pending(x) == life[x] \in {"queued", "live"}
Alive ==
    /\ \A x \in Tasks : Pending(x) => Owed(x)
    /\ \A t \in Thread : \A i \in 2..Depth(t) :
           stack[t][i].doing \in {"count", "top2"} => ~Pending(stack[t][i].task)
    /\ \A x \in Proxies : ext[x] \in {"give", "parent"} => ~Pending(x)

OnceOnStacks ==
    \A x \in Tasks : \A t, u \in Thread : \A i, j \in Nat :
        Hold(x, t, i) /\ Hold(x, u, j) => t = u /\ i = j
OnceInDeques ==
    \A x \in Tasks \ Proxies : \A k, l \in 0..1, t, u \in Thread : \A i, j \in Nat :
        Queued(x, k, t, i) /\ Queued(x, l, u, j) => k = l /\ t = u /\ i = j
Apart ==
    /\ \A x \in Tasks \ Proxies : ~(InDeque(x) /\ OnStack(x))
    /\ \A x \in Proxies : ext[x] # "none" => ~OnStack(x)
Unique == OnceOnStacks /\ OnceInDeques /\ Apart

Known ==
    /\ \A x \in Tasks : life[x] # "none" =>
           parent[x] # None /\ (parent[x] \in Tasks => life[parent[x]] # "none")
    /\ \A x \in Proxies : life[x] = "none" => ext[x] = "none"
    /\ \A t \in Thread : \A i \in 2..Depth(t) : life[stack[t][i].task] # "none"
    /\ \A x \in Tasks : InDeque(x) => life[x] # "none"

(* A thread without a task team does nothing but wait in a barrier, or the  *)
(* master releases the workers.                                             *)
Idle(t) ==
    /\ Depth(t) = 1
    /\ \/ Base(t) = "letgo"
       \/ Base(t) \in {"gather", "release", "teamwait"} /\ stack[t][1].at = "wait"
Attached ==
    /\ ptr \in [Thread -> (0..1) \union {None}] /\ parity \in [Thread -> 0..1]
    /\ \A t \in Thread : ptr[t] = None => Idle(t)

CountInv == StackTypes /\ TaskTypes /\ Shape /\ Alive /\ Unique /\ Known /\ Counts

-----------------------------------------------------------------------------
(* Sequences: what the operations on stacks and deques do.                  *)

LEMMA LastFront ==
    ASSUME NEW S, NEW s \in Seq(S), Len(s) >= 1
    PROVE  /\ Last(s) \in S /\ Last(s) = s[Len(s)]
           /\ Front(s) \in Seq(S) /\ Len(Front(s)) = Len(s) - 1
           /\ \A i \in 1..(Len(s) - 1) : Front(s)[i] = s[i]
  <1>1. Len(s) \in Nat /\ \A i \in 1..Len(s) : s[i] \in S
    BY LenProperties, ElementOfSeq
  <1>2. /\ SubSeq(s, 1, Len(s) - 1) \in Seq(S)
        /\ Len(SubSeq(s, 1, Len(s) - 1)) = Len(s) - 1
        /\ \A i \in 1..(Len(s) - 1) : SubSeq(s, 1, Len(s) - 1)[i] = s[i]
    <2>1. PICK n \in Nat : n = Len(s) - 1
      BY <1>1
    <2>2. 1 \in Int /\ n \in Int /\ \A i \in 1..n : s[i] \in S
      BY <1>1, <2>1
    <2>3. /\ SubSeq(s, 1, n) \in Seq(S) /\ Len(SubSeq(s, 1, n)) = n
          /\ \A i \in 1..n : SubSeq(s, 1, n)[i] = s[i]
      BY <2>1, <2>2, SubSeqProperties
    <2> QED BY <2>1, <2>3
  <1> QED BY <1>1, <1>2 DEF Last, Front

LEMMA StackSeq ==
    ASSUME StackTypes, NEW t \in Thread
    PROVE  /\ stack[t] \in Seq(Frames) /\ Depth(t) \in Nat
           /\ \A i \in 1..Depth(t) : stack[t][i] \in Frames
           /\ Top(t) = stack[t][Depth(t)]
  <1>1. stack[t] \in Seq(Frames)
    BY DEF StackTypes
  <1> QED BY <1>1, LenProperties, ElementOfSeq DEF Depth, Top, Last

LEMMA BecomeStack ==
    ASSUME StackTypes, NEW t \in Thread, Depth(t) >= 1, NEW f \in Frames, Become(t, f)
    PROVE  /\ StackTypes' /\ \A u \in Thread : Len(stack'[u]) = Depth(u)
           /\ \A u \in Thread : \A i \in 1..Depth(u) :
                  stack'[u][i] = IF u = t /\ i = Depth(t) THEN f ELSE stack[u][i]
  <1>1. stack[t] \in Seq(Frames) /\ Depth(t) \in Nat
    BY StackSeq
  <1>2. Front(stack[t]) \in Seq(Frames) /\ Len(Front(stack[t])) = Depth(t) - 1
        /\ \A i \in 1..(Depth(t) - 1) : Front(stack[t])[i] = stack[t][i]
    BY <1>1, LastFront DEF Depth
  <1> DEFINE s == Append(Front(stack[t]), f)
  <1>3. s \in Seq(Frames) /\ Len(s) = Depth(t) /\ s[Depth(t)] = f
        /\ \A i \in 1..(Depth(t) - 1) : s[i] = stack[t][i]
    BY <1>1, <1>2, AppendProperties
  <1>4. stack' = [stack EXCEPT ![t] = s]
    BY DEF Become
  <1> HIDE DEF s
  <1>5. StackTypes' /\ stack'[t] = s /\ \A u \in Thread \ {t} : stack'[u] = stack[u]
    BY <1>3, <1>4 DEF StackTypes
  <1>6. \A i \in 1..Depth(t) : stack'[t][i] = IF i = Depth(t) THEN f ELSE stack[t][i]
    BY <1>1, <1>3, <1>5
  <1> QED BY <1>3, <1>5, <1>6 DEF Depth

LEMMA BeginStack ==
    ASSUME StackTypes, NEW t \in Thread, NEW f \in Frames, Begin(t, f)
    PROVE  /\ StackTypes' /\ Len(stack'[t]) = Depth(t) + 1
           /\ \A u \in Thread \ {t} : Len(stack'[u]) = Depth(u)
           /\ \A u \in Thread : \A i \in 1..Depth(u) : stack'[u][i] = stack[u][i]
           /\ stack'[t][Depth(t) + 1] = f
  <1>1. stack[t] \in Seq(Frames) /\ Depth(t) \in Nat
    BY StackSeq
  <1> DEFINE s == Append(stack[t], f)
  <1>3. s \in Seq(Frames) /\ Len(s) = Depth(t) + 1 /\ s[Depth(t) + 1] = f
        /\ \A i \in 1..Depth(t) : s[i] = stack[t][i]
    BY <1>1, AppendProperties DEF Depth
  <1>4. stack' = [stack EXCEPT ![t] = s]
    BY DEF Begin
  <1> HIDE DEF s
  <1>5. StackTypes' /\ stack'[t] = s /\ \A u \in Thread \ {t} : stack'[u] = stack[u]
    BY <1>3, <1>4 DEF StackTypes
  <1> QED BY <1>3, <1>5 DEF Depth

LEMMA ReturnStack ==
    ASSUME StackTypes, NEW t \in Thread, Depth(t) >= 1, Return(t)
    PROVE  /\ StackTypes' /\ Len(stack'[t]) = Depth(t) - 1
           /\ \A u \in Thread \ {t} : Len(stack'[u]) = Depth(u)
           /\ \A u \in Thread : \A i \in 1..Len(stack'[u]) : stack'[u][i] = stack[u][i]
  <1>1. stack[t] \in Seq(Frames) /\ Depth(t) \in Nat
    BY StackSeq
  <1> DEFINE s == Front(stack[t])
  <1>3. s \in Seq(Frames) /\ Len(s) = Depth(t) - 1 /\ \A i \in 1..(Depth(t) - 1) : s[i] = stack[t][i]
    BY <1>1, LastFront DEF Depth
  <1>4. stack' = [stack EXCEPT ![t] = s]
    BY DEF Return
  <1> HIDE DEF s
  <1>5. StackTypes' /\ stack'[t] = s /\ \A u \in Thread \ {t} : stack'[u] = stack[u]
    BY <1>3, <1>4 DEF StackTypes
  <1> QED BY <1>3, <1>5 DEF Depth

(* The frame of an invoked task: __kmp_invoke_task.                         *)
Invoked(x) == IF x \in Proxies THEN Frame(x, "bottom", "-") ELSE Run(x)

LEMMA InvokeStack ==
    ASSUME StackTypes, NEW t \in Thread, Depth(t) >= 1, NEW x \in Tasks, Invoke(t, x)
    PROVE  /\ StackTypes' /\ Len(stack'[t]) = Depth(t) + 1
           /\ \A u \in Thread \ {t} : Len(stack'[u]) = Depth(u)
           /\ \A u \in Thread : \A i \in 1..Depth(u) :
                  u # t \/ i # Depth(t) => stack'[u][i] = stack[u][i]
           /\ stack'[t][Depth(t)] =
                  Frame(Current(t), Top(t).doing, IF Final(t) THEN "own" ELSE "wait")
           /\ stack'[t][Depth(t) + 1] = Invoked(x)
  <1>1. stack[t] \in Seq(Frames) /\ Depth(t) \in Nat
    BY StackSeq
  <1>2. Front(stack[t]) \in Seq(Frames) /\ Len(Front(stack[t])) = Depth(t) - 1
        /\ (\A i \in 1..(Depth(t) - 1) : Front(stack[t])[i] = stack[t][i])
        /\ Top(t) \in Frames
    BY <1>1, LastFront DEF Depth, Top
  <1> DEFINE a == IF Final(t) THEN "own" ELSE "wait"
             g == [Last(stack[t]) EXCEPT !.at = a]
             f == Frame(Current(t), Top(t).doing, a)
             r == Append(Front(stack[t]), g)
             s == Append(r, Invoked(x))
  <1>3. a \in Places
    BY DEF Places
  <1>4. g = f /\ f \in Frames
    <2>1. g = [Top(t) EXCEPT !.at = a]
      BY DEF Top
    <2> HIDE DEF a
    <2>2. Top(t).task \in Tasks \union Thread /\ Top(t).doing \in Actions
      BY <1>2 DEF Frames
    <2>3. [Top(t) EXCEPT !.at = a] = [task |-> Top(t).task, doing |-> Top(t).doing, at |-> a]
      BY <1>2 DEF Frames
    <2> QED BY <1>3, <2>1, <2>2, <2>3 DEF Frame, Frames, Current
  <1>5. Invoked(x) \in Frames
    BY DEF Invoked, Frames, Frame, Run, Actions, Places
  <1>6. stack' = [stack EXCEPT ![t] = s]
    BY DEF Invoke, Invoked
  <1> HIDE DEF a, g, f
  <1>7. r \in Seq(Frames) /\ Len(r) = Depth(t) /\ r[Depth(t)] = f
        /\ \A i \in 1..(Depth(t) - 1) : r[i] = stack[t][i]
    BY <1>1, <1>2, <1>4, AppendProperties
  <1> HIDE DEF r
  <1>8. s \in Seq(Frames) /\ Len(s) = Depth(t) + 1 /\ s[Depth(t) + 1] = Invoked(x)
        /\ \A i \in 1..Depth(t) : s[i] = r[i]
    BY <1>1, <1>5, <1>7, AppendProperties
  <1> HIDE DEF s
  <1>9. StackTypes' /\ stack'[t] = s /\ \A u \in Thread \ {t} : stack'[u] = stack[u]
    BY <1>6, <1>8 DEF StackTypes
  <1>10. \A i \in 1..Depth(t) : i # Depth(t) => stack'[t][i] = stack[t][i]
    BY <1>1, <1>7, <1>8, <1>9
  <1>11. stack'[t][Depth(t)] = f
    BY <1>1, <1>7, <1>8, <1>9
  <1> QED BY <1>8, <1>9, <1>10, <1>11 DEF Depth, f, a

(* Who holds a task that is owed, after each of them.                       *)
LEMMA BecomeHeld ==
    ASSUME StackTypes, NEW t \in Thread, Depth(t) >= 1, NEW f \in Frames, Become(t, f)
    PROVE  \A z : \A u \in Thread : \A i \in Nat :
               Hold(z, u, i)' <=> IF u = t /\ i = Depth(t) THEN f.task = z /\ f.doing \in Owing
                                                           ELSE Hold(z, u, i)
  <1> SUFFICES ASSUME NEW z, NEW u \in Thread, NEW i \in Nat
               PROVE  Hold(z, u, i)' <=> IF u = t /\ i = Depth(t) THEN f.task = z /\ f.doing \in Owing
                                                                  ELSE Hold(z, u, i)
    OBVIOUS
  <1>1. /\ Len(stack'[u]) = Depth(u) /\ Depth(u) \in Nat
        /\ \A j \in 1..Depth(u) : stack'[u][j] = IF u = t /\ j = Depth(t) THEN f ELSE stack[u][j]
    BY BecomeStack, StackSeq
  <1>2. Hold(z, u, i)' <=> i \in 1..Depth(u) /\ stack'[u][i].task = z /\ stack'[u][i].doing \in Owing
    BY <1>1 DEF Hold, Depth
  <1>3. CASE u = t /\ i = Depth(t)
    BY <1>1, <1>2, <1>3
  <1>4. CASE ~(u = t /\ i = Depth(t))
    BY <1>1, <1>2, <1>4 DEF Hold
  <1> QED BY <1>3, <1>4

LEMMA BeginHeld ==
    ASSUME StackTypes, NEW t \in Thread, NEW f \in Frames, Begin(t, f)
    PROVE  \A z : \A u \in Thread : \A i \in Nat :
               Hold(z, u, i)' <=> \/ Hold(z, u, i)
                                  \/ u = t /\ i = Depth(t) + 1 /\ f.task = z /\ f.doing \in Owing
  <1> SUFFICES ASSUME NEW z, NEW u \in Thread, NEW i \in Nat
               PROVE  Hold(z, u, i)' <=> \/ Hold(z, u, i)
                                         \/ u = t /\ i = Depth(t) + 1 /\ f.task = z /\ f.doing \in Owing
    OBVIOUS
  <1>1. /\ Depth(u) \in Nat /\ Len(stack'[u]) = IF u = t THEN Depth(u) + 1 ELSE Depth(u)
        /\ \A j \in 1..Depth(u) : stack'[u][j] = stack[u][j]
        /\ u = t => stack'[u][Depth(u) + 1] = f
    BY BeginStack, StackSeq
  <1>2. Hold(z, u, i)' <=> i \in 1..Len(stack'[u]) /\ stack'[u][i].task = z /\ stack'[u][i].doing \in Owing
    BY DEF Hold, Depth
  <1>3. CASE u = t /\ i = Depth(t) + 1
    BY <1>1, <1>2, <1>3 DEF Hold
  <1>4. CASE ~(u = t /\ i = Depth(t) + 1)
    BY <1>1, <1>2, <1>4 DEF Hold
  <1> QED BY <1>3, <1>4

LEMMA ReturnHeld ==
    ASSUME StackTypes, NEW t \in Thread, Depth(t) >= 1, Return(t)
    PROVE  \A z : \A u \in Thread : \A i \in Nat :
               Hold(z, u, i)' <=> Hold(z, u, i) /\ ~(u = t /\ i = Depth(t))
  <1> SUFFICES ASSUME NEW z, NEW u \in Thread, NEW i \in Nat
               PROVE  Hold(z, u, i)' <=> Hold(z, u, i) /\ ~(u = t /\ i = Depth(t))
    OBVIOUS
  <1>1. /\ Depth(u) \in Nat /\ Len(stack'[u]) = IF u = t THEN Depth(u) - 1 ELSE Depth(u)
        /\ \A j \in 1..Len(stack'[u]) : stack'[u][j] = stack[u][j]
    BY ReturnStack, StackSeq
  <1>2. Hold(z, u, i)' <=> i \in 1..Len(stack'[u]) /\ stack'[u][i].task = z /\ stack'[u][i].doing \in Owing
    BY DEF Hold, Depth
  <1>3. i \in 1..Len(stack'[u]) <=> i \in 1..Depth(u) /\ ~(u = t /\ i = Depth(t))
    BY <1>1
  <1> QED BY <1>1, <1>2, <1>3 DEF Hold

LEMMA InvokeHeld ==
    ASSUME StackTypes, NEW t \in Thread, Depth(t) >= 1, NEW x \in Tasks, Invoke(t, x)
    PROVE  \A z : \A u \in Thread : \A i \in Nat :
               Hold(z, u, i)' <=> \/ Hold(z, u, i)
                                  \/ u = t /\ i = Depth(t) + 1 /\ z = x /\ x \notin Proxies
  <1> SUFFICES ASSUME NEW z, NEW u \in Thread, NEW i \in Nat
               PROVE  Hold(z, u, i)' <=> \/ Hold(z, u, i)
                                         \/ u = t /\ i = Depth(t) + 1 /\ z = x /\ x \notin Proxies
    OBVIOUS
  <1>0. Top(t) = stack[t][Depth(t)]
    BY StackSeq
  <1>1. /\ Depth(u) \in Nat /\ Len(stack'[u]) = IF u = t THEN Depth(u) + 1 ELSE Depth(u)
        /\ \A j \in 1..Depth(u) : stack'[u][j].task = stack[u][j].task
                                  /\ stack'[u][j].doing = stack[u][j].doing
        /\ u = t => stack'[u][Depth(u) + 1] = Invoked(x)
    <2>1. PICK f : f = Frame(Current(t), Top(t).doing, IF Final(t) THEN "own" ELSE "wait")
      OBVIOUS
    <2>2. f.task = stack[t][Depth(t)].task /\ f.doing = stack[t][Depth(t)].doing
      BY <1>0, <2>1 DEF Frame, Current
    <2>3. /\ Len(stack'[t]) = Depth(t) + 1
          /\ \A v \in Thread \ {t} : Len(stack'[v]) = Depth(v)
          /\ \A v \in Thread : \A j \in 1..Depth(v) :
                 v # t \/ j # Depth(t) => stack'[v][j] = stack[v][j]
          /\ stack'[t][Depth(t)] = f
          /\ stack'[t][Depth(t) + 1] = Invoked(x)
      BY <2>1, InvokeStack
    <2>4. Depth(u) \in Nat
      BY StackSeq
    <2> QED BY <2>2, <2>3, <2>4
  <1>2. Hold(z, u, i)' <=> i \in 1..Len(stack'[u]) /\ stack'[u][i].task = z /\ stack'[u][i].doing \in Owing
    BY DEF Hold, Depth
  <1>3. Invoked(x).task = x /\ (Invoked(x).doing \in Owing <=> x \notin Proxies)
    BY DEF Invoked, Frame, Run, Owing, Working
  <1>4. CASE u = t /\ i = Depth(t) + 1
    BY <1>1, <1>2, <1>3, <1>4 DEF Hold
  <1>5. CASE ~(u = t /\ i = Depth(t) + 1)
    BY <1>1, <1>2, <1>5 DEF Hold
  <1> QED BY <1>4, <1>5

(* The tasks on a stack above the first frame are explicit tasks.           *)
LEMMA HeldTask ==
    ASSUME StackTypes, Shape, NEW x \in Tasks, NEW t \in Thread, NEW i \in Nat, Hold(x, t, i)
    PROVE  i \in 2..Depth(t)
  BY StackSeq, TaskAssumption DEF Hold, Shape, GoodFrame

-----------------------------------------------------------------------------
(* Steps by which a thread goes on with the task at the top of its stack.   *)

LEMMA BecomeShape ==
    ASSUME StackTypes, Shape, NEW t \in Thread, NEW f \in Frames, Become(t, f),
           GoodFrame(t, Depth(t), f)
    PROVE  Shape'
  <1>1. /\ \A u \in Thread : Len(stack'[u]) = Depth(u)
        /\ \A u \in Thread : \A i \in 1..Depth(u) :
               stack'[u][i] = IF u = t /\ i = Depth(t) THEN f ELSE stack[u][i]
    BY BecomeStack DEF Shape
  <1> SUFFICES ASSUME NEW u \in Thread
               PROVE  /\ Depth(u)' >= 1
                      /\ \A i \in 1..Depth(u)' : GoodFrame(u, i, stack[u][i])'
                      /\ \A i \in 1..(Depth(u)' - 1) :
                             stack'[u][i].doing \in Working \union {"gather", "release", "teamwait"}
    BY DEF Shape, GoodFrame
  <1>2. Depth(u)' = Depth(u) /\ Depth(u) \in Nat /\ Depth(u) >= 1
    BY <1>1, StackSeq DEF Depth, Shape
  <1>3. ASSUME NEW i \in 1..Depth(u) PROVE GoodFrame(u, i, stack[u][i])'
    BY <1>1, <1>3 DEF Shape, GoodFrame
  <1>4. ASSUME NEW i \in 1..(Depth(u) - 1)
        PROVE  stack'[u][i].doing \in Working \union {"gather", "release", "teamwait"}
    BY <1>1, <1>2, <1>4 DEF Shape
  <1> QED BY <1>2, <1>3, <1>4

(* The counts follow from who is owed what.                                 *)
LEMMA SameOwed ==
    ASSUME Counts, UNCHANGED parent, \A x \in Tasks : Owed(x)' <=> Owed(x),
           \A y \in Tasks \union Thread : Tallied(y) => incomplete'[y] = incomplete[y]
    PROVE  Counts'
  <1>1. ASSUME NEW y \in Tasks \union Thread PROVE OwedTo(y)' = OwedTo(y)
    BY DEF OwedTo
  <1> QED BY <1>1 DEF Counts, Tallied

LEMMA OwedFinite ==
    ASSUME NEW y PROVE IsFiniteSet(OwedTo(y)) /\ Cardinality(OwedTo(y)) \in Nat
  BY TaskAssumption, FS_Subset, FS_CardinalityType DEF OwedTo

(* One task is owed no longer.                                              *)
LEMMA LessOwed ==
    ASSUME TaskTypes, Counts, UNCHANGED parent, NEW x \in Tasks, Owed(x), ~Owed(x)',
           \A z \in Tasks \ {x} : Owed(z)' <=> Owed(z), parent[x] \in Tasks \union Thread,
           incomplete' = [incomplete EXCEPT ![parent[x]] = @ - 1]
    PROVE  Counts'
  <1>1. ASSUME NEW y \in Tasks \union Thread, Tallied(y)
        PROVE  incomplete'[y] = Cardinality(OwedTo(y)')
    <2>1. CASE y = parent[x]
      <3>1. x \in OwedTo(y) /\ OwedTo(y)' = OwedTo(y) \ {x}
        BY <2>1 DEF OwedTo
      <3>2. Cardinality(OwedTo(y)') = Cardinality(OwedTo(y)) - 1
        BY <3>1, OwedFinite, FS_RemoveElement
      <3> QED BY <1>1, <2>1, <3>2 DEF TaskTypes, Counts
    <2>2. CASE y # parent[x]
      <3>1. OwedTo(y)' = OwedTo(y)
        BY <2>2 DEF OwedTo
      <3> QED BY <1>1, <2>2, <3>1 DEF TaskTypes, Counts
    <2> QED BY <2>1, <2>2
  <1> QED BY <1>1 DEF Counts, Tallied

(* A new task is owed to the task that creates it.                          *)
LEMMA MoreOwed ==
    ASSUME TaskTypes, Counts, NEW x \in Tasks, NEW y \in Tasks \union Thread,
           parent' = [parent EXCEPT ![x] = y], ~Owed(x), Owed(x)',
           \A z \in Tasks \ {x} : Owed(z)' <=> Owed(z),
           incomplete' = [incomplete EXCEPT ![y] = @ + 1]
    PROVE  Counts'
  <1>1. ASSUME NEW w \in Tasks \union Thread, Tallied(w)
        PROVE  incomplete'[w] = Cardinality(OwedTo(w)')
    <2>1. CASE w = y
      <3>1. x \notin OwedTo(w) /\ OwedTo(w)' = OwedTo(w) \union {x}
        BY <2>1 DEF OwedTo, TaskTypes
      <3>2. Cardinality(OwedTo(w)') = Cardinality(OwedTo(w)) + 1
        BY <3>1, OwedFinite, FS_AddElement
      <3> QED BY <1>1, <2>1, <3>2 DEF TaskTypes, Counts
    <2>2. CASE w # y
      <3>1. OwedTo(w)' = OwedTo(w)
        BY <2>2 DEF OwedTo, TaskTypes
      <3> QED BY <1>1, <2>2, <3>1 DEF TaskTypes, Counts
    <2> QED BY <2>1, <2>2
  <1> QED BY <1>1 DEF Counts, Tallied

(* No task is created: those of the stacks and deques were known before.    *)
KnownTask(x) == x \in Tasks /\ life[x] # "none"

LEMMA SameKnown ==
    ASSUME CountInv, UNCHANGED parent, \A x \in Tasks : life'[x] = "none" <=> life[x] = "none",
           \A x \in Proxies : life'[x] = "none" => ext'[x] = "none",
           \A t \in Thread : \A i \in 2..Depth(t)' : KnownTask(stack'[t][i].task),
           \A x \in Tasks : InDeque(x)' => life[x] # "none"
    PROVE  Known'
  <1>1. \A x \in Tasks : life'[x] # "none" =>
            parent'[x] # None /\ (parent'[x] \in Tasks => life'[parent'[x]] # "none")
    BY DEF CountInv, Known
  <1>2. \A t \in Thread : \A i \in 2..Depth(t)' : life'[stack'[t][i].task] # "none"
    BY DEF KnownTask
  <1> QED BY <1>1, <1>2 DEF Known

LEMMA SameOnce ==
    /\ OnceOnStacks /\ UNCHANGED stack => OnceOnStacks'
    /\ OnceInDeques /\ UNCHANGED deque => OnceInDeques'
  <1>1. OnceOnStacks /\ UNCHANGED stack => OnceOnStacks'
    BY DEF OnceOnStacks, Hold, Depth
  <1>2. OnceInDeques /\ UNCHANGED deque => OnceInDeques'
    BY DEF OnceInDeques, Queued
  <1> QED BY <1>1, <1>2

(* A frame whose work goes on.  A task may be marked complete by the way.   *)
LEMMA QuietKeepsCount ==
    ASSUME CountInv, TaskTypes', NEW t \in Thread, NEW d, NEW a, Frame(Current(t), d, a) \in Frames,
           Go(t, d, a), GoodFrame(t, Depth(t), Frame(Current(t), d, a)),
           d \in Owing <=> Top(t).doing \in Owing,
           UNCHANGED <<parent, deque, ext>>,
           \A y \in Tasks \union Thread : Tallied(y) => incomplete'[y] = incomplete[y],
           \/ UNCHANGED life /\ d \notin {"count", "top2"}
           \/ life' = [life EXCEPT ![Current(t)] = "complete"]
    PROVE  CountInv'
  <1> DEFINE f == Frame(Current(t), d, a)
             n == Depth(t)
  <1>1. /\ StackTypes' /\ \A u \in Thread : Len(stack'[u]) = Depth(u)
        /\ \A u \in Thread : \A i \in 1..Depth(u) :
               stack'[u][i] = IF u = t /\ i = Depth(t) THEN f ELSE stack[u][i]
    BY BecomeStack DEF CountInv, Shape, Go
  <1>2. Shape'
    BY BecomeShape DEF CountInv, Go
  <1>3. /\ n \in Nat /\ n >= 1 /\ stack[t][n].task = Current(t) /\ Top(t) = stack[t][n]
        /\ f.task = Current(t) /\ f.doing = d
    BY StackSeq DEF CountInv, Shape, Current, Frame
  <1>4. \A u \in Thread : Depth(u) \in Nat /\ Depth(u)' = Depth(u)
    BY <1>1, StackSeq DEF CountInv, Depth
  <1>5. \A u \in Thread : \A i \in 1..Depth(u) :
            /\ stack'[u][i].task = stack[u][i].task
            /\ stack'[u][i].doing \in Owing <=> stack[u][i].doing \in Owing
    BY <1>1, <1>3
  <1>H. \A z : \A u \in Thread : \A i \in Nat : Hold(z, u, i)' <=> Hold(z, u, i)
    BY <1>4, <1>5 DEF Hold
  <1>6. \A x : OnStack(x)' <=> OnStack(x)
    BY <1>H DEF OnStack
  <1>7. \A x : (InDeque(x)' <=> InDeque(x)) /\ (Outside(x)' <=> Outside(x)) /\ (Owed(x)' <=> Owed(x))
    BY <1>6 DEF InDeque, Queued, Outside, Owed
  <1>8. Counts'
    BY <1>7, SameOwed DEF CountInv
  <1>9. \A x \in Tasks : /\ Pending(x)' => Pending(x)
                         /\ life'[x] = "none" <=> life[x] = "none"
    <2>1. Current(t) \in Tasks => life[Current(t)] # "none"
      <3>1. CASE n = 1
        BY <3>1, <1>3, TaskAssumption DEF CountInv, Shape, GoodFrame
      <3>2. CASE n # 1
        <4>1. n \in 2..n
          BY <3>2, <1>3
        <4> QED BY <1>3, <4>1 DEF CountInv, Known
      <3> QED BY <3>1, <3>2
    <2> QED BY <2>1 DEF CountInv, TaskTypes, Pending
  <1>10. Alive'
    <2>1. \A x \in Tasks : Pending(x)' => Owed(x)'
      BY <1>7, <1>9 DEF CountInv, Alive
    <2>2. \A x \in Proxies : ext'[x] \in {"give", "parent"} => ~Pending(x)'
      BY <1>9, TaskAssumption DEF CountInv, Alive
    <2>3. ASSUME NEW u \in Thread, NEW i \in 2..Depth(u), stack'[u][i].doing \in {"count", "top2"}
          PROVE  ~(life'[stack'[u][i].task] \in {"queued", "live"})
      <3>1. i \in 1..Depth(u) /\ stack[u][i].task \in Tasks
        BY <1>4 DEF CountInv, Shape, GoodFrame
      <3>2. CASE u = t /\ i = n
        BY <1>1, <1>3, <2>3, <3>1, <3>2 DEF CountInv, TaskTypes
      <3>3. CASE ~(u = t /\ i = n)
        BY <1>1, <1>9, <2>3, <3>1, <3>3 DEF CountInv, Alive, Pending
      <3> QED BY <3>2, <3>3
    <2> QED BY <1>4, <2>1, <2>2, <2>3 DEF Alive, Pending
  <1>11. Unique'
    <2>1. OnceOnStacks'
      BY <1>H DEF CountInv, Unique, OnceOnStacks
    <2>2. OnceInDeques'
      BY SameOnce DEF CountInv, Unique
    <2>3. Apart'
      BY <1>6, <1>7 DEF CountInv, Unique, Apart
    <2> QED BY <2>1, <2>2, <2>3 DEF Unique
  <1>12. Known'
    <2>1. \A u \in Thread : \A i \in 2..Depth(u) : stack'[u][i].task = stack[u][i].task /\ stack[u][i].task \in Tasks
      BY <1>4, <1>5 DEF CountInv, Shape, GoodFrame
    <2>3. \A u \in Thread : \A i \in 2..Depth(u)' : KnownTask(stack'[u][i].task)
      BY <1>4, <2>1 DEF CountInv, Known, KnownTask
    <2>4. \A z \in Tasks : InDeque(z)' => life[z] # "none"
      BY DEF InDeque, Queued, CountInv, Known
    <2>5. \A x \in Proxies : life'[x] = "none" => ext'[x] = "none"
      BY <1>9, TaskAssumption DEF CountInv, Known
    <2> QED BY <1>9, <2>3, <2>4, <2>5, SameKnown DEF CountInv
  <1> QED BY <1>1, <1>2, <1>8, <1>10, <1>11, <1>12 DEF CountInv

(* A task that is complete is counted by its parent: CountParent, and the   *)
(* second top half of a proxy task.                                         *)
LEMMA SettleKeepsCount ==
    ASSUME CountInv, TaskTypes', NEW t \in Thread, NEW d, NEW a, Frame(Current(t), d, a) \in Frames,
           Go(t, d, a), GoodFrame(t, Depth(t), Frame(Current(t), d, a)),
           Depth(t) >= 2, Top(t).doing \in {"count", "top2"}, d \notin Owing,
           UNCHANGED <<life, parent, deque, ext>>,
           incomplete' = [incomplete EXCEPT ![parent[Current(t)]] = @ - 1]
    PROVE  CountInv'
  <1> DEFINE f == Frame(Current(t), d, a)
             n == Depth(t)
  <1>0. PICK x : x = Current(t)
    OBVIOUS
  <1>1. /\ StackTypes' /\ \A u \in Thread : Len(stack'[u]) = Depth(u)
        /\ \A u \in Thread : \A i \in 1..Depth(u) :
               stack'[u][i] = IF u = t /\ i = Depth(t) THEN f ELSE stack[u][i]
    BY BecomeStack DEF CountInv, Shape, Go
  <1>2. Shape'
    BY BecomeShape DEF CountInv, Go
  <1>3. /\ n \in Nat /\ n >= 2 /\ stack[t][n].task = x /\ Top(t) = stack[t][n]
        /\ f.task = x /\ f.doing = d
    BY <1>0, StackSeq DEF CountInv, Shape, Current, Frame
  <1>4. \A u \in Thread : Depth(u) \in Nat /\ Depth(u)' = Depth(u)
    BY <1>1, StackSeq DEF CountInv, Depth
  <1>5. x \in Tasks /\ life[x] # "none" /\ ~Pending(x) /\ parent[x] \in Tasks \union Thread
    <2>1. n \in 2..n /\ n \in 1..n
      BY <1>3
    <2>2. x \in Tasks /\ life[x] # "none" /\ ~Pending(x)
      BY <1>3, <2>1 DEF CountInv, Shape, GoodFrame, Known, Alive
    <2> QED BY <2>2 DEF CountInv, Known, TaskTypes
  <1>6. \A u \in Thread : \A i \in 1..Depth(u) :
            /\ stack'[u][i].task = stack[u][i].task
            /\ stack'[u][i].doing \in Owing <=> stack[u][i].doing \in Owing /\ ~(u = t /\ i = n)
    BY <1>1, <1>3
  <1>7. \A z : \A u \in Thread : \A i \in Nat : Hold(z, u, i)' <=> Hold(z, u, i) /\ ~(u = t /\ i = n)
    BY <1>4, <1>6 DEF Hold
  <1>H. Hold(x, t, n) /\ \A u \in Thread : \A i \in Nat : Hold(x, u, i) => u = t /\ i = n
    <2>1. n \in 1..n /\ stack[t][n].doing \in Owing
      BY <1>3 DEF Owing
    <2>2. Hold(x, t, n)
      BY <1>3, <2>1 DEF Hold
    <2> QED BY <1>3, <1>5, <2>2 DEF CountInv, Unique, OnceOnStacks
  <1>8. OnStack(x) /\ ~OnStack(x)' /\ \A z : z # x => (OnStack(z)' <=> OnStack(z))
    <2>1. OnStack(x)
      BY <1>3, <1>H DEF OnStack
    <2>2. ~OnStack(x)'
      BY <1>7, <1>H DEF OnStack
    <2>3. \A z : z # x => ~Hold(z, t, n)
      BY <1>3 DEF Hold
    <2>4. \A z : z # x => (OnStack(z)' <=> OnStack(z))
      BY <1>7, <2>3 DEF OnStack
    <2> QED BY <2>1, <2>2, <2>4
  <1>9. \A z : (InDeque(z)' <=> InDeque(z)) /\ (Outside(z)' <=> Outside(z))
    BY DEF InDeque, Queued, Outside
  <1>10. Owed(x) /\ ~Owed(x)' /\ \A z : z # x => (Owed(z)' <=> Owed(z))
    <2>1. x \notin Proxies => ~InDeque(x)
      BY <1>5, <1>8 DEF CountInv, Unique, OnceOnStacks, OnceInDeques, Queued, Apart
    <2>2. ~Outside(x)
      BY <1>8 DEF CountInv, Unique, Apart, Outside
    <2> QED BY <1>8, <1>9, <2>1, <2>2 DEF Owed
  <1>11. Counts'
    BY <1>0, <1>5, <1>10, LessOwed DEF CountInv
  <1>12. Alive'
    <2>1. \A z \in Tasks : Pending(z)' => Owed(z)'
      BY <1>5, <1>10 DEF CountInv, Alive, Pending
    <2>2. ASSUME NEW u \in Thread, NEW i \in 2..Depth(u), stack'[u][i].doing \in {"count", "top2"}
          PROVE  ~(life'[stack'[u][i].task] \in {"queued", "live"})
      <3>1. i \in 1..Depth(u) /\ stack'[u][i].doing \in Owing
        BY <1>4, <2>2 DEF Owing
      <3>2. stack'[u][i] = stack[u][i]
        BY <1>1, <1>6, <3>1
      <3> QED BY <2>2, <3>2 DEF CountInv, Alive, Pending
    <2> QED BY <1>4, <2>1, <2>2 DEF CountInv, Alive, Pending
  <1>13. Unique'
    <2>1. OnceOnStacks'
      BY <1>7 DEF CountInv, Unique, OnceOnStacks
    <2>2. OnceInDeques'
      BY SameOnce DEF CountInv, Unique
    <2>3. Apart'
      BY <1>8, <1>9 DEF CountInv, Unique, Apart
    <2> QED BY <2>1, <2>2, <2>3 DEF Unique
  <1>14. Known'
    <2>1. \A u \in Thread : \A i \in 2..Depth(u) : stack'[u][i].task = stack[u][i].task /\ stack[u][i].task \in Tasks
      BY <1>4, <1>6 DEF CountInv, Shape, GoodFrame
    <2>3. \A u \in Thread : \A i \in 2..Depth(u)' : KnownTask(stack'[u][i].task)
      BY <1>4, <2>1 DEF CountInv, Known, KnownTask
    <2>4. \A z \in Tasks : InDeque(z)' => life[z] # "none"
      BY DEF InDeque, Queued, CountInv, Known
    <2>5. \A z \in Proxies : life'[z] = "none" => ext'[z] = "none"
      BY DEF CountInv, Known
    <2> QED BY <2>3, <2>4, <2>5, SameKnown DEF CountInv
  <1> QED BY <1>1, <1>2, <1>11, <1>12, <1>13, <1>14 DEF CountInv

-----------------------------------------------------------------------------
(* Proxy tasks completed by a thread outside the team.                      *)

DequeType == deque \in [0..1 -> [Thread -> Seq(Tasks)]]

Appended(k, v, x) == deque' = [deque EXCEPT ![k][v] = Append(@, x)]

LEMMA AppendDeque ==
    ASSUME DequeType, NEW k, NEW v, NEW x \in Tasks, Appended(k, v, x)
    PROVE  /\ DequeType'
           /\ \A l \in 0..1, u \in Thread : Len(deque[l][u]) \in Nat
           /\ \A z : \A l \in 0..1, u \in Thread : \A i \in Nat :
                  Queued(z, l, u, i)' <=>
                      \/ Queued(z, l, u, i)
                      \/ z = x /\ l = k /\ u = v /\ i = Len(deque[l][u]) + 1
  <1>1. \A l \in 0..1, u \in Thread :
            deque'[l][u] = IF l = k /\ u = v THEN Append(deque[l][u], x) ELSE deque[l][u]
    BY DEF DequeType, Appended
  <1>2. ASSUME NEW l \in 0..1, NEW u \in Thread
        PROVE  /\ Append(deque[l][u], x) \in Seq(Tasks) /\ Len(deque[l][u]) \in Nat
               /\ Len(Append(deque[l][u], x)) = Len(deque[l][u]) + 1
               /\ \A i \in 1..Len(deque[l][u]) : Append(deque[l][u], x)[i] = deque[l][u][i]
               /\ Append(deque[l][u], x)[Len(deque[l][u]) + 1] = x
    <2>1. deque[l][u] \in Seq(Tasks)
      BY DEF DequeType
    <2> QED BY <2>1, AppendProperties, LenProperties
  <1>3. DequeType'
    <2>1. CASE k \in 0..1 /\ v \in Thread
      <3>1. [deque[k] EXCEPT ![v] = Append(@, x)] \in [Thread -> Seq(Tasks)]
        BY <1>2, <2>1 DEF DequeType
      <3> QED BY <3>1 DEF DequeType, Appended
    <2>2. CASE ~(k \in 0..1 /\ v \in Thread)
      <3>1. deque' = deque
        BY <2>2 DEF DequeType, Appended
      <3> QED BY <3>1 DEF DequeType
    <2> QED BY <2>1, <2>2
  <1>4. ASSUME NEW z, NEW l \in 0..1, NEW u \in Thread, NEW i \in Nat
        PROVE  Queued(z, l, u, i)' <=>
                   \/ Queued(z, l, u, i)
                   \/ z = x /\ l = k /\ u = v /\ i = Len(deque[l][u]) + 1
    <2>1. CASE l = k /\ u = v
      <3>1. deque'[l][u] = Append(deque[l][u], x)
        BY <1>1, <2>1
      <3>2. PICK n \in Nat : n = Len(deque[l][u])
        BY <1>2
      <3>3. Queued(z, l, u, i)' <=> i \in 1..(n + 1) /\ Append(deque[l][u], x)[i] = z
        BY <1>2, <3>1, <3>2 DEF Queued
      <3>4. CASE i \in 1..n
        BY <1>2, <3>2, <3>3, <3>4 DEF Queued
      <3>5. CASE i = n + 1
        BY <1>2, <2>1, <3>2, <3>3, <3>5 DEF Queued
      <3>6. CASE i \notin 1..(n + 1)
        BY <3>2, <3>3, <3>6 DEF Queued
      <3> QED BY <3>4, <3>5, <3>6
    <2>2. CASE ~(l = k /\ u = v)
      <3>1. deque'[l][u] = deque[l][u]
        BY <1>1, <2>2
      <3> QED BY <2>2, <3>1 DEF Queued
    <2> QED BY <2>1, <2>2
  <1>5. \A l \in 0..1, u \in Thread : Len(deque[l][u]) \in Nat
    BY <1>2
  <1> QED BY <1>3, <1>4, <1>5

LEMMA DequeElements ==
    ASSUME DequeType, NEW k \in 0..1, NEW t \in Thread
    PROVE  /\ deque[k][t] \in Seq(Tasks) /\ Len(deque[k][t]) \in Nat
           /\ \A i \in 1..Len(deque[k][t]) : deque[k][t][i] \in Tasks
  <1>1. deque[k][t] \in Seq(Tasks)
    BY DEF DequeType
  <1> QED BY <1>1, LenProperties, ElementOfSeq

LEMMA OutsideKeepsCount ==
    ASSUME CountInv, NEW x \in Proxies, Complete(x)
    PROVE  CountInv'
  <1> USE TaskAssumption DEF tree, teams, sync
  <1>0. StackTypes /\ TaskTypes /\ Shape /\ Alive /\ Unique /\ Known /\ Counts
    BY DEF CountInv
  <1>1. UNCHANGED <<stack, parent>> /\ x \in Tasks
    BY <1>0 DEF Complete, ExtFirstTop, ExtGive, ExtCountParent, ExtRemoveChild, FirstTopHalf
  <1>2. StackTypes' /\ Shape' /\ \A z : OnStack(z)' <=> OnStack(z)
    BY <1>0, <1>1 DEF StackTypes, Shape, GoodFrame, OnStack, Hold, Depth
  <1>3. ext[x] # "none" /\ life[x] # "none" /\ ~OnStack(x) /\ parent[x] \in Tasks \union Thread
    BY <1>0, <1>1 DEF Complete, ExtFirstTop, ExtGive, ExtCountParent, ExtRemoveChild, Unique, Apart, Known, TaskTypes
  <1>4. \A z \in Tasks : InDeque(z) => life[z] # "none"
    BY <1>0 DEF Known
  <1>5. \A t \in Thread : \A i \in 2..Depth(t) : KnownTask(stack[t][i].task)
    <2>1. \A t \in Thread : Depth(t) \in Nat /\ 2..Depth(t) \subseteq 1..Depth(t)
      BY <1>0, StackSeq
    <2> QED BY <1>0, <2>1 DEF Shape, GoodFrame, Known, KnownTask
  <1>6. CASE ExtFirstTop(x)
    <2>1. /\ life' = [life EXCEPT ![x] = "complete"] /\ ext' = [ext EXCEPT ![x] = "give"]
          /\ incomplete' = [incomplete EXCEPT ![x] = @ + 1] /\ UNCHANGED deque /\ ext[x] = "started"
      BY <1>0, <1>6 DEF ExtFirstTop, FirstTopHalf
    <2>2. TaskTypes'
      BY <1>0, <1>1, <2>1 DEF TaskTypes
    <2>3. \A z : Owed(z)' <=> Owed(z)
      BY <1>0, <1>2, <2>1 DEF Owed, InDeque, Queued, Outside, TaskTypes
    <2>4. Counts'
      BY <1>0, <1>1, <2>1, <2>3, SameOwed DEF Tallied, TaskTypes
    <2>5. \A z \in Tasks : Pending(z)' <=> Pending(z) /\ z # x
      BY <1>0, <1>1, <2>1 DEF Pending, TaskTypes
    <2>6. Alive'
      BY <1>0, <1>1, <2>1, <2>3, <2>5, <1>5 DEF Alive, KnownTask, Depth, Pending, TaskTypes
    <2>7. Unique'
      <3>1. OnceOnStacks' /\ OnceInDeques'
        BY <1>0, <1>1, <2>1, SameOnce DEF Unique
      <3>2. Apart'
        BY <1>0, <1>2, <1>3, <2>1 DEF Unique, Apart, InDeque, Queued, TaskTypes
      <3> QED BY <1>0, <3>1, <3>2 DEF Unique
    <2>8. Known'
      BY <1>0, <1>1, <1>3, <1>4, <1>5, <2>1, SameKnown DEF TaskTypes, Known, Depth, InDeque, Queued
    <2> QED BY <1>2, <2>2, <2>4, <2>6, <2>7, <2>8 DEF CountInv
  <1>7. CASE ExtGive(x)
    <2>1. /\ UNCHANGED <<life, incomplete>> /\ ext' = [ext EXCEPT ![x] = "parent"] /\ ext[x] = "give"
      BY <1>0, <1>7 DEF ExtGive
    <2>2. PICK k : k = home[x]
      OBVIOUS
    <2>3. PICK v \in Thread : deque' = [deque EXCEPT ![k][v] = Append(@, x)]
      BY <1>0, <1>7, <2>2 DEF ExtGive
    <2>4. Appended(k, v, x)
      BY <2>3 DEF Appended
    <2>5. /\ DequeType'
          /\ \A z : \A l \in 0..1, u \in Thread : \A i \in Nat :
                 Queued(z, l, u, i)' <=>
                     \/ Queued(z, l, u, i)
                     \/ z = x /\ l = k /\ u = v /\ i = Len(deque[l][u]) + 1
      <3>1. DequeType
        BY <1>0 DEF DequeType, TaskTypes
      <3> QED BY <1>1, <2>4, <3>1, AppendDeque
    <2>8. TaskTypes'
      BY <1>0, <1>1, <2>1, <2>5 DEF TaskTypes, DequeType
    <2>9. \A z : z # x => (InDeque(z)' <=> InDeque(z))
      BY <2>5 DEF InDeque
    <2>10. \A z \in Tasks : Owed(z)' <=> Owed(z)
      BY <1>0, <1>2, <2>1, <2>9 DEF Owed, Outside, TaskTypes
    <2>11. Counts'
      BY <1>0, <1>1, <2>1, <2>10, SameOwed
    <2>12. Alive'
      BY <1>0, <1>1, <2>1, <2>10 DEF Alive, Depth, Pending, TaskTypes
    <2>13. Unique'
      <3>1. \A z \in Tasks \ Proxies : ~(InDeque(z)' /\ OnStack(z)')
        BY <1>0, <1>2, <2>9 DEF Unique, Apart
      <3>2. \A z \in Proxies : ext'[z] # "none" => ~OnStack(z)'
        BY <1>0, <1>2, <1>3, <2>1 DEF Unique, Apart, TaskTypes
      <3>3. OnceInDeques'
        <4>1. \A z \in Tasks \ Proxies : \A l \in 0..1, u \in Thread : \A i \in Nat :
                  Queued(z, l, u, i)' <=> Queued(z, l, u, i)
          BY <2>5
        <4> QED BY <1>0, <4>1 DEF Unique, OnceInDeques
      <3>4. OnceOnStacks'
        BY <1>0, <1>1 DEF Unique, OnceOnStacks, Hold, Depth
      <3> QED BY <1>0, <3>1, <3>2, <3>3, <3>4 DEF Unique, Apart
    <2>14. Known'
      <3>1. \A z \in Tasks : InDeque(z)' => life[z] # "none"
        BY <1>3, <1>4, <2>9
      <3>2. \A z \in Proxies : life'[z] = "none" => ext'[z] = "none"
        BY <1>0, <1>3, <2>1 DEF Known, TaskTypes
      <3> QED BY <1>0, <1>1, <1>5, <2>1, <3>1, <3>2, SameKnown DEF Depth
    <2> QED BY <1>2, <2>8, <2>11, <2>12, <2>13, <2>14 DEF CountInv
  <1>8. CASE ExtCountParent(x)
    <2>1. /\ UNCHANGED <<life, deque>> /\ ext' = [ext EXCEPT ![x] = "child"] /\ ext[x] = "parent"
          /\ incomplete' = [incomplete EXCEPT ![parent[x]] = @ - 1]
      BY <1>0, <1>8 DEF ExtCountParent
    <2>2. TaskTypes'
      BY <1>0, <1>1, <1>3, <2>1 DEF TaskTypes
    <2>3. Owed(x) /\ ~Owed(x)' /\ \A z : z # x => (Owed(z)' <=> Owed(z))
      BY <1>0, <1>2, <1>3, <2>1 DEF Owed, InDeque, Queued, Outside, TaskTypes
    <2>4. Counts'
      BY <1>0, <1>1, <1>3, <2>1, <2>3, LessOwed
    <2>5. ~Pending(x)
      BY <1>0, <2>1 DEF Alive
    <2>6. Alive'
      BY <1>0, <1>1, <2>1, <2>3, <2>5 DEF Alive, Depth, Pending, TaskTypes
    <2>7. Unique'
      <3>1. OnceOnStacks' /\ OnceInDeques'
        BY <1>0, <1>1, <2>1, SameOnce DEF Unique
      <3>2. Apart'
        BY <1>0, <1>2, <1>3, <2>1 DEF Unique, Apart, InDeque, Queued, TaskTypes
      <3> QED BY <1>0, <3>1, <3>2 DEF Unique
    <2>8. Known'
      BY <1>0, <1>1, <1>3, <1>4, <1>5, <2>1, SameKnown DEF TaskTypes, Known, Depth, InDeque, Queued
    <2> QED BY <1>2, <2>2, <2>4, <2>6, <2>7, <2>8 DEF CountInv
  <1>9. CASE ExtRemoveChild(x)
    <2>1. /\ UNCHANGED <<life, deque>> /\ ext' = [ext EXCEPT ![x] = "done"] /\ ext[x] = "child"
          /\ incomplete' = [incomplete EXCEPT ![x] = @ - 1]
      BY <1>0, <1>9 DEF ExtRemoveChild
    <2>2. TaskTypes'
      BY <1>0, <1>1, <2>1 DEF TaskTypes
    <2>3. \A z : Owed(z)' <=> Owed(z)
      BY <1>0, <1>2, <2>1 DEF Owed, InDeque, Queued, Outside, TaskTypes
    <2>4. Counts'
      BY <1>0, <1>1, <2>1, <2>3, SameOwed DEF Tallied, TaskTypes
    <2>6. Alive'
      BY <1>0, <1>1, <2>1, <2>3 DEF Alive, Depth, Pending, TaskTypes
    <2>7. Unique'
      <3>1. OnceOnStacks' /\ OnceInDeques'
        BY <1>0, <1>1, <2>1, SameOnce DEF Unique
      <3>2. Apart'
        BY <1>0, <1>2, <1>3, <2>1 DEF Unique, Apart, InDeque, Queued, TaskTypes
      <3> QED BY <1>0, <3>1, <3>2 DEF Unique
    <2>8. Known'
      BY <1>0, <1>1, <1>3, <1>4, <1>5, <2>1, SameKnown DEF TaskTypes, Known, Depth, InDeque, Queued
    <2> QED BY <1>2, <2>2, <2>4, <2>6, <2>7, <2>8 DEF CountInv
  <1> QED BY <1>6, <1>7, <1>8, <1>9 DEF Complete

-----------------------------------------------------------------------------
(* A task taken from a deque: TakeOwn and Steal.                            *)

TakenNewest(k, v) == deque' = [deque EXCEPT ![k][v] = Front(@)]
TakenOldest(k, v) == deque' = [deque EXCEPT ![k][v] = Tail(@)]

(* What both keep: x is gone, and no other task.                            *)
Taken(x) ==
    /\ DequeType' /\ OnceInDeques' /\ InDeque(x)
    /\ x \notin Proxies => ~InDeque(x)'
    /\ \A z : InDeque(z)' => InDeque(z)
    /\ \A z : z # x /\ InDeque(z) => InDeque(z)'

Replaced(k, v, s) == deque' = [deque EXCEPT ![k][v] = s]

LEMMA UpdateDeque ==
    ASSUME DequeType, NEW k \in 0..1, NEW v \in Thread, NEW s \in Seq(Tasks), Replaced(k, v, s)
    PROVE  /\ DequeType' /\ deque'[k][v] = s
           /\ \A l \in 0..1, u \in Thread : ~(l = k /\ u = v) => deque'[l][u] = deque[l][u]
  <1>1. [deque[k] EXCEPT ![v] = s] \in [Thread -> Seq(Tasks)]
    BY DEF DequeType
  <1> QED BY <1>1 DEF DequeType, Replaced

LEMMA TakeNewest ==
    ASSUME DequeType, OnceInDeques, NEW k \in 0..1, NEW v \in Thread, deque[k][v] # <<>>,
           TakenNewest(k, v), NEW x, x = Last(deque[k][v])
    PROVE  /\ x \in Tasks /\ Taken(x)
           /\ \A z : \A l \in 0..1, u \in Thread : \A i \in Nat :
                  Queued(z, l, u, i)' <=> Queued(z, l, u, i) /\ ~(l = k /\ u = v /\ i = Len(deque[k][v]))
  <1> DEFINE s == deque[k][v]
             r == Front(s)
  <1>1. s \in Seq(Tasks) /\ Len(s) \in Nat /\ Len(s) >= 1
    BY EmptySeq, LenProperties DEF DequeType
  <1>2. /\ x = s[Len(s)] /\ x \in Tasks /\ r \in Seq(Tasks) /\ Len(r) = Len(s) - 1
        /\ \A i \in 1..(Len(s) - 1) : r[i] = s[i]
    BY <1>1, LastFront
  <1>3. /\ DequeType' /\ deque'[k][v] = r
        /\ \A l \in 0..1, u \in Thread : ~(l = k /\ u = v) => deque'[l][u] = deque[l][u]
    <2>1. Replaced(k, v, r)
      BY DEF TakenNewest, DequeType, Replaced
    <2> QED BY <1>2, <2>1, UpdateDeque
  <1>4. ASSUME NEW z, NEW l \in 0..1, NEW u \in Thread, NEW i \in Nat
        PROVE  Queued(z, l, u, i)' <=> Queued(z, l, u, i) /\ ~(l = k /\ u = v /\ i = Len(deque[k][v]))
    <2>1. CASE l = k /\ u = v
      <3>1. Queued(z, l, u, i)' <=> i \in 1..(Len(s) - 1) /\ r[i] = z
        BY <1>2, <1>3, <2>1 DEF Queued
      <3>2. i \in 1..(Len(s) - 1) <=> i \in 1..Len(s) /\ i # Len(s)
        BY <1>1
      <3> QED BY <1>2, <2>1, <3>1, <3>2 DEF Queued
    <2>2. CASE ~(l = k /\ u = v)
      BY <1>3, <2>2 DEF Queued
    <2> QED BY <2>1, <2>2
  <1>5. Queued(x, k, v, Len(s)) /\ \A z : Queued(z, k, v, Len(s)) => z = x
    BY <1>1, <1>2 DEF Queued
  <1> HIDE DEF s, r
  <1>6. OnceInDeques'
    BY <1>4 DEF OnceInDeques
  <1>7. InDeque(x)
    BY <1>1, <1>5 DEF InDeque
  <1>8. \A z : InDeque(z)' => InDeque(z)
    BY <1>4 DEF InDeque
  <1>9. \A z : z # x /\ InDeque(z) => InDeque(z)'
    BY <1>4, <1>5 DEF InDeque, s
  <1>10. x \notin Proxies => ~InDeque(x)'
    BY <1>1, <1>2, <1>4, <1>5 DEF InDeque, OnceInDeques, s
  <1> QED BY <1>2, <1>3, <1>4, <1>6, <1>7, <1>8, <1>9, <1>10 DEF Taken

LEMMA TakeOldest ==
    ASSUME DequeType, OnceInDeques, NEW k \in 0..1, NEW v \in Thread, deque[k][v] # <<>>,
           TakenOldest(k, v), NEW x, x = Head(deque[k][v])
    PROVE  /\ x \in Tasks /\ Taken(x)
           /\ \A z : \A l \in 0..1, u \in Thread : \A i \in Nat :
                  Queued(z, l, u, i)' <=> IF l = k /\ u = v THEN i >= 1 /\ Queued(z, l, u, i + 1)
                                                            ELSE Queued(z, l, u, i)
  <1> DEFINE s == deque[k][v]
             r == Tail(s)
  <1>1. s \in Seq(Tasks) /\ Len(s) \in Nat /\ Len(s) >= 1
    BY EmptySeq, LenProperties DEF DequeType
  <1>2. /\ x = s[1] /\ x \in Tasks /\ r \in Seq(Tasks) /\ Len(r) = Len(s) - 1
        /\ \A i \in 1..(Len(s) - 1) : r[i] = s[i + 1]
    BY <1>1, HeadTailProperties
  <1>3. /\ DequeType' /\ deque'[k][v] = r
        /\ \A l \in 0..1, u \in Thread : ~(l = k /\ u = v) => deque'[l][u] = deque[l][u]
    <2>1. Replaced(k, v, r)
      BY DEF TakenOldest, DequeType, Replaced
    <2> QED BY <1>2, <2>1, UpdateDeque
  <1>4. ASSUME NEW z, NEW l \in 0..1, NEW u \in Thread, NEW i \in Nat
        PROVE  Queued(z, l, u, i)' <=> IF l = k /\ u = v THEN i >= 1 /\ Queued(z, l, u, i + 1)
                                                         ELSE Queued(z, l, u, i)
    <2>1. CASE l = k /\ u = v
      <3>1. Queued(z, l, u, i)' <=> i \in 1..(Len(s) - 1) /\ r[i] = z
        BY <1>2, <1>3, <2>1 DEF Queued
      <3>2. i \in 1..(Len(s) - 1) <=> i >= 1 /\ i + 1 \in 1..Len(s)
        BY <1>1
      <3> QED BY <1>2, <2>1, <3>1, <3>2 DEF Queued
    <2>2. CASE ~(l = k /\ u = v)
      BY <1>3, <2>2 DEF Queued
    <2> QED BY <2>1, <2>2
  <1>5. Queued(x, k, v, 1) /\ \A z : Queued(z, k, v, 1) => z = x
    BY <1>1, <1>2 DEF Queued
  <1> HIDE DEF s, r
  <1>6. OnceInDeques'
    <2> SUFFICES ASSUME NEW z \in Tasks \ Proxies, NEW l \in 0..1, NEW m \in 0..1, NEW t \in Thread,
                        NEW u \in Thread, NEW i \in Nat, NEW j \in Nat,
                        Queued(z, l, t, i)', Queued(z, m, u, j)'
                 PROVE  l = m /\ t = u /\ i = j
      BY DEF OnceInDeques
    <2>1. PICK p \in Nat : /\ Queued(z, l, t, p) /\ (l = k /\ t = v => p = i + 1)
                           /\ ~(l = k /\ t = v) => p = i
      <3>1. CASE l = k /\ t = v
        <4>1. Queued(z, l, t, i + 1)
          BY <1>4, <3>1
        <4> QED BY <3>1, <4>1
      <3>2. CASE ~(l = k /\ t = v)
        <4>1. Queued(z, l, t, i)
          BY <1>4, <3>2
        <4> QED BY <3>2, <4>1
      <3> QED BY <3>1, <3>2
    <2>2. PICK q \in Nat : /\ Queued(z, m, u, q) /\ (m = k /\ u = v => q = j + 1)
                           /\ ~(m = k /\ u = v) => q = j
      <3>1. CASE m = k /\ u = v
        <4>1. Queued(z, m, u, j + 1)
          BY <1>4, <3>1
        <4> QED BY <3>1, <4>1
      <3>2. CASE ~(m = k /\ u = v)
        <4>1. Queued(z, m, u, j)
          BY <1>4, <3>2
        <4> QED BY <3>2, <4>1
      <3> QED BY <3>1, <3>2
    <2>3. l = m /\ t = u /\ p = q
      BY <2>1, <2>2 DEF OnceInDeques
    <2> QED BY <2>1, <2>2, <2>3
  <1>7. InDeque(x)
    BY <1>5 DEF InDeque
  <1>8. ASSUME NEW z, InDeque(z)' PROVE InDeque(z)
    <2>1. PICK l \in 0..1, u \in Thread, i \in Nat : Queued(z, l, u, i)'
      BY <1>8 DEF InDeque
    <2>2. Queued(z, l, u, i) \/ Queued(z, l, u, i + 1)
      BY <1>4, <2>1
    <2> QED BY <2>2 DEF InDeque
  <1>9. ASSUME NEW z, z # x, InDeque(z) PROVE InDeque(z)'
    <2>1. PICK l \in 0..1, u \in Thread, i \in Nat : Queued(z, l, u, i)
      BY <1>9 DEF InDeque
    <2>2. CASE l = k /\ u = v
      <3>1. i >= 1 /\ i # 1
        BY <1>5, <1>9, <2>1, <2>2, DequeElements DEF Queued
      <3>2. i - 1 \in Nat /\ i - 1 >= 1 /\ (i - 1) + 1 = i
        BY <3>1
      <3>3. PICK j \in Nat : j = i - 1
        BY <3>2
      <3>4. Queued(z, l, u, j)'
        BY <1>4, <2>1, <2>2, <3>2, <3>3
      <3> QED BY <3>4 DEF InDeque
    <2>3. CASE ~(l = k /\ u = v)
      <3>1. Queued(z, l, u, i)'
        BY <1>4, <2>1, <2>3
      <3> QED BY <3>1 DEF InDeque
    <2> QED BY <2>2, <2>3
  <1>10. ASSUME x \notin Proxies, InDeque(x)' PROVE FALSE
    <2>1. PICK l \in 0..1, u \in Thread, i \in Nat : Queued(x, l, u, i)'
      BY <1>10 DEF InDeque
    <2>2. PICK p \in Nat : Queued(x, l, u, p) /\ (l = k /\ u = v => p >= 2)
      BY <1>4, <2>1
    <2>3. l = k /\ u = v /\ p = 1
      <3>1. x \in Tasks \ Proxies /\ Queued(x, k, v, 1)
        BY <1>2, <1>5, <1>10
      <3>2. \A a, j \in Nat : Queued(x, l, u, a) /\ Queued(x, k, v, j) => l = k /\ u = v /\ a = j
        BY <1>2, <3>1 DEF OnceInDeques
      <3> QED BY <2>2, <3>1, <3>2
    <2> QED BY <2>2, <2>3
  <1> QED BY <1>2, <1>3, <1>4, <1>6, <1>7, <1>8, <1>9, <1>10 DEF Taken

LEMMA InvokeKeepsCount ==
    ASSUME CountInv, NEW t \in Thread, Waiting(t), NEW x \in Tasks, Invoke(t, x), Taken(x),
           UNCHANGED <<parent, incomplete, ext>>,
           life' = IF x \in Proxies THEN life ELSE [life EXCEPT ![x] = "live"]
    PROVE  CountInv'
  <1> DEFINE n == Depth(t)
  <1>0. StackTypes /\ TaskTypes /\ Shape /\ Alive /\ Unique /\ Known /\ Counts
    BY DEF CountInv
  <1>1. n \in Nat /\ n >= 1 /\ Top(t) = stack[t][n] /\ \A u \in Thread : Depth(u) \in Nat /\ Depth(u) >= 1
    BY <1>0, StackSeq DEF Shape
  <1>2. PICK f : /\ f = stack'[t][n] /\ f.task = stack[t][n].task /\ f.doing = stack[t][n].doing
                 /\ StackTypes' /\ Len(stack'[t]) = n + 1
                 /\ \A u \in Thread \ {t} : Len(stack'[u]) = Depth(u)
                 /\ \A u \in Thread : \A i \in 1..Depth(u) :
                        u # t \/ i # n => stack'[u][i] = stack[u][i]
                 /\ stack'[t][n + 1] = Invoked(x)
    <2>1. stack'[t][n] = Frame(Current(t), Top(t).doing, IF Final(t) THEN "own" ELSE "wait")
      BY <1>0, <1>1, InvokeStack
    <2>2. stack'[t][n].task = stack[t][n].task /\ stack'[t][n].doing = stack[t][n].doing
      BY <1>1, <2>1 DEF Frame, Current
    <2> QED BY <1>0, <1>1, <2>2, InvokeStack
  <1>3. \A u \in Thread : \A i \in 1..Depth(u) :
            stack'[u][i].task = stack[u][i].task /\ stack'[u][i].doing = stack[u][i].doing
    BY <1>2
  <1>4. /\ Invoked(x).task = x /\ Invoked(x).doing \in {"run", "bottom"}
        /\ Invoked(x).doing = "run" => x \notin Proxies
    BY DEF Invoked, Run, Frame
  <1>5. Shape'
    <2> SUFFICES ASSUME NEW u \in Thread
                 PROVE  /\ Len(stack'[u]) >= 1
                        /\ \A i \in 1..Len(stack'[u]) : GoodFrame(u, i, stack'[u][i])
                        /\ \A i \in 1..(Len(stack'[u]) - 1) :
                               stack'[u][i].doing \in Working \union {"gather", "release", "teamwait"}
      BY DEF Shape, Depth, GoodFrame, InBarrier
    <2>1. ASSUME NEW i \in 1..Depth(u) PROVE GoodFrame(u, i, stack'[u][i])
      <3>1. GoodFrame(u, i, stack[u][i])
        BY <1>0 DEF Shape
      <3>2. CASE u = t /\ i = n
        <4>1. stack[u][i].doing # "letgo"
          BY <1>1, <3>2 DEF Waiting
        <4> QED BY <1>3, <3>1, <4>1 DEF GoodFrame
      <3>3. CASE ~(u = t /\ i = n)
        BY <1>2, <3>1, <3>3
      <3> QED BY <3>2, <3>3
    <2>2. GoodFrame(t, n + 1, stack'[t][n + 1])
      BY <1>1, <1>2, <1>4 DEF GoodFrame, Working, Ends, Halves
    <2>3. stack'[t][n].doing \in Working \union {"gather", "release", "teamwait"}
      BY <1>1, <1>2 DEF Waiting, Working
    <2>4. CASE u = t
      <3>1. \A i \in 1..Len(stack'[u]) : i \in 1..n \/ i = n + 1
        BY <1>1, <1>2, <2>4
      <3>2. \A i \in 1..(Len(stack'[u]) - 1) : i \in 1..(n - 1) \/ i = n
        BY <1>1, <1>2, <2>4
      <3>3. \A i \in 1..(n - 1) : stack'[t][i].doing \in Working \union {"gather", "release", "teamwait"}
        BY <1>0, <1>1, <1>3 DEF Shape
      <3> QED BY <1>1, <1>2, <2>1, <2>2, <2>3, <2>4, <3>1, <3>2, <3>3
    <2>5. CASE u # t
      <3>1. Len(stack'[u]) = Depth(u) /\ Depth(u) >= 1
        BY <1>1, <1>2, <2>5
      <3> QED BY <1>0, <1>1, <1>3, <2>1, <3>1 DEF Shape
    <2> QED BY <2>4, <2>5
  <1>6. TaskTypes'
    BY <1>0 DEF TaskTypes, Taken, DequeType
  <1>7. \A z : \A u \in Thread : \A i \in Nat :
            Hold(z, u, i)' <=> Hold(z, u, i) \/ (u = t /\ i = n + 1 /\ z = x /\ x \notin Proxies)
    BY <1>0, <1>1, InvokeHeld
  <1>8. (\A z : z # x => (OnStack(z)' <=> OnStack(z))) /\ (x \in Proxies => (OnStack(x)' <=> OnStack(x)))
    BY <1>7 DEF OnStack
  <1>9. x \notin Proxies => ~OnStack(x) /\ OnStack(x)'
    <2>1. x \notin Proxies => ~OnStack(x)
      BY <1>0 DEF Taken, Unique, Apart
    <2>2. x \notin Proxies => OnStack(x)'
      <3>1. n + 1 \in Nat
        BY <1>1
      <3> QED BY <1>7, <3>1 DEF OnStack
    <2> QED BY <2>1, <2>2
  <1>10. \A z : Outside(z)' <=> Outside(z)
    BY DEF Outside
  <1>11. \A z \in Tasks : Owed(z)' <=> Owed(z)
    <2>1. x \notin Proxies => Owed(x) /\ Owed(x)'
      BY <1>9 DEF Taken, Owed
    <2>2. \A z \in Tasks : z # x \/ x \in Proxies => (Owed(z)' <=> Owed(z))
      BY <1>8, <1>10 DEF Taken, Owed
    <2> QED BY <2>1, <2>2
  <1>12. Counts'
    BY <1>0, <1>11, SameOwed
  <1>13. /\ life[x] # "none"
         /\ \A z \in Tasks : life'[z] = "none" <=> life[z] = "none"
         /\ \A z \in Tasks : (z # x \/ x \in Proxies) => life'[z] = life[z]
    <2>1. life[x] # "none"
      BY <1>0 DEF Known, Taken
    <2> QED BY <1>0, <2>1 DEF TaskTypes
  <1>14. Alive'
    <2>1. \A z \in Tasks : Pending(z)' => Owed(z)'
      <3>1. x \notin Proxies => Owed(x)'
        BY <1>9 DEF Owed
      <3> QED BY <1>0, <1>11, <1>13, <3>1 DEF Alive, Pending
    <2>2. \A z \in Proxies : ext'[z] \in {"give", "parent"} => ~Pending(z)'
      BY <1>0, <1>13, TaskAssumption DEF Alive, Pending
    <2>3. ASSUME NEW u \in Thread, NEW i \in 2..Len(stack'[u]), stack'[u][i].doing \in {"count", "top2"}
          PROVE  life'[stack'[u][i].task] \notin {"queued", "live"}
      <3>1. i \in 1..Depth(u) /\ i >= 2
        <4>1. u # t \/ i # n + 1
          BY <1>2, <1>4, <2>3
        <4>2. Len(stack'[u]) = IF u = t THEN n + 1 ELSE Depth(u)
          BY <1>2
        <4> QED BY <1>1, <4>1, <4>2
      <3>2. /\ stack'[u][i].task = stack[u][i].task /\ stack[u][i].doing \in {"count", "top2"}
            /\ stack[u][i].task \in Tasks
        BY <1>0, <1>3, <2>3, <3>1 DEF Shape, GoodFrame
      <3>3. ~Pending(stack[u][i].task)
        BY <1>0, <3>1, <3>2 DEF Alive
      <3>4. Hold(stack[u][i].task, u, i)
        BY <3>1, <3>2 DEF Hold, Owing
      <3>5. stack[u][i].task # x \/ x \in Proxies
        BY <1>9, <3>1, <3>4 DEF OnStack
      <3> QED BY <1>13, <3>2, <3>3, <3>5 DEF Pending
    <2> QED BY <2>1, <2>2, <2>3 DEF Alive, Pending, Depth
  <1>15. Unique'
    <2>1. OnceOnStacks'
      BY <1>0, <1>7, <1>9 DEF Unique, OnceOnStacks, OnStack
    <2>2. Apart'
      BY <1>0, <1>8, <1>9 DEF Unique, Apart, Taken
    <2> QED BY <2>1, <2>2 DEF Unique, Taken
  <1>16. Known'
    <2>1. ASSUME NEW u \in Thread, NEW i \in 2..Depth(u)' PROVE KnownTask(stack'[u][i].task)
      <3>1. CASE u = t /\ i = n + 1
        BY <1>2, <1>4, <1>13, <3>1 DEF KnownTask
      <3>2. CASE ~(u = t /\ i = n + 1)
        <4>1. Depth(u)' = IF u = t THEN n + 1 ELSE Depth(u)
          BY <1>2 DEF Depth
        <4>2. i \in 1..Depth(u) /\ i \in 2..Depth(u)
          BY <1>1, <3>2, <4>1
        <4> QED BY <1>0, <1>3, <4>2 DEF Shape, GoodFrame, Known, KnownTask
      <3> QED BY <3>1, <3>2
    <2>2. \A z \in Tasks : InDeque(z)' => life[z] # "none"
      BY <1>0 DEF Known, Taken
    <2>3. \A z \in Proxies : life'[z] = "none" => ext'[z] = "none"
      BY <1>0, <1>13, TaskAssumption DEF Known
    <2> QED BY <1>13, <2>1, <2>2, <2>3, SameKnown
  <1> QED BY <1>2, <1>5, <1>6, <1>12, <1>14, <1>15, <1>16 DEF CountInv

(* A complete task is freed, and the walk goes on to its parent.            *)
LEMMA FreeKeepsCount ==
    ASSUME CountInv, NEW t \in Thread, FreeTask(t)
    PROVE  CountInv'
  <1> USE DEF tree, teams, sync
  <1> DEFINE n == Depth(t)
  <1>0. StackTypes /\ TaskTypes /\ Shape /\ Alive /\ Unique /\ Known /\ Counts
    BY DEF CountInv
  <1>1. PICK x : x = Current(t)
    OBVIOUS
  <1>2. /\ n \in Nat /\ n >= 2 /\ stack[t][n].task = x /\ stack[t][n].doing = "free" /\ x \in Tasks
        /\ life[x] # "none" /\ parent[x] \in Tasks \union Thread
        /\ parent[x] \in Tasks => life[parent[x]] # "none"
    <2>1. n \in Nat /\ n >= 1 /\ stack[t][n].task = x /\ stack[t][n].doing = "free"
      BY <1>0, <1>1, StackSeq DEF Shape, FreeTask, Doing, Current
    <2>2. n # 1
      BY <1>0, <2>1 DEF Shape, GoodFrame, Working, InBarrier
    <2>3. n \in 2..n /\ n \in 1..n
      BY <2>1, <2>2
    <2>4. x \in Tasks /\ life[x] # "none"
      BY <1>0, <2>1, <2>2, <2>3 DEF Shape, GoodFrame, Known
    <2> QED BY <1>0, <2>1, <2>3, <2>4 DEF Known, TaskTypes
  <1>3. UNCHANGED <<parent, incomplete, deque, ext>>
    BY DEF FreeTask
  <1>4. life' = life \/ life' = [life EXCEPT ![x] = "freed"]
    BY <1>1 DEF FreeTask
  <1>5. Return(t) \/ (parent[x] \in Tasks /\ Become(t, Frame(parent[x], "free", "-")))
    BY <1>1, <1>2 DEF FreeTask
  <1>6. parent[x] \in Tasks => Frame(parent[x], "free", "-") \in Frames
    BY DEF Frame, Frames, Actions, Places
  <1>7. \A z : ~Hold(z, t, n)
    BY <1>2 DEF Hold, Owing, Working
  <1>8. \A z : \A u \in Thread : \A i \in Nat : Hold(z, u, i)' <=> Hold(z, u, i)
    <2>1. CASE Return(t)
      BY <1>0, <1>2, <1>7, <2>1, ReturnHeld
    <2>2. CASE parent[x] \in Tasks /\ Become(t, Frame(parent[x], "free", "-"))
      <3>1. PICK f \in Frames : f = Frame(parent[x], "free", "-") /\ f.doing \notin Owing
        BY <1>6, <2>2 DEF Frame, Owing, Working
      <3>2. Become(t, f) /\ n >= 1
        BY <1>2, <2>2, <3>1
      <3>3. \A z : \A u \in Thread : \A i \in Nat :
               Hold(z, u, i)' <=> IF u = t /\ i = Depth(t) THEN f.task = z /\ f.doing \in Owing
                                                           ELSE Hold(z, u, i)
        BY <1>0, <3>1, <3>2, BecomeHeld
      <3> QED BY <1>7, <3>1, <3>3
    <2> QED BY <1>5, <2>1, <2>2
  <1>9. /\ StackTypes'
        /\ \A u \in Thread : Len(stack'[u]) \in Nat /\ Len(stack'[u]) >= 1 /\ Len(stack'[u]) <= Depth(u)
        /\ \A u \in Thread : \A i \in 1..Len(stack'[u]) :
               \/ stack'[u][i] = stack[u][i]
               \/ /\ i >= 2 /\ i = Len(stack'[u]) /\ KnownTask(stack'[u][i].task)
                  /\ stack'[u][i].doing = "free"
    <2>1. \A u \in Thread : Depth(u) \in Nat /\ Depth(u) >= 1
      BY <1>0, StackSeq DEF Shape
    <2>2. CASE Return(t)
      BY <1>0, <1>2, <2>1, <2>2, ReturnStack
    <2>3. CASE parent[x] \in Tasks /\ Become(t, Frame(parent[x], "free", "-"))
      <3>1. PICK f \in Frames : /\ f = Frame(parent[x], "free", "-") /\ f.doing = "free"
                                /\ KnownTask(f.task)
        BY <1>2, <1>6, <2>3 DEF Frame, KnownTask
      <3>2. Become(t, f) /\ n >= 1
        BY <1>2, <2>3, <3>1
      <3>3. /\ StackTypes' /\ \A u \in Thread : Len(stack'[u]) = Depth(u)
            /\ \A u \in Thread : \A i \in 1..Depth(u) :
                   stack'[u][i] = IF u = t /\ i = Depth(t) THEN f ELSE stack[u][i]
        BY <1>0, <3>1, <3>2, BecomeStack
      <3> QED BY <1>2, <2>1, <3>1, <3>3
    <2> QED BY <1>5, <2>2, <2>3
  <1>10. \A u \in Thread : Depth(u) \in Nat /\ Depth(u)' = Len(stack'[u])
    BY <1>0, StackSeq DEF Depth
  <1>11. TaskTypes'
    BY <1>0, <1>3, <1>4 DEF TaskTypes
  <1>12. Shape'
    <2> SUFFICES ASSUME NEW u \in Thread
                 PROVE  /\ Len(stack'[u]) >= 1
                        /\ \A i \in 1..Len(stack'[u]) : GoodFrame(u, i, stack'[u][i])
                        /\ \A i \in 1..(Len(stack'[u]) - 1) :
                               stack'[u][i].doing \in Working \union {"gather", "release", "teamwait"}
      BY DEF Shape, Depth, GoodFrame, InBarrier
    <2>1. ASSUME NEW i \in 1..Len(stack'[u]) PROVE GoodFrame(u, i, stack'[u][i])
      <3>1. i \in 1..Depth(u)
        BY <1>9, <1>10
      <3>2. CASE stack'[u][i] = stack[u][i]
        BY <1>0, <3>1, <3>2 DEF Shape
      <3>3. CASE stack'[u][i] # stack[u][i]
        <4>1. i >= 2 /\ KnownTask(stack'[u][i].task) /\ stack'[u][i].doing = "free"
          BY <1>9, <3>3
        <4> QED BY <4>1 DEF GoodFrame, KnownTask, Ends, Halves, Working
      <3> QED BY <3>2, <3>3
    <2>2. ASSUME NEW i \in 1..(Len(stack'[u]) - 1)
          PROVE  stack'[u][i].doing \in Working \union {"gather", "release", "teamwait"}
      <3>1. i \in 1..(Depth(u) - 1) /\ i \in 1..Len(stack'[u]) /\ i # Len(stack'[u])
        BY <1>9, <1>10
      <3> QED BY <1>0, <1>9, <3>1 DEF Shape
    <2> QED BY <1>9, <2>1, <2>2
  <1>13. \A z : OnStack(z)' <=> OnStack(z)
    BY <1>8 DEF OnStack
  <1>14. \A z : (InDeque(z)' <=> InDeque(z)) /\ (Outside(z)' <=> Outside(z)) /\ (Owed(z)' <=> Owed(z))
    BY <1>3, <1>13 DEF InDeque, Queued, Outside, Owed
  <1>15. Counts'
    BY <1>0, <1>3, <1>14, SameOwed
  <1>16. \A z \in Tasks : /\ Pending(z)' => Pending(z)
                          /\ life'[z] = "none" <=> life[z] = "none"
    BY <1>0, <1>2, <1>4 DEF Pending, TaskTypes
  <1>17. Alive'
    <2>1. \A z \in Tasks : Pending(z)' => Owed(z)'
      BY <1>0, <1>14, <1>16 DEF Alive
    <2>2. \A z \in Proxies : ext'[z] \in {"give", "parent"} => ~Pending(z)'
      BY <1>0, <1>3, <1>16, TaskAssumption DEF Alive
    <2>3. ASSUME NEW u \in Thread, NEW i \in 2..Len(stack'[u]), stack'[u][i].doing \in {"count", "top2"}
          PROVE  life'[stack'[u][i].task] \notin {"queued", "live"}
      <3>1. i \in 1..Depth(u) /\ i \in 2..Depth(u) /\ stack'[u][i] = stack[u][i]
        BY <1>9, <1>10, <2>3
      <3>2. stack[u][i].task \in Tasks /\ ~Pending(stack[u][i].task)
        BY <1>0, <2>3, <3>1 DEF Shape, GoodFrame, Alive
      <3> QED BY <1>16, <3>1, <3>2 DEF Pending
    <2> QED BY <2>1, <2>2, <2>3 DEF Alive, Pending, Depth
  <1>18. Unique'
    <2>1. OnceOnStacks'
      BY <1>0, <1>8 DEF Unique, OnceOnStacks
    <2>2. OnceInDeques'
      BY <1>0, <1>3, SameOnce DEF Unique
    <2>3. Apart'
      BY <1>0, <1>3, <1>13, <1>14 DEF Unique, Apart
    <2> QED BY <2>1, <2>2, <2>3 DEF Unique
  <1>19. Known'
    <2>1. ASSUME NEW u \in Thread, NEW i \in 2..Len(stack'[u]) PROVE KnownTask(stack'[u][i].task)
      <3>1. i \in 1..Depth(u) /\ i \in 2..Depth(u) /\ i \in 1..Len(stack'[u])
        BY <1>9, <1>10
      <3>2. CASE stack'[u][i] = stack[u][i]
        BY <1>0, <3>1, <3>2 DEF Shape, GoodFrame, Known, KnownTask
      <3>3. CASE stack'[u][i] # stack[u][i]
        BY <1>9, <3>1, <3>3
      <3> QED BY <3>2, <3>3
    <2>2. \A u \in Thread : \A i \in 2..Depth(u)' : KnownTask(stack'[u][i].task)
      BY <1>10, <2>1
    <2>3. \A z \in Tasks : InDeque(z)' => life[z] # "none"
      BY <1>0, <1>14 DEF Known
    <2>4. \A z \in Proxies : life'[z] = "none" => ext'[z] = "none"
      BY <1>0, <1>3, <1>16, TaskAssumption DEF Known
    <2> QED BY <1>3, <1>16, <2>2, <2>3, <2>4, SameKnown
  <1> QED BY <1>9, <1>11, <1>12, <1>15, <1>17, <1>18, <1>19 DEF CountInv

-----------------------------------------------------------------------------
(* The creation of a task: it is in the deque of the thread that creates    *)
(* it, on its stack, or with a thread outside the team.                     *)

LEMMA NewTask ==
    ASSUME CountInv, NEW t \in Thread, NEW x \in Tasks, Doing(t, "run"), life[x] = "none"
    PROVE  /\ Current(t) \in Tasks \union Thread /\ (Current(t) \in Tasks => KnownTask(Current(t)))
           /\ Depth(t) \in Nat /\ Depth(t) >= 1 /\ stack[t][Depth(t)].doing = "run"
           /\ ~InDeque(x) /\ ~OnStack(x) /\ ~Outside(x) /\ ~Owed(x)
           /\ x \in Proxies => ext[x] = "none"
           /\ \A u \in Thread : \A i \in Nat : ~Hold(x, u, i)
           /\ \A k \in 0..1, u \in Thread : \A i \in Nat : ~Queued(x, k, u, i)
  <1> DEFINE n == Depth(t)
  <1>0. StackTypes /\ TaskTypes /\ Shape /\ Known
    BY DEF CountInv
  <1>1. n \in Nat /\ n >= 1 /\ stack[t][n].doing = "run" /\ stack[t][n].task = Current(t)
    BY <1>0, StackSeq DEF Shape, Doing, Current
  <1>2. Current(t) \in Tasks \union Thread /\ (Current(t) \in Tasks => KnownTask(Current(t)))
    <2>1. CASE n = 1
      BY <1>0, <1>1, <2>1, TaskAssumption DEF Shape, GoodFrame
    <2>2. CASE n # 1
      <3>1. n \in 1..n /\ n \in 2..n
        BY <1>1, <2>2
      <3> QED BY <1>0, <1>1, <2>2, <3>1 DEF Shape, GoodFrame, Known, KnownTask
    <2> QED BY <2>1, <2>2
  <1>3. ~InDeque(x) /\ (x \in Proxies => ext[x] = "none") /\ ~Outside(x)
    BY <1>0 DEF Known, Outside
  <1>4. ASSUME NEW u \in Thread, NEW i \in Nat, Hold(x, u, i) PROVE FALSE
    <2>1. i \in 2..Depth(u) /\ stack[u][i].task = x
      BY <1>0, <1>4, HeldTask DEF Hold
    <2> QED BY <1>0, <2>1 DEF Known
  <1> QED BY <1>1, <1>2, <1>3, <1>4 DEF OnStack, InDeque, Owed

(* Task x is somewhere, and every other task where it was.                  *)
Placed(t, x) ==
    /\ StackTypes' /\ DequeType' /\ Shape' /\ Unique'
    /\ ext' \in [Proxies -> {"none", "started", "give", "parent", "child", "done"}]
    /\ Owed(x)' /\ \A z \in Tasks \ {x} : Owed(z)' <=> Owed(z)
    /\ \A u \in Thread : \A i \in 2..Len(stack'[u]) :
           \/ i \in 2..Depth(u) /\ stack'[u][i] = stack[u][i]
           \/ stack'[u][i].task = x /\ stack'[u][i].doing \in {"run", "top1"}
    /\ \A z \in Tasks : InDeque(z)' => InDeque(z) \/ z = x
    /\ \A z \in Proxies : ext'[z] = ext[z] \/ (z = x /\ ext'[z] = "started")

LEMMA PlaceInDeque ==
    ASSUME CountInv, NEW t \in Thread, NEW x \in Tasks \ Proxies, Doing(t, "run"), life[x] = "none",
           NEW k \in 0..1, Appended(k, t, x), UNCHANGED <<stack, ext>>
    PROVE  Placed(t, x)
  <1>0. StackTypes /\ TaskTypes /\ Shape /\ Alive /\ Unique /\ Known
    BY DEF CountInv
  <1>1. /\ DequeType' /\ Len(deque[k][t]) \in Nat
        /\ \A z : \A l \in 0..1, u \in Thread : \A i \in Nat :
               Queued(z, l, u, i)' <=>
                   \/ Queued(z, l, u, i)
                   \/ z = x /\ l = k /\ u = t /\ i = Len(deque[l][u]) + 1
    <2>1. DequeType
      BY <1>0 DEF DequeType, TaskTypes
    <2> QED BY <2>1, AppendDeque
  <1>2. StackTypes' /\ Shape' /\ OnceOnStacks' /\ \A z : OnStack(z)' <=> OnStack(z)
    BY <1>0, SameOnce DEF StackTypes, Shape, GoodFrame, OnStack, Hold, Depth, Unique
  <1>3. \A z : z # x => (InDeque(z)' <=> InDeque(z))
    BY <1>1 DEF InDeque
  <1>4. InDeque(x)'
    <2>1. PICK m \in Nat : m = Len(deque[k][t]) + 1
      BY <1>1
    <2>2. Queued(x, k, t, m)'
      BY <1>1, <2>1
    <2> QED BY <2>2 DEF InDeque
  <1>5. OnceInDeques'
    <2>1. \A z \in Tasks \ Proxies : z # x => \A l \in 0..1, u \in Thread : \A i \in Nat :
              Queued(z, l, u, i)' <=> Queued(z, l, u, i)
      BY <1>1
    <2>2. \A l \in 0..1, u \in Thread : \A i \in Nat : ~Queued(x, l, u, i)
      BY NewTask
    <2>3. PICK m : m = Len(deque[k][t]) + 1
      OBVIOUS
    <2>4. \A l \in 0..1, u \in Thread : \A i \in Nat : Queued(x, l, u, i)' => l = k /\ u = t /\ i = m
      BY <1>1, <2>2, <2>3
    <2> QED BY <1>0, <2>1, <2>4 DEF Unique, OnceInDeques
  <1>6. Apart'
    <2>1. ~OnStack(x)
      BY NewTask
    <2> QED BY <1>0, <1>2, <1>3, <2>1 DEF Unique, Apart
  <1>7. Owed(x)' /\ \A z \in Tasks \ {x} : Owed(z)' <=> Owed(z)
    BY <1>2, <1>3, <1>4 DEF Owed, Outside
  <1>8. \A u \in Thread : \A i \in 2..Len(stack'[u]) : i \in 2..Depth(u) /\ stack'[u][i] = stack[u][i]
    BY DEF Depth
  <1> QED BY <1>0, <1>1, <1>2, <1>3, <1>5, <1>6, <1>7, <1>8 DEF Placed, TaskTypes, Unique

LEMMA PlaceOutside ==
    ASSUME CountInv, NEW t \in Thread, NEW x \in Proxies, Doing(t, "run"), life[x] = "none",
           ext' = [ext EXCEPT ![x] = "started"], UNCHANGED <<stack, deque>>
    PROVE  Placed(t, x)
  <1>0. StackTypes /\ TaskTypes /\ Shape /\ Alive /\ Unique /\ Known /\ x \in Tasks
    BY TaskAssumption DEF CountInv
  <1>1. DequeType' /\ OnceInDeques' /\ \A z : InDeque(z)' <=> InDeque(z)
    BY <1>0, SameOnce DEF DequeType, TaskTypes, InDeque, Queued, Unique
  <1>2. StackTypes' /\ Shape' /\ OnceOnStacks' /\ \A z : OnStack(z)' <=> OnStack(z)
    BY <1>0, SameOnce DEF StackTypes, Shape, GoodFrame, OnStack, Hold, Depth, Unique
  <1>3. \A z \in Proxies : ext'[z] = IF z = x THEN "started" ELSE ext[z]
    BY <1>0 DEF TaskTypes
  <1>4. Apart'
    <2>1. ~OnStack(x)
      BY <1>0, NewTask
    <2> QED BY <1>0, <1>1, <1>2, <1>3, <2>1 DEF Unique, Apart
  <1>5. Owed(x)' /\ \A z \in Tasks \ {x} : Owed(z)' <=> Owed(z)
    BY <1>1, <1>2, <1>3 DEF Owed, Outside
  <1>6. ext' \in [Proxies -> {"none", "started", "give", "parent", "child", "done"}]
    BY <1>0 DEF TaskTypes
  <1>7. \A u \in Thread : \A i \in 2..Len(stack'[u]) : i \in 2..Depth(u) /\ stack'[u][i] = stack[u][i]
    BY DEF Depth
  <1> QED BY <1>1, <1>2, <1>3, <1>4, <1>5, <1>6, <1>7 DEF Placed, Unique

LEMMA PlaceOnStack ==
    ASSUME CountInv, NEW t \in Thread, NEW x \in Tasks, Doing(t, "run"), life[x] = "none",
           NEW d \in {"run", "top1"}, d = "top1" <=> x \in Proxies, Begin(t, Frame(x, d, "-")),
           UNCHANGED <<deque, ext>>
    PROVE  Placed(t, x)
  <1> DEFINE n == Depth(t)
  <1>0. StackTypes /\ TaskTypes /\ Shape /\ Alive /\ Unique /\ Known
    BY DEF CountInv
  <1>1. PICK f \in Frames : f = Frame(x, d, "-") /\ f.task = x /\ f.doing = d
    BY DEF Frame, Frames, Actions, Places
  <1>2. DequeType' /\ OnceInDeques' /\ \A z : (InDeque(z)' <=> InDeque(z)) /\ (Outside(z)' <=> Outside(z))
    BY <1>0, SameOnce DEF DequeType, TaskTypes, InDeque, Queued, Outside, Unique
  <1>3. n \in Nat /\ n >= 1 /\ stack[t][n].doing = "run"
        /\ \A u \in Thread : Depth(u) \in Nat /\ Depth(u) >= 1
    BY <1>0, NewTask, StackSeq DEF Shape
  <1>4. /\ StackTypes' /\ Len(stack'[t]) = n + 1
        /\ \A u \in Thread \ {t} : Len(stack'[u]) = Depth(u)
        /\ \A u \in Thread : \A i \in 1..Depth(u) : stack'[u][i] = stack[u][i]
        /\ stack'[t][n + 1] = f
    BY <1>0, <1>1, BeginStack
  <1>5. \A z : \A u \in Thread : \A i \in Nat :
            Hold(z, u, i)' <=> Hold(z, u, i) \/ (u = t /\ i = n + 1 /\ z = x)
    <2>1. f.doing \in Owing
      BY <1>1 DEF Owing, Working
    <2> QED BY <1>0, <1>1, <2>1, BeginHeld
  <1>6. OnStack(x)' /\ \A z : z # x => (OnStack(z)' <=> OnStack(z))
    <2>1. n + 1 \in Nat
      BY <1>3
    <2> QED BY <1>5, <2>1 DEF OnStack
  <1>7. Shape'
    <2> SUFFICES ASSUME NEW u \in Thread
                 PROVE  /\ Len(stack'[u]) >= 1
                        /\ \A i \in 1..Len(stack'[u]) : GoodFrame(u, i, stack'[u][i])
                        /\ \A i \in 1..(Len(stack'[u]) - 1) :
                               stack'[u][i].doing \in Working \union {"gather", "release", "teamwait"}
      BY DEF Shape, Depth, GoodFrame, InBarrier
    <2>1. ASSUME NEW i \in 1..Depth(u) PROVE GoodFrame(u, i, stack'[u][i])
      BY <1>0, <1>4 DEF Shape, GoodFrame
    <2>2. GoodFrame(t, n + 1, stack'[t][n + 1])
      BY <1>1, <1>3, <1>4 DEF GoodFrame, Working, Ends, Halves
    <2>3. stack'[t][n].doing \in Working
      <3>1. n \in 1..Depth(t)
        BY <1>3
      <3>2. stack'[t][n] = stack[t][n]
        BY <1>4, <3>1
      <3> QED BY <1>3, <3>2 DEF Working
    <2>I. \A v \in Thread : \A i \in 1..(Depth(v) - 1) :
              stack'[v][i].doing \in Working \union {"gather", "release", "teamwait"}
      <3> SUFFICES ASSUME NEW v \in Thread, NEW i \in 1..(Depth(v) - 1)
                   PROVE  stack'[v][i].doing \in Working \union {"gather", "release", "teamwait"}
        OBVIOUS
      <3>1. i \in 1..Depth(v)
        BY <1>3
      <3>2. stack[v][i].doing \in Working \union {"gather", "release", "teamwait"}
        BY <1>0 DEF Shape
      <3> QED BY <1>4, <3>1, <3>2
    <2>4. CASE u = t
      <3>1. \A i \in 1..Len(stack'[u]) : i \in 1..n \/ i = n + 1
        BY <1>3, <1>4, <2>4
      <3>2. \A i \in 1..(Len(stack'[u]) - 1) : i \in 1..(n - 1) \/ i = n
        BY <1>3, <1>4, <2>4
      <3> QED BY <1>3, <1>4, <2>1, <2>2, <2>3, <2>I, <2>4, <3>1, <3>2
    <2>5. CASE u # t
      <3>1. Len(stack'[u]) = Depth(u) /\ Depth(u) >= 1
        BY <1>3, <1>4, <2>5
      <3> QED BY <2>1, <2>I, <3>1
    <2> QED BY <2>4, <2>5
  <1>8. Unique'
    <2>1. OnceOnStacks'
      BY <1>0, <1>5, NewTask DEF Unique, OnceOnStacks
    <2>2. Apart'
      <3>1. ~InDeque(x) /\ (x \in Proxies => ext[x] = "none")
        BY NewTask
      <3> QED BY <1>0, <1>2, <1>6, <3>1 DEF Unique, Apart
    <2> QED BY <1>2, <2>1, <2>2 DEF Unique
  <1>9. Owed(x)' /\ \A z \in Tasks \ {x} : Owed(z)' <=> Owed(z)
    BY <1>2, <1>6 DEF Owed
  <1>10. ASSUME NEW u \in Thread, NEW i \in 2..Len(stack'[u])
         PROVE  \/ i \in 2..Depth(u) /\ stack'[u][i] = stack[u][i]
                \/ stack'[u][i].task = x /\ stack'[u][i].doing \in {"run", "top1"}
    <2>1. CASE u = t /\ i = n + 1
      BY <1>1, <1>4, <2>1
    <2>2. CASE ~(u = t /\ i = n + 1)
      BY <1>3, <1>4, <2>2
    <2> QED BY <2>1, <2>2
  <1>11. \A z \in Tasks : InDeque(z)' => InDeque(z)
    BY <1>2
  <1> QED BY <1>0, <1>2, <1>4, <1>7, <1>8, <1>9, <1>10, <1>11 DEF Placed, TaskTypes

(* __kmp_task_alloc counts it as a child of the task that creates it.       *)
LEMMA PlacedKeepsCount ==
    ASSUME CountInv, NEW t \in Thread, NEW x \in Tasks, Doing(t, "run"), life[x] = "none", Placed(t, x),
           parent' = [parent EXCEPT ![x] = Current(t)],
           incomplete' = [incomplete EXCEPT ![Current(t)] = @ + 1],
           NEW l \in {"queued", "live"}, life' = [life EXCEPT ![x] = l]
    PROVE  CountInv'
  <1>0. StackTypes /\ TaskTypes /\ Shape /\ Alive /\ Unique /\ Known /\ Counts
    BY DEF CountInv
  <1>1. PICK y \in Tasks \union Thread : y = Current(t) /\ (y \in Tasks => life[y] # "none")
    BY NewTask DEF KnownTask
  <1>2. TaskTypes'
    BY <1>0, <1>1 DEF TaskTypes, Placed, DequeType
  <1>3. Counts'
    <2>1. ~Owed(x)
      BY NewTask
    <2> QED BY <1>0, <1>1, <2>1, MoreOwed DEF Placed
  <1>4. \A z \in Tasks : /\ life'[z] = IF z = x THEN l ELSE life[z]
                         /\ parent'[z] = IF z = x THEN y ELSE parent[z]
    BY <1>0, <1>1 DEF TaskTypes
  <1>5. \A z \in Tasks : Pending(z)' => z = x \/ Pending(z)
    BY <1>4 DEF Pending
  <1>6. Alive'
    <2>1. \A z \in Tasks : Pending(z)' => Owed(z)'
      BY <1>0, <1>5 DEF Alive, Placed
    <2>2. \A z \in Proxies : ext'[z] \in {"give", "parent"} => ~Pending(z)'
      BY <1>0, <1>5, TaskAssumption DEF Alive, Placed, Known
    <2>3. ASSUME NEW u \in Thread, NEW i \in 2..Len(stack'[u]), stack'[u][i].doing \in {"count", "top2"}
          PROVE  life'[stack'[u][i].task] \notin {"queued", "live"}
      <3>1. i \in 2..Depth(u) /\ stack'[u][i] = stack[u][i]
        BY <2>3 DEF Placed
      <3>2. i \in 1..Depth(u) /\ i # 1
        BY <1>0, <3>1, StackSeq
      <3>3. stack[u][i].task \in Tasks /\ ~Pending(stack[u][i].task) /\ life[stack[u][i].task] # "none"
        BY <1>0, <2>3, <3>1, <3>2 DEF Shape, GoodFrame, Alive, Known
      <3> QED BY <1>4, <3>1, <3>3 DEF Pending
    <2> QED BY <2>1, <2>2, <2>3 DEF Alive, Pending, Depth
  <1>7. Known'
    <2>1. \A z \in Tasks : life'[z] # "none" =>
              parent'[z] # None /\ (parent'[z] \in Tasks => life'[parent'[z]] # "none")
      BY <1>0, <1>1, <1>4, NoneAssumption DEF Known
    <2>2. \A z \in Proxies : life'[z] = "none" => ext'[z] = "none"
      BY <1>0, <1>4, TaskAssumption DEF Known, Placed
    <2>3. ASSUME NEW u \in Thread, NEW i \in 2..Len(stack'[u]) PROVE life'[stack'[u][i].task] # "none"
      <3>1. CASE i \in 2..Depth(u) /\ stack'[u][i] = stack[u][i]
        <4>1. i \in 1..Depth(u) /\ i # 1
          BY <1>0, <3>1, StackSeq
        <4> QED BY <1>0, <1>4, <3>1, <4>1 DEF Known, Shape, GoodFrame
      <3>2. CASE stack'[u][i].task = x
        BY <1>4, <3>2
      <3> QED BY <3>1, <3>2 DEF Placed
    <2>4. \A z \in Tasks : InDeque(z)' => life'[z] # "none"
      BY <1>0, <1>4 DEF Known, Placed
    <2> QED BY <2>1, <2>2, <2>3, <2>4 DEF Known, Depth
  <1> QED BY <1>2, <1>3, <1>6, <1>7 DEF CountInv, Placed

-----------------------------------------------------------------------------
(* Steps that owe nobody a task, and nobody less.                           *)

LEMMA SameKeepsCount ==
    ASSUME CountInv, UNCHANGED <<life, parent, incomplete, stack, deque, ext>>
    PROVE  CountInv'
  <1>0. StackTypes /\ TaskTypes /\ Shape /\ Alive /\ Unique /\ Known /\ Counts
    BY DEF CountInv
  <1>1. StackTypes' /\ TaskTypes' /\ Shape'
    BY <1>0 DEF StackTypes, TaskTypes, Shape, GoodFrame, Depth
  <1>2. \A z : /\ OnStack(z)' <=> OnStack(z)
               /\ InDeque(z)' <=> InDeque(z)
               /\ Outside(z)' <=> Outside(z)
    BY DEF OnStack, Hold, Depth, InDeque, Queued, Outside
  <1>3. \A z : Owed(z)' <=> Owed(z)
    BY <1>2 DEF Owed
  <1>4. Counts'
    BY <1>0, <1>3, SameOwed
  <1>5. Alive' /\ Known'
    BY <1>0, <1>2, <1>3 DEF Alive, Known, Pending, Depth
  <1>6. Unique'
    BY <1>0, <1>2, SameOnce DEF Unique, Apart
  <1> QED BY <1>1, <1>4, <1>5, <1>6 DEF CountInv

(* A step of a thread in its implicit task.                                 *)
LEMMA BaseKeepsCount ==
    ASSUME CountInv, NEW t \in Thread, Depth(t) = 1, NEW d, NEW a, Frame(Current(t), d, a) \in Frames,
           Go(t, d, a), d \in Working \union InBarrier(t), d = "letgo" => a \in 1..NProc,
           UNCHANGED <<life, parent, incomplete, deque, ext>>
    PROVE  CountInv'
  <1> DEFINE f == Frame(Current(t), d, a)
  <1>0. StackTypes /\ TaskTypes /\ Shape /\ Alive /\ Unique /\ Known /\ Counts
    BY DEF CountInv
  <1>1. Current(t) = t /\ stack[t][1].task = t
    BY <1>0, StackSeq DEF Shape, GoodFrame, Current
  <1>2. f.task = t /\ f.doing = d /\ f.at = a /\ GoodFrame(t, Depth(t), f)
    BY <1>1 DEF Frame, GoodFrame
  <1>3. StackTypes' /\ Shape'
    BY <1>0, <1>2, BecomeStack, BecomeShape DEF Go
  <1>4. /\ \A u \in Thread : Len(stack'[u]) = Depth(u) /\ Depth(u) \in Nat
        /\ \A u \in Thread : \A i \in 2..Depth(u) : stack'[u][i] = stack[u][i]
    <2>1. /\ \A u \in Thread : Len(stack'[u]) = Depth(u)
          /\ \A u \in Thread : \A i \in 1..Depth(u) :
                 stack'[u][i] = IF u = t /\ i = Depth(t) THEN f ELSE stack[u][i]
      BY <1>0, BecomeStack DEF Go
    <2> QED BY <1>0, <2>1, StackSeq
  <1>5. \A z \in Tasks : \A u \in Thread : \A i \in Nat : Hold(z, u, i)' <=> Hold(z, u, i)
    <2> SUFFICES ASSUME NEW z \in Tasks, NEW u \in Thread, NEW i \in Nat
                 PROVE  Hold(z, u, i)' <=> Hold(z, u, i)
      OBVIOUS
    <2>1. PICK g : g = f
      OBVIOUS
    <2>2. Hold(z, u, i)' <=> IF u = t /\ i = Depth(t) THEN g.task = z /\ g.doing \in Owing ELSE Hold(z, u, i)
      BY <1>0, <2>1, BecomeHeld DEF Go
    <2>3. t # z
      BY TaskAssumption
    <2>4. ~Hold(z, t, Depth(t))
      BY <1>1, <2>3 DEF Hold
    <2> QED BY <1>2, <2>1, <2>2, <2>3, <2>4
  <1>6. \A z \in Tasks : /\ OnStack(z)' <=> OnStack(z)
                         /\ InDeque(z)' <=> InDeque(z)
                         /\ Outside(z)' <=> Outside(z)
    BY <1>5 DEF OnStack, InDeque, Queued, Outside
  <1>7. \A z \in Tasks : Owed(z)' <=> Owed(z)
    BY <1>6 DEF Owed
  <1>8. TaskTypes' /\ Counts'
    BY <1>0, <1>7, SameOwed DEF TaskTypes
  <1>9. Alive'
    <2>1. \A u \in Thread : \A i \in 2..Len(stack'[u]) :
              stack'[u][i].doing \in {"count", "top2"} => life'[stack'[u][i].task] \notin {"queued", "live"}
      BY <1>0, <1>4 DEF Alive, Pending
    <2> QED BY <1>0, <1>7, <2>1 DEF Alive, Pending, Depth
  <1>10. Unique'
    <2>1. OnceOnStacks'
      BY <1>0, <1>5 DEF Unique, OnceOnStacks
    <2> QED BY <1>0, <1>6, <2>1, SameOnce, TaskAssumption DEF Unique, Apart
  <1>11. Known'
    <2>1. \A u \in Thread : \A i \in 2..Len(stack'[u]) : life'[stack'[u][i].task] # "none"
      BY <1>0, <1>4 DEF Known
    <2> QED BY <1>0, <1>6, <2>1 DEF Known, Depth
  <1> QED BY <1>3, <1>8, <1>9, <1>10, <1>11 DEF CountInv

(* What a thread that works, or looks for work, has.                        *)
LEMMA Busy ==
    ASSUME StackTypes, Shape, Attached, NEW t \in Thread,
           \/ Top(t).doing \notin {"gather", "release", "teamwait", "letgo"}
           \/ Waiting(t) /\ Top(t).at \in {"own", "steal", "dry"}
    PROVE  ptr[t] \in 0..1
  <1>1. Top(t) = stack[t][Depth(t)]
    BY StackSeq
  <1>2. ~Idle(t)
    BY <1>1 DEF Idle, Base, Waiting
  <1> QED BY <1>2 DEF Attached

LEMMA StillAttached ==
    ASSUME Attached, NEW t \in Thread, \A u \in Thread \ {t} : stack'[u] = stack[u],
           ptr' \in [Thread -> (0..1) \union {None}], parity' \in [Thread -> 0..1],
           \A u \in Thread \ {t} : ptr'[u] = ptr[u], ptr'[t] = None => Idle(t)'
    PROVE  Attached'
  BY DEF Attached, Idle, Depth, Base

(* The others' stacks.                                                      *)
LEMMA OneStack ==
    ASSUME StackTypes, NEW t \in Thread, NEW f, NEW x,
           \/ Become(t, f) \/ Begin(t, f) \/ Return(t) \/ Invoke(t, x)
    PROVE  \A u \in Thread \ {t} : stack'[u] = stack[u]
  BY DEF StackTypes, Become, Begin, Return, Invoke

(* The frame at the top of a stack.                                         *)
LEMMA FrameTop ==
    ASSUME CountInv, NEW t \in Thread
    PROVE  /\ Depth(t) \in Nat /\ Depth(t) >= 1 /\ Top(t) = stack[t][Depth(t)]
           /\ Top(t).doing \in Actions /\ Current(t) = stack[t][Depth(t)].task
           /\ GoodFrame(t, Depth(t), stack[t][Depth(t)])
           /\ Depth(t) = 1 => Current(t) = t /\ Top(t).doing \in Working \union InBarrier(t)
           /\ Depth(t) # 1 => /\ Current(t) \in Tasks /\ life[Current(t)] # "none"
                              /\ parent[Current(t)] \in Tasks \union Thread
                              /\ Top(t).doing \in Working \union Ends
  <1>0. StackTypes /\ TaskTypes /\ Shape /\ Known
    BY DEF CountInv
  <1>1. /\ Depth(t) \in Nat /\ Depth(t) >= 1 /\ Top(t) = stack[t][Depth(t)]
        /\ Current(t) = stack[t][Depth(t)].task /\ Depth(t) \in 1..Depth(t)
        /\ stack[t][Depth(t)] \in Frames
    BY <1>0, StackSeq DEF Shape, Current
  <1>2. GoodFrame(t, Depth(t), stack[t][Depth(t)]) /\ Top(t).doing \in Actions
    BY <1>0, <1>1 DEF Shape, Frames
  <1>3. Depth(t) # 1 => life[stack[t][Depth(t)].task] # "none"
    <2>1. Depth(t) # 1 => Depth(t) \in 2..Depth(t)
      BY <1>1
    <2> QED BY <1>0, <2>1 DEF Known
  <1> QED BY <1>0, <1>1, <1>2, <1>3 DEF GoodFrame, Known, TaskTypes

LEMMA LookOn ==
    ASSUME CountInv, NEW t \in Thread, Waiting(t), NEW a \in {"wait", "own", "steal", "dry"},
           Go(t, Top(t).doing, a), UNCHANGED <<life, parent, incomplete, deque, ext>>
    PROVE  CountInv'
  <1>1. PICK d : d = Top(t).doing
    OBVIOUS
  <1>2. Frame(Current(t), d, a) \in Frames
    BY <1>1, FrameTop DEF Frame, Frames, Places
  <1>3. GoodFrame(t, Depth(t), Frame(Current(t), d, a))
    BY <1>1, FrameTop DEF Frame, GoodFrame, Waiting
  <1>4. TaskTypes'
    BY DEF CountInv, TaskTypes
  <1>5. d \notin {"count", "top2"}
    BY <1>1 DEF Waiting
  <1> QED BY <1>1, <1>2, <1>3, <1>4, <1>5, QuietKeepsCount

LEMMA WorkOn ==
    ASSUME CountInv, NEW t \in Thread, Top(t).doing \in Working, NEW d \in Working,
           NEW a \in {"-", "wait"}, Go(t, d, a), UNCHANGED <<life, parent, incomplete, deque, ext>>
    PROVE  CountInv'
  <1>1. Frame(Current(t), d, a) \in Frames
    BY FrameTop DEF Frame, Frames, Places, Working, Actions, CountInv, TaskTypes
  <1>2. GoodFrame(t, Depth(t), Frame(Current(t), d, a))
    <2>1. d \in Working \ Halves
      BY DEF Working, Halves
    <2>2. Depth(t) # 1 => Current(t) \notin Proxies /\ Current(t) \in Tasks
      BY FrameTop DEF GoodFrame
    <2>3. Depth(t) = 1 => Current(t) = t /\ d # "letgo"
      BY FrameTop DEF Working
    <2> QED BY <2>1, <2>2, <2>3 DEF Frame, GoodFrame
  <1>3. TaskTypes'
    BY DEF CountInv, TaskTypes
  <1>4. d \notin {"count", "top2"} /\ (d \in Owing <=> Top(t).doing \in Owing)
    BY DEF Working, Owing
  <1> QED BY <1>1, <1>2, <1>3, <1>4, QuietKeepsCount

(* The end of an explicit task.                                             *)
LEMMA FinishKeepsCount ==
    ASSUME CountInv, NEW t \in Thread,
           CountParent(t) \/ CountGroup(t) \/ ProxyTopHalf(t) \/ BottomHalf(t) \/ End(t)
    PROVE  CountInv'
  <1> USE DEF tree, teams, sync
  <1>0. StackTypes /\ TaskTypes /\ Shape /\ Alive /\ Unique /\ Known /\ Counts
    BY DEF CountInv
  <1>1. PICK x : x = Current(t)
    OBVIOUS
  <1>2. /\ x \in Tasks /\ Depth(t) # 1 /\ Depth(t) \in Nat /\ Depth(t) >= 2
        /\ parent[x] \in Tasks \union Thread
    <2>1. Top(t).doing \in Ends \/ (Top(t).doing = "run" /\ x \in Tasks)
      BY <1>1 DEF CountParent, CountGroup, ProxyTopHalf, BottomHalf, End, Doing, Ends, Halves
    <2>2. Depth(t) # 1
      BY <1>1, <2>1, FrameTop, TaskAssumption DEF Ends, Halves, Working, InBarrier
    <2> QED BY <1>1, <2>2, FrameTop
  <1>3. \A d \in Ends : Frame(x, d, "-") \in Frames
    BY <1>2 DEF Frame, Frames, Ends, Halves, Actions, Places
  <1>4. \A d \in Ends : (d \in Halves => x \in Proxies) => GoodFrame(t, Depth(t), Frame(x, d, "-"))
    <2>1. \A d \in Ends : d \notin Working
      BY DEF Ends, Halves, Working
    <2> QED BY <1>2, <2>1 DEF Frame, GoodFrame
  <1>5. Top(t).doing \in Halves => x \in Proxies
    BY <1>1, <1>2, FrameTop DEF GoodFrame
  <1>6. CASE CountParent(t)
    <2>1. PICK d \in {"free", "countgroup"} : Go(t, d, "-")
      BY <1>6 DEF CountParent
    <2>2. /\ Top(t).doing = "count" /\ UNCHANGED <<life, parent, deque, ext>>
          /\ incomplete' = [incomplete EXCEPT ![parent[x]] = @ - 1]
      BY <1>1, <1>6 DEF CountParent, Doing
    <2>3. TaskTypes'
      BY <1>0, <1>2, <2>2 DEF TaskTypes
    <2>4. d \in Ends /\ d \notin Halves /\ d \notin Owing
      BY DEF Ends, Halves, Owing, Working
    <2> QED BY <1>1, <1>2, <1>3, <1>4, <2>1, <2>2, <2>3, <2>4, SettleKeepsCount
  <1>7. CASE CountGroup(t)
    <2>1. Top(t).doing = "countgroup" /\ Go(t, "free", "-") /\ UNCHANGED <<life, parent, incomplete, deque, ext>>
      BY <1>7 DEF CountGroup, Doing
    <2>2. TaskTypes'
      BY <1>0, <2>1 DEF TaskTypes
    <2>3. "free" \in Ends /\ "free" \notin Halves /\ ("free" \in Owing <=> Top(t).doing \in Owing)
      BY <2>1 DEF Ends, Halves, Owing, Working
    <2> QED BY <1>1, <1>3, <1>4, <2>1, <2>2, <2>3, QuietKeepsCount
  <1>8. CASE BottomHalf(t)
    <2>1. Top(t).doing = "bottom" /\ Go(t, "free", "-") /\ UNCHANGED <<life, parent, incomplete, deque, ext>>
      BY <1>8 DEF BottomHalf, Doing
    <2>2. TaskTypes'
      BY <1>0, <2>1 DEF TaskTypes
    <2>3. "free" \in Ends /\ "free" \notin Halves /\ ("free" \in Owing <=> Top(t).doing \in Owing)
      BY <2>1 DEF Ends, Halves, Owing, Working
    <2> QED BY <1>1, <1>3, <1>4, <2>1, <2>2, <2>3, QuietKeepsCount
  <1>9. CASE End(t)
    <2>1. /\ Top(t).doing = "run" /\ Go(t, "count", "-") /\ UNCHANGED <<parent, incomplete, deque, ext>>
          /\ life' = [life EXCEPT ![x] = "complete"]
      BY <1>1, <1>9 DEF End, Doing
    <2>2. TaskTypes'
      BY <1>0, <2>1 DEF TaskTypes
    <2>3. "count" \in Ends /\ "count" \notin Halves /\ ("count" \in Owing <=> Top(t).doing \in Owing)
      BY <2>1 DEF Ends, Halves, Owing, Working
    <2> QED BY <1>1, <1>3, <1>4, <2>1, <2>2, <2>3, QuietKeepsCount
  <1>10. CASE Doing(t, "top1") /\ ProxyTopHalf(t)
    <2>1. /\ Top(t).doing = "top1" /\ Go(t, "top2", "-") /\ UNCHANGED <<parent, deque, ext>>
          /\ life' = [life EXCEPT ![x] = "complete"] /\ incomplete' = [incomplete EXCEPT ![x] = @ + 1]
      BY <1>1, <1>10 DEF ProxyTopHalf, Doing, FirstTopHalf
    <2>2. x \in Proxies /\ TaskTypes'
      BY <1>0, <1>2, <1>5, <2>1 DEF TaskTypes, Halves
    <2>3. "top2" \in Ends /\ ("top2" \in Owing <=> Top(t).doing \in Owing)
      BY <2>1 DEF Ends, Halves, Owing, Working
    <2>4. \A y \in Tasks \union Thread : Tallied(y) => incomplete'[y] = incomplete[y]
      BY <1>0, <1>2, <2>1, <2>2, TaskAssumption DEF Tallied, TaskTypes
    <2> QED BY <1>1, <1>3, <1>4, <2>1, <2>2, <2>3, <2>4, QuietKeepsCount
  <1>11. CASE Doing(t, "top2") /\ ProxyTopHalf(t)
    <2>1. /\ Top(t).doing = "top2" /\ Go(t, "top3", "-") /\ UNCHANGED <<life, parent, deque, ext>>
          /\ incomplete' = [incomplete EXCEPT ![parent[x]] = @ - 1]
      BY <1>1, <1>11 DEF ProxyTopHalf, Doing
    <2>2. x \in Proxies /\ TaskTypes'
      BY <1>0, <1>2, <1>5, <2>1 DEF TaskTypes, Halves
    <2>3. "top3" \in Ends /\ "top3" \notin Owing
      BY DEF Ends, Halves, Owing, Working
    <2> QED BY <1>1, <1>2, <1>3, <1>4, <2>1, <2>2, <2>3, SettleKeepsCount
  <1>12. CASE Doing(t, "top3") /\ ProxyTopHalf(t)
    <2>1. /\ Top(t).doing = "top3" /\ Go(t, "bottom", "-") /\ UNCHANGED <<life, parent, deque, ext>>
          /\ incomplete' = [incomplete EXCEPT ![x] = @ - 1]
      BY <1>1, <1>12 DEF ProxyTopHalf, Doing
    <2>2. x \in Proxies /\ TaskTypes'
      BY <1>0, <1>2, <1>5, <2>1 DEF TaskTypes, Halves
    <2>3. "bottom" \in Ends /\ "bottom" \notin Halves /\ ("bottom" \in Owing <=> Top(t).doing \in Owing)
      BY <2>1 DEF Ends, Halves, Owing, Working
    <2>4. \A y \in Tasks \union Thread : Tallied(y) => incomplete'[y] = incomplete[y]
      BY <1>0, <1>2, <2>1, <2>2, TaskAssumption DEF Tallied, TaskTypes
    <2> QED BY <1>1, <1>3, <1>4, <2>1, <2>2, <2>3, <2>4, QuietKeepsCount
  <1>13. ProxyTopHalf(t) => Doing(t, "top1") \/ Doing(t, "top2") \/ Doing(t, "top3")
    BY DEF ProxyTopHalf
  <1> QED BY <1>6, <1>7, <1>8, <1>9, <1>10, <1>11, <1>12, <1>13

(* Waits: a turn of the loop, a task taken, and the way out of taskwait and *)
(* taskgroup.                                                               *)
LEMMA WaitKeepsCount ==
    ASSUME CountInv, Attached, NEW t \in Thread,
           \/ WaitTurn(t) \/ TakeOwn(t) \/ GiveUp(t) \/ (\E v \in Thread : Steal(t, v))
           \/ LeaveTaskwait(t) \/ LeaveGroup(t)
    PROVE  CountInv'
  <1> USE DEF tree, teams, sync
  <1>0. StackTypes /\ TaskTypes /\ Shape /\ Unique
    BY DEF CountInv
  <1>1. CASE WaitTurn(t)
    <2>1. /\ UNCHANGED <<life, parent, incomplete, deque, ext>> /\ Waiting(t)
          /\ UNCHANGED stack \/ Go(t, Top(t).doing, "own")
      BY <1>1 DEF WaitTurn
    <2> QED BY <2>1, SameKeepsCount, LookOn
  <1>2. CASE GiveUp(t)
    <2>1. /\ UNCHANGED <<life, parent, incomplete, deque, ext>> /\ Waiting(t)
          /\ Go(t, Top(t).doing, "wait")
      BY <1>2 DEF GiveUp
    <2> QED BY <2>1, LookOn
  <1>3. CASE TakeOwn(t)
    <2>1. PICK k \in 0..1 : k = ptr[t]
      BY <1>0, <1>3, Busy DEF TakeOwn
    <2>2. PICK x : x = Last(deque[k][t])
      OBVIOUS
    <2>3. UNCHANGED <<parent, incomplete, ext>> /\ Waiting(t)
      BY <1>3 DEF TakeOwn
    <2>4. CASE deque[k][t] # <<>> /\ Allowed(t, x)
      <3>1. /\ TakenNewest(k, t) /\ Invoke(t, x)
            /\ life' = IF x \in Proxies THEN life ELSE [life EXCEPT ![x] = "live"]
        BY <1>3, <2>1, <2>2, <2>4 DEF TakeOwn, TakenNewest
      <3>2. DequeType /\ OnceInDeques
        BY <1>0 DEF DequeType, TaskTypes, Unique
      <3>3. x \in Tasks /\ Taken(x)
        BY <2>2, <2>4, <3>1, <3>2, TakeNewest
      <3> QED BY <2>3, <3>1, <3>3, InvokeKeepsCount
    <2>5. CASE ~(deque[k][t] # <<>> /\ Allowed(t, x))
      <3>1. Go(t, Top(t).doing, "steal") /\ UNCHANGED <<life, deque>>
        BY <1>3, <2>1, <2>2, <2>5 DEF TakeOwn
      <3> QED BY <2>3, <3>1, LookOn
    <2> QED BY <2>4, <2>5
  <1>4. ASSUME NEW v \in Thread, Steal(t, v) PROVE CountInv'
    <2>1. PICK k \in 0..1 : k = ptr[t]
      BY <1>0, <1>4, Busy DEF Steal
    <2>2. PICK x : x = Head(deque[k][v])
      OBVIOUS
    <2>3. UNCHANGED <<parent, incomplete, ext>> /\ Waiting(t)
      BY <1>4 DEF Steal
    <2>4. CASE deque[k][v] # <<>> /\ Allowed(t, x)
      <3>1. /\ TakenOldest(k, v) /\ Invoke(t, x)
            /\ life' = IF x \in Proxies THEN life ELSE [life EXCEPT ![x] = "live"]
        BY <1>4, <2>1, <2>2, <2>4 DEF Steal, TakenOldest
      <3>2. DequeType /\ OnceInDeques
        BY <1>0 DEF DequeType, TaskTypes, Unique
      <3>3. x \in Tasks /\ Taken(x)
        BY <2>2, <2>4, <3>1, <3>2, TakeOldest
      <3> QED BY <2>3, <3>1, <3>3, InvokeKeepsCount
    <2>5. CASE ~(deque[k][v] # <<>> /\ Allowed(t, x))
      <3>1. Go(t, Top(t).doing, "dry") /\ UNCHANGED <<life, deque>>
        BY <1>4, <2>1, <2>2, <2>5 DEF Steal
      <3> QED BY <2>3, <3>1, LookOn
    <2> QED BY <2>4, <2>5
  <1>5. CASE LeaveTaskwait(t) \/ LeaveGroup(t)
    <2>1. /\ UNCHANGED <<life, parent, incomplete, deque, ext>> /\ Go(t, "run", "-")
          /\ Top(t).doing \in Working
      BY <1>5 DEF LeaveTaskwait, LeaveGroup, Doing, Working
    <2>2. "run" \in Working
      BY DEF Working
    <2> QED BY <2>1, <2>2, WorkOn
  <1> QED BY <1>1, <1>2, <1>3, <1>4, <1>5

(* Barriers, and what a program asks for.                                   *)
BarrierStep(t) ==
    \/ WorkerArrives(t) \/ WorkerLeaves(t)
    \/ t = Master /\ (MasterArrives \/ MasterStep)

LEMMA BarrierBase ==
    ASSUME CountInv, NEW t \in Thread, BarrierStep(t)
    PROVE  /\ Depth(t) = 1 /\ Current(t) = t /\ Top(t) = stack[t][1]
           /\ UNCHANGED <<life, parent, incomplete, deque, ext>>
           /\ \E d \in Working \union InBarrier(t), a \in Places :
                  /\ Go(t, d, a)
                  /\ d = "letgo" => a \in 1..NProc
                  /\ d \in {"gather", "teamwait", "release"} => a = "wait"
  <1> USE DEF tree, teams, sync
  <1>1. /\ NProc \in Nat /\ NProc >= 1 /\ 1 \in 1..NProc /\ 1..NProc \subseteq Places
        /\ {"-", "wait"} \subseteq Places
    BY TeamAssumption DEF Places
  <1>2. UNCHANGED <<life, parent, incomplete, deque, ext>>
    BY DEF BarrierStep, WorkerArrives, WorkerLeaves, MasterArrives, MasterStep, Gathered, Deactivate,
           LetGo, MasterLeaves, Sync
  <1>3. Depth(t) = 1
    <2>1. CASE Doing(t, "run") /\ Current(t) = t
      BY <2>1, FrameTop, TaskAssumption
    <2>2. CASE Top(t).doing \in {"gather", "teamwait", "letgo", "release"}
      BY <2>2, FrameTop DEF Working, Ends, Halves
    <2> QED BY <2>1, <2>2 DEF BarrierStep, WorkerArrives, WorkerLeaves, MasterArrives, MasterStep,
                Gathered, Deactivate, LetGo, MasterLeaves, AtBarrier, Doing
  <1>4. Current(t) = t /\ Top(t) = stack[t][1]
    BY <1>3, FrameTop
  <1>5. \E d \in Working \union InBarrier(t), a \in Places :
            /\ Go(t, d, a)
            /\ d = "letgo" => a \in 1..NProc
            /\ d \in {"gather", "teamwait", "release"} => a = "wait"
    <2>1. CASE WorkerArrives(t)
      <3>1. Go(t, "release", "wait") /\ "release" \in InBarrier(t)
        BY <2>1 DEF WorkerArrives, InBarrier
      <3> QED BY <1>1, <3>1
    <2>2. CASE WorkerLeaves(t) \/ (t = Master /\ MasterLeaves)
      <3>1. Go(t, "run", "-") /\ "run" \in Working
        BY <2>2 DEF WorkerLeaves, MasterLeaves, Sync, Working
      <3> QED BY <1>1, <3>1
    <2>3. CASE t = Master /\ MasterArrives
      <3>1. Go(t, "gather", "wait") /\ "gather" \in InBarrier(t)
        BY <2>3 DEF MasterArrives, InBarrier
      <3> QED BY <1>1, <3>1
    <2>4. CASE t = Master /\ (Gathered \/ Deactivate)
      <3>1. (Go(t, "teamwait", "wait") \/ Go(t, "letgo", 1)) /\ {"teamwait", "letgo"} \subseteq InBarrier(t)
        BY <2>4 DEF Gathered, Deactivate, InBarrier
      <3> QED BY <1>1, <3>1
    <2>5. CASE t = Master /\ LetGo
      <3>1. PICK a : a = Top(t).at
        OBVIOUS
      <3>2. Doing(t, "letgo") /\ a < NProc /\ Go(t, "letgo", a + 1) /\ "letgo" \in InBarrier(t)
        BY <2>5, <3>1 DEF LetGo, InBarrier
      <3>3. a \in 1..NProc
        BY <1>3, <3>1, <3>2, FrameTop DEF GoodFrame, Doing
      <3>4. a + 1 \in 1..NProc
        BY <1>1, <3>2, <3>3
      <3> QED BY <1>1, <3>2, <3>4
    <2> QED BY <2>1, <2>2, <2>3, <2>4, <2>5 DEF BarrierStep, MasterStep
  <1> QED BY <1>2, <1>3, <1>4, <1>5

LEMMA BarrierKeepsCount ==
    ASSUME CountInv, NEW t \in Thread, BarrierStep(t)
    PROVE  CountInv'
  <1>1. PICK d \in Working \union InBarrier(t), a \in Places :
            Go(t, d, a) /\ (d = "letgo" => a \in 1..NProc)
    BY BarrierBase
  <1>2. Frame(Current(t), d, a) \in Frames
    BY BarrierBase DEF Frame, Frames, Working, InBarrier, Actions
  <1> QED BY <1>1, <1>2, BarrierBase, BaseKeepsCount

LEMMA ProgramKeepsCount ==
    ASSUME CountInv, Attached, NEW t \in Thread,
           \/ Taskwait(t) \/ EndGroup(t) \/ (\E g \in Groups : StartGroup(t, g))
           \/ \E x \in Tasks : CreateDeferred(t, x) \/ CreateUndeferred(t, x) \/ CreateProxy(t, x)
    PROVE  CountInv'
  <1> USE DEF tree, teams, sync
  <1>0. StackTypes /\ TaskTypes /\ Shape
    BY DEF CountInv
  <1>1. CASE Taskwait(t) \/ EndGroup(t)
    <2>1. PICK d \in {"taskwait", "endgroup"} : Go(t, d, "wait")
      BY <1>1 DEF Taskwait, EndGroup
    <2>2. Top(t).doing \in Working /\ d \in Working /\ UNCHANGED <<life, parent, incomplete, deque, ext>>
      BY <1>1, <2>1 DEF Taskwait, EndGroup, Doing, Working
    <2> QED BY <2>1, <2>2, WorkOn
  <1>2. ASSUME NEW g \in Groups, StartGroup(t, g) PROVE CountInv'
    BY <1>2, SameKeepsCount DEF StartGroup
  <1>3. ASSUME NEW x \in Tasks, CreateDeferred(t, x) \/ CreateUndeferred(t, x) \/ CreateProxy(t, x)
        PROVE  CountInv'
    <2>1. /\ Doing(t, "run") /\ life[x] = "none"
          /\ parent' = [parent EXCEPT ![x] = Current(t)]
          /\ incomplete' = [incomplete EXCEPT ![Current(t)] = @ + 1]
          /\ \E l \in {"queued", "live"} : life' = [life EXCEPT ![x] = l]
      BY <1>3 DEF CreateDeferred, CreateUndeferred, CreateProxy, MayCreate, Allocate
    <2>2. Placed(t, x)
      <3>1. CASE CreateDeferred(t, x)
        <4>1. PICK k \in 0..1 : k = ptr[t]
          BY <1>0, <2>1, Busy DEF Doing
        <4>2. x \in Tasks \ Proxies /\ Appended(k, t, x) /\ UNCHANGED <<stack, ext>>
          BY <3>1, <4>1 DEF CreateDeferred, Appended
        <4> QED BY <2>1, <4>2, PlaceInDeque
      <3>2. CASE CreateUndeferred(t, x)
        <4>1. PICK d \in {"run", "top1"} : d = "run" /\ (d = "top1" <=> x \in Proxies)
          BY <3>2 DEF CreateUndeferred
        <4>2. Begin(t, Frame(x, d, "-")) /\ UNCHANGED <<deque, ext>>
          BY <3>2, <4>1 DEF CreateUndeferred, Run
        <4> QED BY <2>1, <4>1, <4>2, PlaceOnStack
      <3>3. CASE CreateProxy(t, x)
        <4>1. x \in Proxies /\ UNCHANGED deque
              /\ \/ ext' = [ext EXCEPT ![x] = "started"] /\ UNCHANGED stack
                 \/ Begin(t, Frame(x, "top1", "-")) /\ UNCHANGED ext
          BY <3>3 DEF CreateProxy
        <4>2. "top1" \in {"run", "top1"}
          OBVIOUS
        <4> QED BY <2>1, <4>1, <4>2, PlaceOutside, PlaceOnStack
      <3> QED BY <1>3, <3>1, <3>2, <3>3
    <2> QED BY <2>1, <2>2, PlacedKeepsCount
  <1> QED BY <1>1, <1>2, <1>3

-----------------------------------------------------------------------------
(* A thread that works or looks for work has a task team.                   *)

LEMMA BusyStaysAttached ==
    ASSUME CountInv, Attached, NEW t \in Thread, ptr[t] # None, UNCHANGED <<parity, ptr>>,
           NEW f, NEW x, UNCHANGED stack \/ Become(t, f) \/ Begin(t, f) \/ Return(t) \/ Invoke(t, x)
    PROVE  Attached'
  <1>1. \A u \in Thread \ {t} : stack'[u] = stack[u]
    BY OneStack DEF CountInv
  <1> QED BY <1>1, StillAttached DEF Attached

LEMMA WorkStaysAttached ==
    ASSUME CountInv, Attached, NEW t \in Thread,
           \/ CountParent(t) \/ CountGroup(t) \/ ProxyTopHalf(t) \/ BottomHalf(t) \/ End(t) \/ FreeTask(t)
           \/ TakeOwn(t) \/ GiveUp(t) \/ (\E v \in Thread : Steal(t, v))
           \/ LeaveTaskwait(t) \/ LeaveGroup(t)
           \/ Taskwait(t) \/ EndGroup(t) \/ (\E g \in Groups : StartGroup(t, g))
           \/ \E x \in Tasks : CreateDeferred(t, x) \/ CreateUndeferred(t, x) \/ CreateProxy(t, x)
    PROVE  Attached'
  <1> USE DEF tree, teams, sync, Go
  <1>1. UNCHANGED <<parity, ptr>>
    BY DEF CountParent, CountGroup, ProxyTopHalf, BottomHalf, End, FreeTask, TakeOwn, GiveUp, Steal,
           LeaveTaskwait, LeaveGroup, Taskwait, EndGroup, StartGroup, CreateDeferred, CreateUndeferred,
           CreateProxy
  <1>2. \/ Top(t).doing \notin {"gather", "release", "teamwait", "letgo"}
        \/ Waiting(t) /\ Top(t).at \in {"own", "steal", "dry"}
    BY DEF CountParent, CountGroup, ProxyTopHalf, BottomHalf, End, FreeTask, TakeOwn, GiveUp, Steal,
           LeaveTaskwait, LeaveGroup, Taskwait, EndGroup, StartGroup, CreateDeferred, CreateUndeferred,
           CreateProxy, Doing
  <1>3. ptr[t] # None
    <2>1. ptr[t] \in 0..1
      BY <1>2, Busy DEF CountInv
    <2> QED BY <2>1, NoneAssumption, TeamAssumption DEF Thread
  <1>4. \E f, x : UNCHANGED stack \/ Become(t, f) \/ Begin(t, f) \/ Return(t) \/ Invoke(t, x)
    BY DEF CountParent, CountGroup, ProxyTopHalf, BottomHalf, End, FreeTask, TakeOwn, GiveUp, Steal,
           LeaveTaskwait, LeaveGroup, Taskwait, EndGroup, StartGroup, CreateDeferred, CreateUndeferred,
           CreateProxy
  <1> QED BY <1>1, <1>3, <1>4, BusyStaysAttached

LEMMA WaitStaysAttached ==
    ASSUME CountInv, Attached, NEW t \in Thread, WaitTurn(t)
    PROVE  Attached'
  <1> USE DEF tree, teams, sync
  <1>1. ptr[t] # None /\ UNCHANGED parity /\ Waiting(t) /\ Top(t).at = "wait"
    BY DEF WaitTurn
  <1>2. \/ UNCHANGED ptr /\ Go(t, Top(t).doing, "own")
        \/ ~Constrained(t) /\ UNCHANGED stack /\ ptr' = [ptr EXCEPT ![t] = None]
    BY DEF WaitTurn
  <1>3. CASE UNCHANGED ptr /\ Go(t, Top(t).doing, "own")
    BY <1>1, <1>3, BusyStaysAttached DEF Go
  <1>4. CASE ~Constrained(t) /\ UNCHANGED stack /\ ptr' = [ptr EXCEPT ![t] = None]
    <2>1. Top(t).doing \in {"gather", "release", "teamwait"}
      BY <1>1, <1>4 DEF Waiting, Constrained
    <2>2. Depth(t) = 1
      BY <2>1, FrameTop DEF Working, Ends, Halves
    <2>3. Idle(t)
      BY <1>1, <2>1, <2>2, FrameTop DEF Idle, Base
    <2>4. Idle(t)'
      BY <1>4, <2>3 DEF Idle, Base, Depth
    <2>5. /\ ptr' \in [Thread -> (0..1) \union {None}] /\ \A u \in Thread \ {t} : ptr'[u] = ptr[u]
          /\ parity' \in [Thread -> 0..1]
      BY <1>1, <1>4 DEF Attached
    <2> QED BY <1>4, <2>4, <2>5, StillAttached
  <1> QED BY <1>2, <1>3, <1>4

LEMMA BarrierStaysAttached ==
    ASSUME CountInv, Attached, NEW t \in Thread, BarrierStep(t)
    PROVE  Attached'
  <1> USE DEF tree, teams, sync
  <1>1. Depth(t) = 1 /\ StackTypes
    BY BarrierBase DEF CountInv
  <1>2. \/ Sync(t)
        \/ /\ UNCHANGED parity
           /\ UNCHANGED ptr \/ ptr' = [ptr EXCEPT ![t] = None]
           /\ \/ \E d \in {"gather", "teamwait", "release"} : Go(t, d, "wait")
              \/ \E a \in 1..NProc : Go(t, "letgo", a)
    <2>1. CASE WorkerArrives(t) \/ WorkerLeaves(t) \/ (t = Master /\ (MasterArrives \/ MasterLeaves))
      BY <2>1 DEF WorkerArrives, WorkerLeaves, MasterArrives, MasterLeaves
    <2>2. CASE t = Master /\ (Gathered \/ Deactivate)
      <3>1. 1 \in 1..NProc
        BY TeamAssumption
      <3> QED BY <2>2, <3>1 DEF Gathered, Deactivate
    <2>3. CASE t = Master /\ LetGo
      <3>1. PICK a : a = Top(t).at
        OBVIOUS
      <3>2. Doing(t, "letgo") /\ a < NProc /\ Go(t, "letgo", a + 1) /\ UNCHANGED <<parity, ptr>>
        BY <2>3, <3>1 DEF LetGo
      <3>3. a \in 1..NProc
        BY <1>1, <3>1, <3>2, FrameTop DEF GoodFrame, Doing
      <3>4. a + 1 \in 1..NProc
        BY <3>2, <3>3, TeamAssumption
      <3> QED BY <3>2, <3>4
    <2> QED BY <2>1, <2>2, <2>3 DEF BarrierStep, MasterStep
  <1>3. CASE Sync(t)
    <2>1. /\ parity' = [parity EXCEPT ![t] = 1 - @] /\ ptr' = [ptr EXCEPT ![t] = 1 - parity[t]]
          /\ \A u \in Thread \ {t} : stack'[u] = stack[u]
      BY <1>1, <1>3, OneStack DEF Sync, Go
    <2>2. parity[t] \in 0..1 /\ 1 - parity[t] \in 0..1 /\ None \notin 0..1
      BY NoneAssumption, TeamAssumption DEF Attached, Thread
    <2>3. /\ ptr' \in [Thread -> (0..1) \union {None}] /\ \A u \in Thread \ {t} : ptr'[u] = ptr[u]
          /\ parity' \in [Thread -> 0..1] /\ ptr'[t] # None
      BY <2>1, <2>2 DEF Attached
    <2> QED BY <2>1, <2>3, StillAttached
  <1>4. CASE /\ UNCHANGED parity
             /\ UNCHANGED ptr \/ ptr' = [ptr EXCEPT ![t] = None]
             /\ \/ \E d \in {"gather", "teamwait", "release"} : Go(t, d, "wait")
                \/ \E a \in 1..NProc : Go(t, "letgo", a)
    <2>1. PICK d, a : /\ Go(t, d, a)
                      /\ \/ d \in {"gather", "teamwait", "release"} /\ a = "wait"
                         \/ d = "letgo" /\ a \in 1..NProc
      BY <1>4
    <2>2. PICK f \in Frames : f = Frame(Current(t), d, a) /\ f.doing = d /\ f.at = a
      <3>1. Current(t) \in Tasks \union Thread /\ d \in Actions /\ a \in Places
        BY <1>1, <2>1, FrameTop DEF Places, Actions
      <3> DEFINE g == Frame(Current(t), d, a)
      <3>2. g \in Frames /\ g.doing = d /\ g.at = a
        BY <3>1 DEF Frame, Frames
      <3> HIDE DEF g
      <3>3. \E f \in Frames : f = g /\ f.doing = d /\ f.at = a
        BY <3>2
      <3> QED BY <3>3 DEF g
    <2>3. Len(stack'[t]) = 1 /\ stack'[t][1] = f
      <3>1. Become(t, f) /\ Depth(t) >= 1 /\ 1 \in 1..Depth(t)
        BY <1>1, <2>1, <2>2 DEF Go
      <3>2. /\ \A u \in Thread : Len(stack'[u]) = Depth(u)
            /\ \A u \in Thread : \A i \in 1..Depth(u) :
                   stack'[u][i] = IF u = t /\ i = Depth(t) THEN f ELSE stack[u][i]
        BY <1>1, <3>1, BecomeStack
      <3> QED BY <1>1, <3>1, <3>2
    <2>4. Idle(t)'
      BY <2>1, <2>2, <2>3 DEF Idle, Depth, Base
    <2>5. /\ ptr' \in [Thread -> (0..1) \union {None}] /\ \A u \in Thread \ {t} : ptr'[u] = ptr[u]
          /\ parity' \in [Thread -> 0..1]
      BY <1>4 DEF Attached
    <2>6. \A u \in Thread \ {t} : stack'[u] = stack[u]
      BY <1>1, <2>1, OneStack DEF Go
    <2> QED BY <2>4, <2>5, <2>6, StillAttached
  <1> QED BY <1>2, <1>3, <1>4

-----------------------------------------------------------------------------
(* The counts are right for ever.                                           *)

LEMMA CountInit == Init => CountInv /\ Attached
  <1> SUFFICES ASSUME Init PROVE CountInv /\ Attached
    OBVIOUS
  <1>1. 0 \in Thread /\ 1 \in Thread
    BY TeamAssumption DEF Thread
  <1>2. \A t \in Thread : /\ stack[t] = <<Run(t)>> /\ stack[t] \in Seq(Frames) /\ Len(stack[t]) = 1
                          /\ stack[t][1].task = t /\ stack[t][1].doing = "run"
    BY DEF Init, Run, Frame, Frames, Places, Actions
  <1>3. StackTypes
    BY <1>2 DEF Init, StackTypes
  <1>4. TaskTypes
    BY DEF Init, TaskTypes
  <1>5. Shape
    BY <1>2 DEF Shape, Depth, GoodFrame, Working
  <1>6. \A x \in Tasks : ~OnStack(x)
    <2> SUFFICES ASSUME NEW x \in Tasks, NEW t \in Thread, NEW i \in Nat, Hold(x, t, i) PROVE FALSE
      BY DEF OnStack
    <2>1. i \in 2..Depth(t)
      BY <1>3, <1>5, HeldTask
    <2>2. Len(stack[t]) = 1
      BY <1>2
    <2> QED BY <2>1, <2>2 DEF Depth
  <1>7. \A x \in Tasks : ~InDeque(x) /\ ~Outside(x)
    BY DEF Init, InDeque, Queued, Outside
  <1>8. \A x \in Tasks : ~Owed(x)
    BY <1>6, <1>7 DEF Owed
  <1>9. Counts
    <2>1. ASSUME NEW y \in Tasks \union Thread PROVE incomplete[y] = Cardinality(OwedTo(y))
      <3>1. OwedTo(y) = {}
        BY <1>8 DEF OwedTo
      <3> QED BY <3>1, FS_EmptySet DEF Init
    <2> QED BY <2>1 DEF Counts
  <1>10. Alive
    BY <1>2 DEF Init, Alive, Pending, Depth
  <1>11. Unique
    <2>1. OnceOnStacks
      BY <1>6 DEF OnceOnStacks, OnStack
    <2>2. OnceInDeques
      BY DEF Init, OnceInDeques, Queued
    <2> QED BY <1>6, <2>1, <2>2, TaskAssumption DEF Unique, Apart
  <1>12. Known
    BY <1>2, <1>7 DEF Init, Known, Depth
  <1>13. Attached
    BY <1>1, NoneAssumption DEF Init, Attached
  <1> QED BY <1>3, <1>4, <1>5, <1>9, <1>10, <1>11, <1>12, <1>13 DEF CountInv

LEMMA CountStep == CountInv /\ Attached /\ [Next]_vars => CountInv' /\ Attached'
  <1> SUFFICES ASSUME CountInv, Attached, [Next]_vars PROVE CountInv' /\ Attached'
    OBVIOUS
  <1>1. ASSUME UNCHANGED vars PROVE CountInv' /\ Attached'
    <2>1. CountInv'
      BY <1>1, SameKeepsCount DEF vars
    <2>2. Attached'
      BY <1>1 DEF vars, Attached, Idle, Depth, Base
    <2> QED BY <2>1, <2>2
  <1>2. ASSUME NEW t \in Thread, Step(t) \/ Reach(t) \/ Taskwait(t) \/ (t = Master /\ MasterStep)
        PROVE  CountInv' /\ Attached'
    <2>1. CASE CountParent(t) \/ CountGroup(t) \/ ProxyTopHalf(t) \/ BottomHalf(t) \/ End(t)
      BY <2>1, FinishKeepsCount, WorkStaysAttached
    <2>2. CASE FreeTask(t)
      BY <2>2, FreeKeepsCount, WorkStaysAttached
    <2>3. CASE WaitTurn(t)
      BY <2>3, WaitKeepsCount, WaitStaysAttached
    <2>4. CASE TakeOwn(t) \/ GiveUp(t) \/ (\E v \in Thread : Steal(t, v)) \/ LeaveTaskwait(t) \/ LeaveGroup(t)
      BY <2>4, WaitKeepsCount, WorkStaysAttached
    <2>5. CASE Taskwait(t) \/ EndGroup(t)
      BY <2>5, ProgramKeepsCount, WorkStaysAttached
    <2>6. CASE BarrierStep(t)
      BY <2>6, BarrierKeepsCount, BarrierStaysAttached
    <2> QED BY <1>2, <2>1, <2>2, <2>3, <2>4, <2>5, <2>6 DEF Step, Reach, BarrierStep
  <1>3. ASSUME NEW t \in Thread,
               \/ \E x \in Tasks : CreateDeferred(t, x) \/ CreateUndeferred(t, x) \/ CreateProxy(t, x)
               \/ \E g \in Groups : StartGroup(t, g)
        PROVE  CountInv' /\ Attached'
    BY <1>3, ProgramKeepsCount, WorkStaysAttached
  <1>4. ASSUME NEW x \in Proxies, Complete(x) PROVE CountInv' /\ Attached'
    <2>1. UNCHANGED <<stack, parity, ptr>>
      BY <1>4 DEF Complete, ExtFirstTop, ExtGive, ExtCountParent, ExtRemoveChild, teams
    <2>2. Attached'
      BY <2>1 DEF Attached, Idle, Depth, Base
    <2> QED BY <1>4, <2>2, OutsideKeepsCount
  <1>5. Master \in Thread
    BY TeamAssumption DEF Master, Thread
  <1> QED BY <1>1, <1>2, <1>3, <1>4, <1>5 DEF Next

(* The count of a task's incomplete children is at all times the number of  *)
(* its children that are still owed to it: queued, on the stack of a thread *)
(* that has not counted them, or with a thread outside the team             *)
(* (td_incomplete_child_tasks in kmp_tasking.cpp).                          *)
THEOREM CountsAreRight == SafeSpec => [](CountInv /\ Attached)
  <1>1. CountInv /\ Attached /\ [Next]_vars => (CountInv /\ Attached)'
    BY CountStep
  <1> QED BY <1>1, CountInit, PTL DEF SafeSpec

-----------------------------------------------------------------------------
(* taskwait.                                                                *)

(* Nothing is owed to a task whose count is zero.                           *)
LEMMA NothingOwed ==
    ASSUME CountInv, NEW y \in Tasks \union Thread, Tallied(y), incomplete[y] = 0
    PROVE  \A x \in Tasks : parent[x] = y => ~Owed(x) /\ Over(x)
  <1>1. OwedTo(y) = {}
    <2>1. Cardinality(OwedTo(y)) = 0
      BY DEF CountInv, Counts
    <2> QED BY <2>1, OwedFinite, FS_EmptySet
  <1> QED BY <1>1 DEF OwedTo, CountInv, Alive, Pending, Over, TaskTypes

WaitEnds(t) == Len(stack'[t]) = Len(stack[t]) /\ Last(stack'[t]).doing = "run"

LEMMA TaskwaitStep ==
    ASSUME CountInv, Attached, [Next]_vars, NEW t \in Thread, Doing(t, "taskwait"), WaitEnds(t)
    PROVE  LeaveTaskwait(t)
  <1> USE DEF tree, teams, sync
  <1> DEFINE n == Depth(t)
  <1>1. n \in Nat /\ n >= 1 /\ StackTypes /\ stack[t][n].doing = "taskwait" /\ t \in Thread
    BY FrameTop DEF CountInv, Doing
  <1>2. ASSUME stack'[t] = stack[t] PROVE FALSE
    <2>1. stack[t][n].doing = "run"
      BY <1>2 DEF WaitEnds, Last, Depth
    <2> QED BY <1>1, <2>1
  <1>3. ASSUME NEW u \in Thread \ {t}, NEW f, NEW x,
               Become(u, f) \/ Begin(u, f) \/ Return(u) \/ Invoke(u, x)
        PROVE  FALSE
    <2>1. stack'[t] = stack[t]
      BY <1>1, <1>3, OneStack
    <2> QED BY <1>2, <2>1
  <1>4. ASSUME NEW a \in Places, Go(t, Top(t).doing, a) PROVE FALSE
    <2>1. PICK f : f = Frame(Current(t), Top(t).doing, a) /\ f.doing = "taskwait"
      <3> DEFINE g == Frame(Current(t), Top(t).doing, a)
      <3>1. g.doing = "taskwait"
        BY DEF Doing, Frame
      <3> HIDE DEF g
      <3>2. \E f : f = g /\ f.doing = "taskwait"
        BY <3>1
      <3> QED BY <3>2 DEF g
    <2>2. f \in Frames
      BY <2>1, FrameTop DEF Frame, Frames
    <2>3. Len(stack'[t]) = n /\ stack'[t][n] = f
      <3>1. Become(t, f) /\ n \in 1..n
        BY <1>1, <1>4, <2>1 DEF Go
      <3> QED BY <1>1, <2>2, <3>1, BecomeStack
    <2> QED BY <2>1, <2>3 DEF WaitEnds, Last
  <1>5. ASSUME NEW x \in Tasks, Invoke(t, x) PROVE FALSE
    <2>1. Len(stack'[t]) = n + 1
      BY <1>1, <1>5, InvokeStack
    <2> QED BY <1>1, <2>1 DEF WaitEnds, Depth
  <1>6. ASSUME NEW u \in Thread, u # t,
               \/ Step(u) \/ Reach(u) \/ Taskwait(u) \/ (u = Master /\ MasterStep)
               \/ \E x \in Tasks : CreateDeferred(u, x) \/ CreateUndeferred(u, x) \/ CreateProxy(u, x)
               \/ \E g \in Groups : StartGroup(u, g)
        PROVE  FALSE
    <2>1. CASE UNCHANGED stack
      BY <1>2, <2>1
    <2>2. CASE \E f, x : Become(u, f) \/ Begin(u, f) \/ Return(u) \/ Invoke(u, x)
      BY <1>3, <1>6, <2>2
    <2> QED BY <1>6, <2>1, <2>2 DEF Step, Reach, CountParent, CountGroup, FreeTask, ProxyTopHalf,
               BottomHalf, WaitTurn, TakeOwn, GiveUp, Steal, LeaveTaskwait, LeaveGroup, WorkerLeaves,
               End, EndGroup, WorkerArrives, MasterArrives, Taskwait, MasterStep, Gathered, Deactivate,
               LetGo, MasterLeaves, Sync, CreateDeferred, CreateUndeferred, CreateProxy, StartGroup, Go
  <1>7. ASSUME \/ Step(t) \/ Reach(t) \/ Taskwait(t) \/ (t = Master /\ MasterStep)
               \/ \E x \in Tasks : CreateDeferred(t, x) \/ CreateUndeferred(t, x) \/ CreateProxy(t, x)
               \/ \E g \in Groups : StartGroup(t, g)
        PROVE  LeaveTaskwait(t)
    <2>1. WaitTurn(t) \/ TakeOwn(t) \/ GiveUp(t) \/ (\E v \in Thread : Steal(t, v)) \/ LeaveTaskwait(t)
      BY <1>7 DEF Step, Reach, CountParent, CountGroup, FreeTask, ProxyTopHalf, BottomHalf, LeaveGroup,
         WorkerLeaves, End, EndGroup, WorkerArrives, MasterArrives, AtBarrier, Taskwait, MasterStep, Gathered,
         Deactivate, LetGo, MasterLeaves, CreateDeferred, CreateUndeferred, CreateProxy, StartGroup, Doing
    <2>2. {"wait", "own", "steal", "dry"} \subseteq Places
      BY DEF Places
    <2>3. ~WaitTurn(t) /\ ~GiveUp(t)
      BY <1>2, <1>4, <2>2 DEF WaitTurn, GiveUp
    <2>4. PICK k \in 0..1 : k = ptr[t]
      BY FrameTop, Busy DEF CountInv, Doing
    <2>5. \A v \in Thread : deque[k][v] # <<>> => Last(deque[k][v]) \in Tasks /\ Head(deque[k][v]) \in Tasks
      <3> SUFFICES ASSUME NEW v \in Thread, deque[k][v] # <<>>
                   PROVE  Last(deque[k][v]) \in Tasks /\ Head(deque[k][v]) \in Tasks
        OBVIOUS
      <3>1. deque[k][v] \in Seq(Tasks) /\ Len(deque[k][v]) \in Nat /\ Len(deque[k][v]) >= 1
        BY EmptySeq, LenProperties DEF CountInv, TaskTypes
      <3> QED BY <3>1, LastFront, HeadTailProperties
    <2>6. ~TakeOwn(t)
      <3>1. TakeOwn(t) => \/ deque[k][t] # <<>> /\ Invoke(t, Last(deque[k][t]))
                          \/ Go(t, Top(t).doing, "steal")
        BY <2>4 DEF TakeOwn
      <3> QED BY <1>4, <1>5, <2>2, <2>5, <3>1
    <2>7. ASSUME NEW v \in Thread, Steal(t, v) PROVE FALSE
      <3>1. \/ deque[k][v] # <<>> /\ Invoke(t, Head(deque[k][v]))
            \/ Go(t, Top(t).doing, "dry")
        BY <2>4, <2>7 DEF Steal
      <3> QED BY <1>4, <1>5, <2>2, <2>5, <3>1
    <2> QED BY <2>1, <2>3, <2>6, <2>7
  <1>8. ASSUME NEW x \in Proxies, Complete(x) PROVE FALSE
    BY <1>2, <1>8 DEF Complete, ExtFirstTop, ExtGive, ExtCountParent, ExtRemoveChild
  <1>9. ~UNCHANGED vars
    BY <1>2 DEF vars
  <1>10. Master \in Thread
    BY TeamAssumption DEF Master, Thread
  <1> QED BY <1>6, <1>7, <1>8, <1>9, <1>10 DEF Next

(* taskwait returns only when all children of the waiting task have been    *)
(* executed, by whomever, among them the proxy tasks completed outside the  *)
(* team (__kmpc_omp_taskwait; the first half of WaitsForItsTasks).          *)
TaskwaitHolds ==
    [][\A t \in Thread :
        Doing(t, "taskwait") /\ WaitEnds(t) =>
            \A x \in Tasks : parent[x] = Current(t) => Over(x)]_vars

LEMMA TaskwaitIsOver ==
    ASSUME CountInv, Attached, [Next]_vars, NEW t \in Thread, Doing(t, "taskwait"), WaitEnds(t)
    PROVE  \A x \in Tasks : parent[x] = Current(t) => Over(x)
  <1>1. PICK y : y = Current(t)
    OBVIOUS
  <1>2. LeaveTaskwait(t)
    BY TaskwaitStep
  <1>3. incomplete[y] = 0
    BY <1>1, <1>2 DEF LeaveTaskwait, Done, Doing
  <1>4. y \in Tasks \union Thread /\ Tallied(y)
    <2>1. Depth(t) # 1 => y \notin Proxies /\ y \in Tasks
      BY <1>1, FrameTop DEF GoodFrame, Doing, Working
    <2>2. Depth(t) = 1 => y = t
      BY <1>1, FrameTop
    <2> QED BY <2>1, <2>2 DEF Tallied
  <1> QED BY <1>1, <1>3, <1>4, NothingOwed

THEOREM TaskwaitsWait == SafeSpec => TaskwaitHolds
  <1>1. CountInv /\ Attached /\ [Next]_vars =>
            [\A t \in Thread :
                Doing(t, "taskwait") /\ WaitEnds(t) =>
                    \A x \in Tasks : parent[x] = Current(t) => Over(x)]_vars
    BY TaskwaitIsOver
  <1> QED BY <1>1, CountsAreRight, PTL DEF SafeSpec, TaskwaitHolds

-----------------------------------------------------------------------------
(* The memory of tasks.  td_allocated_child_tasks of a task counts who      *)
(* still has to touch it: the frames that work on it or free it, its        *)
(* children that have not been freed, the deque it is in, and the thread    *)
(* outside the team that has not given it back.                             *)

On(x, t, i) == i \in 1..Depth(t) /\ stack[t][i].task = x
FramesOf(x) == {p \in Thread \X Nat : On(x, p[1], p[2])}
Unfreed(x) == {y \in Tasks : parent[y] = x /\ life[y] # "freed"}
Outer(x) == x \in Proxies /\ ext[x] \in {"started", "give"}
Number(b) == IF b THEN 1 ELSE 0
Holders(x) ==
    Cardinality(FramesOf(x)) + Cardinality(Unfreed(x)) + Number(InDeque(x)) + Number(Outer(x))

QueuedAlone ==
    \A x \in Tasks : \A k, l \in 0..1, t, u \in Thread : \A i, j \in Nat :
        Queued(x, k, t, i) /\ Queued(x, l, u, j) => k = l /\ t = u /\ i = j

(* The bottom half of a proxy task waits for the thread outside: it may not *)
(* free the task before the imaginary child has gone.                       *)
InBottom(x) == \E t \in Thread : \E i \in Nat : On(x, t, i) /\ stack[t][i].doing = "bottom"
ProxyRight(x) ==
    /\ life[x] = "none" => incomplete[x] = 0
    /\ ext[x] \in {"none", "started", "give"} => ~InDeque(x)
    /\ ext[x] = "started" => life[x] = "live" /\ incomplete[x] >= 0
    /\ ext[x] \in {"give", "parent", "child"} => incomplete[x] >= 1
    /\ ext[x] \in {"parent", "child"} => InDeque(x) \/ InBottom(x)
    /\ ext[x] # "none" => /\ home[x] \in 0..1
                          /\ \A t \in Thread : \A i \in Nat : On(x, t, i) => stack[t][i].doing \notin Halves

Kept(x) == life[x] \notin {"none", "freed"}
HeldRight(x) ==
    /\ life[x] = "none" => parent[x] = None
    /\ parent[x] \notin Proxies
    /\ IsFiniteSet(FramesOf(x)) /\ allocated[x] = Holders(x)
    /\ Kept(x) <=> allocated[x] > 0

FreeInv ==
    /\ allocated \in [Tasks -> Int] /\ home \in [Proxies -> (0..1) \union {None}]
    /\ QueuedAlone
    /\ \A x \in Tasks : HeldRight(x)
    /\ \A x \in Proxies : ProxyRight(x)

(* The frames of a task after each operation on stacks.                     *)
LEMMA BecomeOn ==
    ASSUME StackTypes, NEW t \in Thread, Depth(t) >= 1, NEW f \in Frames, Become(t, f)
    PROVE  \A z : \A u \in Thread : \A i \in Nat :
               On(z, u, i)' <=> IF u = t /\ i = Depth(t) THEN f.task = z ELSE On(z, u, i)
  <1> SUFFICES ASSUME NEW z, NEW u \in Thread, NEW i \in Nat
               PROVE  On(z, u, i)' <=> IF u = t /\ i = Depth(t) THEN f.task = z ELSE On(z, u, i)
    OBVIOUS
  <1>1. /\ Len(stack'[u]) = Depth(u) /\ Depth(u) \in Nat
        /\ \A j \in 1..Depth(u) : stack'[u][j] = IF u = t /\ j = Depth(t) THEN f ELSE stack[u][j]
    BY BecomeStack, StackSeq
  <1>2. On(z, u, i)' <=> i \in 1..Depth(u) /\ stack'[u][i].task = z
    BY <1>1 DEF On, Depth
  <1> QED BY <1>1, <1>2 DEF On

LEMMA BeginOn ==
    ASSUME StackTypes, NEW t \in Thread, NEW f \in Frames, Begin(t, f)
    PROVE  \A z : \A u \in Thread : \A i \in Nat :
               On(z, u, i)' <=> On(z, u, i) \/ (u = t /\ i = Depth(t) + 1 /\ f.task = z)
  <1> SUFFICES ASSUME NEW z, NEW u \in Thread, NEW i \in Nat
               PROVE  On(z, u, i)' <=> On(z, u, i) \/ (u = t /\ i = Depth(t) + 1 /\ f.task = z)
    OBVIOUS
  <1>1. /\ Depth(u) \in Nat /\ Len(stack'[u]) = IF u = t THEN Depth(u) + 1 ELSE Depth(u)
        /\ \A j \in 1..Depth(u) : stack'[u][j] = stack[u][j]
        /\ u = t => stack'[u][Depth(u) + 1] = f
    BY BeginStack, StackSeq
  <1>2. On(z, u, i)' <=> i \in 1..Len(stack'[u]) /\ stack'[u][i].task = z
    BY DEF On, Depth
  <1>3. CASE u = t /\ i = Depth(t) + 1
    BY <1>1, <1>2, <1>3 DEF On
  <1>4. CASE ~(u = t /\ i = Depth(t) + 1)
    BY <1>1, <1>2, <1>4 DEF On
  <1> QED BY <1>3, <1>4

LEMMA ReturnOn ==
    ASSUME StackTypes, NEW t \in Thread, Depth(t) >= 1, Return(t)
    PROVE  \A z : \A u \in Thread : \A i \in Nat :
               On(z, u, i)' <=> On(z, u, i) /\ ~(u = t /\ i = Depth(t))
  <1> SUFFICES ASSUME NEW z, NEW u \in Thread, NEW i \in Nat
               PROVE  On(z, u, i)' <=> On(z, u, i) /\ ~(u = t /\ i = Depth(t))
    OBVIOUS
  <1>1. /\ Depth(u) \in Nat /\ Len(stack'[u]) = IF u = t THEN Depth(u) - 1 ELSE Depth(u)
        /\ \A j \in 1..Len(stack'[u]) : stack'[u][j] = stack[u][j]
    BY ReturnStack, StackSeq
  <1>2. On(z, u, i)' <=> i \in 1..Len(stack'[u]) /\ stack'[u][i].task = z
    BY DEF On, Depth
  <1>3. i \in 1..Len(stack'[u]) <=> i \in 1..Depth(u) /\ ~(u = t /\ i = Depth(t))
    BY <1>1
  <1> QED BY <1>1, <1>2, <1>3 DEF On

LEMMA InvokeOn ==
    ASSUME StackTypes, NEW t \in Thread, Depth(t) >= 1, NEW x \in Tasks, Invoke(t, x)
    PROVE  /\ \A z : \A u \in Thread : \A i \in Nat :
                  On(z, u, i)' <=> On(z, u, i) \/ (u = t /\ i = Depth(t) + 1 /\ z = x)
           /\ \A u \in Thread : \A i \in 1..Depth(u) : stack'[u][i].doing = stack[u][i].doing
           /\ stack'[t][Depth(t) + 1].doing = IF x \in Proxies THEN "bottom" ELSE "run"
  <1>0. Top(t) = stack[t][Depth(t)] /\ \A u \in Thread : Depth(u) \in Nat
    BY StackSeq
  <1>1. PICK f : f = Frame(Current(t), Top(t).doing, IF Final(t) THEN "own" ELSE "wait")
    OBVIOUS
  <1>2. f.task = stack[t][Depth(t)].task /\ f.doing = stack[t][Depth(t)].doing
    BY <1>0, <1>1 DEF Frame, Current
  <1>3. /\ Len(stack'[t]) = Depth(t) + 1
        /\ \A v \in Thread \ {t} : Len(stack'[v]) = Depth(v)
        /\ \A v \in Thread : \A j \in 1..Depth(v) :
               v # t \/ j # Depth(t) => stack'[v][j] = stack[v][j]
        /\ stack'[t][Depth(t)] = f
        /\ stack'[t][Depth(t) + 1] = Invoked(x)
    BY <1>1, InvokeStack
  <1>4. \A u \in Thread : \A j \in 1..Depth(u) : stack'[u][j].task = stack[u][j].task
                                                 /\ stack'[u][j].doing = stack[u][j].doing
    BY <1>2, <1>3
  <1>5. Invoked(x).task = x /\ Invoked(x).doing = IF x \in Proxies THEN "bottom" ELSE "run"
    BY DEF Invoked, Frame, Run
  <1>6. ASSUME NEW z, NEW u \in Thread, NEW i \in Nat
        PROVE  On(z, u, i)' <=> On(z, u, i) \/ (u = t /\ i = Depth(t) + 1 /\ z = x)
    <2>1. On(z, u, i)' <=> i \in 1..Len(stack'[u]) /\ stack'[u][i].task = z
      BY DEF On, Depth
    <2>2. CASE u = t /\ i = Depth(t) + 1
      BY <1>0, <1>3, <1>5, <2>1, <2>2 DEF On
    <2>3. CASE ~(u = t /\ i = Depth(t) + 1)
      <3>1. i \in 1..Len(stack'[u]) <=> i \in 1..Depth(u)
        BY <1>0, <1>3, <2>3
      <3> QED BY <1>4, <2>1, <2>3, <3>1 DEF On
    <2> QED BY <2>2, <2>3
  <1> QED BY <1>3, <1>4, <1>5, <1>6

(* One frame more, one less.                                                *)
LEMMA SameFrames ==
    ASSUME NEW z, \A u \in Thread : \A i \in Nat : On(z, u, i)' <=> On(z, u, i)
    PROVE  FramesOf(z)' = FramesOf(z)
  BY DEF FramesOf

LEMMA MoreFrames ==
    ASSUME NEW z, IsFiniteSet(FramesOf(z)), NEW t \in Thread, NEW n \in Nat, ~On(z, t, n),
           \A u \in Thread : \A i \in Nat : On(z, u, i)' <=> On(z, u, i) \/ (u = t /\ i = n)
    PROVE  /\ IsFiniteSet(FramesOf(z))' /\ Cardinality(FramesOf(z)) \in Nat
           /\ Cardinality(FramesOf(z))' = Cardinality(FramesOf(z)) + 1
  <1>1. FramesOf(z)' = FramesOf(z) \union {<<t, n>>}
    BY DEF FramesOf
  <1>2. <<t, n>> \notin FramesOf(z)
    BY DEF FramesOf
  <1> QED BY <1>1, <1>2, FS_AddElement, FS_CardinalityType

LEMMA LessFrames ==
    ASSUME NEW z, IsFiniteSet(FramesOf(z)), NEW t \in Thread, NEW n \in Nat, On(z, t, n),
           \A u \in Thread : \A i \in Nat : On(z, u, i)' <=> On(z, u, i) /\ ~(u = t /\ i = n)
    PROVE  /\ IsFiniteSet(FramesOf(z))' /\ Cardinality(FramesOf(z)) \in Nat
           /\ Cardinality(FramesOf(z))' = Cardinality(FramesOf(z)) - 1
           /\ Cardinality(FramesOf(z)) >= 1
  <1>1. FramesOf(z)' = FramesOf(z) \ {<<t, n>>}
    BY DEF FramesOf
  <1>2. <<t, n>> \in FramesOf(z)
    BY DEF FramesOf
  <1>3. /\ IsFiniteSet(FramesOf(z) \ {<<t, n>>}) /\ Cardinality(FramesOf(z)) \in Nat
        /\ Cardinality(FramesOf(z) \ {<<t, n>>}) = Cardinality(FramesOf(z)) - 1
        /\ Cardinality(FramesOf(z) \ {<<t, n>>}) \in Nat
    BY <1>2, FS_RemoveElement, FS_CardinalityType
  <1> QED BY <1>1, <1>3

(* A task with a holder has a positive count.                               *)
LEMMA HolderCounts ==
    ASSUME FreeInv, NEW x \in Tasks
    PROVE  /\ IsFiniteSet(FramesOf(x)) /\ IsFiniteSet(Unfreed(x))
           /\ Cardinality(FramesOf(x)) \in Nat /\ Cardinality(Unfreed(x)) \in Nat
           /\ Number(InDeque(x)) \in 0..1 /\ Number(Outer(x)) \in 0..1
           /\ allocated[x] = Holders(x) /\ allocated[x] \in Nat
           /\ (\E t \in Thread : \E i \in Nat : On(x, t, i)) => Cardinality(FramesOf(x)) >= 1
           /\ Unfreed(x) # {} => Cardinality(Unfreed(x)) >= 1
           /\ InDeque(x) \/ Outer(x) \/ Unfreed(x) # {} \/ (\E t \in Thread : \E i \in Nat : On(x, t, i))
                  <=> Kept(x)
  <1>1. IsFiniteSet(FramesOf(x)) /\ allocated[x] = Holders(x) /\ (Kept(x) <=> allocated[x] > 0)
    BY DEF FreeInv, HeldRight
  <1>2. IsFiniteSet(Unfreed(x))
    <2>1. Unfreed(x) \subseteq Tasks
      BY DEF Unfreed
    <2> QED BY <2>1, FS_Subset, TaskAssumption
  <1>3. Cardinality(FramesOf(x)) \in Nat /\ Cardinality(Unfreed(x)) \in Nat
    BY <1>1, <1>2, FS_CardinalityType
  <1>4. (Cardinality(FramesOf(x)) = 0 <=> FramesOf(x) = {}) /\ (Cardinality(Unfreed(x)) = 0 <=> Unfreed(x) = {})
    BY <1>1, <1>2, FS_EmptySet
  <1>5. FramesOf(x) # {} <=> \E t \in Thread : \E i \in Nat : On(x, t, i)
    <2>1. ASSUME NEW t \in Thread, NEW i \in Nat, On(x, t, i) PROVE FramesOf(x) # {}
      <3>1. <<t, i>> \in FramesOf(x)
        BY <2>1 DEF FramesOf
      <3> QED BY <3>1
    <2>2. FramesOf(x) # {} => \E t \in Thread : \E i \in Nat : On(x, t, i)
      BY DEF FramesOf
    <2> QED BY <2>1, <2>2
  <1>6. /\ Number(InDeque(x)) \in 0..1 /\ Number(Outer(x)) \in 0..1
        /\ (InDeque(x) <=> Number(InDeque(x)) = 1) /\ (Outer(x) <=> Number(Outer(x)) = 1)
    BY DEF Number
  <1>7. allocated[x] = Cardinality(FramesOf(x)) + Cardinality(Unfreed(x)) + Number(InDeque(x)) + Number(Outer(x))
    BY <1>1 DEF Holders
  <1> QED BY <1>1, <1>2, <1>3, <1>4, <1>5, <1>6, <1>7

-----------------------------------------------------------------------------
(* Steps that let every task keep its holders.                              *)

LEMMA FreeKept ==
    ASSUME FreeInv, UNCHANGED <<allocated, parent, home>>, QueuedAlone',
           \A z \in Tasks : /\ IsFiniteSet(FramesOf(z))' /\ Holders(z)' = Holders(z)
                            /\ Kept(z)' <=> Kept(z)
                            /\ life'[z] = "none" => life[z] = "none",
           \A z \in Proxies : ProxyRight(z)'
    PROVE  FreeInv'
  <1>1. ASSUME NEW z \in Tasks PROVE HeldRight(z)'
    BY DEF FreeInv, HeldRight
  <1> QED BY <1>1 DEF FreeInv

LEMMA SteadyKeepsFree ==
    ASSUME TaskTypes, FreeInv, UNCHANGED <<allocated, parent, home, deque, ext>>,
           \A z \in Tasks : \A u \in Thread : \A i \in Nat : On(z, u, i)' <=> On(z, u, i),
           \A z \in Tasks : life'[z] = life[z] \/ (Kept(z) /\ life'[z] = "complete"),
           \A z \in Proxies : \/ life'[z] = life[z] /\ incomplete'[z] = incomplete[z]
                              \/ ext[z] = "none" /\ life'[z] # "none",
           \A z \in Proxies : \A u \in Thread : \A i \in Nat : On(z, u, i) =>
               /\ stack'[u][i].doing \in Halves => stack[u][i].doing \in Halves
               /\ stack[u][i].doing = "bottom" => stack'[u][i].doing = "bottom" \/ incomplete[z] <= 0
    PROVE  FreeInv'
  <1>1. \A z : (InDeque(z)' <=> InDeque(z)) /\ (Outer(z)' <=> Outer(z))
    BY DEF InDeque, Queued, Outer
  <1>2. QueuedAlone'
    BY DEF FreeInv, QueuedAlone, Queued
  <1>3. ASSUME NEW z \in Tasks
        PROVE  /\ IsFiniteSet(FramesOf(z))' /\ Holders(z)' = Holders(z)
               /\ Kept(z)' <=> Kept(z)
               /\ life'[z] = "none" => life[z] = "none"
    <2>1. FramesOf(z)' = FramesOf(z)
      BY SameFrames
    <2>2. Unfreed(z)' = Unfreed(z)
      BY DEF Unfreed, Kept
    <2>3. Number(InDeque(z))' = Number(InDeque(z)) /\ Number(Outer(z))' = Number(Outer(z))
      BY <1>1 DEF Number
    <2>4. Holders(z)' = Holders(z)
      BY <2>1, <2>2, <2>3 DEF Holders
    <2> QED BY <2>1, <2>4 DEF FreeInv, HeldRight, Kept
  <1>4. ASSUME NEW z \in Proxies PROVE ProxyRight(z)'
    <2>0. z \in Tasks /\ ProxyRight(z)
      BY TaskAssumption DEF FreeInv
    <2>1. InBottom(z) /\ incomplete[z] >= 1 => InBottom(z)'
      <3> SUFFICES ASSUME InBottom(z), incomplete[z] >= 1 PROVE InBottom(z)'
        OBVIOUS
      <3>0. ~(incomplete[z] <= 0)
        BY <2>0 DEF TaskTypes
      <3>1. PICK u \in Thread, i \in Nat : On(z, u, i) /\ stack[u][i].doing = "bottom"
        BY DEF InBottom
      <3>2. On(z, u, i)' /\ stack'[u][i].doing = "bottom"
        BY <2>0, <3>0, <3>1
      <3> QED BY <3>2 DEF InBottom
    <2>2. \A u \in Thread : \A i \in Nat : On(z, u, i)' => On(z, u, i)
      BY <2>0
    <2> QED BY <1>1, <2>0, <2>1, <2>2 DEF ProxyRight
  <1> QED BY <1>2, <1>3, <1>4, FreeKept

(* A frame whose work goes on.                                              *)
LEMMA GoKeepsFree ==
    ASSUME CountInv, FreeInv, NEW t \in Thread, NEW d \in Actions, NEW a \in Places, Go(t, d, a),
           UNCHANGED <<allocated, parent, home, deque, ext>>,
           \/ UNCHANGED life
           \/ /\ Depth(t) # 1 /\ life' = [life EXCEPT ![Current(t)] = "complete"]
              /\ Current(t) \in Proxies => ext[Current(t)] = "none",
           \A z \in Proxies : incomplete'[z] = incomplete[z] \/ (z = Current(t) /\ ext[z] = "none"),
           d \in Halves => Top(t).doing \in Halves,
           Top(t).doing = "bottom" => d = "bottom" \/ incomplete[Current(t)] <= 0
    PROVE  FreeInv'
  <1>1. PICK f \in Frames : f = Frame(Current(t), d, a) /\ f.task = Current(t) /\ f.doing = d
    <2> DEFINE g == Frame(Current(t), d, a)
    <2>1. g \in Frames /\ g.task = Current(t) /\ g.doing = d
      BY FrameTop DEF Frame, Frames
    <2> HIDE DEF g
    <2>2. \E f \in Frames : f = g /\ f.task = Current(t) /\ f.doing = d
      BY <2>1
    <2> QED BY <2>2 DEF g
  <1>2. /\ StackTypes /\ TaskTypes /\ Become(t, f) /\ Depth(t) \in Nat /\ Depth(t) >= 1
        /\ stack[t][Depth(t)].task = Current(t) /\ Top(t) = stack[t][Depth(t)]
    BY <1>1, FrameTop DEF CountInv, Go
  <1>3. /\ \A u \in Thread : \A i \in 1..Depth(u) :
               stack'[u][i] = IF u = t /\ i = Depth(t) THEN f ELSE stack[u][i]
        /\ \A z : \A u \in Thread : \A i \in Nat :
               On(z, u, i)' <=> IF u = t /\ i = Depth(t) THEN f.task = z ELSE On(z, u, i)
    BY <1>2, BecomeStack, BecomeOn
  <1>4. \A z : On(z, t, Depth(t)) <=> Current(t) = z
    BY <1>2 DEF On
  <1>5. \A z \in Tasks : \A u \in Thread : \A i \in Nat : On(z, u, i)' <=> On(z, u, i)
    BY <1>1, <1>3, <1>4
  <1>6. Current(t) \in Tasks => Kept(Current(t)) /\ life[Current(t)] # "none"
    BY <1>2, <1>4, HolderCounts DEF Kept
  <1>7. \A z \in Tasks : life'[z] = life[z] \/ (Kept(z) /\ z = Current(t) /\ life'[z] = "complete")
    BY <1>2, <1>6 DEF TaskTypes
  <1>8. \A z \in Proxies : \/ life'[z] = life[z] /\ incomplete'[z] = incomplete[z]
                           \/ ext[z] = "none" /\ life'[z] # "none"
    BY <1>6, <1>7, TaskAssumption
  <1>9. ASSUME NEW z \in Proxies, NEW u \in Thread, NEW i \in Nat, On(z, u, i)
        PROVE  /\ stack'[u][i].doing \in Halves => stack[u][i].doing \in Halves
               /\ stack[u][i].doing = "bottom" => stack'[u][i].doing = "bottom" \/ incomplete[z] <= 0
    <2>1. i \in 1..Depth(u)
      BY <1>9 DEF On
    <2>2. CASE u = t /\ i = Depth(t)
      BY <1>1, <1>2, <1>3, <1>4, <1>9, <2>1, <2>2
    <2>3. CASE ~(u = t /\ i = Depth(t))
      BY <1>3, <2>1, <2>3
    <2> QED BY <2>2, <2>3
  <1> QED BY <1>2, <1>5, <1>7, <1>8, <1>9, SteadyKeepsFree

(* A step that touches neither tasks nor stacks.                            *)
LEMMA SameKeepsFree ==
    ASSUME TaskTypes, FreeInv,
           UNCHANGED <<life, parent, incomplete, allocated, stack, home, deque, ext>>
    PROVE  FreeInv'
  <1>1. \A z : \A u \in Thread : \A i \in Nat : On(z, u, i)' <=> On(z, u, i)
    BY DEF On, Depth
  <1> QED BY <1>1, SteadyKeepsFree

(* The end of a task up to its release.                                     *)
LEMMA FinishKeepsFree ==
    ASSUME CountInv, FreeInv, NEW t \in Thread,
           CountParent(t) \/ CountGroup(t) \/ ProxyTopHalf(t) \/ BottomHalf(t) \/ End(t)
    PROVE  FreeInv'
  <1> USE DEF tree, teams, sync
  <1>1. PICK x : x = Current(t)
    OBVIOUS
  <1>0. TaskTypes
    BY DEF CountInv
  <1>2. Depth(t) # 1 /\ x \in Tasks /\ On(x, t, Depth(t)) /\ Depth(t) \in Nat
    <2>1. Top(t).doing \in Ends \/ (Top(t).doing = "run" /\ x \in Tasks)
      BY <1>1 DEF CountParent, CountGroup, ProxyTopHalf, BottomHalf, End, Doing, Ends, Halves
    <2>2. Depth(t) # 1
      BY <1>1, <2>1, FrameTop, TaskAssumption DEF Ends, Halves, Working, InBarrier
    <2> QED BY <1>1, <2>2, FrameTop DEF On
  <1>3. UNCHANGED <<allocated, parent, home, deque, ext>>
    BY DEF CountParent, CountGroup, ProxyTopHalf, BottomHalf, End, FirstTopHalf
  <1>4. parent[x] \notin Proxies
    BY <1>2 DEF FreeInv, HeldRight
  <1>5. Top(t) = stack[t][Depth(t)] /\ (Top(t).doing \in Halves => x \in Proxies /\ ext[x] = "none")
    <2>1. Top(t).doing \in Halves => x \in Proxies /\ stack[t][Depth(t)].doing \in Halves
      BY <1>1, <1>2, FrameTop DEF GoodFrame
    <2> QED BY <1>2, <2>1, FrameTop DEF FreeInv, ProxyRight
  <1>6. Top(t).doing = "run" => x \notin Proxies
    BY <1>1, <1>2, FrameTop DEF GoodFrame, Working
  <1>7. "-" \in Places /\ Ends \subseteq Actions
    BY DEF Places, Ends, Halves, Actions
  <1>8. PICK d \in Ends : /\ Go(t, d, "-") /\ (d \in Halves => Top(t).doing \in Halves)
                          /\ Top(t).doing = "bottom" => incomplete[x] <= 0
    <2>1. /\ Go(t, "count", "-") \/ Go(t, "free", "-") \/ Go(t, "countgroup", "-")
             \/ (Top(t).doing \in Halves /\ \E d \in {"top2", "top3", "bottom"} : Go(t, d, "-"))
          /\ Top(t).doing = "bottom" => incomplete[x] <= 0
      BY <1>1 DEF CountParent, CountGroup, ProxyTopHalf, BottomHalf, End, Doing, Halves
    <2> QED BY <2>1 DEF Ends, Halves
  <1>9. \/ UNCHANGED life
        \/ Depth(t) # 1 /\ life' = [life EXCEPT ![x] = "complete"] /\ (x \in Proxies => ext[x] = "none")
    BY <1>1, <1>2, <1>5, <1>6 DEF CountParent, CountGroup, ProxyTopHalf, BottomHalf, End, FirstTopHalf,
       Doing, Halves
  <1>10. \A z \in Proxies : incomplete'[z] = incomplete[z] \/ (z = x /\ ext[z] = "none")
    <2>1. \/ UNCHANGED incomplete \/ incomplete' = [incomplete EXCEPT ![parent[x]] = @ - 1]
          \/ Top(t).doing \in Halves /\ \E n : incomplete' = [incomplete EXCEPT ![x] = n]
      BY <1>1 DEF CountParent, CountGroup, ProxyTopHalf, BottomHalf, End, FirstTopHalf, Doing, Halves
    <2>2. PICK p : p = parent[x] /\ p \notin Proxies
      BY <1>4
    <2>3. CASE incomplete' = [incomplete EXCEPT ![p] = @ - 1]
      BY <1>0, <2>2, <2>3 DEF TaskTypes
    <2>4. CASE Top(t).doing \in Halves /\ \E n : incomplete' = [incomplete EXCEPT ![x] = n]
      <3>1. PICK n : incomplete' = [incomplete EXCEPT ![x] = n]
        BY <2>4
      <3> QED BY <1>0, <1>5, <2>4, <3>1 DEF TaskTypes
    <2> QED BY <2>1, <2>2, <2>3, <2>4
  <1> QED BY <1>1, <1>3, <1>7, <1>8, <1>9, <1>10, GoKeepsFree

(* The steps of a wait that do not take a task, and those of a barrier.     *)
LEMMA GoOnKeepsFree ==
    ASSUME CountInv, FreeInv, NEW t \in Thread, NEW d \in Actions, NEW a \in Places, Go(t, d, a),
           d \notin Halves, Top(t).doing # "bottom",
           UNCHANGED <<life, parent, incomplete, allocated, home, deque, ext>>
    PROVE  FreeInv'
  BY GoKeepsFree

LEMMA BarrierKeepsFree ==
    ASSUME CountInv, FreeInv, NEW t \in Thread, BarrierStep(t)
    PROVE  FreeInv'
  <1> USE DEF tree, teams, sync
  <1>1. PICK d \in Working \union InBarrier(t), a \in Places : Go(t, d, a)
    BY BarrierBase
  <1>2. UNCHANGED <<allocated, home>>
    BY DEF BarrierStep, WorkerArrives, WorkerLeaves, MasterArrives, MasterStep, Gathered, Deactivate,
           LetGo, MasterLeaves, Sync
  <1>3. Top(t).doing # "bottom" /\ d \notin Halves /\ d \in Actions
    BY BarrierBase, FrameTop DEF Working, InBarrier, Halves, Actions
  <1> QED BY <1>1, <1>2, <1>3, BarrierBase, GoOnKeepsFree


-----------------------------------------------------------------------------
(* A task released: __kmp_free_task_and_ancestors.                          *)

(* A proxy task that keeps its place.                                       *)
LEMMA ProxyKept ==
    ASSUME FreeInv, NEW z \in Proxies, UNCHANGED <<ext, home>>, InDeque(z)' <=> InDeque(z),
           life'[z] = "none" => life[z] = "none", ext[z] = "started" => life'[z] = life[z],
           incomplete'[z] = incomplete[z], InBottom(z) => InBottom(z)',
           \A u \in Thread : \A i \in Nat : On(z, u, i)' /\ stack'[u][i].doing \in Halves =>
               On(z, u, i) /\ stack[u][i].doing \in Halves
    PROVE  ProxyRight(z)'
  <1>1. ProxyRight(z)
    BY DEF FreeInv
  <1> QED BY <1>1 DEF ProxyRight

LEMMA ReleaseKeepsFree ==
    ASSUME CountInv, FreeInv, NEW t \in Thread, FreeTask(t)
    PROVE  FreeInv'
  <1> USE DEF tree, teams, sync
  <1> DEFINE n == Depth(t)
  <1>1. PICK x : x = Current(t)
    OBVIOUS
  <1>2. /\ n \in Nat /\ n >= 1 /\ stack[t][n].task = x /\ stack[t][n].doing = "free"
        /\ x \in Tasks /\ parent[x] \in Tasks \union Thread /\ StackTypes /\ TaskTypes
        /\ On(x, t, n) /\ \A z : On(z, t, n) => z = x
    <2>1. Depth(t) # 1 /\ stack[t][n].doing = "free"
      BY FrameTop DEF FreeTask, Doing, Working, InBarrier
    <2>2. n \in 1..n
      BY FrameTop
    <2> QED BY <1>1, <2>1, <2>2, FrameTop DEF CountInv, On
  <1>3. UNCHANGED <<parent, incomplete, home, deque, ext>> /\ allocated' = [allocated EXCEPT ![x] = @ - 1]
    BY <1>1 DEF FreeTask
  <1>4. \A z : /\ (InDeque(z)' <=> InDeque(z)) /\ (Outer(z)' <=> Outer(z))
               /\ Number(InDeque(z))' = Number(InDeque(z)) /\ Number(Outer(z))' = Number(Outer(z))
    BY <1>3 DEF InDeque, Queued, Outer, Number
  <1>5. QueuedAlone'
    BY <1>3 DEF FreeInv, QueuedAlone, Queued
  <1>6. \A z \in Tasks : allocated'[z] = (IF z = x THEN allocated[z] - 1 ELSE allocated[z]) /\ allocated[z] \in Int
    BY <1>3 DEF FreeInv
  <1>7. /\ allocated' \in [Tasks -> Int] /\ Kept(x) /\ life[x] # "freed" /\ allocated[x] \in Nat /\ allocated[x] >= 1
    <2>1. Kept(x)
      BY <1>2, HolderCounts
    <2>2. allocated[x] > 0
      BY <1>2, <2>1 DEF FreeInv, HeldRight
    <2> QED BY <1>2, <1>3, <1>6, <2>1, <2>2 DEF FreeInv, Kept
  <1>8. ASSUME \A z : \A u \in Thread : \A i \in Nat :
                   On(z, u, i)' => IF u = t /\ i = n THEN stack'[u][i].doing = "free" ELSE On(z, u, i),
               \A z : \A u \in Thread : \A i \in Nat : On(z, u, i) /\ ~(u = t /\ i = n) => On(z, u, i)',
               \A z : \A u \in Thread : \A i \in Nat :
                   On(z, u, i)' /\ ~(u = t /\ i = n) => stack'[u][i] = stack[u][i],
               \A z \in Proxies : life'[z] = life[z] \/ (life'[z] = "freed" /\ ~Outer(z)),
               NEW z \in Proxies
        PROVE  ProxyRight(z)'
    <2>1. InBottom(z) => InBottom(z)'
      <3> SUFFICES ASSUME InBottom(z) PROVE InBottom(z)'
        OBVIOUS
      <3>1. PICK u \in Thread, i \in Nat : On(z, u, i) /\ stack[u][i].doing = "bottom"
        BY DEF InBottom
      <3>2. ~(u = t /\ i = n)
        BY <1>2, <3>1
      <3>3. On(z, u, i)' /\ stack'[u][i].doing = "bottom"
        BY <1>8, <3>1, <3>2
      <3> QED BY <3>3 DEF InBottom
    <2>2. ASSUME NEW u \in Thread, NEW i \in Nat, On(z, u, i)', stack'[u][i].doing \in Halves
          PROVE  On(z, u, i) /\ stack[u][i].doing \in Halves
      <3>1. CASE u = t /\ i = n
        BY <1>8, <1>2, <2>2, <3>1 DEF Halves
      <3>2. CASE ~(u = t /\ i = n)
        BY <1>8, <2>2, <3>2
      <3> QED BY <3>1, <3>2
    <2>3. (life'[z] = "none" => life[z] = "none") /\ (ext[z] = "started" => life'[z] = life[z])
      BY <1>8 DEF Outer
    <2> QED BY <1>3, <1>4, <2>1, <2>2, <2>3, ProxyKept
  <1>9. CASE Return(t) /\ ((UNCHANGED life /\ allocated[x] > 1)
                           \/ (allocated[x] <= 1 /\ life' = [life EXCEPT ![x] = "freed"] /\ parent[x] \in Thread))
    <2>1. /\ \A z : \A u \in Thread : \A i \in Nat :
                 On(z, u, i)' <=> On(z, u, i) /\ ~(u = t /\ i = n)
          /\ \A u \in Thread : \A i \in 1..Len(stack'[u]) : stack'[u][i] = stack[u][i]
      BY <1>2, <1>9, ReturnOn, ReturnStack
    <2>2. \A z : z # x => FramesOf(z)' = FramesOf(z)
      BY <1>2, <2>1, SameFrames
    <2>3. /\ IsFiniteSet(FramesOf(x))' /\ Cardinality(FramesOf(x)) \in Nat
          /\ Cardinality(FramesOf(x))' = Cardinality(FramesOf(x)) - 1
          /\ Cardinality(FramesOf(x)) >= 1
      BY <1>2, <2>1, LessFrames DEF FreeInv, HeldRight
    <2>4. \A z \in Tasks : Unfreed(z)' = Unfreed(z)
      <3>1. \A y \in Tasks : parent[y] \in Tasks => life'[y] = life[y]
        BY <1>2, <1>9, TaskAssumption DEF TaskTypes
      <3> QED BY <1>3, <3>1 DEF Unfreed
    <2>5. ASSUME NEW z \in Tasks PROVE HeldRight(z)'
      <3>1. CASE z # x
        <4>1. Holders(z)' = Holders(z) /\ IsFiniteSet(FramesOf(z))' /\ allocated'[z] = allocated[z]
          BY <1>4, <1>6, <2>2, <2>4, <3>1 DEF Holders, FreeInv, HeldRight
        <4>2. life'[z] = life[z]
          BY <1>2, <1>9, <3>1 DEF TaskTypes
        <4> QED BY <1>3, <4>1, <4>2 DEF FreeInv, HeldRight, Kept
      <3>2. CASE z = x
        <4>1. allocated[x] = Holders(x) /\ Holders(x)' = Holders(x) - 1
          BY <1>2, <1>4, <2>3, <2>4, HolderCounts DEF Holders
        <4>2. allocated'[x] = Holders(x)' /\ (Kept(x)' <=> allocated'[x] > 0) /\ life'[x] # "none"
          BY <1>2, <1>6, <1>7, <1>9, <4>1 DEF Kept, TaskTypes
        <4> QED BY <1>3, <2>3, <3>2, <4>2 DEF FreeInv, HeldRight
      <3> QED BY <3>1, <3>2
    <2>6. \A z \in Proxies : life'[z] = life[z] \/ (life'[z] = "freed" /\ ~Outer(z))
      <3>1. allocated[x] <= 1 => ~Outer(x)
        BY <1>2, <2>3, HolderCounts DEF Holders, Number
      <3> QED BY <1>2, <1>9, <3>1, TaskAssumption DEF TaskTypes
    <2>7. \A z : \A u \in Thread : \A i \in Nat :
              On(z, u, i)' /\ ~(u = t /\ i = n) => stack'[u][i] = stack[u][i]
      BY <2>1 DEF On, Depth
    <2>8. \A z \in Proxies : ProxyRight(z)'
      BY <1>8, <2>1, <2>6, <2>7
    <2> QED BY <1>3, <1>5, <1>7, <2>5, <2>8 DEF FreeInv
  <1>10. CASE /\ parent[x] \in Tasks /\ Become(t, Frame(parent[x], "free", "-"))
              /\ life' = [life EXCEPT ![x] = "freed"] /\ allocated[x] <= 1
    <2>1. PICK p \in Tasks : p = parent[x] /\ p \notin Proxies
      BY <1>2, <1>10 DEF FreeInv, HeldRight
    <2>2. PICK f \in Frames : f = Frame(p, "free", "-") /\ f.task = p /\ f.doing = "free"
      <3> DEFINE g == Frame(p, "free", "-")
      <3>1. g \in Frames /\ g.task = p /\ g.doing = "free"
        BY DEF Frame, Frames, Actions, Places
      <3> HIDE DEF g
      <3>2. \E f \in Frames : f = g /\ f.task = p /\ f.doing = "free"
        BY <3>1
      <3> QED BY <3>2 DEF g
    <2>3. /\ \A z : \A u \in Thread : \A i \in Nat :
                 On(z, u, i)' <=> IF u = t /\ i = n THEN p = z ELSE On(z, u, i)
          /\ \A u \in Thread : \A i \in 1..Depth(u) :
                 stack'[u][i] = IF u = t /\ i = n THEN f ELSE stack[u][i]
          /\ \A u \in Thread : Len(stack'[u]) = Depth(u)
      BY <1>2, <1>10, <2>1, <2>2, BecomeOn, BecomeStack
    <2>4. /\ allocated[x] = 1 /\ Cardinality(FramesOf(x)) = 1 /\ Cardinality(Unfreed(x)) = 0
          /\ ~InDeque(x) /\ ~Outer(x) /\ Unfreed(x) = {}
      <3>1. allocated[x] = 1
        BY <1>7, <1>10
      <3> QED BY <1>2, <3>1, HolderCounts DEF Holders, Number
    <2>5. p # x
      <3>1. p = x => x \in Unfreed(x)
        BY <1>2, <1>7, <2>1 DEF Unfreed
      <3> QED BY <2>4, <3>1
    <2>6. \A z : z # x /\ z # p => FramesOf(z)' = FramesOf(z)
      BY <1>2, <2>3, SameFrames
    <2>7. /\ IsFiniteSet(FramesOf(x))' /\ Cardinality(FramesOf(x)) \in Nat
          /\ Cardinality(FramesOf(x))' = Cardinality(FramesOf(x)) - 1
      <3>1. \A u \in Thread : \A i \in Nat : On(x, u, i)' <=> On(x, u, i) /\ ~(u = t /\ i = n)
        BY <2>3, <2>5
      <3> QED BY <1>2, <3>1, LessFrames DEF FreeInv, HeldRight
    <2>8. /\ IsFiniteSet(FramesOf(p))' /\ Cardinality(FramesOf(p)) \in Nat
          /\ Cardinality(FramesOf(p))' = Cardinality(FramesOf(p)) + 1
      <3>1. /\ \A u \in Thread : \A i \in Nat : On(p, u, i)' <=> On(p, u, i) \/ (u = t /\ i = n)
            /\ ~On(p, t, n)
        BY <1>2, <2>3, <2>5
      <3> QED BY <1>2, <3>1, MoreFrames DEF FreeInv, HeldRight
    <2>9. \A z \in Tasks : life'[z] = IF z = x THEN "freed" ELSE life[z]
      BY <1>2, <1>10 DEF TaskTypes
    <2>10. \A z \in Tasks \ {p} : Unfreed(z)' = Unfreed(z)
      BY <1>3, <2>1, <2>9 DEF Unfreed
    <2>11. Cardinality(Unfreed(p))' = Cardinality(Unfreed(p)) - 1 /\ Cardinality(Unfreed(p)) \in Nat
      <3>1. Unfreed(p)' = Unfreed(p) \ {x} /\ x \in Unfreed(p)
        BY <1>2, <1>3, <1>7, <2>1, <2>9 DEF Unfreed
      <3> QED BY <3>1, HolderCounts, FS_RemoveElement
    <2>12. ASSUME NEW z \in Tasks PROVE HeldRight(z)'
      <3>1. CASE z # x /\ z # p
        <4>1. Holders(z)' = Holders(z) /\ IsFiniteSet(FramesOf(z))' /\ allocated'[z] = allocated[z]
          BY <1>4, <1>6, <2>6, <2>10, <3>1 DEF Holders, FreeInv, HeldRight
        <4> QED BY <1>3, <2>9, <3>1, <4>1 DEF FreeInv, HeldRight, Kept
      <3>2. CASE z = x
        <4>1. allocated[x] = Holders(x) /\ Holders(x)' = Holders(x) - 1
          BY <1>2, <1>4, <2>5, <2>7, <2>10, HolderCounts DEF Holders
        <4>2. allocated'[x] = Holders(x)' /\ ~(allocated'[x] > 0) /\ ~Kept(x)' /\ life'[x] # "none"
          BY <1>2, <1>6, <2>4, <2>9, <4>1 DEF Kept
        <4> QED BY <1>3, <2>7, <3>2, <4>2 DEF FreeInv, HeldRight
      <3>3. CASE z = p
        <4>1. Holders(p)' = Holders(p) /\ allocated'[p] = allocated[p]
          BY <1>4, <1>6, <2>5, <2>8, <2>11, HolderCounts DEF Holders
        <4> QED BY <1>3, <2>5, <2>8, <2>9, <3>3, <4>1 DEF FreeInv, HeldRight, Kept
      <3> QED BY <3>1, <3>2, <3>3
    <2>13. \A z \in Proxies : life'[z] = life[z] \/ (life'[z] = "freed" /\ ~Outer(z))
      BY <2>4, <2>9, TaskAssumption
    <2>14. ASSUME NEW z, NEW u \in Thread, NEW i \in Nat, On(z, u, i)', ~(u = t /\ i = n)
           PROVE  stack'[u][i] = stack[u][i]
      <3>1. i \in 1..Depth(u)
        BY <2>3, <2>14 DEF On
      <3> QED BY <2>3, <2>14, <3>1
    <2>15. stack'[t][n].doing = "free"
      BY <1>2, <2>2, <2>3
    <2>16. \A z \in Proxies : ProxyRight(z)'
      BY <1>8, <2>3, <2>13, <2>14, <2>15
    <2> QED BY <1>3, <1>5, <1>7, <2>12, <2>16 DEF FreeInv
  <1>11. \/ Return(t) /\ ((UNCHANGED life /\ allocated[x] > 1)
                          \/ (allocated[x] <= 1 /\ life' = [life EXCEPT ![x] = "freed"] /\ parent[x] \in Thread))
         \/ /\ parent[x] \in Tasks /\ Become(t, Frame(parent[x], "free", "-"))
            /\ life' = [life EXCEPT ![x] = "freed"] /\ allocated[x] <= 1
    BY <1>1, <1>2, <1>6 DEF FreeTask
  <1> QED BY <1>9, <1>10, <1>11

-----------------------------------------------------------------------------
(* A task taken from a deque and invoked.                                   *)

LEMMA NewestAlone ==
    ASSUME DequeType, OnceInDeques, QueuedAlone, NEW k \in 0..1, NEW v \in Thread,
           deque[k][v] # <<>>, TakenNewest(k, v), NEW x, x = Last(deque[k][v])
    PROVE  QueuedAlone' /\ ~InDeque(x)'
  <1>1. /\ x \in Tasks
        /\ \A z : \A l \in 0..1, u \in Thread : \A i \in Nat :
               Queued(z, l, u, i)' <=> Queued(z, l, u, i) /\ ~(l = k /\ u = v /\ i = Len(deque[k][v]))
    BY TakeNewest
  <1>2. QueuedAlone'
    BY <1>1 DEF QueuedAlone
  <1>3. Len(deque[k][v]) \in Nat /\ Queued(x, k, v, Len(deque[k][v]))
    <2>1. deque[k][v] \in Seq(Tasks) /\ Len(deque[k][v]) \in Nat /\ Len(deque[k][v]) >= 1
      BY EmptySeq, LenProperties DEF DequeType
    <2>2. Last(deque[k][v]) = deque[k][v][Len(deque[k][v])]
      BY <2>1, LastFront
    <2>3. Len(deque[k][v]) \in 1..Len(deque[k][v])
      BY <2>1
    <2> QED BY <2>1, <2>2, <2>3 DEF Queued
  <1>4. ASSUME InDeque(x)' PROVE FALSE
    <2>1. PICK l \in 0..1, u \in Thread, i \in Nat : Queued(x, l, u, i)'
      BY <1>4 DEF InDeque
    <2> QED BY <1>1, <1>3, <2>1 DEF QueuedAlone
  <1> QED BY <1>2, <1>4

(* The place of a queued task before the oldest of a deque was taken.       *)
Before(k, v, l, u, i) == IF l = k /\ u = v THEN i + 1 ELSE i

LEMMA OldestAlone ==
    ASSUME DequeType, OnceInDeques, QueuedAlone, NEW k \in 0..1, NEW v \in Thread,
           deque[k][v] # <<>>, TakenOldest(k, v), NEW x, x = Head(deque[k][v])
    PROVE  QueuedAlone' /\ ~InDeque(x)'
  <1>1. /\ x \in Tasks
        /\ \A z : \A l \in 0..1, u \in Thread : \A i \in Nat :
               Queued(z, l, u, i)' <=> IF l = k /\ u = v THEN i >= 1 /\ Queued(z, l, u, i + 1)
                                                         ELSE Queued(z, l, u, i)
    BY TakeOldest
  <1>2. \A z : \A l \in 0..1, u \in Thread : \A i \in Nat : Queued(z, l, u, i)' =>
            /\ Before(k, v, l, u, i) \in Nat /\ Queued(z, l, u, Before(k, v, l, u, i))
            /\ l = k /\ u = v => Before(k, v, l, u, i) >= 2
    BY <1>1 DEF Before
  <1>4. QueuedAlone'
    <2> SUFFICES ASSUME NEW z \in Tasks, NEW l \in 0..1, NEW m \in 0..1, NEW t \in Thread,
                        NEW u \in Thread, NEW i \in Nat, NEW j \in Nat,
                        Queued(z, l, t, i)', Queued(z, m, u, j)'
                 PROVE  l = m /\ t = u /\ i = j
      BY DEF QueuedAlone
    <2>1. PICK p \in Nat : p = Before(k, v, l, t, i) /\ Queued(z, l, t, p)
      BY <1>2
    <2>2. PICK q \in Nat : q = Before(k, v, m, u, j) /\ Queued(z, m, u, q)
      BY <1>2
    <2>3. l = m /\ t = u /\ p = q
      BY <2>1, <2>2 DEF QueuedAlone
    <2> QED BY <2>1, <2>2, <2>3 DEF Before
  <1>5. Queued(x, k, v, 1)
    <2>1. deque[k][v] \in Seq(Tasks) /\ Len(deque[k][v]) \in Nat /\ Len(deque[k][v]) >= 1
      BY EmptySeq, LenProperties DEF DequeType
    <2> QED BY <2>1, HeadTailProperties DEF Queued
  <1>6. ASSUME InDeque(x)' PROVE FALSE
    <2>1. PICK l \in 0..1, u \in Thread, i \in Nat : Queued(x, l, u, i)'
      BY <1>6 DEF InDeque
    <2>2. PICK p \in Nat : p = Before(k, v, l, u, i) /\ Queued(x, l, u, p) /\ (l = k /\ u = v => p >= 2)
      BY <1>2, <2>1
    <2>3. l = k /\ u = v /\ p = 1
      BY <1>1, <1>5, <2>2 DEF QueuedAlone
    <2> QED BY <2>2, <2>3
  <1> QED BY <1>4, <1>6

LEMMA InvokeKeepsFree ==
    ASSUME CountInv, FreeInv, NEW t \in Thread, NEW x \in Tasks, Invoke(t, x), Taken(x),
           QueuedAlone', ~InDeque(x)', UNCHANGED <<parent, incomplete, allocated, home, ext>>,
           life' = IF x \in Proxies THEN life ELSE [life EXCEPT ![x] = "live"]
    PROVE  FreeInv'
  <1> DEFINE n == Depth(t)
  <1>1. n \in Nat /\ n >= 1 /\ n + 1 \in Nat /\ StackTypes /\ TaskTypes
    BY FrameTop DEF CountInv
  <1>2. /\ \A z : \A u \in Thread : \A i \in Nat :
               On(z, u, i)' <=> On(z, u, i) \/ (u = t /\ i = n + 1 /\ z = x)
        /\ \A u \in Thread : \A i \in 1..Depth(u) : stack'[u][i].doing = stack[u][i].doing
        /\ stack'[t][n + 1].doing = IF x \in Proxies THEN "bottom" ELSE "run"
    BY <1>1, InvokeOn
  <1>3. \A z : ~On(z, t, n + 1)
    BY <1>1 DEF On
  <1>4. \A z : z # x => FramesOf(z)' = FramesOf(z)
    BY <1>2, SameFrames
  <1>5. /\ IsFiniteSet(FramesOf(x))' /\ Cardinality(FramesOf(x)) \in Nat
        /\ Cardinality(FramesOf(x))' = Cardinality(FramesOf(x)) + 1
    <2>1. \A u \in Thread : \A i \in Nat : On(x, u, i)' <=> On(x, u, i) \/ (u = t /\ i = n + 1)
      BY <1>2
    <2> QED BY <1>1, <1>3, <2>1, MoreFrames DEF FreeInv, HeldRight
  <1>6. /\ InDeque(x) /\ \A z \in Tasks : z # x => (InDeque(z)' <=> InDeque(z))
        /\ \A z : Outer(z)' <=> Outer(z)
    BY DEF Taken, Outer
  <1>7. Kept(x)
    BY <1>6, HolderCounts
  <1>8. \A z \in Tasks : life'[z] = life[z] \/ (z = x /\ x \notin Proxies /\ life'[z] = "live")
    BY <1>1 DEF TaskTypes
  <1>9. \A z \in Tasks : /\ life'[z] = "freed" <=> life[z] = "freed"
                         /\ life'[z] = "none" <=> life[z] = "none"
    BY <1>7, <1>8 DEF Kept
  <1>10. \A z \in Tasks : Unfreed(z)' = Unfreed(z)
    BY <1>9 DEF Unfreed
  <1>11. ASSUME NEW z \in Tasks PROVE IsFiniteSet(FramesOf(z))' /\ Holders(z)' = Holders(z)
    <2>1. CASE z # x
      BY <1>4, <1>6, <1>10, <2>1 DEF Holders, Number, FreeInv, HeldRight
    <2>2. CASE z = x
      BY <1>5, <1>6, <1>10, <2>2, HolderCounts DEF Holders, Number
    <2> QED BY <2>1, <2>2
  <1>12. ASSUME NEW z \in Proxies PROVE ProxyRight(z)'
    <2>0. z \in Tasks /\ ProxyRight(z)
      BY TaskAssumption DEF FreeInv
    <2>1. ASSUME NEW u \in Thread, NEW i \in Nat, On(z, u, i)'
          PROVE  stack'[u][i].doing \in Halves => On(z, u, i) /\ stack[u][i].doing \in Halves
      <3>1. CASE On(z, u, i)
        <4>1. i \in 1..Depth(u)
          BY <3>1 DEF On
        <4> QED BY <1>2, <3>1, <4>1
      <3>2. CASE u = t /\ i = n + 1 /\ z = x
        BY <1>2, <3>2 DEF Halves
      <3> QED BY <1>2, <2>1, <3>1, <3>2
    <2>2. InBottom(z) => InBottom(z)'
      <3> SUFFICES ASSUME InBottom(z) PROVE InBottom(z)'
        OBVIOUS
      <3>1. PICK u \in Thread, i \in Nat : On(z, u, i) /\ stack[u][i].doing = "bottom"
        BY DEF InBottom
      <3>2. i \in 1..Depth(u)
        BY <3>1 DEF On
      <3>3. On(z, u, i)' /\ stack'[u][i].doing = "bottom"
        BY <1>2, <3>1, <3>2
      <3> QED BY <3>3 DEF InBottom
    <2>3. CASE z # x
      BY <1>6, <1>8, <1>9, <2>0, <2>1, <2>2, <2>3, ProxyKept
    <2>4. CASE z = x
      <3>1. InBottom(x)'
        <4>1. PICK m \in Nat : m = n + 1
          BY <1>1
        <4>2. On(x, t, m)' /\ stack'[t][m].doing = "bottom"
          BY <1>2, <2>4, <4>1
        <4> QED BY <4>2 DEF InBottom
      <3>2. ext[x] \notin {"none", "started", "give"} /\ life'[x] # "none"
        BY <1>6, <1>7, <1>9, <2>0, <2>4 DEF ProxyRight, Kept
      <3> QED BY <2>0, <2>1, <2>4, <3>1, <3>2 DEF ProxyRight
    <2> QED BY <2>3, <2>4
  <1> QED BY <1>9, <1>11, <1>12, FreeKept DEF Kept

(* The waits.                                                               *)
LEMMA WaitKeepsFree ==
    ASSUME CountInv, Attached, FreeInv, NEW t \in Thread,
           \/ WaitTurn(t) \/ TakeOwn(t) \/ GiveUp(t) \/ (\E v \in Thread : Steal(t, v))
           \/ LeaveTaskwait(t) \/ LeaveGroup(t) \/ Taskwait(t) \/ EndGroup(t)
    PROVE  FreeInv'
  <1> USE DEF tree, teams, sync
  <1>0. StackTypes /\ Shape /\ TaskTypes /\ DequeType /\ OnceInDeques /\ QueuedAlone
    BY DEF CountInv, FreeInv, TaskTypes, DequeType, Unique
  <1>1. UNCHANGED <<parent, incomplete, allocated, home, ext>> /\ Top(t).doing # "bottom"
    BY DEF WaitTurn, TakeOwn, GiveUp, Steal, LeaveTaskwait, LeaveGroup, Taskwait, EndGroup, Waiting, Doing
  <1>2. ASSUME NEW d, d = Top(t).doing \/ d \in Working, NEW a \in {"-", "wait", "own", "steal", "dry"},
               Go(t, d, a), UNCHANGED <<life, deque>>, Waiting(t) \/ Doing(t, "run")
        PROVE  FreeInv'
    <2>1. d \in Actions /\ d \notin Halves /\ a \in Places
      BY <1>2, FrameTop DEF Waiting, Doing, Working, Halves, Places, Actions
    <2> QED BY <1>1, <1>2, <2>1, GoOnKeepsFree
  <1>3. CASE WaitTurn(t)
    <2>1. (UNCHANGED stack \/ Go(t, Top(t).doing, "own")) /\ UNCHANGED <<life, deque>> /\ Waiting(t)
      BY <1>3 DEF WaitTurn
    <2> QED BY <1>0, <1>1, <1>2, <2>1, SameKeepsFree
  <1>4. CASE GiveUp(t)
    BY <1>2, <1>4 DEF GiveUp
  <1>5. CASE LeaveTaskwait(t) \/ LeaveGroup(t) \/ Taskwait(t) \/ EndGroup(t)
    <2>1. PICK d \in Working, a \in {"-", "wait"} : Go(t, d, a)
      BY <1>5 DEF LeaveTaskwait, LeaveGroup, Taskwait, EndGroup, Working
    <2>2. UNCHANGED <<life, deque>> /\ (Waiting(t) \/ Doing(t, "run"))
      BY <1>5 DEF LeaveTaskwait, LeaveGroup, Taskwait, EndGroup, Waiting, Doing
    <2> QED BY <1>2, <2>1, <2>2
  <1>6. CASE TakeOwn(t)
    <2>1. PICK k \in 0..1 : k = ptr[t]
      BY <1>0, <1>6, Busy DEF TakeOwn
    <2>2. PICK x : x = Last(deque[k][t])
      OBVIOUS
    <2>3. CASE deque[k][t] # <<>> /\ Allowed(t, x)
      <3>1. /\ TakenNewest(k, t) /\ Invoke(t, x)
            /\ life' = IF x \in Proxies THEN life ELSE [life EXCEPT ![x] = "live"]
        BY <1>6, <2>1, <2>2, <2>3 DEF TakeOwn, TakenNewest
      <3>2. x \in Tasks /\ Taken(x) /\ QueuedAlone' /\ ~InDeque(x)'
        BY <1>0, <2>2, <2>3, <3>1, TakeNewest, NewestAlone
      <3> QED BY <1>1, <3>1, <3>2, InvokeKeepsFree
    <2>4. CASE ~(deque[k][t] # <<>> /\ Allowed(t, x))
      <3>1. Go(t, Top(t).doing, "steal") /\ UNCHANGED <<life, deque>> /\ Waiting(t)
        BY <1>6, <2>1, <2>2, <2>4 DEF TakeOwn
      <3> QED BY <1>2, <3>1
    <2> QED BY <2>3, <2>4
  <1>7. ASSUME NEW v \in Thread, Steal(t, v) PROVE FreeInv'
    <2>1. PICK k \in 0..1 : k = ptr[t]
      BY <1>0, <1>7, Busy DEF Steal
    <2>2. PICK x : x = Head(deque[k][v])
      OBVIOUS
    <2>3. CASE deque[k][v] # <<>> /\ Allowed(t, x)
      <3>1. /\ TakenOldest(k, v) /\ Invoke(t, x)
            /\ life' = IF x \in Proxies THEN life ELSE [life EXCEPT ![x] = "live"]
        BY <1>7, <2>1, <2>2, <2>3 DEF Steal, TakenOldest
      <3>2. x \in Tasks /\ Taken(x) /\ QueuedAlone' /\ ~InDeque(x)'
        BY <1>0, <2>2, <2>3, <3>1, TakeOldest, OldestAlone
      <3> QED BY <1>1, <3>1, <3>2, InvokeKeepsFree
    <2>4. CASE ~(deque[k][v] # <<>> /\ Allowed(t, x))
      <3>1. Go(t, Top(t).doing, "dry") /\ UNCHANGED <<life, deque>> /\ Waiting(t)
        BY <1>7, <2>1, <2>2, <2>4 DEF Steal
      <3> QED BY <1>2, <3>1
    <2> QED BY <2>3, <2>4
  <1> QED BY <1>3, <1>4, <1>5, <1>6, <1>7

-----------------------------------------------------------------------------
(* A task created.  It has one holder, and is one more of its parent's.     *)

LEMMA FreshTask ==
    ASSUME CountInv, FreeInv, NEW x \in Tasks, life[x] = "none"
    PROVE  /\ ~InDeque(x) /\ ~Outer(x) /\ Unfreed(x) = {} /\ parent[x] = None
           /\ \A u \in Thread : \A i \in Nat : ~On(x, u, i)
           /\ FramesOf(x) = {} /\ Cardinality(FramesOf(x)) = 0
           /\ x \in Proxies => ext[x] = "none"
  <1>1. ~Kept(x) /\ parent[x] = None
    BY DEF Kept, FreeInv, HeldRight
  <1>2. /\ ~InDeque(x) /\ ~Outer(x) /\ Unfreed(x) = {}
        /\ \A u \in Thread : \A i \in Nat : ~On(x, u, i)
    BY <1>1, HolderCounts
  <1>3. FramesOf(x) = {}
    BY <1>2 DEF FramesOf
  <1> QED BY <1>1, <1>2, <1>3, FS_EmptySet DEF CountInv, Known

(* What the place of the new task must keep.                                *)
HeldFirst(x) ==
    /\ \A z \in Tasks \ {x} : /\ FramesOf(z)' = FramesOf(z)
                              /\ InDeque(z)' <=> InDeque(z)
                              /\ Outer(z)' <=> Outer(z)
    /\ IsFiniteSet(FramesOf(x))' /\ Cardinality(FramesOf(x))' \in 0..1
    /\ Cardinality(FramesOf(x))' + Number(InDeque(x))' + Number(Outer(x))' = 1
    /\ \A z \in Proxies : \A u \in Thread : \A i \in Nat :
           /\ On(z, u, i)' => stack'[u][i].doing \notin Halves \/ (On(z, u, i) /\ stack'[u][i] = stack[u][i])
                              \/ (z = x /\ ext'[x] = "none")
           /\ On(z, u, i) => On(z, u, i)' /\ stack'[u][i] = stack[u][i]

LEMMA CreatedKeepsFree ==
    ASSUME CountInv, FreeInv, NEW t \in Thread, NEW x \in Tasks, Doing(t, "run"), life[x] = "none",
           NEW y, y = Current(t),
           parent' = [parent EXCEPT ![x] = y], incomplete' = [incomplete EXCEPT ![y] = @ + 1],
           allocated' = [z \in Tasks |-> IF z = x THEN 1
                                         ELSE IF z = y THEN allocated[z] + 1 ELSE allocated[z]],
           NEW l \in {"queued", "live"}, life' = [life EXCEPT ![x] = l],
           HeldFirst(x), QueuedAlone',
           \A z \in Proxies : ext'[z] = ext[z] \/ (z = x /\ ext'[z] = "started" /\ l = "live"),
           home' \in [Proxies -> (0..1) \union {None}],
           \A z \in Proxies : home'[z] = home[z] \/ (z = x /\ home'[z] \in 0..1),
           x \in Proxies => ~InDeque(x)' /\ home'[x] \in 0..1
    PROVE  FreeInv'
  <1>0. TaskTypes /\ parent[x] = None /\ Unfreed(x) = {} /\ (\A u \in Thread : \A i \in Nat : ~On(x, u, i))
        /\ (x \in Proxies => ext[x] = "none")
    BY FreshTask DEF CountInv
  <1>1. y \in Tasks \union Thread /\ y \notin Proxies /\ (y \in Tasks => Kept(y)) /\ y # x
    <2>1. y \in Tasks \union Thread /\ y \notin Proxies
      <3>1. CASE Depth(t) = 1
        <4>1. y = t
          BY <3>1, FrameTop
        <4>2. t \notin Tasks
          BY TaskAssumption
        <4> QED BY <4>1, <4>2, TaskAssumption
      <3>2. CASE Depth(t) # 1
        BY <3>2, FrameTop DEF GoodFrame, Doing, Working
      <3> QED BY <3>1, <3>2
    <2>2. On(y, t, Depth(t)) /\ Depth(t) \in Nat
      BY FrameTop DEF On
    <2>3. y \in Tasks => Kept(y)
      BY <2>2, HolderCounts
    <2> QED BY <1>0, <2>1, <2>2, <2>3
  <1>2. \A z \in Tasks : /\ life'[z] = IF z = x THEN l ELSE life[z]
                         /\ parent'[z] = IF z = x THEN y ELSE parent[z]
    BY <1>0 DEF TaskTypes
  <1>3. allocated' \in [Tasks -> Int]
        /\ \A z \in Tasks : allocated'[z] = IF z = x THEN 1 ELSE IF z = y THEN allocated[z] + 1 ELSE allocated[z]
    BY DEF FreeInv
  <1>4. Unfreed(x)' = {} /\ Cardinality(Unfreed(x))' = 0
    <2>1. Unfreed(x)' = {}
      BY <1>0, <1>1, <1>2 DEF Unfreed
    <2> QED BY <2>1, FS_EmptySet
  <1>5. \A z \in Tasks : z # x /\ z # y => Unfreed(z)' = Unfreed(z)
    BY <1>0, <1>2, NoneAssumption DEF Unfreed
  <1>6. y \in Tasks => Cardinality(Unfreed(y))' = Cardinality(Unfreed(y)) + 1 /\ Cardinality(Unfreed(y)) \in Nat
    <2> SUFFICES ASSUME y \in Tasks
                 PROVE  Cardinality(Unfreed(y))' = Cardinality(Unfreed(y)) + 1 /\ Cardinality(Unfreed(y)) \in Nat
      OBVIOUS
    <2>1. Unfreed(y)' = Unfreed(y) \union {x}
      BY <1>1, <1>2 DEF Unfreed
    <2>2. x \notin Unfreed(y)
      BY <1>0, NoneAssumption DEF Unfreed
    <2>3. IsFiniteSet(Unfreed(y)) /\ Cardinality(Unfreed(y)) \in Nat
      BY HolderCounts
    <2>4. Cardinality(Unfreed(y) \union {x}) = Cardinality(Unfreed(y)) + 1
      BY <2>2, <2>3, FS_AddElement
    <2> QED BY <2>1, <2>3, <2>4
  <1>7. ASSUME NEW z \in Tasks PROVE HeldRight(z)'
    <2>1. CASE z = x
      <3>1. Holders(x)' = 1
        BY <1>4 DEF Holders, HeldFirst, Number
      <3>2. IsFiniteSet(FramesOf(x))'
        BY DEF HeldFirst
      <3> QED BY <1>1, <1>2, <1>3, <2>1, <3>1, <3>2 DEF HeldRight, Kept
    <2>2. CASE z # x /\ z # y
      <3>1. Holders(z)' = Holders(z) /\ IsFiniteSet(FramesOf(z))'
        BY <1>5, <2>2 DEF Holders, HeldFirst, Number, FreeInv, HeldRight
      <3> QED BY <1>2, <1>3, <2>2, <3>1 DEF FreeInv, HeldRight, Kept
    <2>3. CASE z = y
      <3>1. /\ FramesOf(y)' = FramesOf(y) /\ Number(InDeque(y))' = Number(InDeque(y))
            /\ Number(Outer(y))' = Number(Outer(y))
        BY <1>1, <2>3 DEF HeldFirst, Number
      <3>2. Holders(y)' = Holders(y) + 1 /\ allocated'[y] = allocated[y] + 1 /\ allocated[y] \in Nat
        BY <1>1, <1>3, <1>6, <2>3, <3>1, HolderCounts DEF Holders
      <3>3. allocated[y] = Holders(y) /\ parent[y] \notin Proxies /\ IsFiniteSet(FramesOf(y))
        BY <2>3 DEF FreeInv, HeldRight
      <3>4. life'[y] = life[y] /\ parent'[y] = parent[y] /\ life[y] # "none" /\ life[y] # "freed"
        BY <1>1, <1>2, <2>3 DEF Kept
      <3> QED BY <2>3, <3>1, <3>2, <3>3, <3>4 DEF HeldRight, Kept
    <2> QED BY <2>1, <2>2, <2>3
  <1>8. ASSUME NEW z \in Proxies PROVE ProxyRight(z)'
    <2>0. z \in Tasks /\ ProxyRight(z) /\ incomplete'[z] = incomplete[z]
      BY <1>0, <1>1, TaskAssumption DEF FreeInv, TaskTypes
    <2>1. InBottom(z) => InBottom(z)'
      BY DEF InBottom, HeldFirst
    <2>2. CASE z # x
      <3>1. /\ InDeque(z)' <=> InDeque(z)
            /\ ext'[z] = ext[z] /\ home'[z] = home[z] /\ life'[z] = life[z]
        BY <1>2, <2>0, <2>2 DEF HeldFirst
      <3>2. \A u \in Thread : \A i \in Nat : On(z, u, i)' =>
                stack'[u][i].doing \notin Halves \/ (On(z, u, i) /\ stack'[u][i] = stack[u][i])
        BY <2>2 DEF HeldFirst
      <3> QED BY <2>0, <2>1, <3>1, <3>2 DEF ProxyRight
    <2>3. CASE z = x
      <3>1. life'[x] = l /\ incomplete[x] = 0 /\ ~InDeque(x)' /\ home'[x] \in 0..1
        BY <1>2, <2>0, <2>3 DEF ProxyRight
      <3>2. ext'[x] = "none" \/ (ext'[x] = "started" /\ l = "live")
        BY <1>0, <2>3
      <3>3. ext'[x] # "none" => \A u \in Thread : \A i \in Nat : On(x, u, i)' => stack'[u][i].doing \notin Halves
        BY <1>0, <2>3 DEF HeldFirst
      <3> QED BY <2>0, <2>3, <3>1, <3>2, <3>3 DEF ProxyRight
    <2> QED BY <2>2, <2>3
  <1> QED BY <1>3, <1>7, <1>8 DEF FreeInv

LEMMA CreateKeepsFree ==
    ASSUME CountInv, Attached, FreeInv, NEW t \in Thread, NEW x \in Tasks,
           CreateDeferred(t, x) \/ CreateUndeferred(t, x) \/ CreateProxy(t, x)
    PROVE  FreeInv'
  <1> USE DEF tree, teams, sync
  <1>0. StackTypes /\ TaskTypes /\ DequeType /\ home \in [Proxies -> (0..1) \union {None}] /\ QueuedAlone
    BY DEF CountInv, TaskTypes, DequeType, FreeInv
  <1>1. PICK y : y = Current(t)
    OBVIOUS
  <1>2. /\ Doing(t, "run") /\ life[x] = "none"
        /\ parent' = [parent EXCEPT ![x] = y] /\ incomplete' = [incomplete EXCEPT ![y] = @ + 1]
        /\ allocated' = [z \in Tasks |-> IF z = x THEN 1 ELSE IF z = y THEN allocated[z] + 1 ELSE allocated[z]]
    BY <1>1 DEF CreateDeferred, CreateUndeferred, CreateProxy, MayCreate, Allocate
  <1>3. PICK k \in 0..1 : k = ptr[t]
    BY <1>2, Busy DEF CountInv, Doing
  <1>4. /\ ~InDeque(x) /\ ~Outer(x) /\ FramesOf(x) = {} /\ Cardinality(FramesOf(x)) = 0
        /\ \A u \in Thread : \A i \in Nat : ~On(x, u, i)
        /\ x \in Proxies => ext[x] = "none"
    BY <1>2, FreshTask
  <1>5. \A z \in Tasks : IsFiniteSet(FramesOf(z))
    BY DEF FreeInv, HeldRight
  <1>6. ASSUME UNCHANGED stack
        PROVE  /\ \A z : FramesOf(z)' = FramesOf(z)
               /\ \A z : \A u \in Thread : \A i \in Nat : On(z, u, i)' <=> On(z, u, i)
    BY <1>6 DEF FramesOf, On, Depth
  <1>7. ASSUME NEW d \in {"run", "top1"}, Begin(t, Frame(x, d, "-")), UNCHANGED <<deque, ext>>,
               x \notin Proxies => d = "run"
        PROVE  HeldFirst(x) /\ QueuedAlone' /\ ~InDeque(x)'
    <2>1. PICK f \in Frames : f = Frame(x, d, "-") /\ f.task = x /\ f.doing = d
      <3> DEFINE g == Frame(x, d, "-")
      <3>1. g \in Frames /\ g.task = x /\ g.doing = d
        BY DEF Frame, Frames, Actions, Places
      <3> HIDE DEF g
      <3>2. \E f \in Frames : f = g /\ f.task = x /\ f.doing = d
        BY <3>1
      <3> QED BY <3>2 DEF g
    <2>2. PICK n \in Nat : n = Depth(t) + 1
      BY <1>0, StackSeq
    <2>3. /\ \A z : \A u \in Thread : \A i \in Nat : On(z, u, i)' <=> On(z, u, i) \/ (u = t /\ i = n /\ x = z)
          /\ \A u \in Thread : \A i \in 1..Depth(u) : stack'[u][i] = stack[u][i]
      BY <1>0, <1>7, <2>1, <2>2, BeginOn, BeginStack
    <2>4. \A z \in Tasks \ {x} : FramesOf(z)' = FramesOf(z)
      BY <2>3, SameFrames
    <2>5. IsFiniteSet(FramesOf(x))' /\ Cardinality(FramesOf(x))' = 1
      <3>1. \A u \in Thread : \A i \in Nat : On(x, u, i)' <=> On(x, u, i) \/ (u = t /\ i = n)
        BY <2>3
      <3>2. ~On(x, t, n) /\ IsFiniteSet(FramesOf(x))
        BY <1>4, <1>5
      <3>3. IsFiniteSet(FramesOf(x))' /\ Cardinality(FramesOf(x))' = Cardinality(FramesOf(x)) + 1
        BY <3>1, <3>2, MoreFrames
      <3> QED BY <1>4, <3>3
    <2>6. \A z : (InDeque(z)' <=> InDeque(z)) /\ (Outer(z)' <=> Outer(z))
      BY <1>7 DEF InDeque, Queued, Outer
    <2>7. QueuedAlone'
      BY <1>0, <1>7 DEF QueuedAlone, Queued
    <2>8. ASSUME NEW z \in Proxies, NEW u \in Thread, NEW i \in Nat
          PROVE  /\ On(z, u, i)' => (On(z, u, i) /\ stack'[u][i] = stack[u][i]) \/ (z = x /\ ext'[x] = "none")
                 /\ On(z, u, i) => On(z, u, i)' /\ stack'[u][i] = stack[u][i]
      <3>1. On(z, u, i) => stack'[u][i] = stack[u][i]
        BY <2>3 DEF On
      <3>2. z = x => ext'[x] = "none"
        BY <1>4, <1>7
      <3> QED BY <2>3, <3>1, <3>2
    <2>9. Cardinality(FramesOf(x))' + Number(InDeque(x))' + Number(Outer(x))' = 1
      BY <1>4, <2>5, <2>6 DEF Number
    <2>10. HeldFirst(x)
      BY <2>4, <2>5, <2>6, <2>8, <2>9 DEF HeldFirst
    <2> QED BY <1>4, <2>6, <2>7, <2>10
  <1>8. CASE CreateDeferred(t, x)
    <2>1. /\ x \notin Proxies /\ Appended(k, t, x) /\ UNCHANGED <<stack, ext, home>>
          /\ life' = [life EXCEPT ![x] = "queued"]
      BY <1>3, <1>8 DEF CreateDeferred, Appended
    <2>2. \A z : \A l \in 0..1, u \in Thread : \A i \in Nat :
              Queued(z, l, u, i)' <=> Queued(z, l, u, i) \/ (z = x /\ l = k /\ u = t /\ i = Len(deque[l][u]) + 1)
      BY <1>0, <2>1, AppendDeque
    <2>3. PICK n \in Nat : n = Len(deque[k][t]) + 1
      BY <1>0, DequeElements
    <2>4. InDeque(x)' /\ \A z : z # x => (InDeque(z)' <=> InDeque(z))
      <3>1. Queued(x, k, t, n)'
        BY <2>2, <2>3
      <3> QED BY <2>2, <3>1 DEF InDeque
    <2>5. QueuedAlone'
      <3>1. \A l \in 0..1, u \in Thread : \A i \in Nat : Queued(x, l, u, i)' => l = k /\ u = t /\ i = n
        BY <1>4, <2>2, <2>3 DEF InDeque
      <3>2. \A z : z # x => \A l \in 0..1, u \in Thread : \A i \in Nat : Queued(z, l, u, i)' <=> Queued(z, l, u, i)
        BY <2>2
      <3> SUFFICES ASSUME NEW z \in Tasks, NEW l \in 0..1, NEW m \in 0..1, NEW v \in Thread,
                          NEW u \in Thread, NEW i \in Nat, NEW j \in Nat,
                          Queued(z, l, v, i)', Queued(z, m, u, j)'
                   PROVE  l = m /\ v = u /\ i = j
        BY DEF QueuedAlone
      <3>3. CASE z = x
        BY <3>1, <3>3
      <3>4. CASE z # x
        <4>1. Queued(z, l, v, i) /\ Queued(z, m, u, j)
          BY <3>2, <3>4
        <4> QED BY <1>0, <4>1 DEF QueuedAlone
      <3> QED BY <3>3, <3>4
    <2>6. \A z : Outer(z)' <=> Outer(z)
      BY <2>1 DEF Outer
    <2>7. Cardinality(FramesOf(x))' + Number(InDeque(x))' + Number(Outer(x))' = 1 /\ Cardinality(FramesOf(x))' \in 0..1
      BY <1>4, <1>6, <2>1, <2>4, <2>6 DEF Number
    <2>8. HeldFirst(x)
      BY <1>5, <1>6, <2>1, <2>4, <2>6, <2>7 DEF HeldFirst
    <2>9. PICK l \in {"queued", "live"} : life' = [life EXCEPT ![x] = l]
      BY <2>1
    <2>10. /\ x \notin Proxies /\ home' \in [Proxies -> (0..1) \union {None}]
           /\ \A z \in Proxies : ext'[z] = ext[z] /\ home'[z] = home[z]
      BY <1>0, <2>1
    <2> QED BY <1>1, <1>2, <2>5, <2>8, <2>9, <2>10, CreatedKeepsFree
  <1>9. CASE CreateUndeferred(t, x)
    <2>1. /\ x \notin Proxies /\ Begin(t, Frame(x, "run", "-")) /\ UNCHANGED <<deque, ext, home>>
          /\ life' = [life EXCEPT ![x] = "live"]
      BY <1>9 DEF CreateUndeferred, Run
    <2>2. HeldFirst(x) /\ QueuedAlone'
      BY <1>7, <2>1
    <2>3. PICK l \in {"queued", "live"} : life' = [life EXCEPT ![x] = l]
      BY <2>1
    <2>4. /\ x \notin Proxies /\ home' \in [Proxies -> (0..1) \union {None}]
          /\ \A z \in Proxies : ext'[z] = ext[z] /\ home'[z] = home[z]
      BY <1>0, <2>1
    <2> QED BY <1>1, <1>2, <2>2, <2>3, <2>4, CreatedKeepsFree
  <1>10. CASE CreateProxy(t, x)
    <2>1. /\ x \in Proxies /\ UNCHANGED deque /\ life' = [life EXCEPT ![x] = "live"]
          /\ home' = [home EXCEPT ![x] = k]
          /\ \/ ext' = [ext EXCEPT ![x] = "started"] /\ UNCHANGED stack
             \/ Begin(t, Frame(x, "top1", "-")) /\ UNCHANGED ext
      BY <1>3, <1>10 DEF CreateProxy
    <2>2. /\ home' \in [Proxies -> (0..1) \union {None}] /\ home'[x] \in 0..1
          /\ \A z \in Proxies : home'[z] = home[z] \/ (z = x /\ home'[z] \in 0..1)
      BY <1>0, <2>1
    <2>3. PICK l \in {"queued", "live"} : l = "live" /\ life' = [life EXCEPT ![x] = l]
      BY <2>1
    <2>4. CASE Begin(t, Frame(x, "top1", "-")) /\ UNCHANGED ext
      <3>1. HeldFirst(x) /\ QueuedAlone' /\ ~InDeque(x)'
        BY <1>7, <2>1, <2>4
      <3>2. \A z \in Proxies : ext'[z] = ext[z]
        BY <2>4
      <3> QED BY <1>1, <1>2, <2>2, <2>3, <3>1, <3>2, CreatedKeepsFree
    <2>5. CASE ext' = [ext EXCEPT ![x] = "started"] /\ UNCHANGED stack
      <3>1. \A z \in Proxies : ext'[z] = IF z = x THEN "started" ELSE ext[z]
        BY <1>0, <2>5 DEF TaskTypes
      <3>2. QueuedAlone' /\ \A z : InDeque(z)' <=> InDeque(z)
        BY <1>0, <2>1 DEF QueuedAlone, InDeque, Queued
      <3>3. Outer(x)' /\ \A z \in Tasks \ {x} : Outer(z)' <=> Outer(z)
        BY <2>1, <3>1 DEF Outer
      <3>4. Cardinality(FramesOf(x))' + Number(InDeque(x))' + Number(Outer(x))' = 1 /\ Cardinality(FramesOf(x))' \in 0..1
        BY <1>4, <1>6, <2>5, <3>2, <3>3 DEF Number
      <3>5. \A z \in Proxies : \A u \in Thread : \A i \in Nat :
                (On(z, u, i)' <=> On(z, u, i)) /\ stack'[u][i] = stack[u][i]
        BY <1>6, <2>5
      <3>6. HeldFirst(x)
        BY <1>5, <1>6, <2>5, <3>2, <3>3, <3>4, <3>5 DEF HeldFirst
      <3>7. ~InDeque(x)' /\ \A z \in Proxies : ext'[z] = ext[z] \/ (z = x /\ ext'[z] = "started")
        BY <1>4, <3>1, <3>2
      <3> QED BY <1>1, <1>2, <2>2, <2>3, <3>2, <3>6, <3>7, CreatedKeepsFree
    <2> QED BY <2>1, <2>4, <2>5
  <1> QED BY <1>8, <1>9, <1>10

-----------------------------------------------------------------------------
(* A proxy task completed outside the team.                                 *)

LEMMA OutsideKeepsFree ==
    ASSUME CountInv, FreeInv, NEW x \in Proxies, Complete(x)
    PROVE  FreeInv'
  <1> USE DEF tree, teams, sync
  <1>0. TaskTypes /\ DequeType /\ QueuedAlone /\ ProxyRight(x) /\ x \in Tasks /\ parent[x] \notin Proxies
    BY TaskAssumption DEF CountInv, FreeInv, HeldRight, TaskTypes, DequeType
  <1>1. UNCHANGED <<stack, parent, allocated, home>>
    BY DEF Complete, ExtFirstTop, ExtGive, ExtCountParent, ExtRemoveChild, FirstTopHalf
  <1>2. /\ \A z : FramesOf(z)' = FramesOf(z) /\ (InBottom(z)' <=> InBottom(z))
        /\ \A z : \A u \in Thread : \A i \in Nat : On(z, u, i)' <=> On(z, u, i)
    BY <1>1 DEF FramesOf, InBottom, On, Depth
  <1>3. ext[x] # "none" /\ life[x] # "none"
    <2>1. ext[x] # "none"
      BY DEF Complete, ExtFirstTop, ExtGive, ExtCountParent, ExtRemoveChild
    <2> QED BY <2>1 DEF CountInv, Known
  <1>4. PICK e \in {"give", "parent", "child", "done"} :
            /\ ext' = [ext EXCEPT ![x] = e]
            /\ \/ ExtFirstTop(x) /\ ext[x] = "started" /\ e = "give"
               \/ ExtGive(x) /\ ext[x] = "give" /\ e = "parent"
               \/ ExtCountParent(x) /\ ext[x] = "parent" /\ e = "child"
               \/ ExtRemoveChild(x) /\ ext[x] = "child" /\ e = "done"
    BY DEF Complete, ExtFirstTop, ExtGive, ExtCountParent, ExtRemoveChild
  <1>5. \A z \in Proxies : ext'[z] = IF z = x THEN e ELSE ext[z]
    BY <1>0, <1>4 DEF TaskTypes
  <1>6. /\ \A z \in Tasks : life'[z] = life[z] \/ (z = x /\ life[z] = "live" /\ life'[z] = "complete")
        /\ ext[x] # "started" => UNCHANGED life
    BY <1>0, <1>4 DEF ExtFirstTop, ExtGive, ExtCountParent, ExtRemoveChild, FirstTopHalf, TaskTypes, ProxyRight
  <1>7. \A z \in Proxies \ {x} : incomplete'[z] = incomplete[z]
    <2>1. ASSUME NEW y \in Tasks, NEW n, incomplete' = [incomplete EXCEPT ![y] = n], y \notin Proxies \ {x}
          PROVE  \A z \in Proxies \ {x} : incomplete'[z] = incomplete[z]
      BY <1>0, <2>1, TaskAssumption DEF TaskTypes
    <2>2. CASE ExtFirstTop(x)
      <3>1. incomplete' = [incomplete EXCEPT ![x] = incomplete[x] + 1]
        BY <2>2 DEF ExtFirstTop, FirstTopHalf
      <3> QED BY <1>0, <2>1, <3>1
    <2>3. CASE ExtGive(x)
      BY <2>3 DEF ExtGive
    <2>4. CASE ExtCountParent(x)
      BY <1>0, <2>4 DEF ExtCountParent, TaskTypes
    <2>5. CASE ExtRemoveChild(x)
      <3>1. incomplete' = [incomplete EXCEPT ![x] = incomplete[x] - 1]
        BY <2>5 DEF ExtRemoveChild
      <3> QED BY <1>0, <2>1, <3>1
    <2> QED BY <1>4, <2>2, <2>3, <2>4, <2>5
  <1>8. /\ e = "give" => incomplete'[x] = incomplete[x] + 1
        /\ e \in {"parent", "child"} => incomplete'[x] = incomplete[x]
        /\ incomplete[x] \in Int
    BY <1>0, <1>4 DEF ExtFirstTop, ExtGive, ExtCountParent, FirstTopHalf, TaskTypes
  <1>9. /\ QueuedAlone' /\ (\A z : z # x => (InDeque(z)' <=> InDeque(z)))
        /\ InDeque(x)' <=> (InDeque(x) \/ e = "parent")
    <2>1. CASE ~ExtGive(x)
      <3>1. UNCHANGED deque /\ e # "parent"
        BY <1>4, <2>1 DEF ExtFirstTop, ExtCountParent, ExtRemoveChild, FirstTopHalf, ExtGive
      <3>2. \A z, l, u, i : Queued(z, l, u, i)' <=> Queued(z, l, u, i)
        BY <3>1 DEF Queued
      <3>3. \A z : InDeque(z)' <=> InDeque(z)
        BY <3>2 DEF InDeque
      <3>4. QueuedAlone'
        BY <1>0, <3>2 DEF QueuedAlone
      <3> QED BY <3>1, <3>3, <3>4
    <2>2. CASE ExtGive(x)
      <3>0. e = "parent" /\ ext[x] = "give"
        BY <1>4, <2>2 DEF ExtFirstTop, ExtCountParent, ExtRemoveChild, ExtGive
      <3>1. PICK k \in 0..1 : k = home[x]
        BY <1>0, <1>3 DEF ProxyRight
      <3>2. PICK v \in Thread : deque' = [deque EXCEPT ![k][v] = Append(@, x)]
        BY <2>2, <3>1 DEF ExtGive
      <3>3. Appended(k, v, x)
        BY <3>2 DEF Appended
      <3>4. \A z : \A l \in 0..1, u \in Thread : \A i \in Nat :
                Queued(z, l, u, i)' <=> Queued(z, l, u, i) \/ (z = x /\ l = k /\ u = v /\ i = Len(deque[l][u]) + 1)
        BY <1>0, <3>3, AppendDeque
      <3>5. PICK n \in Nat : n = Len(deque[k][v]) + 1
        BY <1>0, DequeElements
      <3>6. ~InDeque(x)
        BY <1>0, <3>0 DEF ProxyRight
      <3>7. InDeque(x)' /\ \A z : z # x => (InDeque(z)' <=> InDeque(z))
        <4>1. Queued(x, k, v, n)'
          BY <3>4, <3>5
        <4> QED BY <3>4, <4>1 DEF InDeque
      <3>8. \A l \in 0..1, u \in Thread : \A i \in Nat : Queued(x, l, u, i)' => l = k /\ u = v /\ i = n
        BY <3>4, <3>5, <3>6 DEF InDeque
      <3>9. \A z : z # x => \A l \in 0..1, u \in Thread : \A i \in Nat : Queued(z, l, u, i)' <=> Queued(z, l, u, i)
        BY <3>4
      <3>10. ASSUME NEW z \in Tasks, NEW l \in 0..1, NEW m \in 0..1, NEW w \in Thread,
                    NEW u \in Thread, NEW i \in Nat, NEW j \in Nat,
                    Queued(z, l, w, i)', Queued(z, m, u, j)'
             PROVE  l = m /\ w = u /\ i = j
        <4>1. CASE z = x
          BY <3>8, <3>10, <4>1
        <4>2. CASE z # x
          <5>1. Queued(z, l, w, i) /\ Queued(z, m, u, j)
            BY <3>9, <3>10, <4>2
          <5> QED BY <1>0, <5>1 DEF QueuedAlone
        <4> QED BY <4>1, <4>2
      <3>11. QueuedAlone'
        BY <3>10 DEF QueuedAlone
      <3> QED BY <3>0, <3>7, <3>11
    <2> QED BY <2>1, <2>2
  <1>10. /\ \A z : z # x => (Outer(z)' <=> Outer(z))
         /\ Outer(x) <=> e \in {"give", "parent"}
         /\ Outer(x)' <=> e = "give"
    BY <1>4, <1>5 DEF Outer
  <1>11. e \in {"give", "parent"} => ~InDeque(x)
    BY <1>0, <1>4 DEF ProxyRight
  <1>12. ASSUME NEW z \in Tasks
         PROVE  /\ IsFiniteSet(FramesOf(z))' /\ Holders(z)' = Holders(z)
                /\ Kept(z)' <=> Kept(z)
                /\ life'[z] = "none" => life[z] = "none"
    <2>1. Unfreed(z)' = Unfreed(z) /\ FramesOf(z)' = FramesOf(z)
      BY <1>1, <1>2, <1>6 DEF Unfreed
    <2>2. Number(InDeque(z))' + Number(Outer(z))' = Number(InDeque(z)) + Number(Outer(z))
      <3>1. CASE z = x
        BY <1>9, <1>10, <1>11, <3>1 DEF Number
      <3>2. CASE z # x
        BY <1>9, <1>10, <3>2 DEF Number
      <3> QED BY <3>1, <3>2
    <2>3. /\ Number(InDeque(z)) \in 0..1 /\ Number(Outer(z)) \in 0..1
          /\ Number(InDeque(z))' \in 0..1 /\ Number(Outer(z))' \in 0..1
      BY DEF Number
    <2>4. Holders(z)' = Holders(z)
      <3>1. PICK c \in Nat : c = Cardinality(FramesOf(z)) + Cardinality(Unfreed(z))
        BY HolderCounts
      <3>2. Holders(z) = c + Number(InDeque(z)) + Number(Outer(z))
        BY <3>1 DEF Holders
      <3>3. Holders(z)' = c + Number(InDeque(z))' + Number(Outer(z))'
        BY <2>1, <3>1 DEF Holders
      <3> QED BY <2>2, <2>3, <3>2, <3>3
    <2>5. IsFiniteSet(FramesOf(z))' /\ (Kept(z)' <=> Kept(z)) /\ (life'[z] = "none" => life[z] = "none")
      BY <1>2, <1>6 DEF FreeInv, HeldRight, Kept
    <2> QED BY <2>4, <2>5
  <1>13. ASSUME NEW z \in Proxies PROVE ProxyRight(z)'
    <2>0. \A u \in Thread : \A i \in Nat : On(z, u, i)' =>
              On(z, u, i) /\ (stack'[u][i].doing \in Halves <=> stack[u][i].doing \in Halves)
      BY <1>1, <1>2
    <2>1. CASE z # x
      <3>1. /\ ext'[z] = ext[z] /\ incomplete'[z] = incomplete[z] /\ life'[z] = life[z] /\ home'[z] = home[z]
            /\ (InDeque(z)' <=> InDeque(z)) /\ (InBottom(z)' <=> InBottom(z)) /\ ProxyRight(z)
        BY <1>1, <1>2, <1>5, <1>6, <1>7, <1>9, <2>1, TaskAssumption DEF FreeInv
      <3> QED BY <2>0, <3>1 DEF ProxyRight
    <2>2. CASE z = x
      <3>1. life'[x] # "none" /\ ext'[x] = e /\ e # "none" /\ e # "started"
        BY <1>0, <1>3, <1>4, <1>5, <1>6
      <3>2. home'[x] \in 0..1 /\ \A u \in Thread : \A i \in Nat : On(x, u, i)' => stack'[u][i].doing \notin Halves
        BY <1>0, <1>1, <1>3, <2>0, <2>2 DEF ProxyRight
      <3>3. e \in {"none", "started", "give"} => ~InDeque(x)'
        BY <1>9, <1>11, <3>1
      <3>4. e \in {"give", "parent", "child"} => incomplete'[x] >= 1
        BY <1>0, <1>4, <1>8 DEF ProxyRight
      <3>5. e \in {"parent", "child"} => InDeque(x)' \/ InBottom(x)'
        BY <1>0, <1>2, <1>4, <1>9 DEF ProxyRight
      <3> QED BY <2>2, <3>1, <3>2, <3>3, <3>4, <3>5 DEF ProxyRight
    <2> QED BY <2>1, <2>2
  <1> QED BY <1>1, <1>9, <1>12, <1>13, FreeKept
-----------------------------------------------------------------------------
(* Nothing freed is used, and nothing is lost.                              *)

LEMMA FreeInit == Init => FreeInv
  <1> SUFFICES ASSUME Init PROVE FreeInv
    OBVIOUS
  <1>1. CountInv
    BY CountInit
  <1>2. \A x \in Tasks : ~InDeque(x) /\ ~Outer(x)
    BY DEF Init, InDeque, Queued, Outer
  <1>3. \A x \in Tasks : \A t \in Thread : \A i \in Nat : ~On(x, t, i)
    <2>1. \A t \in Thread : Len(stack[t]) = 1 /\ stack[t][1].task = t /\ t \notin Tasks
      BY TaskAssumption DEF Init, Run, Frame
    <2> QED BY <2>1 DEF On, Depth
  <1>4. QueuedAlone
    BY DEF Init, QueuedAlone, Queued
  <1>5. ASSUME NEW x \in Tasks PROVE HeldRight(x)
    <2>1. FramesOf(x) = {}
      BY <1>3 DEF FramesOf
    <2>2. Unfreed(x) = {}
      BY NoneAssumption DEF Init, Unfreed
    <2>3. Number(InDeque(x)) = 0 /\ Number(Outer(x)) = 0
      BY <1>2 DEF Number
    <2>4. Holders(x) = 0 /\ IsFiniteSet(FramesOf(x))
      BY <2>1, <2>2, <2>3, FS_EmptySet DEF Holders
    <2>5. life[x] = "none" /\ parent[x] = None /\ allocated[x] = 0
      BY DEF Init
    <2>6. parent[x] \notin Proxies
      BY <2>5, NoneAssumption, TaskAssumption
    <2>7. ~Kept(x) /\ ~(allocated[x] > 0)
      BY <2>5 DEF Kept
    <2> QED BY <2>4, <2>5, <2>6, <2>7 DEF HeldRight
  <1>6. ASSUME NEW x \in Proxies PROVE ProxyRight(x)
    BY <1>2, TaskAssumption DEF Init, ProxyRight
  <1>7. allocated \in [Tasks -> Int] /\ home \in [Proxies -> (0..1) \union {None}]
    BY DEF Init
  <1> QED BY <1>4, <1>5, <1>6, <1>7 DEF FreeInv

LEMMA FreeStep == CountInv /\ Attached /\ FreeInv /\ [Next]_vars => FreeInv'
  <1> SUFFICES ASSUME CountInv, Attached, FreeInv, [Next]_vars PROVE FreeInv'
    OBVIOUS
  <1>0. TaskTypes
    BY DEF CountInv
  <1>1. ASSUME UNCHANGED vars PROVE FreeInv'
    BY <1>0, <1>1, SameKeepsFree DEF vars, tree, teams
  <1>2. ASSUME NEW t \in Thread, Step(t) \/ Reach(t) \/ Taskwait(t) \/ (t = Master /\ MasterStep)
        PROVE  FreeInv'
    <2>1. CASE CountParent(t) \/ CountGroup(t) \/ ProxyTopHalf(t) \/ BottomHalf(t) \/ End(t)
      BY <2>1, FinishKeepsFree
    <2>2. CASE FreeTask(t)
      BY <2>2, ReleaseKeepsFree
    <2>3. CASE \/ WaitTurn(t) \/ TakeOwn(t) \/ GiveUp(t) \/ (\E v \in Thread : Steal(t, v))
               \/ LeaveTaskwait(t) \/ LeaveGroup(t) \/ Taskwait(t) \/ EndGroup(t)
      BY <2>3, WaitKeepsFree
    <2>4. CASE BarrierStep(t)
      BY <2>4, BarrierKeepsFree
    <2> QED BY <1>2, <2>1, <2>2, <2>3, <2>4 DEF Step, Reach, BarrierStep
  <1>3. ASSUME NEW t \in Thread, NEW x \in Tasks,
               CreateDeferred(t, x) \/ CreateUndeferred(t, x) \/ CreateProxy(t, x)
        PROVE  FreeInv'
    BY <1>3, CreateKeepsFree
  <1>4. ASSUME NEW t \in Thread, NEW g \in Groups, StartGroup(t, g) PROVE FreeInv'
    BY <1>0, <1>4, SameKeepsFree DEF StartGroup, tree, teams, sync
  <1>5. ASSUME NEW x \in Proxies, Complete(x) PROVE FreeInv'
    BY <1>5, OutsideKeepsFree
  <1>6. Master \in Thread
    BY TeamAssumption DEF Master, Thread
  <1> QED BY <1>1, <1>2, <1>3, <1>4, <1>5, <1>6 DEF Next

LEMMA FreeAlways == SafeSpec => [](CountInv /\ FreeInv)
  <1>1. FreeInv /\ (CountInv /\ Attached) /\ [Next]_vars => FreeInv'
    BY FreeStep
  <1> QED BY <1>1, FreeInit, CountsAreRight, PTL DEF SafeSpec

(* Whoever holds a task keeps it.                                           *)
LEMMA HoldersKeep ==
    ASSUME FreeInv
    PROVE  /\ \A x \in Tasks : \A t \in Thread : \A i \in Nat : On(x, t, i) => Kept(x)
           /\ \A x \in Tasks : InDeque(x) \/ Outer(x) => Kept(x)
           /\ \A x \in Tasks : Kept(x) /\ parent[x] \in Tasks => Kept(parent[x])
  <1>1. ASSUME NEW x \in Tasks, Kept(x), parent[x] \in Tasks PROVE Kept(parent[x])
    <2>1. PICK y \in Tasks : y = parent[x]
      BY <1>1
    <2>2. x \in Unfreed(y)
      BY <1>1, <2>1 DEF Unfreed, Kept
    <2>3. Kept(y)
      BY <2>2, HolderCounts
    <2> QED BY <2>1, <2>3
  <1> QED BY <1>1, HolderCounts

(* Whoever still has to touch a task finds it allocated: the threads that   *)
(* work on it or finish it, the deques it is in, its children that have not *)
(* been freed, the thread that completes it from outside                    *)
(* (__kmp_free_task_and_ancestors; the first half of NothingUsedAfterFree). *)
THEOREM NothingIsUsedAfterFree == SafeSpec => []NoUseAfterFree
  <1>1. CountInv /\ FreeInv => NoUseAfterFree
    <2> SUFFICES ASSUME CountInv, FreeInv PROVE NoUseAfterFree
      OBVIOUS
    <2>0. TaskTypes /\ DequeType /\ \A t \in Thread : DOMAIN stack[t] = 1..Depth(t) /\ Depth(t) \in Nat
      BY StackSeq DEF CountInv, TaskTypes, DequeType, Depth
    <2>1. ASSUME NEW t \in Thread, NEW i \in DOMAIN stack[t], stack[t][i].task \in Tasks
          PROVE  LET x == stack[t][i].task IN
                 life[x] # "freed" /\ (parent[x] \in Tasks => life[parent[x]] # "freed")
      <3>1. PICK x \in Tasks : x = stack[t][i].task
        BY <2>1
      <3>2. i \in Nat /\ On(x, t, i)
        BY <2>0, <3>1 DEF On
      <3>3. Kept(x) /\ (parent[x] \in Tasks => Kept(parent[x]))
        BY <3>2, HoldersKeep
      <3> QED BY <3>1, <3>3 DEF Kept
    <2>2. ASSUME NEW k \in 0..1, NEW t \in Thread, NEW i \in DOMAIN deque[k][t]
          PROVE  life[deque[k][t][i]] # "freed"
      <3>1. deque[k][t] \in Seq(Tasks) /\ Len(deque[k][t]) \in Nat
        BY <2>0, LenProperties DEF TaskTypes
      <3>2. i \in 1..Len(deque[k][t]) /\ deque[k][t][i] \in Tasks
        BY <3>1, ElementOfSeq, LenProperties
      <3>3. PICK x \in Tasks : x = deque[k][t][i]
        BY <3>2
      <3>4. InDeque(x)
        BY <3>1, <3>2, <3>3 DEF InDeque, Queued
      <3>5. Kept(x)
        BY <3>4, HoldersKeep
      <3> QED BY <3>3, <3>5 DEF Kept
    <2>3. ASSUME NEW x \in Tasks, life[x] \notin {"none", "freed"}, parent[x] \in Tasks
          PROVE  life[parent[x]] # "freed"
      BY <2>3, HoldersKeep DEF Kept
    <2>4. ASSUME NEW x \in Proxies, ext[x] \in {"started", "give", "parent", "child"}
          PROVE  life[x] # "freed"
      <3>0. x \in Tasks /\ ProxyRight(x)
        BY TaskAssumption DEF FreeInv
      <3>1. CASE ext[x] \in {"started", "give"}
        <4>1. Outer(x)
          BY <3>1 DEF Outer
        <4> QED BY <3>0, <4>1, HoldersKeep DEF Kept
      <3>2. CASE ext[x] \in {"parent", "child"}
        BY <3>0, <3>2, HoldersKeep DEF ProxyRight, InBottom, Kept
      <3> QED BY <2>4, <3>1, <3>2
    <2> QED BY <2>1, <2>2, <2>3, <2>4 DEF NoUseAfterFree
  <1> QED BY <1>1, FreeAlways, PTL

(* No memory is lost: a complete task that nobody works on or holds, and    *)
(* whose children have been freed, has been freed itself.                   *)
THEOREM NothingIsLost == SafeSpec => []NothingLeaks
  <1>1. CountInv /\ FreeInv => NothingLeaks
    <2> SUFFICES ASSUME CountInv, FreeInv, NEW x \in Tasks, life[x] = "complete"
                 PROVE  \/ \E y \in Tasks : parent[y] = x /\ life[y] # "freed"
                        \/ \E t \in Thread : \E i \in DOMAIN stack[t] : stack[t][i].task = x
                        \/ x \in Proxies /\ ext[x] \in {"give", "parent", "child"}
                        \/ \E k \in 0..1, t \in Thread : \E i \in DOMAIN deque[k][t] : deque[k][t][i] = x
      BY DEF NothingLeaks
    <2>0. /\ TaskTypes /\ \A t \in Thread : DOMAIN stack[t] = 1..Depth(t)
          /\ \A k \in 0..1, t \in Thread : DOMAIN deque[k][t] = 1..Len(deque[k][t])
      BY StackSeq, LenProperties DEF CountInv, TaskTypes, Depth
    <2>1. InDeque(x) \/ Outer(x) \/ Unfreed(x) # {} \/ (\E t \in Thread : \E i \in Nat : On(x, t, i))
      BY HolderCounts DEF Kept
    <2>2. CASE InDeque(x)
      BY <2>0, <2>2 DEF InDeque, Queued
    <2>3. CASE Outer(x)
      <3>1. x \in Proxies /\ ext[x] \in {"started", "give"} /\ ProxyRight(x)
        BY <2>3 DEF Outer, FreeInv
      <3> QED BY <3>1 DEF ProxyRight
    <2>4. CASE Unfreed(x) # {}
      BY <2>4 DEF Unfreed
    <2>5. CASE \E t \in Thread : \E i \in Nat : On(x, t, i)
      BY <2>0, <2>5 DEF On
    <2> QED BY <2>1, <2>2, <2>3, <2>4, <2>5
  <1> QED BY <1>1, FreeAlways, PTL

-----------------------------------------------------------------------------
LastWait(t) == Base(t) \in {"release", "teamwait"}
Still(t) == Depth(t) = 1 /\ stack[t][1].at = "wait"
Emptied(t) == \A i \in 2..Depth(t) : stack[t][i].doing \in {"bottom", "free"}
Plain(t) == \A x \in Tasks \ Proxies : \A k \in 0..1 : \A i \in Nat : ~Queued(x, k, t, i)

(* The task team of a barrier the master has opened, until it is that of    *)
(* the barrier the master opens next; and the threads still on it.          *)
Spent(k) == (k = parity[Master]) <=> (Base(Master) = "letgo")
IsOpen(t) == Spent(parity[t])

TeamTypes ==
    /\ team \in [0..1 -> [active : BOOLEAN, found : BOOLEAN, proxies : BOOLEAN, unfinished : Int]]
    /\ finished \in [Thread -> BOOLEAN] /\ arrived \subseteq Thread /\ go \subseteq Thread

OnTeam == \A t \in Thread : ptr[t] \in {parity[t], None}

Phase(t) ==
    /\ t \in arrived => Base(t) = "release" /\ ~IsOpen(t)
    /\ t \in go => IsOpen(t)
    /\ IsOpen(t) => Base(t) = "release"
    /\ Base(Master) = "teamwait" => Base(t) = "release" /\ ~IsOpen(t) /\ t \notin arrived
    /\ Base(Master) = "letgo" /\ t >= stack[Master][1].at => IsOpen(t) /\ t \notin go
Phases == Master \notin arrived \union go /\ \A t \in Thread \ {Master} : Phase(t)

(* What a thread that has finished leaves behind.                           *)
FinishedRight(t) == LastWait(t) /\ finished[t] => Emptied(t) /\ incomplete[t] = 0 /\ Plain(t)

(* A worker whose barrier is open is finished or never looked for a task.   *)
OpenedRight(t) == t # Master /\ IsOpen(t) => finished[t] \/ Still(t)

(* While no task has been created nobody looks for one.                     *)
QuietRight(t) ==
    ~IsOpen(t) /\ Base(t) \in {"gather", "release", "teamwait"} /\ ~team[parity[t]].found =>
        Still(t) /\ (LastWait(t) => ~finished[t])

(* A thread that has looked through its deque left there what it may not    *)
(* execute, and what was queued before that.                                *)
Leftover(t) ==
    \A x \in Tasks \ Proxies : \A k \in 0..1 : \A i \in Nat :
        Queued(x, k, t, i) => \E y \in Mutex : \E j \in Nat : j >= i /\ Queued(y, k, t, j)
LookedRight(t) ==
    LastWait(t) /\ stack[t][1].at \in {"steal", "dry"} => Depth(t) = 1 /\ Leftover(t)

QueuedRight(t) ==
    \A x \in Tasks \ Proxies : \A k \in 0..1 : \A i \in Nat :
        Queued(x, k, t, i) =>
            ~IsOpen(t) /\ parity[t] = k /\ team[k].found /\ (x \in Mutex => parent[x] = t)

OutsideRight ==
    \A x \in Proxies : Outside(x) =>
        parent[x] \in Thread /\ ~IsOpen(parent[x]) /\ team[parity[parent[x]]].found

Fin(t, k) == parity[t] = k /\ LastWait(t) /\ finished[t]
TeamCounts ==
    \A k \in 0..1 :
        /\ ~Spent(k) => team[k].unfinished = Cardinality({t \in Thread : ~Fin(t, k)})
        /\ Spent(k) /\ team[k].active => team[k].unfinished = NProc /\ ~team[k].found
        /\ Spent(k) /\ Base(Master) \in {"gather", "teamwait"} => team[k].active

ThreadInv(t) == FinishedRight(t) /\ OpenedRight(t) /\ QuietRight(t) /\ LookedRight(t) /\ QueuedRight(t)
BarrierInv == TeamTypes /\ OnTeam /\ Phases /\ (\A t \in Thread : ThreadInv(t)) /\ OutsideRight /\ TeamCounts

(* A thread that has counted itself as finished does not count itself in    *)
(* again once the master has opened the barrier.                            *)
InTime == \A t \in Thread : IsOpen(t) /\ finished[t] => finished'[t]
TimelySpec == Init /\ [][Next /\ InTime]_vars

-----------------------------------------------------------------------------
(* Steps that leave every thread in its barrier or out of it.               *)

InPlace ==
    /\ UNCHANGED <<parity, arrived, go>>
    /\ \A u \in Thread : /\ \/ stack'[u][1].doing = Base(u)
                            \/ Base(u) \in Working /\ stack'[u][1].doing \in Working
                         /\ Base(u) = "letgo" => stack'[u][1] = stack[u][1]

LEMMA InPlaceKeeps ==
    ASSUME InPlace
    PROVE  /\ \A k \in 0..1 : Spent(k)' <=> Spent(k)
           /\ parity \in [Thread -> 0..1] => \A u \in Thread : IsOpen(u)' <=> IsOpen(u)
           /\ \A u \in Thread : LastWait(u)' <=> LastWait(u)
           /\ parity \in [Thread -> 0..1] /\ Phases => Phases'
  <1>1. Master \in Thread
    BY TeamAssumption DEF Master, Thread
  <1>2. (stack'[Master][1].doing = "letgo") <=> (stack[Master][1].doing = "letgo")
    BY <1>1 DEF InPlace, Base, Working
  <1>3. \A k : Spent(k)' <=> Spent(k)
    BY <1>2 DEF InPlace, Spent, Base
  <1>4. \A u \in Thread : IsOpen(u)' <=> IsOpen(u)
    BY <1>3 DEF InPlace, IsOpen
  <1>5. \A u \in Thread : LastWait(u)' <=> LastWait(u)
    BY DEF InPlace, LastWait, Base, Working
  <1>6. ASSUME NEW u \in Thread \ {Master}, Phase(u) PROVE Phase(u)'
    BY <1>1, <1>2, <1>4, <1>6 DEF InPlace, Phase, Base, Working
  <1>7. Phases => Phases'
    BY <1>6 DEF Phases, InPlace
  <1> QED BY <1>3, <1>4, <1>5, <1>7

(* What a step does to a deque, as far as tasks are in it that are not      *)
(* proxy tasks: nothing, or it removes the oldest.                          *)
Sheds(k, u) ==
    \E d \in {0, 1} : \A x \in Tasks \ Proxies : \A i \in Nat :
        Queued(x, k, u, i)' <=> i >= 1 /\ Queued(x, k, u, i + d)

FoundKept == \A k \in 0..1 : team[k].found => team'[k].found
ParentsKept == \A x \in Tasks \ Proxies : InDeque(x) => parent'[x] = parent[x]

(* What is in a thread's deques was there before, or the thread put it      *)
(* there before its barrier was opened.                                     *)
QueuesOwn(u) ==
    \A x \in Tasks \ Proxies : \A k \in 0..1 : \A i \in Nat :
        Queued(x, k, u, i)' =>
            \/ \E j \in Nat : Queued(x, k, u, j)
            \/ ~IsOpen(u) /\ parity[u] = k /\ team'[k].found /\ (x \in Mutex => parent'[x] = u)

LEMMA QueuedKept ==
    ASSUME InPlace, Attached, FoundKept, ParentsKept, NEW u \in Thread, QueuedRight(u), QueuesOwn(u)
    PROVE  QueuedRight(u)'
  <1> SUFFICES ASSUME NEW x \in Tasks \ Proxies, NEW k \in 0..1, NEW i \in Nat, Queued(x, k, u, i)'
               PROVE  /\ ~IsOpen(u)' /\ parity'[u] = k /\ team'[k].found
                      /\ x \in Mutex => parent'[x] = u
    BY DEF QueuedRight
  <1>1. IsOpen(u)' <=> IsOpen(u)
    BY InPlaceKeeps DEF Attached
  <1>2. ASSUME NEW j \in Nat, Queued(x, k, u, j)
        PROVE  ~IsOpen(u) /\ parity[u] = k /\ team'[k].found /\ (x \in Mutex => parent'[x] = u)
    <2>1. ~IsOpen(u) /\ parity[u] = k /\ team[k].found /\ (x \in Mutex => parent[x] = u)
      BY <1>2 DEF QueuedRight
    <2>2. InDeque(x)
      BY <1>2 DEF InDeque
    <2> QED BY <2>1, <2>2 DEF FoundKept, ParentsKept
  <1> QED BY <1>1, <1>2 DEF InPlace, QueuesOwn

(* A thread another one's step leaves alone.                                *)
Untouched(u) ==
    /\ stack'[u] = stack[u] /\ finished'[u] = finished[u]
    /\ incomplete'[u] = incomplete[u] \/ OwedTo(u) # {}

LEMMA OwedCounts ==
    ASSUME CountInv, NEW u \in Thread, incomplete[u] = 0
    PROVE  OwedTo(u) = {}
  <1>1. Cardinality(OwedTo(u)) = 0
    BY DEF CountInv, Counts, Tallied
  <1> QED BY <1>1, OwedFinite, FS_EmptySet

LEMMA Bystander ==
    ASSUME CountInv, Attached, InPlace, FoundKept, ParentsKept, NEW u \in Thread, ThreadInv(u),
           Untouched(u), Sheds(0, u), Sheds(1, u)
    PROVE  ThreadInv(u)'
  <1>1. /\ IsOpen(u)' <=> IsOpen(u)
        /\ LastWait(u)' <=> LastWait(u)
        /\ Depth(u)' = Depth(u) /\ stack'[u] = stack[u] /\ finished'[u] = finished[u]
        /\ parity'[u] = parity[u] /\ parity[u] \in 0..1
    BY InPlaceKeeps DEF Attached, Untouched, Depth, InPlace
  <1>2. \A x \in Tasks \ Proxies : \A k \in 0..1 : \A i \in Nat :
            Queued(x, k, u, i)' => \E j \in Nat : Queued(x, k, u, j)
    <2> SUFFICES ASSUME NEW x \in Tasks \ Proxies, NEW k \in 0..1, NEW i \in Nat, Queued(x, k, u, i)'
                 PROVE  \E j \in Nat : Queued(x, k, u, j)
      OBVIOUS
    <2>1. Sheds(k, u)
      OBVIOUS
    <2>2. PICK d \in {0, 1} : \A i0 \in Nat : Queued(x, k, u, i0)' <=> i0 >= 1 /\ Queued(x, k, u, i0 + d)
      BY <2>1 DEF Sheds
    <2>3. i + d \in Nat /\ Queued(x, k, u, i + d)
      BY <2>2
    <2> QED BY <2>3
  <1>3. QueuedRight(u)'
    BY <1>2, QueuedKept DEF ThreadInv, QueuesOwn
  <1>4. FinishedRight(u)'
    <2> SUFFICES ASSUME LastWait(u)', finished'[u]
                 PROVE  Emptied(u)' /\ incomplete'[u] = 0 /\ Plain(u)'
      BY DEF FinishedRight
    <2>1. Emptied(u) /\ incomplete[u] = 0 /\ Plain(u)
      BY <1>1 DEF ThreadInv, FinishedRight
    <2>2. incomplete'[u] = 0
      BY <2>1, OwedCounts DEF Untouched
    <2>3. Emptied(u)'
      BY <1>1, <2>1 DEF Emptied
    <2>4. Plain(u)'
      BY <1>2, <2>1 DEF Plain
    <2> QED BY <2>2, <2>3, <2>4
  <1>5. OpenedRight(u)'
    BY <1>1 DEF ThreadInv, OpenedRight, Still
  <1>6. QuietRight(u)'
    BY <1>1 DEF ThreadInv, QuietRight, Still, Base, FoundKept
  <1>7. LookedRight(u)'
    <2> SUFFICES ASSUME LastWait(u)', stack'[u][1].at \in {"steal", "dry"}
                 PROVE  Depth(u)' = 1 /\ Leftover(u)'
      BY DEF LookedRight
    <2>1. Depth(u) = 1 /\ Leftover(u)
      BY <1>1 DEF ThreadInv, LookedRight
    <2>2. ASSUME NEW x \in Tasks \ Proxies, NEW k \in 0..1, NEW i \in Nat, Queued(x, k, u, i)'
          PROVE  \E y \in Mutex : \E j \in Nat : j >= i /\ Queued(y, k, u, j)'
      <3>1. Sheds(k, u)
        OBVIOUS
      <3>2. PICK d \in {0, 1} : \A z \in Tasks \ Proxies : \A i0 \in Nat :
                Queued(z, k, u, i0)' <=> i0 >= 1 /\ Queued(z, k, u, i0 + d)
        BY <3>1 DEF Sheds
      <3>3. i >= 1 /\ i + d \in Nat /\ Queued(x, k, u, i + d)
        BY <2>2, <3>2
      <3>4. PICK y \in Mutex, j \in Nat : j >= i + d /\ Queued(y, k, u, j)
        BY <2>1, <3>3 DEF Leftover
      <3>5. y \in Tasks \ Proxies /\ j - d \in Nat /\ j - d >= i /\ j = (j - d) + d
        BY <3>3, <3>4, TaskAssumption
      <3>6. PICK e \in Nat : e = j - d
        BY <3>5
      <3>7. e >= i /\ Queued(y, k, u, e)'
        BY <3>2, <3>3, <3>4, <3>5, <3>6
      <3> QED BY <3>4, <3>7
    <2> QED BY <1>1, <2>1, <2>2 DEF Leftover
  <1> QED BY <1>3, <1>4, <1>5, <1>6, <1>7 DEF ThreadInv

LEMMA OutsideKept ==
    ASSUME InPlace, Attached, FoundKept, OutsideRight,
           \A x \in Proxies : Outside(x)' =>
               \/ Outside(x) /\ parent'[x] = parent[x]
               \/ \E u \in Thread : parent'[x] = u /\ ~IsOpen(u) /\ team'[parity[u]].found
    PROVE  OutsideRight'
  <1> SUFFICES ASSUME NEW x \in Proxies, Outside(x)'
               PROVE  parent'[x] \in Thread /\ ~IsOpen(parent[x])' /\ team'[parity'[parent'[x]]].found
    BY DEF OutsideRight
  <1>1. PICK u \in Thread : parent'[x] = u /\ ~IsOpen(u) /\ team'[parity[u]].found
    <2>1. CASE Outside(x) /\ parent'[x] = parent[x]
      BY <2>1 DEF OutsideRight, FoundKept, Attached
    <2> QED BY <2>1
  <1>2. ~IsOpen(u)'
    BY <1>1, InPlaceKeeps DEF Attached
  <1>3. IsOpen(parent[x])' <=> IsOpen(u)'
    BY <1>1 DEF IsOpen
  <1> QED BY <1>1, <1>2, <1>3 DEF InPlace

(* A task team changes only in that a task is found in one whose barrier    *)
(* has not been opened.                                                     *)
TeamKept ==
    \A k \in 0..1 : /\ team'[k].unfinished = team[k].unfinished /\ team'[k].active = team[k].active
                    /\ team'[k].found => team[k].found \/ ~Spent(k)

LEMMA CountsKept ==
    ASSUME InPlace, TeamCounts, TeamKept, UNCHANGED finished
    PROVE  TeamCounts'
  <1>0. Master \in Thread
    BY TeamAssumption DEF Master, Thread
  <1>1. \A k \in 0..1 : {u \in Thread : ~Fin(u, k)}' = {u \in Thread : ~Fin(u, k)}
    <2>1. \A u \in Thread : \A k \in 0..1 : Fin(u, k)' <=> Fin(u, k)
      BY InPlaceKeeps DEF Fin, InPlace
    <2> QED BY <2>1
  <1>2. Base(Master)' \in {"gather", "teamwait"} => Base(Master) \in {"gather", "teamwait"}
    BY <1>0 DEF InPlace, Base, Working
  <1> QED BY <1>1, <1>2, InPlaceKeeps DEF TeamCounts, TeamKept

-----------------------------------------------------------------------------
(* The thread that takes the step.                                          *)

(* Whoever is at work in a task has not passed his barrier.                 *)
LEMMA AtWork ==
    ASSUME CountInv, Attached, BarrierInv, NEW t \in Thread, Top(t).doing \notin {"bottom", "free"},
           Depth(t) # 1 \/ Base(t) \in Working
    PROVE  /\ ~IsOpen(t)
           /\ LastWait(t) => ~finished[t]
  <1>1. /\ Depth(t) \in Nat /\ Depth(t) >= 1 /\ Top(t) = stack[t][Depth(t)]
    BY FrameTop
  <1>2. Base(t) = "letgo" => Depth(t) = 1
    BY <1>1 DEF CountInv, Shape, Base, Working
  <1>3. LastWait(t) => ~finished[t]
    <2>1. CASE Depth(t) = 1
      BY <2>1 DEF LastWait, Working
    <2>2. CASE Depth(t) # 1
      <3>1. Depth(t) \in 2..Depth(t)
        BY <1>1, <2>2
      <3>2. ~Emptied(t)
        BY <1>1, <3>1 DEF Emptied
      <3> QED BY <3>2 DEF BarrierInv, ThreadInv, FinishedRight
    <2> QED BY <2>1, <2>2
  <1>4. CASE t = Master
    BY <1>2, <1>3, <1>4 DEF IsOpen, Spent, Working
  <1>5. CASE t # Master
    <2>1. IsOpen(t) => Base(t) = "release"
      BY <1>5 DEF BarrierInv, Phases, Phase
    <2>2. IsOpen(t) => finished[t] \/ Depth(t) = 1
      BY <1>5 DEF BarrierInv, ThreadInv, OpenedRight, Still
    <2> QED BY <1>3, <2>1, <2>2 DEF LastWait, Working
  <1> QED BY <1>3, <1>4, <1>5

LEMMA WorkingRight ==
    ASSUME CountInv, Attached, BarrierInv, InPlace, NEW t \in Thread, stack'[t][1].doing \in Working,
           QueuedRight(t)'
    PROVE  ThreadInv(t)'
  <1>1. Phases'
    BY InPlaceKeeps DEF Attached, BarrierInv
  <1>2. ~LastWait(t)' /\ Base(t)' \notin {"gather", "release", "teamwait"}
    BY DEF LastWait, Base, Working
  <1>3. OpenedRight(t)'
    BY <1>1, <1>2 DEF OpenedRight, Phases, Phase
  <1> QED BY <1>2, <1>3 DEF ThreadInv, FinishedRight, QuietRight, LookedRight

(* It executes a task in a barrier.                                         *)
LEMMA DeepRight ==
    ASSUME CountInv, Attached, BarrierInv, InPlace, FoundKept, NEW t \in Thread, Depth(t) # 1,
           stack'[t][1] = stack[t][1], finished'[t] = finished[t],
           LastWait(t) /\ finished[t] => Emptied(t)' /\ incomplete'[t] = incomplete[t] /\ Plain(t)',
           QueuedRight(t)'
    PROVE  ThreadInv(t)'
  <1>1. /\ IsOpen(t)' <=> IsOpen(t)
        /\ LastWait(t)' <=> LastWait(t)
        /\ parity'[t] = parity[t] /\ parity[t] \in 0..1 /\ Base(t)' = Base(t)
    BY InPlaceKeeps DEF Attached, InPlace, Base
  <1>2. ThreadInv(t) /\ ~Still(t)
    BY DEF BarrierInv, Still
  <1>3. FinishedRight(t)'
    BY <1>1, <1>2 DEF ThreadInv, FinishedRight
  <1>4. OpenedRight(t)'
    BY <1>1, <1>2 DEF ThreadInv, OpenedRight
  <1>5. QuietRight(t)'
    BY <1>1, <1>2 DEF ThreadInv, QuietRight, FoundKept
  <1>6. LookedRight(t)'
    BY <1>1, <1>2 DEF ThreadInv, LookedRight
  <1> QED BY <1>3, <1>4, <1>5, <1>6 DEF ThreadInv

(* What the work of a thread in a task leaves to the others.                *)
Others(t) ==
    \A u \in Thread \ {t} : Untouched(u) /\ Sheds(0, u) /\ Sheds(1, u)

OutsideOwn ==
    \A x \in Proxies : Outside(x)' =>
        \/ Outside(x) /\ parent'[x] = parent[x]
        \/ \E u \in Thread : parent'[x] = u /\ ~IsOpen(u) /\ team'[parity[u]].found

(* A step of the code of a task, or of its end.                             *)
WorkStep(t) ==
    /\ Top(t).doing \in Working \union Ends
    /\ UNCHANGED <<parity, ptr, finished, arrived, go>>
    /\ \A u \in Thread \ {t} : stack'[u] = stack[u]
    /\ IF Depth(t) = 1 THEN stack'[t][1].doing \in Working ELSE stack'[t][1] = stack[t][1]

LEMMA WorkKeeps ==
    ASSUME CountInv, Attached, BarrierInv, TeamTypes', NEW t \in Thread, WorkStep(t), Others(t),
           FoundKept, ParentsKept, TeamKept, QueuesOwn(t), OutsideOwn,
           Top(t).doing \in {"bottom", "free"} =>
               (Emptied(t) => Emptied(t)') /\ incomplete'[t] = incomplete[t] /\ (Plain(t) => Plain(t)')
    PROVE  BarrierInv'
  <1>0. /\ Depth(t) \in Nat /\ Depth(t) >= 1 /\ Top(t) = stack[t][Depth(t)]
        /\ Depth(t) = 1 => Base(t) \in Working
    BY FrameTop DEF Base, WorkStep, Working, InBarrier, Ends, Halves
  <1>1. InPlace
    <2>1. ASSUME NEW u \in Thread
          PROVE  /\ \/ stack'[u][1].doing = Base(u)
                    \/ Base(u) \in Working /\ stack'[u][1].doing \in Working
                 /\ Base(u) = "letgo" => stack'[u][1] = stack[u][1]
      BY <1>0, <2>1 DEF WorkStep, Base, Working
    <2> QED BY <2>1 DEF InPlace, WorkStep
  <1>2. OnTeam' /\ Phases' /\ OutsideRight' /\ TeamCounts'
    <2>1. OnTeam'
      BY DEF WorkStep, BarrierInv, OnTeam
    <2>2. Phases' /\ OutsideRight' /\ TeamCounts'
      BY <1>1, InPlaceKeeps, OutsideKept, CountsKept DEF BarrierInv, Attached, OutsideOwn, WorkStep
    <2> QED BY <2>1, <2>2
  <1>3. QueuedRight(t)'
    BY <1>1, QueuedKept DEF BarrierInv, ThreadInv
  <1>4. ThreadInv(t)'
    <2>1. CASE stack'[t][1].doing \in Working
      BY <1>1, <1>3, <2>1, WorkingRight
    <2>2. CASE stack'[t][1].doing \notin Working
      <3>1. Depth(t) # 1 /\ stack'[t][1] = stack[t][1] /\ finished'[t] = finished[t]
        BY <2>2 DEF WorkStep
      <3>2. LastWait(t) /\ finished[t] => Emptied(t)' /\ incomplete'[t] = incomplete[t] /\ Plain(t)'
        <4>1. CASE Top(t).doing \in {"bottom", "free"}
          BY <4>1 DEF BarrierInv, ThreadInv, FinishedRight
        <4>2. CASE Top(t).doing \notin {"bottom", "free"}
          BY <3>1, <4>2, AtWork
        <4> QED BY <4>1, <4>2
      <3> QED BY <1>1, <1>3, <3>1, <3>2, DeepRight
    <2> QED BY <2>1, <2>2
  <1>5. ASSUME NEW u \in Thread \ {t} PROVE ThreadInv(u)'
    BY <1>1, Bystander DEF Others, BarrierInv
  <1> QED BY <1>2, <1>4, <1>5 DEF BarrierInv

(* Steps that queue nothing and take nothing.                               *)
LEMMA SameDeques ==
    ASSUME BarrierInv, UNCHANGED <<deque, parent, ext, team, finished, arrived, go>>
    PROVE  /\ TeamTypes' /\ FoundKept /\ ParentsKept /\ TeamKept /\ OutsideOwn
           /\ \A u \in Thread : Sheds(0, u) /\ Sheds(1, u) /\ QueuesOwn(u) /\ (Plain(u) => Plain(u)')
  <1>1. TeamTypes' /\ FoundKept /\ ParentsKept /\ TeamKept /\ OutsideOwn
    BY DEF BarrierInv, TeamTypes, FoundKept, ParentsKept, TeamKept, OutsideOwn, Outside
  <1>2. \A u \in Thread : QueuesOwn(u) /\ (Plain(u) => Plain(u)')
    BY DEF QueuesOwn, Plain, Queued
  <1>3. ASSUME NEW u \in Thread, NEW k \in 0..1 PROVE Sheds(k, u)
    <2>1. \A x : \A i \in Nat : Queued(x, k, u, i)' <=> i >= 1 /\ Queued(x, k, u, i + 0)
      BY DEF Queued
    <2> QED BY <2>1 DEF Sheds
  <1> QED BY <1>1, <1>2, <1>3

(* The first frame of the stack.                                            *)
LEMMA FirstFrame ==
    ASSUME CountInv, NEW t \in Thread, NEW f
    PROVE  /\ f \in Frames /\ Become(t, f) =>
                  stack'[t][1] = IF Depth(t) = 1 THEN f ELSE stack[t][1]
           /\ f \in Frames /\ Begin(t, f) => stack'[t][1] = stack[t][1]
           /\ Return(t) /\ Depth(t) # 1 => stack'[t][1] = stack[t][1]
  <1>1. StackTypes /\ Depth(t) \in Nat /\ Depth(t) >= 1 /\ 1 \in 1..Depth(t)
    BY FrameTop DEF CountInv
  <1>2. ASSUME f \in Frames, Become(t, f) PROVE stack'[t][1] = IF Depth(t) = 1 THEN f ELSE stack[t][1]
    <2>1. \A i \in 1..Depth(t) : stack'[t][i] = IF t = t /\ i = Depth(t) THEN f ELSE stack[t][i]
      BY <1>1, <1>2, BecomeStack
    <2> QED BY <1>1, <2>1
  <1>3. ASSUME f \in Frames, Begin(t, f) PROVE stack'[t][1] = stack[t][1]
    BY <1>1, <1>3, BeginStack
  <1>4. ASSUME Return(t), Depth(t) # 1 PROVE stack'[t][1] = stack[t][1]
    <2>1. Len(stack'[t]) = Depth(t) - 1 /\ \A i \in 1..Len(stack'[t]) : stack'[t][i] = stack[t][i]
      BY <1>1, <1>4, ReturnStack
    <2>2. 1 \in 1..Len(stack'[t])
      BY <1>1, <1>4, <2>1
    <2> QED BY <2>1, <2>2
  <1> QED BY <1>2, <1>3, <1>4

(* A thread that frees tasks has only such frames above its first, after it *)
(* goes on with another as well.                                            *)
LEMMA StillEmptied ==
    ASSUME CountInv, NEW t \in Thread, Emptied(t), Depth(t) # 1, NEW f \in Frames,
           Return(t) \/ (Become(t, f) /\ f.doing \in {"bottom", "free"})
    PROVE  Emptied(t)'
  <1>1. StackTypes /\ Depth(t) \in Nat /\ Depth(t) >= 1
    BY FrameTop DEF CountInv
  <1>2. CASE Return(t)
    <2>1. Len(stack'[t]) = Depth(t) - 1 /\ \A i \in 1..Len(stack'[t]) : stack'[t][i] = stack[t][i]
      BY <1>1, <1>2, ReturnStack
    <2> QED BY <1>1, <2>1 DEF Emptied, Depth
  <1>3. CASE Become(t, f) /\ f.doing \in {"bottom", "free"}
    <2>1. Len(stack'[t]) = Depth(t)
          /\ \A i \in 1..Depth(t) : stack'[t][i] = IF t = t /\ i = Depth(t) THEN f ELSE stack[t][i]
      BY <1>1, <1>3, BecomeStack
    <2> QED BY <1>1, <1>3, <2>1 DEF Emptied, Depth
  <1> QED BY <1>2, <1>3

LEMMA GoKeeps ==
    ASSUME CountInv, Attached, BarrierInv, NEW t \in Thread, Top(t).doing \in Working \union Ends,
           NEW d \in Working \union Ends, NEW a \in Places, Go(t, d, a),
           Depth(t) = 1 => d \in Working,
           UNCHANGED <<deque, parent, ext, team, parity, ptr, finished, arrived, go>>,
           \A u \in Thread : incomplete'[u] = incomplete[u] \/ OwedTo(u) # {},
           Top(t).doing \in {"bottom", "free"} => d = "free" /\ UNCHANGED incomplete
    PROVE  BarrierInv'
  <1>1. PICK f \in Frames : f = Frame(Current(t), d, a) /\ f.doing = d
    <2> DEFINE g == Frame(Current(t), d, a)
    <2>1. g \in Frames /\ g.doing = d
      BY FrameTop DEF Frame, Frames, Places, Working, Ends, Halves, Actions
    <2> HIDE DEF g
    <2>2. \E f \in Frames : f = g /\ f.doing = d
      BY <2>1
    <2> QED BY <2>2 DEF g
  <1>2. Become(t, f) /\ \A u \in Thread \ {t} : stack'[u] = stack[u]
    BY <1>1, OneStack DEF Go, CountInv
  <1>3. WorkStep(t)
    BY <1>1, <1>2, FirstFrame DEF WorkStep
  <1>4. Others(t)
    BY <1>2, SameDeques DEF Others, Untouched
  <1>5. ASSUME Top(t).doing \in {"bottom", "free"}
        PROVE  (Emptied(t) => Emptied(t)') /\ incomplete'[t] = incomplete[t]
    <2>1. Depth(t) # 1
      BY <1>5, FrameTop DEF Working, InBarrier
    <2>2. f.doing \in {"bottom", "free"}
      BY <1>1, <1>5
    <2> QED BY <1>2, <1>5, <2>1, <2>2, StillEmptied
  <1> QED BY <1>3, <1>4, <1>5, SameDeques, WorkKeeps

LEMMA FreeKeeps ==
    ASSUME CountInv, Attached, BarrierInv, NEW t \in Thread, FreeTask(t)
    PROVE  BarrierInv'
  <1> USE DEF tree, teams, sync
  <1>1. /\ Top(t).doing = "free"
        /\ UNCHANGED <<deque, parent, ext, team, incomplete, parity, ptr, finished, arrived, go>>
    BY DEF FreeTask, Doing
  <1>2. Depth(t) # 1 /\ parent[Current(t)] \in Tasks \union Thread
    BY <1>1, FrameTop DEF Working, InBarrier
  <1>3. PICK f \in Frames : f = Frame(parent[Current(t)], "free", "-") /\ f.doing = "free"
    <2> DEFINE g == Frame(parent[Current(t)], "free", "-")
    <2>1. g \in Frames /\ g.doing = "free"
      BY <1>2 DEF Frame, Frames, Places, Actions
    <2> HIDE DEF g
    <2>2. \E f \in Frames : f = g /\ f.doing = "free"
      BY <2>1
    <2> QED BY <2>2 DEF g
  <1>4. Return(t) \/ Become(t, f)
    BY <1>3 DEF FreeTask
  <1>5. \A u \in Thread \ {t} : stack'[u] = stack[u]
    BY <1>4, OneStack DEF CountInv
  <1>6. WorkStep(t)
    BY <1>1, <1>2, <1>4, <1>5, FirstFrame DEF WorkStep, Ends
  <1>7. Others(t)
    BY <1>1, <1>5, SameDeques DEF Others, Untouched
  <1>8. Emptied(t) => Emptied(t)'
    BY <1>2, <1>3, <1>4, StillEmptied
  <1> QED BY <1>1, <1>6, <1>7, <1>8, SameDeques, WorkKeeps

LEMMA EndKeeps ==
    ASSUME CountInv, Attached, BarrierInv, NEW t \in Thread,
           \/ CountParent(t) \/ CountGroup(t) \/ ProxyTopHalf(t) \/ BottomHalf(t) \/ End(t)
           \/ Taskwait(t) \/ EndGroup(t) \/ LeaveTaskwait(t) \/ LeaveGroup(t)
    PROVE  BarrierInv'
  <1> USE DEF tree, teams, sync, Places
  <1>1. PICK x : x = Current(t)
    OBVIOUS
  <1>2. UNCHANGED <<deque, parent, ext, team, parity, ptr, finished, arrived, go>>
    BY DEF CountParent, CountGroup, ProxyTopHalf, FirstTopHalf, BottomHalf, End, Taskwait, EndGroup,
           LeaveTaskwait, LeaveGroup
  <1>3. /\ Depth(t) \in Nat /\ Depth(t) >= 1 /\ Top(t) = stack[t][Depth(t)] /\ x = stack[t][Depth(t)].task
        /\ Depth(t) = 1 => x = t /\ Top(t).doing \notin Ends
        /\ Depth(t) # 1 => x \in Tasks
    BY <1>1, FrameTop DEF Working, InBarrier, Ends, Halves
  <1>4. PICK d \in Working \union Ends, a \in Places :
            /\ Go(t, d, a) /\ Top(t).doing \in Working \union Ends
            /\ d \in Working \/ Top(t).doing \in Ends \/ x \in Tasks
            /\ Top(t).doing \in {"bottom", "free"} => d = "free" /\ UNCHANGED incomplete
    <2>1. CASE CountParent(t)
      <3>1. PICK d \in {"free", "countgroup"} : Go(t, d, "-")
        BY <2>1 DEF CountParent
      <3> QED BY <2>1, <3>1 DEF CountParent, Doing, Ends
    <2>2. CASE ProxyTopHalf(t)
      BY <2>2 DEF ProxyTopHalf, Doing, Ends, Halves
    <2>3. CASE CountGroup(t) \/ BottomHalf(t) \/ End(t)
      BY <1>1, <2>3 DEF CountGroup, BottomHalf, End, Doing, Ends, Working
    <2>4. CASE Taskwait(t) \/ EndGroup(t) \/ LeaveTaskwait(t) \/ LeaveGroup(t)
      BY <2>4 DEF Taskwait, EndGroup, LeaveTaskwait, LeaveGroup, Doing, Working
    <2> QED BY <2>1, <2>2, <2>3, <2>4
  <1>5. Depth(t) = 1 => d \in Working
    BY <1>3, <1>4, TaskAssumption
  <1>6. \A u \in Thread : incomplete'[u] = incomplete[u] \/ OwedTo(u) # {}
    <2>1. CASE UNCHANGED incomplete
      BY <2>1
    <2>2. CASE incomplete' = [incomplete EXCEPT ![parent[x]] = @ - 1] /\ Top(t).doing \in {"count", "top2"}
      <3>1. Depth(t) # 1 /\ x \in Tasks /\ Depth(t) \in 1..Depth(t)
        BY <1>3, <2>2 DEF Ends, Halves
      <3>2. Hold(x, t, Depth(t))
        BY <1>3, <2>2, <3>1 DEF Hold, Owing
      <3>3. x \in OwedTo(parent[x])
        BY <3>1, <3>2, <1>3 DEF OwedTo, Owed, OnStack
      <3> QED BY <2>2, <3>3 DEF CountInv, TaskTypes
    <2>3. CASE (\E n : incomplete' = [incomplete EXCEPT ![x] = n]) /\ Top(t).doing \in Ends
      <3>1. x \in Tasks
        BY <1>3, <2>3
      <3> QED BY <2>3, <3>1, TaskAssumption DEF CountInv, TaskTypes
    <2> QED BY <1>1, <2>1, <2>2, <2>3 DEF CountParent, CountGroup, ProxyTopHalf, FirstTopHalf, BottomHalf, End,
               Taskwait, EndGroup, LeaveTaskwait, LeaveGroup, Doing, Ends, Halves
  <1> QED BY <1>2, <1>4, <1>5, <1>6, GoKeeps

LEMMA GroupKeeps ==
    ASSUME CountInv, Attached, BarrierInv, NEW t \in Thread, NEW g \in Groups, StartGroup(t, g)
    PROVE  BarrierInv'
  <1> USE DEF tree, teams, sync
  <1>1. /\ Top(t).doing = "run" /\ UNCHANGED stack
        /\ UNCHANGED <<deque, parent, ext, team, incomplete, parity, ptr, finished, arrived, go>>
    BY DEF StartGroup, Doing
  <1>2. Depth(t) = 1 => stack[t][1].doing \in Working
    BY <1>1, FrameTop DEF Working
  <1>3. WorkStep(t)
    BY <1>1, <1>2 DEF WorkStep, Working
  <1>4. Others(t)
    BY <1>1, SameDeques DEF Others, Untouched
  <1> QED BY <1>1, <1>3, <1>4, SameDeques, WorkKeeps

(* Where explicit tasks too create tasks, none of them is a proxy task or   *)
(* depends on others.                                                       *)
Direct == Anywhere => Proxies \union Mutex = {}

(* A running thread's task team is that of a barrier not yet opened.        *)
LEMMA Ongoing ==
    ASSUME CountInv, Attached, BarrierInv, NEW t \in Thread, Doing(t, "run")
    PROVE  /\ ~IsOpen(t) /\ ptr[t] = parity[t] /\ parity[t] \in 0..1 /\ ~Spent(parity[t])
           /\ Depth(t) = 1 => stack[t][1].doing \in Working
           /\ Current(t) \in Tasks \union {t}
           /\ Current(t) \in Thread => Current(t) = t
  <1>1. Top(t).doing = "run" /\ (Depth(t) = 1 => stack[t][1].doing \in Working)
    BY FrameTop DEF Doing, Working
  <1>2. ptr[t] \in 0..1
    BY <1>1, Busy DEF CountInv
  <1>3. None \notin 0..1
    BY NoneAssumption, TeamAssumption DEF Thread
  <1>4. ptr[t] = parity[t] /\ parity[t] \in 0..1
    BY <1>2, <1>3 DEF BarrierInv, OnTeam
  <1>5. ~IsOpen(t)
    BY <1>1, AtWork DEF Base
  <1>6. Current(t) \in Tasks \union {t} /\ (Current(t) \in Thread => Current(t) = t)
    BY FrameTop, TaskAssumption
  <1> QED BY <1>1, <1>4, <1>5, <1>6 DEF IsOpen

LEMMA CreateKeeps ==
    ASSUME CountInv, Attached, BarrierInv, Direct, NEW t \in Thread, NEW x \in Tasks,
           CreateDeferred(t, x) \/ CreateUndeferred(t, x) \/ CreateProxy(t, x)
    PROVE  BarrierInv'
  <1> USE DEF tree, teams, sync
  <1>1. PICK y : y = Current(t)
    OBVIOUS
  <1>2. /\ Doing(t, "run") /\ life[x] = "none"
        /\ x \in Proxies \union Mutex => Anywhere \/ y \in Thread
        /\ parent' = [parent EXCEPT ![x] = y] /\ incomplete' = [incomplete EXCEPT ![y] = @ + 1]
        /\ UNCHANGED <<parity, ptr, finished, arrived, go>>
    BY <1>1 DEF CreateDeferred, CreateUndeferred, CreateProxy, MayCreate, Allocate
  <1>3. PICK k \in 0..1 : k = parity[t] /\ k = ptr[t] /\ ~IsOpen(t) /\ ~Spent(k)
    BY <1>2, Ongoing
  <1>4. y \in Tasks \union {t} /\ (x \in Proxies \union Mutex => y = t)
    BY <1>1, <1>2, Ongoing DEF Direct
  <1>5. ParentsKept
    <2>1. \A z \in Tasks : InDeque(z) => z # x
      BY <1>2 DEF CountInv, Known
    <2> QED BY <1>2, <2>1 DEF ParentsKept, CountInv, TaskTypes
  <1>6. \A u \in Thread \ {t} : incomplete'[u] = incomplete[u]
    BY <1>2, <1>4, TaskAssumption DEF CountInv, TaskTypes
  <1>7. \A z \in Proxies : Outside(z) => z # x /\ parent'[z] = parent[z]
    BY <1>2, TaskAssumption DEF CountInv, Known, Outside, TaskTypes
  <1>8. parent'[x] = y
    BY <1>2 DEF CountInv, TaskTypes
  <1>9. /\ TeamTypes'
        /\ \A l \in 0..1 : /\ team'[l].unfinished = team[l].unfinished /\ team'[l].active = team[l].active
                           /\ team[l].found => team'[l].found
                           /\ team'[l].found => team[l].found \/ l = k
        /\ CreateDeferred(t, x) \/ CreateProxy(t, x) => team'[k].found
    <2>1. CASE CreateDeferred(t, x) \/ CreateProxy(t, x)
      <3>1. PICK b \in BOOLEAN : team' = [team EXCEPT ![k] = [team[k] EXCEPT !.found = TRUE, !.proxies = b]]
        <4>1. CASE CreateDeferred(t, x)
          <5>1. team' = [team EXCEPT ![k] = [team[k] EXCEPT !.found = TRUE]]
            BY <1>3, <4>1 DEF CreateDeferred
          <5>2. team[k].proxies \in BOOLEAN /\ [team[k] EXCEPT !.found = TRUE, !.proxies = team[k].proxies]
                                                = [team[k] EXCEPT !.found = TRUE]
            BY DEF BarrierInv, TeamTypes
          <5> QED BY <5>1, <5>2
        <4>2. CASE CreateProxy(t, x)
          <5>1. team' = [team EXCEPT ![k].found = TRUE, ![k].proxies = TRUE]
            BY <1>3, <4>2 DEF CreateProxy
          <5>2. team' = [team EXCEPT ![k] = [team[k] EXCEPT !.found = TRUE, !.proxies = TRUE]]
            BY <5>1 DEF BarrierInv, TeamTypes
          <5> QED BY <5>2
        <4> QED BY <2>1, <4>1, <4>2
      <3>2. PICK r : r = [team[k] EXCEPT !.found = TRUE, !.proxies = b]
        OBVIOUS
      <3>3. /\ r \in [active : BOOLEAN, found : BOOLEAN, proxies : BOOLEAN, unfinished : Int]
            /\ r.found /\ r.unfinished = team[k].unfinished /\ r.active = team[k].active
        BY <3>2 DEF BarrierInv, TeamTypes
      <3>4. team' = [team EXCEPT ![k] = r]
        BY <3>1, <3>2
      <3> QED BY <1>2, <3>3, <3>4 DEF BarrierInv, TeamTypes
    <2>2. CASE CreateUndeferred(t, x) /\ ~(CreateDeferred(t, x) \/ CreateProxy(t, x))
      <3>1. UNCHANGED team
        BY <2>2 DEF CreateUndeferred
      <3> QED BY <1>2, <2>2, <3>1 DEF BarrierInv, TeamTypes
    <2> QED BY <2>1, <2>2
  <1>10. TeamTypes' /\ FoundKept /\ TeamKept
    BY <1>3, <1>9 DEF FoundKept, TeamKept
  <1>11. /\ \A u \in Thread \ {t} : stack'[u] = stack[u]
         /\ stack'[t][1] = stack[t][1]
    <2>1. CASE UNCHANGED stack
      BY <2>1
    <2>2. ASSUME NEW d \in {"run", "top1"}, Begin(t, Frame(x, d, "-"))
          PROVE  (\A u \in Thread \ {t} : stack'[u] = stack[u]) /\ stack'[t][1] = stack[t][1]
      <3>1. Frame(x, d, "-") \in Frames
        BY DEF Frame, Frames, Actions, Places
      <3> QED BY <2>2, <3>1, FirstFrame, OneStack DEF CountInv
    <2> QED BY <2>1, <2>2 DEF CreateDeferred, CreateUndeferred, CreateProxy, Run
  <1>12. WorkStep(t) /\ Top(t).doing \notin {"bottom", "free"}
    BY <1>2, <1>11, Ongoing DEF WorkStep, Doing, Working
  <1>13. \A u \in Thread \ {t} : \A l \in 0..1 : Sheds(l, u)
    <2>1. \A u \in Thread \ {t} : \A l \in 0..1 : deque'[l][u] = deque[l][u]
      BY <1>3 DEF CreateDeferred, CreateUndeferred, CreateProxy, CountInv, TaskTypes
    <2> SUFFICES ASSUME NEW u \in Thread \ {t}, NEW l \in 0..1 PROVE Sheds(l, u)
      OBVIOUS
    <2>2. \A z : \A i \in Nat : Queued(z, l, u, i)' <=> i >= 1 /\ Queued(z, l, u, i + 0)
      BY <2>1 DEF Queued
    <2> QED BY <2>2 DEF Sheds
  <1>14. Others(t)
    BY <1>2, <1>6, <1>11, <1>13 DEF Others, Untouched
  <1>15. QueuesOwn(t)
    <2>1. CASE UNCHANGED deque
      BY <2>1 DEF QueuesOwn, Queued
    <2>2. CASE CreateDeferred(t, x)
      <3>1. Appended(k, t, x) /\ DequeType
        BY <1>3, <2>2 DEF CreateDeferred, Appended, DequeType, CountInv, TaskTypes
      <3>2. \A z : \A l \in 0..1, u \in Thread : \A i \in Nat :
                Queued(z, l, u, i)' <=>
                    \/ Queued(z, l, u, i)
                    \/ z = x /\ l = k /\ u = t /\ i = Len(deque[l][u]) + 1
        BY <3>1, AppendDeque
      <3>3. team'[k].found
        BY <1>9, <2>2
      <3> QED BY <1>3, <1>4, <1>8, <3>2, <3>3 DEF QueuesOwn
    <2> QED BY <2>1, <2>2 DEF CreateUndeferred, CreateProxy
  <1>16. OutsideOwn
    <2> SUFFICES ASSUME NEW z \in Proxies, Outside(z)'
                 PROVE  \/ Outside(z) /\ parent'[z] = parent[z]
                        \/ \E u \in Thread : parent'[z] = u /\ ~IsOpen(u) /\ team'[parity[u]].found
      BY DEF OutsideOwn
    <2>1. CASE Outside(z)
      BY <1>7, <2>1
    <2>2. CASE ~Outside(z)
      <3>1. z = x /\ CreateProxy(t, x)
        BY <2>2 DEF CreateDeferred, CreateUndeferred, CreateProxy, Outside, CountInv, TaskTypes
      <3>2. team'[k].found
        BY <1>9, <3>1
      <3> QED BY <1>3, <1>4, <1>8, <3>1, <3>2
    <2> QED BY <2>1, <2>2
  <1> QED BY <1>5, <1>10, <1>12, <1>14, <1>15, <1>16, WorkKeeps

(* A proxy task is completed outside the team.                              *)
LEMMA CompleteKeeps ==
    ASSUME CountInv, Attached, BarrierInv, NEW x \in Proxies, Complete(x)
    PROVE  BarrierInv'
  <1> USE DEF tree, teams, sync
  <1>1. /\ UNCHANGED <<stack, parent, team, parity, ptr, finished, arrived, go>>
        /\ x \in Tasks /\ ext[x] # "none"
    BY TaskAssumption DEF Complete, ExtFirstTop, ExtGive, ExtCountParent, ExtRemoveChild, FirstTopHalf
  <1>2. InPlace /\ FoundKept /\ ParentsKept /\ TeamKept /\ TeamTypes' /\ OnTeam'
    BY <1>1 DEF InPlace, Base, FoundKept, ParentsKept, TeamKept, BarrierInv, TeamTypes, OnTeam
  <1>3. OutsideRight'
    <2>1. \A z \in Proxies : Outside(z)' => Outside(z) /\ parent'[z] = parent[z]
      BY <1>1 DEF Complete, ExtFirstTop, ExtGive, ExtCountParent, ExtRemoveChild, Outside, CountInv, TaskTypes
    <2> QED BY <1>2, <2>1, OutsideKept DEF BarrierInv
  <1>4. \A u \in Thread : \A k \in 0..1 : Sheds(k, u)
    <2>1. \A z \in Tasks \ Proxies : \A k \in 0..1, u \in Thread : \A i \in Nat :
              Queued(z, k, u, i)' <=> Queued(z, k, u, i)
      <3>1. CASE UNCHANGED deque
        BY <3>1 DEF Queued
      <3>2. CASE ExtGive(x)
        <4>1. PICK k, v : Appended(k, v, x)
          BY <3>2 DEF ExtGive, Appended
        <4>2. DequeType
          BY DEF CountInv, TaskTypes, DequeType
        <4>3. \A z : \A l \in 0..1, u \in Thread : \A i \in Nat :
                  Queued(z, l, u, i)' <=>
                      \/ Queued(z, l, u, i)
                      \/ z = x /\ l = k /\ u = v /\ i = Len(deque[l][u]) + 1
          BY <1>1, <4>1, <4>2, AppendDeque
        <4> QED BY <4>3
      <3> QED BY <3>1, <3>2 DEF Complete, ExtFirstTop, ExtCountParent, ExtRemoveChild
    <2> SUFFICES ASSUME NEW u \in Thread, NEW k \in 0..1 PROVE Sheds(k, u)
      OBVIOUS
    <2>2. \A z \in Tasks \ Proxies : \A i \in Nat :
              Queued(z, k, u, i)' <=> i >= 1 /\ Queued(z, k, u, i + 0)
      BY <2>1 DEF Queued
    <2> QED BY <2>2 DEF Sheds
  <1>5. \A u \in Thread : incomplete'[u] = incomplete[u] \/ OwedTo(u) # {}
    <2>1. CASE UNCHANGED incomplete
      BY <2>1
    <2>2. CASE \E n : incomplete' = [incomplete EXCEPT ![x] = n]
      BY <1>1, <2>2, TaskAssumption DEF CountInv, TaskTypes
    <2>3. CASE ExtCountParent(x)
      <3>1. x \in OwedTo(parent[x])
        BY <1>1, <2>3 DEF ExtCountParent, OwedTo, Owed, Outside
      <3> QED BY <2>3, <3>1 DEF ExtCountParent, CountInv, TaskTypes
    <2> QED BY <2>1, <2>2, <2>3 DEF Complete, ExtFirstTop, ExtGive, ExtRemoveChild, FirstTopHalf
  <1>6. ASSUME NEW u \in Thread PROVE ThreadInv(u)'
    <2>1. Untouched(u) /\ Sheds(0, u) /\ Sheds(1, u)
      BY <1>1, <1>4, <1>5 DEF Untouched
    <2> QED BY <1>2, <2>1, Bystander DEF BarrierInv
  <1>7. Phases' /\ TeamCounts'
    BY <1>1, <1>2, InPlaceKeeps, CountsKept DEF BarrierInv, Attached
  <1> QED BY <1>2, <1>3, <1>6, <1>7 DEF BarrierInv

-----------------------------------------------------------------------------
(* Waits.                                                                   *)

LEMMA TeamSize == IsFiniteSet(Thread) /\ Cardinality(Thread) = NProc
  <1>1. PICK n \in Int : n = NProc - 1 /\ n >= 1
    BY TeamAssumption
  <1>2. 0 \in Int /\ n \in Int
    OBVIOUS
  <1>3. IsFiniteSet(0..n) /\ Cardinality(0..n) = IF 0 > n THEN 0 ELSE n - 0 + 1
    BY <1>2, FS_Interval, Zenon
  <1>4. Thread = 0..n
    BY <1>1 DEF Thread
  <1>5. (IF 0 > n THEN 0 ELSE n - 0 + 1) = NProc
    BY <1>1, TeamAssumption
  <1> QED BY <1>3, <1>4, <1>5

(* A thread of a live task team finishes, or takes that back.               *)
LEMMA FlipKeepsCounts ==
    ASSUME TeamTypes, TeamCounts, Attached, InPlace, NEW t \in Thread, LastWait(t), ~IsOpen(t),
           finished' = [finished EXCEPT ![t] = ~finished[t]],
           team' = [team EXCEPT ![parity[t]].unfinished = IF finished[t] THEN @ + 1 ELSE @ - 1]
    PROVE  TeamTypes' /\ TeamCounts' /\ FoundKept
  <1>0. Master \in Thread
    BY TeamAssumption DEF Master, Thread
  <1>1. PICK k \in 0..1 : k = parity[t] /\ ~Spent(k)
    BY DEF Attached, IsOpen
  <1>2. PICK r : r = [team[k] EXCEPT !.unfinished = IF finished[t] THEN @ + 1 ELSE @ - 1]
    OBVIOUS
  <1>3. /\ team' = [team EXCEPT ![k] = r]
        /\ r \in [active : BOOLEAN, found : BOOLEAN, proxies : BOOLEAN, unfinished : Int]
        /\ r.found = team[k].found /\ r.active = team[k].active
        /\ r.unfinished = IF finished[t] THEN team[k].unfinished + 1 ELSE team[k].unfinished - 1
    BY <1>1, <1>2 DEF TeamTypes
  <1>4. TeamTypes' /\ FoundKept
    BY <1>1, <1>3 DEF TeamTypes, InPlace, FoundKept
  <1> DEFINE S(l) == {u \in Thread : ~Fin(u, l)}
  <1>5. /\ \A l \in 0..1 : l # k => S(l)' = S(l)
        /\ finished[t] => S(k)' = S(k) \union {t}
        /\ ~finished[t] => S(k)' = S(k) \ {t}
    <2>1. \A u \in Thread \ {t} : \A l \in 0..1 : Fin(u, l)' <=> Fin(u, l)
      BY InPlaceKeeps DEF Fin, InPlace, TeamTypes
    <2>2. \A l \in 0..1 : /\ Fin(t, l) <=> l = k /\ finished[t]
                          /\ Fin(t, l)' <=> l = k /\ ~finished[t]
      BY <1>1, InPlaceKeeps DEF Fin, InPlace, TeamTypes
    <2>3. ASSUME NEW l \in 0..1, l # k PROVE S(l)' = S(l)
      BY <2>1, <2>2, <2>3
    <2>4. ASSUME finished[t] PROVE S(k)' = S(k) \union {t}
      BY <1>1, <2>1, <2>2, <2>4
    <2>5. ASSUME ~finished[t] PROVE S(k)' = S(k) \ {t}
      BY <1>1, <2>1, <2>2, <2>5
    <2> QED BY <2>3, <2>4, <2>5
  <1>6. IsFiniteSet(S(k)) /\ Cardinality(S(k)) \in Nat
    BY TeamSize, FS_Subset, FS_CardinalityType
  <1>7. Cardinality(S(k)') = IF finished[t] THEN Cardinality(S(k)) + 1 ELSE Cardinality(S(k)) - 1
    <2>1. t \in S(k) <=> ~finished[t]
      BY <1>1 DEF Fin
    <2> HIDE DEF S
    <2>2. CASE finished[t]
      BY <1>1, <1>5, <1>6, <2>1, <2>2, FS_AddElement
    <2>3. CASE ~finished[t]
      BY <1>1, <1>5, <1>6, <2>1, <2>3, FS_RemoveElement
    <2> QED BY <2>2, <2>3
  <1>8. Base(Master)' \in {"gather", "teamwait"} => Base(Master) \in {"gather", "teamwait"}
    BY <1>0 DEF InPlace, Base, Working
  <1>9. TeamCounts'
    <2> SUFFICES ASSUME NEW l \in 0..1
                 PROVE  /\ ~Spent(l)' => team'[l].unfinished = Cardinality(S(l)')
                        /\ Spent(l)' /\ team'[l].active => team'[l].unfinished = NProc /\ ~team'[l].found
                        /\ Spent(l)' /\ Base(Master)' \in {"gather", "teamwait"} => team'[l].active
      BY DEF TeamCounts
    <2>1. Spent(l)' <=> Spent(l)
      BY InPlaceKeeps
    <2>2. /\ ~Spent(l) => team[l].unfinished = Cardinality(S(l))
          /\ Spent(l) /\ team[l].active => team[l].unfinished = NProc /\ ~team[l].found
          /\ Spent(l) /\ Base(Master) \in {"gather", "teamwait"} => team[l].active
      BY DEF TeamCounts
    <2> HIDE DEF S
    <2>3. CASE l = k
      BY <1>1, <1>3, <1>7, <2>1, <2>2, <2>3 DEF TeamTypes
    <2>4. CASE l # k
      BY <1>1, <1>3, <1>5, <1>8, <2>1, <2>2, <2>4 DEF TeamTypes
    <2> QED BY <2>3, <2>4
  <1> QED BY <1>4, <1>9

(* A thread that waits in a barrier and looks for a task.                   *)
LEMMA LookRight ==
    ASSUME Attached, InPlace, FoundKept, NEW t \in Thread, ThreadInv(t), QueuedRight(t)',
           Depth(t) = 1, Depth(t)' = 1, stack'[t][1].doing = stack[t][1].doing,
           UNCHANGED <<deque, incomplete>>,
           finished[t] => finished'[t],
           finished'[t] => finished[t] \/ (incomplete[t] = 0 /\ Plain(t)),
           IsOpen(t) => finished[t],
           IsOpen(t) \/ team[parity[t]].found,
           LastWait(t) /\ stack'[t][1].at \in {"steal", "dry"} => Leftover(t)
    PROVE  ThreadInv(t)'
  <1>1. /\ IsOpen(t)' <=> IsOpen(t)
        /\ LastWait(t)' <=> LastWait(t)
        /\ parity'[t] = parity[t] /\ parity[t] \in 0..1
    BY InPlaceKeeps DEF Attached, InPlace
  <1>2. Plain(t) => Plain(t)'
    BY DEF Plain, Queued
  <1>3. Leftover(t) => Leftover(t)'
    BY DEF Leftover, Queued
  <1>4. FinishedRight(t)'
    <2>1. Emptied(t)'
      BY DEF Emptied
    <2> QED BY <1>1, <1>2, <2>1 DEF ThreadInv, FinishedRight
  <1>5. OpenedRight(t)' /\ QuietRight(t)'
    BY <1>1 DEF OpenedRight, QuietRight, FoundKept
  <1>6. LookedRight(t)'
    BY <1>1, <1>3 DEF LookedRight
  <1> QED BY <1>4, <1>5, <1>6 DEF ThreadInv

InBarrierWait(t) == Top(t).doing \in {"gather", "release", "teamwait"}

LEMMA BarrierWait ==
    ASSUME CountInv, NEW t \in Thread, InBarrierWait(t)
    PROVE  /\ Depth(t) = 1 /\ Top(t) = stack[t][1] /\ Current(t) = t
           /\ LastWait(t) <=> Final(t)
  <1>1. Depth(t) = 1
    BY FrameTop DEF InBarrierWait, Working, Ends, Halves
  <1> QED BY <1>1, FrameTop DEF LastWait, Final, Base

LEMMA LookKeeps ==
    ASSUME CountInv, Attached, BarrierInv, NEW t \in Thread, InBarrierWait(t),
           NEW a \in {"wait", "own", "steal", "dry"}, Go(t, Top(t).doing, a),
           UNCHANGED <<deque, parent, ext, incomplete, parity, ptr, arrived, go>>,
           \A u \in Thread \ {t} : finished'[u] = finished[u],
           TeamTypes', FoundKept,
           (UNCHANGED <<team, finished>>) \/ TeamCounts',
           finished[t] => finished'[t],
           finished'[t] => finished[t] \/ (incomplete[t] = 0 /\ Plain(t)),
           IsOpen(t) => finished[t],
           IsOpen(t) \/ team[parity[t]].found,
           LastWait(t) /\ a \in {"steal", "dry"} => Leftover(t)
    PROVE  BarrierInv'
  <1>1. Depth(t) = 1 /\ Top(t) = stack[t][1] /\ Base(t) # "letgo" /\ StackTypes
    BY BarrierWait DEF InBarrierWait, Base, CountInv
  <1>2. PICK f \in Frames : f = Frame(Current(t), Top(t).doing, a) /\ f.doing = stack[t][1].doing /\ f.at = a
    <2> DEFINE g == Frame(Current(t), Top(t).doing, a)
    <2>1. g \in Frames /\ g.doing = stack[t][1].doing /\ g.at = a
      BY <1>1, FrameTop DEF Frame, Frames, Places
    <2> HIDE DEF g
    <2>2. \E f \in Frames : f = g /\ f.doing = stack[t][1].doing /\ f.at = a
      BY <2>1
    <2> QED BY <2>2 DEF g
  <1>3. Become(t, f) /\ \A u \in Thread \ {t} : stack'[u] = stack[u]
    BY <1>1, <1>2, OneStack DEF Go
  <1>4. stack'[t][1] = f /\ Depth(t)' = 1
    BY <1>1, <1>2, <1>3, FirstFrame, BecomeStack DEF Depth
  <1>5. InPlace
    BY <1>1, <1>2, <1>3, <1>4 DEF InPlace, Base
  <1>6. ParentsKept /\ OutsideOwn /\ \A u \in Thread : Sheds(0, u) /\ Sheds(1, u) /\ QueuesOwn(u)
    <2>1. ParentsKept /\ OutsideOwn /\ \A u \in Thread : QueuesOwn(u)
      BY DEF ParentsKept, OutsideOwn, Outside, QueuesOwn, Queued
    <2>2. ASSUME NEW u \in Thread, NEW k \in 0..1 PROVE Sheds(k, u)
      <3>1. \A x : \A i \in Nat : Queued(x, k, u, i)' <=> i >= 1 /\ Queued(x, k, u, i + 0)
        BY DEF Queued
      <3> QED BY <3>1 DEF Sheds
    <2> QED BY <2>1, <2>2
  <1>7. ASSUME NEW u \in Thread \ {t} PROVE ThreadInv(u)'
    BY <1>3, <1>5, <1>6, Bystander DEF Untouched, BarrierInv
  <1>8. ThreadInv(t)'
    <2>1. QueuedRight(t)'
      BY <1>5, <1>6, QueuedKept DEF BarrierInv, ThreadInv
    <2> QED BY <1>1, <1>2, <1>4, <1>5, <2>1, LookRight DEF BarrierInv
  <1>9. OnTeam' /\ Phases' /\ OutsideRight'
    <2>1. OnTeam'
      BY DEF BarrierInv, OnTeam
    <2> QED BY <1>5, <1>6, <2>1, InPlaceKeeps, OutsideKept DEF BarrierInv, Attached, OutsideOwn
  <1>10. TeamCounts'
    <2>1. CASE UNCHANGED <<team, finished>>
      <3>1. TeamKept
        BY <2>1 DEF TeamKept
      <3> QED BY <1>5, <2>1, <3>1, CountsKept DEF BarrierInv
    <2> QED BY <2>1
  <1> QED BY <1>7, <1>8, <1>9, <1>10 DEF BarrierInv

LEMMA Looks ==
    ASSUME CountInv, Attached, BarrierInv, NEW t \in Thread, InBarrierWait(t)
    PROVE  /\ ptr[t] # None => ptr[t] = parity[t]
           /\ Top(t).at # "wait" => /\ IsOpen(t) => finished[t]
                                    /\ IsOpen(t) \/ team[parity[t]].found
           /\ Top(t).at \in {"own", "steal", "dry"} => ptr[t] = parity[t] /\ parity[t] \in 0..1
  <1>1. Depth(t) = 1 /\ Top(t) = stack[t][1]
    BY BarrierWait
  <1>2. ptr[t] \in {parity[t], None} /\ parity[t] \in 0..1
    BY DEF BarrierInv, OnTeam, Attached
  <1>3. ASSUME Top(t).at \in {"own", "steal", "dry"} PROVE ptr[t] # None
    BY <1>1, <1>3 DEF Attached, Idle, InBarrierWait, Base
  <1>4. ThreadInv(t) /\ (Top(t).at # "wait" => ~Still(t))
    BY <1>1 DEF BarrierInv, Still
  <1>5. Top(t).at # "wait" /\ IsOpen(t) => finished[t]
    <2>1. CASE t = Master
      BY <1>1, <2>1 DEF IsOpen, Spent, Base, InBarrierWait
    <2>2. CASE t # Master
      BY <1>4, <2>2 DEF ThreadInv, OpenedRight
    <2> QED BY <2>1, <2>2
  <1>6. Top(t).at # "wait" => IsOpen(t) \/ team[parity[t]].found
    BY <1>1, <1>4 DEF ThreadInv, QuietRight, InBarrierWait, Base
  <1> QED BY <1>2, <1>3, <1>5, <1>6

(* In a wait for tasks of its own a thread does as if it worked.            *)
LEMMA ConstrainedLook ==
    ASSUME CountInv, Attached, BarrierInv, NEW t \in Thread, Constrained(t),
           NEW a \in {"wait", "own", "steal", "dry"}, Go(t, Top(t).doing, a),
           UNCHANGED <<deque, parent, ext, team, incomplete, parity, ptr, finished, arrived, go>>
    PROVE  BarrierInv'
  <1>1. PICK d \in Working : d = Top(t).doing
    BY DEF Constrained, Working
  <1>2. a \in Places /\ Go(t, d, a) /\ Top(t).doing \notin {"bottom", "free"}
    BY <1>1 DEF Places, Working
  <1> QED BY <1>1, <1>2, GoKeeps

LEMMA TurnKeeps ==
    ASSUME CountInv, Attached, BarrierInv, NEW t \in Thread, WaitTurn(t)
    PROVE  BarrierInv'
  <1> USE DEF tree, teams, sync
  <1>1. /\ UNCHANGED <<deque, parent, ext, team, incomplete, parity, finished, arrived, go>>
        /\ Waiting(t) /\ ptr[t] # None /\ Top(t).at = "wait"
    BY DEF WaitTurn
  <1>2. TeamTypes' /\ FoundKept
    BY <1>1 DEF BarrierInv, TeamTypes, FoundKept
  <1>3. CASE Constrained(t)
    <2>1. Go(t, Top(t).doing, "own") /\ UNCHANGED ptr
      BY <1>3 DEF WaitTurn
    <2> QED BY <1>1, <1>3, <2>1, ConstrainedLook
  <1>4. CASE ~Constrained(t) /\ ~team[ptr[t]].active
    <2>1. UNCHANGED stack /\ ptr' = [ptr EXCEPT ![t] = None]
      BY <1>4 DEF WaitTurn
    <2>2. OnTeam'
      BY <1>1, <2>1 DEF BarrierInv, OnTeam, Attached
    <2>3. (\A u \in Thread : ThreadInv(u))'
      BY <1>1, <2>1 DEF BarrierInv, ThreadInv, FinishedRight, OpenedRight, QuietRight, LookedRight, QueuedRight,
         LastWait, Still, Emptied, Plain, Leftover, IsOpen, Spent, Base, Depth, Queued
    <2>4. Phases' /\ OutsideRight' /\ TeamCounts'
      BY <1>1, <2>1 DEF BarrierInv, Phases, Phase, OutsideRight, Outside, TeamCounts, Fin, LastWait, IsOpen, Spent, Base
    <2> QED BY <1>2, <2>2, <2>3, <2>4 DEF BarrierInv
  <1>5. CASE ~Constrained(t) /\ team[ptr[t]].active
    <2>1. Go(t, Top(t).doing, "own") /\ UNCHANGED ptr /\ team[ptr[t]].found
      BY <1>5 DEF WaitTurn
    <2>2. InBarrierWait(t)
      BY <1>1, <1>5 DEF Waiting, Constrained, InBarrierWait
    <2>3. PICK k \in 0..1 : k = parity[t] /\ k = ptr[t]
      BY <1>1, <2>2, Looks DEF Attached
    <2>4. ~IsOpen(t) /\ team[parity[t]].found
      BY <1>5, <2>1, <2>3 DEF BarrierInv, TeamCounts, IsOpen
    <2>5. PICK a \in {"wait", "own", "steal", "dry"} : a = "own"
      OBVIOUS
    <2>6. /\ Go(t, Top(t).doing, a) /\ a \notin {"steal", "dry"}
          /\ UNCHANGED <<deque, parent, ext, incomplete, parity, ptr, arrived, go>>
          /\ UNCHANGED <<team, finished>>
      BY <1>1, <2>1, <2>5
    <2>7. \A u \in Thread : finished'[u] = finished[u]
      BY <2>6
    <2> QED BY <1>2, <2>2, <2>4, <2>6, <2>7, LookKeeps
  <1> QED BY <1>3, <1>4, <1>5

(* A thread that gives up with nothing owed to it has emptied its deques:   *)
(* what it left there is the child of its implicit task.                    *)
LEMMA NothingLeft ==
    ASSUME CountInv, BarrierInv, NEW t \in Thread, LastWait(t), stack[t][1].at = "dry", incomplete[t] = 0
    PROVE  Plain(t)
  <1> SUFFICES ASSUME NEW x \in Tasks \ Proxies, NEW k \in 0..1, NEW i \in Nat, Queued(x, k, t, i)
               PROVE  FALSE
    BY DEF Plain
  <1>1. PICK y \in Mutex, j \in Nat : Queued(y, k, t, j)
    BY DEF BarrierInv, ThreadInv, LookedRight, Leftover
  <1>2. y \in Tasks \ Proxies
    BY TaskAssumption
  <1>3. parent[y] = t /\ InDeque(y)
    BY <1>1, <1>2 DEF BarrierInv, ThreadInv, QueuedRight, InDeque
  <1>4. y \in OwedTo(t)
    BY <1>2, <1>3 DEF OwedTo, Owed
  <1> QED BY <1>4, OwedCounts

LEMMA GiveUpKeeps ==
    ASSUME CountInv, Attached, BarrierInv, NEW t \in Thread, GiveUp(t)
    PROVE  BarrierInv'
  <1> USE DEF tree, teams, sync
  <1> DEFINE leaves == Final(t) /\ incomplete[Current(t)] = 0 /\ ~finished[t]
  <1>1. /\ UNCHANGED <<deque, parent, ext, incomplete, parity, ptr, arrived, go>>
        /\ Waiting(t) /\ Top(t).at = "dry" /\ Go(t, Top(t).doing, "wait")
        /\ team' = IF leaves THEN [team EXCEPT ![ptr[t]].unfinished = @ - 1] ELSE team
        /\ finished' = [finished EXCEPT ![t] = @ \/ leaves]
    BY DEF GiveUp
  <1>2. CASE ~leaves
    <2>1. UNCHANGED <<team, finished>>
      BY <1>1, <1>2 DEF BarrierInv, TeamTypes
    <2>2. TeamTypes' /\ FoundKept
      BY <1>1, <2>1 DEF BarrierInv, TeamTypes, FoundKept
    <2>3. CASE Constrained(t)
      BY <1>1, <2>1, <2>3, ConstrainedLook
    <2>4. CASE ~Constrained(t)
      <3>1. InBarrierWait(t)
        BY <1>1, <2>4 DEF Waiting, Constrained, InBarrierWait
      <3>2. PICK a \in {"wait", "own", "steal", "dry"} : a = "wait"
        OBVIOUS
      <3>3. /\ Go(t, Top(t).doing, a) /\ a \notin {"steal", "dry"}
            /\ UNCHANGED <<deque, parent, ext, incomplete, parity, ptr, arrived, go>>
        BY <1>1, <3>2
      <3>4. \A u \in Thread : finished'[u] = finished[u]
        BY <2>1
      <3>5. (IsOpen(t) => finished[t]) /\ (IsOpen(t) \/ team[parity[t]].found)
        BY <1>1, <3>1, Looks
      <3> QED BY <2>1, <2>2, <3>1, <3>3, <3>4, <3>5, LookKeeps
    <2> QED BY <2>3, <2>4
  <1>3. CASE leaves
    <2>1. InBarrierWait(t) /\ Final(t)
      BY <1>3 DEF Final, InBarrierWait
    <2>2. /\ Depth(t) = 1 /\ Top(t) = stack[t][1] /\ LastWait(t) /\ incomplete[t] = 0 /\ ~finished[t]
          /\ stack[t][1].at = "dry"
      BY <1>1, <1>3, <2>1, BarrierWait
    <2>3. ptr[t] = parity[t] /\ ~IsOpen(t) /\ team[parity[t]].found
      BY <1>1, <2>1, <2>2, Looks
    <2>4. Plain(t)
      BY <2>2, NothingLeft
    <2>5. /\ finished' = [finished EXCEPT ![t] = ~finished[t]]
          /\ team' = [team EXCEPT ![parity[t]].unfinished = IF finished[t] THEN @ + 1 ELSE @ - 1]
      BY <1>1, <1>3, <2>2, <2>3
    <2>6. InPlace
      <3>1. PICK f \in Frames : f = Frame(Current(t), Top(t).doing, "wait") /\ f.doing = stack[t][1].doing
        <4> DEFINE g == Frame(Current(t), Top(t).doing, "wait")
        <4>1. g \in Frames /\ g.doing = stack[t][1].doing
          BY <2>2, FrameTop DEF Frame, Frames, Places
        <4> HIDE DEF g
        <4>2. \E f \in Frames : f = g /\ f.doing = stack[t][1].doing
          BY <4>1
        <4> QED BY <4>2 DEF g
      <3>2. Become(t, f) /\ \A u \in Thread \ {t} : stack'[u] = stack[u]
        BY <1>1, <3>1, OneStack DEF Go, CountInv
      <3>3. stack'[t][1] = f
        BY <2>2, <3>1, <3>2, FirstFrame
      <3> QED BY <1>1, <2>2, <3>1, <3>2, <3>3 DEF InPlace, Base, LastWait
    <2>7. TeamTypes' /\ TeamCounts' /\ FoundKept
      BY <2>2, <2>3, <2>5, <2>6, FlipKeepsCounts DEF BarrierInv
    <2>8. finished'[t] /\ \A u \in Thread \ {t} : finished'[u] = finished[u]
      BY <2>2, <2>5 DEF BarrierInv, TeamTypes
    <2> HIDE DEF leaves
    <2> QED BY <1>1, <2>1, <2>2, <2>3, <2>4, <2>7, <2>8, LookKeeps
  <1> QED BY <1>2, <1>3

(* A task is taken from a deque, by its owner or by a thief.                *)
LEMMA Takes ==
    ASSUME CountInv, NEW k \in 0..1, NEW v \in Thread, deque[k][v] # <<>>, NEW x,
           (TakenNewest(k, v) /\ x = Last(deque[k][v])) \/ (TakenOldest(k, v) /\ x = Head(deque[k][v]))
    PROVE  /\ x \in Tasks /\ \E i \in Nat : Queued(x, k, v, i)
           /\ \A u \in Thread : \A z : \A l \in 0..1 : \A i \in Nat :
                  Queued(z, l, u, i)' => \E j \in Nat : Queued(z, l, u, j)
           /\ \A u \in Thread : TakenOldest(k, v) \/ u # v => Sheds(0, u) /\ Sheds(1, u)
  <1>0. DequeType /\ OnceInDeques
    BY DEF CountInv, TaskTypes, DequeType, Unique
  <1>1. deque[k][v] \in Seq(Tasks) /\ Len(deque[k][v]) \in Nat /\ Len(deque[k][v]) >= 1
    BY <1>0, EmptySeq, LenProperties DEF DequeType
  <1>4. \A z : \A l \in 0..1, u \in Thread : \A i \in Nat : i + 0 = i /\ (Queued(z, l, u, i) => i >= 1)
    BY <1>0, DequeElements DEF Queued
  <1>2. CASE TakenNewest(k, v) /\ x = Last(deque[k][v])
    <2>1. x \in Tasks /\ Queued(x, k, v, Len(deque[k][v]))
      <3>1. x \in Tasks /\ x = deque[k][v][Len(deque[k][v])]
        BY <1>1, <1>2, LastFront
      <3>2. Len(deque[k][v]) \in 1..Len(deque[k][v])
        BY <1>1
      <3> QED BY <3>1, <3>2 DEF Queued
    <2>2. \A z : \A l \in 0..1, u \in Thread : \A i \in Nat :
              Queued(z, l, u, i)' <=> Queued(z, l, u, i) /\ ~(l = k /\ u = v /\ i = Len(deque[k][v]))
      BY <1>0, <1>2, TakeNewest
    <2>3. ASSUME NEW u \in Thread, u # v, NEW l \in 0..1 PROVE Sheds(l, u)
      <3>1. \A z : \A i \in Nat : Queued(z, l, u, i)' <=> i >= 1 /\ Queued(z, l, u, i + 0)
        BY <1>4, <2>2, <2>3
      <3> QED BY <3>1 DEF Sheds
    <2>4. TakenOldest(k, v) => \A u \in Thread : Sheds(0, u) /\ Sheds(1, u)
      <3> SUFFICES ASSUME TakenOldest(k, v), NEW u \in Thread, NEW l \in 0..1 PROVE Sheds(l, u)
        OBVIOUS
      <3>1. PICK y : y = Head(deque[k][v])
        OBVIOUS
      <3>2. \A z : \A i \in Nat :
                Queued(z, l, u, i)' <=> IF l = k /\ u = v THEN i >= 1 /\ Queued(z, l, u, i + 1)
                                                          ELSE Queued(z, l, u, i)
        BY <1>0, <3>1, TakeOldest
      <3>3. CASE l = k /\ u = v
        BY <3>2, <3>3 DEF Sheds
      <3>4. CASE ~(l = k /\ u = v)
        <4>1. \A z : \A i \in Nat : Queued(z, l, u, i)' <=> i >= 1 /\ Queued(z, l, u, i + 0)
          BY <1>4, <3>2, <3>4
        <4> QED BY <4>1 DEF Sheds
      <3> QED BY <3>3, <3>4
    <2>5. \E i \in Nat : Queued(x, k, v, i)
      BY <1>1, <2>1
    <2>6. \A u \in Thread : TakenOldest(k, v) \/ u # v => Sheds(0, u) /\ Sheds(1, u)
      BY <2>3, <2>4
    <2> QED BY <2>1, <2>2, <2>5, <2>6
  <1>3. CASE TakenOldest(k, v) /\ x = Head(deque[k][v])
    <2>1. x \in Tasks /\ Queued(x, k, v, 1)
      <3>1. x = deque[k][v][1]
        BY <1>1, <1>3, HeadTailProperties
      <3>2. 1 \in 1..Len(deque[k][v])
        BY <1>1
      <3> QED BY <1>0, <3>1, <3>2, DequeElements DEF Queued
    <2>2. \A z : \A l \in 0..1, u \in Thread : \A i \in Nat :
              Queued(z, l, u, i)' <=> IF l = k /\ u = v THEN i >= 1 /\ Queued(z, l, u, i + 1)
                                                        ELSE Queued(z, l, u, i)
      BY <1>0, <1>3, TakeOldest
    <2>3. ASSUME NEW u \in Thread, NEW l \in 0..1 PROVE Sheds(l, u)
      <3>3. CASE l = k /\ u = v
        BY <2>2, <3>3 DEF Sheds
      <3>4. CASE ~(l = k /\ u = v)
        <4>1. \A z : \A i \in Nat : Queued(z, l, u, i)' <=> i >= 1 /\ Queued(z, l, u, i + 0)
          BY <1>4, <2>2, <3>4
        <4> QED BY <4>1 DEF Sheds
      <3> QED BY <3>3, <3>4
    <2>4. ASSUME NEW u \in Thread, NEW z, NEW l \in 0..1, NEW i \in Nat, Queued(z, l, u, i)'
          PROVE  \E j \in Nat : Queued(z, l, u, j)
      <3>1. Queued(z, l, u, i) \/ Queued(z, l, u, i + 1)
        BY <2>2, <2>4
      <3> QED BY <3>1
    <2>5. \E i \in Nat : Queued(x, k, v, i)
      BY <2>1
    <2>6. \A u \in Thread : TakenOldest(k, v) \/ u # v => Sheds(0, u) /\ Sheds(1, u)
      BY <2>3
    <2> QED BY <2>1, <2>4, <2>5, <2>6
  <1> QED BY <1>2, <1>3

LEMMA InvokeKeeps ==
    ASSUME CountInv, Attached, BarrierInv, NEW t \in Thread, Waiting(t), NEW x \in Tasks, Invoke(t, x),
           UNCHANGED <<parent, incomplete, ext, parity, ptr, arrived, go>>,
           InPlace => TeamTypes' /\ FoundKept /\ ((UNCHANGED <<team, finished>>) \/ TeamCounts'),
           \A u \in Thread \ {t} : finished'[u] = finished[u] /\ Sheds(0, u) /\ Sheds(1, u),
           \A z : \A l \in 0..1 : \A i \in Nat : Queued(z, l, t, i)' => \E j \in Nat : Queued(z, l, t, j),
           Constrained(t) => UNCHANGED <<team, finished>>,
           ~Constrained(t) => /\ Top(t).at # "wait"
                              /\ LastWait(t) /\ finished'[t] => finished[t] /\ x \in Proxies
                              /\ IsOpen(t) => finished'[t]
    PROVE  BarrierInv'
  <1>1. /\ Depth(t) \in Nat /\ Depth(t) >= 1 /\ Top(t) = stack[t][Depth(t)] /\ StackTypes
        /\ Waiting(t) => Top(t).doing # "letgo"
    BY FrameTop DEF CountInv, Waiting
  <1>2. PICK f : /\ f = Frame(Current(t), Top(t).doing, IF Final(t) THEN "own" ELSE "wait")
                 /\ f.doing = Top(t).doing /\ f.at \in {"own", "wait"}
    <2> DEFINE g == Frame(Current(t), Top(t).doing, IF Final(t) THEN "own" ELSE "wait")
    <2>1. g.doing = Top(t).doing /\ g.at \in {"own", "wait"}
      BY DEF Frame
    <2> HIDE DEF g
    <2>2. \E f : f = g /\ f.doing = Top(t).doing /\ f.at \in {"own", "wait"}
      BY <2>1
    <2> QED BY <2>2 DEF g
  <1>3. /\ \A u \in Thread \ {t} : stack'[u] = stack[u]
        /\ Len(stack'[t]) = Depth(t) + 1 /\ stack'[t][Depth(t) + 1] = Invoked(x)
        /\ stack'[t][1] = IF Depth(t) = 1 THEN f ELSE stack[t][1]
    <2>1. /\ Len(stack'[t]) = Depth(t) + 1 /\ stack'[t][Depth(t) + 1] = Invoked(x)
          /\ \A i \in 1..Depth(t) : t # t \/ i # Depth(t) => stack'[t][i] = stack[t][i]
          /\ stack'[t][Depth(t)] = f
      BY <1>1, <1>2, InvokeStack
    <2>2. 1 \in 1..Depth(t)
      BY <1>1
    <2> QED BY <1>1, <2>1, <2>2, OneStack
  <1>4. InPlace
    BY <1>1, <1>2, <1>3 DEF InPlace, Base
  <1>5. /\ ParentsKept /\ OutsideOwn /\ QueuesOwn(t) /\ (Plain(t) => Plain(t)')
        /\ TeamTypes' /\ FoundKept
    BY <1>4 DEF ParentsKept, OutsideOwn, Outside, QueuesOwn, Plain
  <1>6. Others(t)
    BY <1>3 DEF Others, Untouched
  <1>7. CASE Constrained(t)
    <2>1. WorkStep(t)
      BY <1>2, <1>3, <1>7 DEF WorkStep, Constrained, Working
    <2>2. TeamKept /\ Top(t).doing \notin {"bottom", "free"}
      BY <1>7 DEF TeamKept, Constrained
    <2> QED BY <1>5, <1>6, <2>1, <2>2, WorkKeeps
  <1>8. CASE ~Constrained(t)
    <2>1. /\ InBarrierWait(t) /\ Depth(t) = 1 /\ Top(t) = stack[t][1] /\ (LastWait(t) <=> Final(t))
          /\ Top(t).at # "wait"
      BY <1>8, BarrierWait DEF Waiting, Constrained, InBarrierWait
    <2>2. /\ Depth(t)' = 2 /\ stack'[t][1] = f /\ stack'[t][2] = Invoked(x)
      BY <1>3, <2>1 DEF Depth
    <2>3. IsOpen(t) \/ team[parity[t]].found
      BY <2>1, Looks
    <2>4. /\ IsOpen(t)' <=> IsOpen(t)
          /\ LastWait(t)' <=> LastWait(t)
          /\ parity'[t] = parity[t] /\ parity[t] \in 0..1
      BY <1>4, InPlaceKeeps DEF Attached
    <2>5. QueuedRight(t)'
      BY <1>4, <1>5, QueuedKept DEF BarrierInv, ThreadInv
    <2>6. FinishedRight(t)'
      <3> SUFFICES ASSUME LastWait(t)', finished'[t]
                   PROVE  Emptied(t)' /\ incomplete'[t] = 0 /\ Plain(t)'
        BY DEF FinishedRight
      <3>1. x \in Proxies /\ finished[t] /\ LastWait(t)
        BY <1>8, <2>4
      <3>2. incomplete[t] = 0 /\ Plain(t)
        BY <3>1 DEF BarrierInv, ThreadInv, FinishedRight
      <3>3. stack'[t][2].doing = "bottom"
        BY <2>2, <3>1 DEF Invoked, Frame
      <3> QED BY <1>5, <2>2, <3>2, <3>3 DEF Emptied
    <2>7. OpenedRight(t)' /\ QuietRight(t)' /\ LookedRight(t)'
      <3>1. OpenedRight(t)'
        BY <1>8, <2>4 DEF OpenedRight
      <3>2. QuietRight(t)'
        BY <1>5, <2>3, <2>4 DEF QuietRight, FoundKept
      <3>3. LookedRight(t)'
        BY <1>2, <2>2 DEF LookedRight
      <3> QED BY <3>1, <3>2, <3>3
    <2>8. ThreadInv(t)'
      BY <2>5, <2>6, <2>7 DEF ThreadInv
    <2>9. ASSUME NEW u \in Thread \ {t} PROVE ThreadInv(u)'
      BY <1>4, <1>5, <1>6, Bystander DEF Others, BarrierInv
    <2>10. OnTeam' /\ Phases' /\ OutsideRight'
      <3>1. OnTeam'
        BY DEF BarrierInv, OnTeam
      <3> QED BY <1>4, <1>5, <3>1, InPlaceKeeps, OutsideKept DEF BarrierInv, Attached, OutsideOwn
    <2>11. TeamCounts'
      <3>1. CASE UNCHANGED <<team, finished>>
        <4>1. TeamKept
          BY <3>1 DEF TeamKept
        <4> QED BY <1>4, <3>1, <4>1, CountsKept DEF BarrierInv
      <3> QED BY <1>4, <3>1
    <2> QED BY <1>5, <2>8, <2>9, <2>10, <2>11 DEF BarrierInv
  <1> QED BY <1>7, <1>8

LEMMA TakeOwnKeeps ==
    ASSUME CountInv, Attached, BarrierInv, NEW t \in Thread, TakeOwn(t)
    PROVE  BarrierInv'
  <1> USE DEF tree, teams, sync
  <1>1. /\ UNCHANGED <<parent, incomplete, ext, team, finished, parity, ptr, arrived, go>>
        /\ Waiting(t) /\ Top(t).at = "own"
    BY DEF TakeOwn
  <1>2. PICK k \in 0..1 : k = ptr[t]
    BY <1>1, Busy DEF CountInv
  <1>3. PICK x : x = Last(deque[k][t])
    OBVIOUS
  <1>4. TeamTypes' /\ FoundKept
    BY <1>1 DEF BarrierInv, TeamTypes, FoundKept
  <1>5. ~Constrained(t) => /\ InBarrierWait(t) /\ k = parity[t]
                           /\ IsOpen(t) => finished[t]
                           /\ IsOpen(t) \/ team[parity[t]].found
    BY <1>1, <1>2, Looks DEF Waiting, Constrained, InBarrierWait
  <1>6. CASE deque[k][t] # <<>> /\ Allowed(t, x)
    <2>1. TakenNewest(k, t) /\ Invoke(t, x)
      BY <1>2, <1>3, <1>6 DEF TakeOwn, TakenNewest
    <2>2. PICK i \in Nat : x \in Tasks /\ Queued(x, k, t, i)
      BY <1>3, <1>6, <2>1, Takes
    <2>3. /\ \A u \in Thread \ {t} : finished'[u] = finished[u] /\ Sheds(0, u) /\ Sheds(1, u)
          /\ \A z : \A l \in 0..1 : \A i0 \in Nat :
                 Queued(z, l, t, i0)' => \E j \in Nat : Queued(z, l, t, j)
      BY <1>1, <1>3, <1>6, <2>1, Takes
    <2>4. LastWait(t) /\ finished'[t] => finished[t] /\ x \in Proxies
      BY <1>1, <2>2 DEF BarrierInv, ThreadInv, FinishedRight, Plain
    <2>5. (UNCHANGED <<team, finished>>) /\ (IsOpen(t) /\ ~Constrained(t) => finished'[t]) /\ Top(t).at # "wait"
      BY <1>1, <1>5
    <2> QED BY <1>1, <1>4, <2>1, <2>2, <2>3, <2>4, <2>5, InvokeKeeps
  <1>7. CASE ~(deque[k][t] # <<>> /\ Allowed(t, x))
    <2>1. PICK a \in {"wait", "own", "steal", "dry"} : a = "steal"
      OBVIOUS
    <2>2. Go(t, Top(t).doing, a) /\ UNCHANGED deque
      BY <1>2, <1>3, <1>7, <2>1 DEF TakeOwn
    <2>3. CASE Constrained(t)
      BY <1>1, <2>2, <2>3, ConstrainedLook
    <2>4. CASE ~Constrained(t)
      <3>1. Leftover(t)
        <4> SUFFICES ASSUME NEW z \in Tasks \ Proxies, NEW l \in 0..1, NEW i \in Nat, Queued(z, l, t, i)
                     PROVE  \E y \in Mutex : \E j \in Nat : j >= i /\ Queued(y, l, t, j)
          BY DEF Leftover
        <4>1. l = k
          BY <1>5, <2>4 DEF BarrierInv, ThreadInv, QueuedRight
        <4>2. /\ deque[k][t] \in Seq(Tasks) /\ Len(deque[k][t]) \in Nat /\ i \in 1..Len(deque[k][t])
          BY <4>1, LenProperties DEF CountInv, TaskTypes, Queued
        <4>3. deque[k][t] # <<>> /\ Len(deque[k][t]) >= 1
          BY <4>2, EmptySeq
        <4>4. x = deque[k][t][Len(deque[k][t])] /\ Len(deque[k][t]) \in 1..Len(deque[k][t])
          <5>1. x = deque[k][t][Len(deque[k][t])]
            BY <1>3, <4>2, <4>3, LastFront
          <5> QED BY <4>2, <4>3, <5>1
        <4>5. x \in Mutex
          BY <1>7, <2>4, <4>3 DEF Allowed
        <4>6. Len(deque[k][t]) \in Nat /\ Len(deque[k][t]) >= i /\ Queued(x, l, t, Len(deque[k][t]))
          BY <4>1, <4>2, <4>4 DEF Queued
        <4> QED BY <4>5, <4>6
      <3>2. UNCHANGED <<team, finished>>
        BY <1>1
      <3> QED BY <1>1, <1>4, <1>5, <2>2, <2>4, <3>1, <3>2, LookKeeps
    <2> QED BY <2>3, <2>4
  <1> QED BY <1>6, <1>7

LEMMA StealKeeps ==
    ASSUME CountInv, Attached, BarrierInv, InTime, NEW t \in Thread, NEW v \in Thread, Steal(t, v)
    PROVE  BarrierInv'
  <1> USE DEF tree, teams, sync
  <1>1. /\ UNCHANGED <<parent, incomplete, ext, parity, ptr, arrived, go>>
        /\ Waiting(t) /\ Top(t).at = "steal" /\ v # t
    BY DEF Steal
  <1>2. PICK k \in 0..1 : k = ptr[t]
    BY <1>1, Busy DEF CountInv
  <1>3. PICK x : x = Head(deque[k][v])
    OBVIOUS
  <1>4. PICK again : again = (Final(t) /\ finished[t])
    OBVIOUS
  <1>5. ~Constrained(t) => /\ InBarrierWait(t) /\ k = parity[t] /\ (LastWait(t) <=> Final(t))
                           /\ Depth(t) = 1 /\ Top(t) = stack[t][1]
                           /\ IsOpen(t) => finished[t]
                           /\ IsOpen(t) \/ team[parity[t]].found
    BY <1>1, <1>2, Looks, BarrierWait DEF Waiting, Constrained, InBarrierWait
  <1>6. CASE deque[k][v] # <<>> /\ Allowed(t, x)
    <2>1. /\ TakenOldest(k, v) /\ Invoke(t, x)
          /\ team' = IF again THEN [team EXCEPT ![k].unfinished = @ + 1] ELSE team
          /\ finished' = [finished EXCEPT ![t] = @ /\ ~again]
      BY <1>2, <1>3, <1>4, <1>6 DEF Steal, TakenOldest
    <2>2. x \in Tasks
      BY <1>3, <1>6, <2>1, Takes
    <2>3. /\ \A u \in Thread : Sheds(0, u) /\ Sheds(1, u)
          /\ \A z : \A l \in 0..1 : \A i0 \in Nat :
                 Queued(z, l, t, i0)' => \E j \in Nat : Queued(z, l, t, j)
      <3>1. \A u \in Thread : Sheds(0, u) /\ Sheds(1, u)
        BY <1>3, <1>6, <2>1, Takes
      <3>2. \A u \in Thread : \A z : \A l \in 0..1 : \A i0 \in Nat :
                Queued(z, l, u, i0)' => \E j \in Nat : Queued(z, l, u, j)
        BY <1>3, <1>6, <2>1, Takes
      <3> QED BY <3>1, <3>2
    <2>4. /\ \A u \in Thread \ {t} : finished'[u] = finished[u]
          /\ finished'[t] <=> finished[t] /\ ~again
          /\ ~again => UNCHANGED <<team, finished>>
      BY <2>1 DEF BarrierInv, TeamTypes
    <2>5. Constrained(t) => UNCHANGED <<team, finished>>
      BY <1>4, <2>4 DEF Constrained, Final
    <2>6. ~Constrained(t) => /\ Top(t).at # "wait"
                             /\ LastWait(t) /\ finished'[t] => finished[t] /\ x \in Proxies
                             /\ IsOpen(t) => finished'[t]
      BY <1>1, <1>4, <1>5, <2>4 DEF InTime
    <2>7. ASSUME InPlace PROVE TeamTypes' /\ FoundKept /\ ((UNCHANGED <<team, finished>>) \/ TeamCounts')
      <3>1. CASE ~again
        BY <1>1, <2>4, <3>1 DEF BarrierInv, TeamTypes, FoundKept
      <3>2. CASE again
        <4>1. ~Constrained(t) /\ LastWait(t) /\ finished[t] /\ ~finished'[t] /\ ~IsOpen(t) /\ k = parity[t]
          BY <1>4, <1>5, <2>4, <2>6, <3>2 DEF Constrained, Final
        <4>2. /\ finished' = [finished EXCEPT ![t] = ~finished[t]]
              /\ team' = [team EXCEPT ![parity[t]].unfinished = IF finished[t] THEN @ + 1 ELSE @ - 1]
          BY <2>1, <3>2, <4>1
        <4> QED BY <2>7, <4>1, <4>2, FlipKeepsCounts DEF BarrierInv
      <3> QED BY <1>4, <3>1, <3>2
    <2> QED BY <1>1, <2>1, <2>2, <2>3, <2>4, <2>5, <2>6, <2>7, InvokeKeeps
  <1>7. CASE ~(deque[k][v] # <<>> /\ Allowed(t, x))
    <2>1. PICK a \in {"wait", "own", "steal", "dry"} : a = "dry"
      OBVIOUS
    <2>2. Go(t, Top(t).doing, a) /\ UNCHANGED <<deque, team, finished>>
      BY <1>2, <1>3, <1>7, <2>1 DEF Steal
    <2>3. TeamTypes' /\ FoundKept
      BY <1>1, <2>2 DEF BarrierInv, TeamTypes, FoundKept
    <2>4. CASE Constrained(t)
      BY <1>1, <2>2, <2>4, ConstrainedLook
    <2>5. CASE ~Constrained(t)
      <3>1. LastWait(t) => Leftover(t)
        BY <1>1, <1>5, <2>5 DEF BarrierInv, ThreadInv, LookedRight
      <3> QED BY <1>1, <1>5, <2>2, <2>3, <2>5, <3>1, LookKeeps
    <2> QED BY <2>4, <2>5
  <1> QED BY <1>6, <1>7

-----------------------------------------------------------------------------
(* The barrier.                                                             *)

LEMMA BaseFrame ==
    ASSUME CountInv, NEW t \in Thread, Depth(t) = 1, NEW d \in Actions, NEW a \in Places, Go(t, d, a)
    PROVE  /\ Depth(t)' = 1 /\ Base(t)' = d /\ stack'[t][1].at = a
           /\ \A u \in Thread \ {t} : stack'[u] = stack[u]
  <1>1. PICK f \in Frames : f = Frame(Current(t), d, a) /\ f.doing = d /\ f.at = a
    <2> DEFINE g == Frame(Current(t), d, a)
    <2>1. g \in Frames /\ g.doing = d /\ g.at = a
      BY FrameTop DEF Frame, Frames
    <2> HIDE DEF g
    <2>2. \E f \in Frames : f = g /\ f.doing = d /\ f.at = a
      BY <2>1
    <2> QED BY <2>2 DEF g
  <1>2. Become(t, f) /\ StackTypes /\ \A u \in Thread \ {t} : stack'[u] = stack[u]
    BY <1>1, OneStack DEF Go, CountInv
  <1>3. stack'[t][1] = f /\ Depth(t)' = 1
    <2>1. Depth(t) >= 1
      OBVIOUS
    <2> QED BY <1>2, <2>1, FirstFrame, BecomeStack DEF Depth
  <1> QED BY <1>1, <1>2, <1>3 DEF Base

(* What the deques and the thread outside have is left alone, and so is     *)
(* every other thread.                                                      *)
Aside(t) ==
    /\ UNCHANGED <<deque, parent, incomplete, ext>>
    /\ \A u \in Thread \ {t} : /\ stack'[u] = stack[u] /\ finished'[u] = finished[u]
                               /\ parity'[u] = parity[u] /\ ptr'[u] = ptr[u]

LEMMA AsideRight ==
    ASSUME NEW t \in Thread, Aside(t), NEW u \in Thread \ {t}, ThreadInv(u), IsOpen(u)' <=> IsOpen(u),
           ~IsOpen(u) => team'[parity[u]].found = team[parity[u]].found
    PROVE  ThreadInv(u)'
  <1>1. FinishedRight(u)' /\ OpenedRight(u)'
    BY DEF Aside, ThreadInv, FinishedRight, OpenedRight, LastWait, Base, Emptied, Depth, Plain, Queued, Still
  <1>2. QuietRight(u)'
    BY DEF Aside, ThreadInv, QuietRight, LastWait, Base, Still, Depth
  <1>3. LookedRight(u)'
    BY DEF Aside, ThreadInv, LookedRight, LastWait, Base, Depth, Leftover, Queued
  <1>4. QueuedRight(u)'
    BY DEF Aside, ThreadInv, QueuedRight, Queued
  <1> QED BY <1>1, <1>2, <1>3, <1>4 DEF ThreadInv

(* A thread in a wait it has just begun, or out of its barrier.             *)
LEMMA JustRight ==
    ASSUME NEW t \in Thread, QueuedRight(t)', Depth(t)' = 1,
           LastWait(t)' => ~finished'[t] /\ stack'[t][1].at = "wait",
           t # Master => ~IsOpen(t)',
           Base(t)' \in {"run", "letgo"} \/ stack'[t][1].at = "wait"
    PROVE  ThreadInv(t)'
  BY DEF ThreadInv, FinishedRight, OpenedRight, QuietRight, LookedRight, LastWait, Base, Still, Depth

LEMMA CountsStay ==
    ASSUME TeamCounts, \A k \in 0..1 : Spent(k)' <=> Spent(k),
           \A k \in 0..1 : ~Spent(k) => /\ team'[k].unfinished = team[k].unfinished
                                        /\ \A u \in Thread : Fin(u, k)' <=> Fin(u, k),
           \A k \in 0..1 :
               Spent(k) => /\ team'[k].active => team'[k].unfinished = NProc /\ ~team'[k].found
                           /\ Base(Master)' \in {"gather", "teamwait"} => team'[k].active
    PROVE  TeamCounts'
  <1>1. ASSUME NEW k \in 0..1, ~Spent(k) PROVE {u \in Thread : ~Fin(u, k)}' = {u \in Thread : ~Fin(u, k)}
    BY <1>1
  <1> QED BY <1>1 DEF TeamCounts

(* The master opens the barrier.                                            *)
LEMMA CountsTurn ==
    ASSUME TeamCounts, parity \in [Thread -> 0..1], UNCHANGED parity,
           Base(Master) \in {"gather", "teamwait"}, Base(Master)' = "letgo",
           \A u \in Thread : parity[u] = parity[Master],
           \A k \in 0..1 : IF k = parity[Master]
                             THEN team'[k].active => team'[k].unfinished = NProc /\ ~team'[k].found
                             ELSE team'[k] = team[k]
    PROVE  TeamCounts'
  <1>1. Master \in Thread /\ parity[Master] \in 0..1
    BY TeamAssumption DEF Master, Thread
  <1>2. \A k \in 0..1 : /\ Spent(k) <=> k # parity[Master]
                        /\ Spent(k)' <=> k = parity[Master]
    BY DEF Spent
  <1>3. ASSUME NEW k \in 0..1, ~Spent(k)'
        PROVE  team'[k].unfinished = Cardinality({u \in Thread : ~Fin(u, k)}')
    <2>1. {u \in Thread : ~Fin(u, k)}' = Thread
      BY <1>2, <1>3 DEF Fin
    <2>2. team'[k].unfinished = NProc
      BY <1>2, <1>3 DEF TeamCounts
    <2> QED BY <2>1, <2>2, TeamSize
  <1> QED BY <1>2, <1>3 DEF TeamCounts

LEMMA MasterArrivesKeeps ==
    ASSUME CountInv, Attached, BarrierInv, MasterArrives
    PROVE  BarrierInv'
  <1> USE DEF tree, teams, sync
  <1>0. Master \in Thread /\ BarrierStep(Master)
    BY TeamAssumption DEF Master, Thread, BarrierStep
  <1>1. /\ Depth(Master) = 1 /\ Base(Master) = "run"
        /\ UNCHANGED <<deque, parent, incomplete, ext, parity, ptr, finished, arrived, go>>
        /\ team' = Setup(1 - parity[Master]) /\ Go(Master, "gather", "wait")
    BY <1>0, BarrierBase DEF MasterArrives, AtBarrier, Doing, Base
  <1>2. /\ Depth(Master)' = 1 /\ Base(Master)' = "gather" /\ stack'[Master][1].at = "wait"
        /\ \A u \in Thread \ {Master} : stack'[u] = stack[u]
    <2>1. "gather" \in Actions /\ "wait" \in Places
      BY DEF Actions, Places
    <2> QED BY <1>0, <1>1, <2>1, BaseFrame
  <1>3. PICK m \in 0..1 : m = parity[Master] /\ 1 - m \in 0..1
    BY <1>0 DEF Attached
  <1>4. /\ \A k \in 0..1 : (Spent(k) <=> k # m) /\ (Spent(k)' <=> Spent(k))
        /\ \A u \in Thread : IsOpen(u)' <=> IsOpen(u)
    BY <1>1, <1>2, <1>3 DEF Spent, IsOpen, Attached
  <1>5. /\ TeamTypes' /\ team'[m] = team[m]
        /\ \A k \in 0..1 : k # m => \/ team'[k] = team[k] /\ team[k].active
                                    \/ team'[k] = FreshTeam
    <2>1. FreshTeam \in [active : BOOLEAN, found : BOOLEAN, proxies : BOOLEAN, unfinished : Int]
      BY TeamAssumption DEF FreshTeam
    <2>2. CASE team[1 - m].active
      BY <1>1, <1>3, <2>2 DEF Setup, BarrierInv, TeamTypes
    <2>3. CASE ~team[1 - m].active
      <3>1. team' = [team EXCEPT ![1 - m] = FreshTeam]
        BY <1>1, <1>3, <2>3 DEF Setup
      <3> HIDE DEF FreshTeam
      <3> QED BY <1>1, <1>3, <2>1, <3>1 DEF BarrierInv, TeamTypes
    <2> QED BY <2>2, <2>3
  <1>6. Aside(Master)
    BY <1>1, <1>2 DEF Aside
  <1>7. OnTeam' /\ Phases'
    <2>1. Phases'
      BY <1>1, <1>2, <1>4 DEF BarrierInv, Phases, Phase, Base
    <2> QED BY <1>1, <2>1 DEF BarrierInv, OnTeam
  <1>8. \A u \in Thread : ~IsOpen(u) => team'[parity[u]].found = team[parity[u]].found
    BY <1>4, <1>5 DEF IsOpen, Attached
  <1>9. ASSUME NEW u \in Thread \ {Master} PROVE ThreadInv(u)'
    BY <1>0, <1>4, <1>6, <1>8, AsideRight DEF BarrierInv
  <1>10. ThreadInv(Master)'
    <2>1. QueuedRight(Master)'
      BY <1>0, <1>1, <1>4, <1>8 DEF BarrierInv, ThreadInv, QueuedRight, Queued
    <2> QED BY <1>0, <1>2, <2>1, JustRight DEF LastWait
  <1>11. OutsideRight'
    BY <1>1, <1>4, <1>8 DEF BarrierInv, OutsideRight, Outside, IsOpen
  <1>12. TeamCounts'
    <2>1. \A u \in Thread : \A k \in 0..1 : Fin(u, k)' <=> Fin(u, k)
      BY <1>1, <1>2 DEF Fin, LastWait, Base
    <2>2. ASSUME NEW k \in 0..1, Spent(k)
          PROVE  /\ team'[k].active => team'[k].unfinished = NProc /\ ~team'[k].found
                 /\ team'[k].active
      BY <1>4, <1>5, <2>2 DEF BarrierInv, TeamCounts, FreshTeam
    <2> QED BY <1>4, <1>5, <2>1, <2>2, CountsStay DEF BarrierInv
  <1> QED BY <1>5, <1>7, <1>9, <1>10, <1>11, <1>12 DEF BarrierInv

LEMMA WorkerArrivesKeeps ==
    ASSUME CountInv, Attached, BarrierInv, NEW t \in Thread, WorkerArrives(t)
    PROVE  BarrierInv'
  <1> USE DEF tree, teams, sync
  <1>0. Master \in Thread /\ BarrierStep(t)
    BY TeamAssumption DEF Master, Thread, BarrierStep
  <1>1. /\ Depth(t) = 1 /\ Base(t) = "run" /\ t # Master
        /\ UNCHANGED <<deque, parent, incomplete, ext, team, parity, ptr, go>>
        /\ finished' = [finished EXCEPT ![t] = FALSE] /\ arrived' = arrived \union {t}
        /\ Go(t, "release", "wait")
    BY <1>0, BarrierBase DEF WorkerArrives, AtBarrier, Doing, Base
  <1>2. /\ Depth(t)' = 1 /\ Base(t)' = "release" /\ stack'[t][1].at = "wait"
        /\ \A u \in Thread \ {t} : stack'[u] = stack[u]
    <2>1. "release" \in Actions /\ "wait" \in Places
      BY DEF Actions, Places
    <2> QED BY <1>0, <1>1, <2>1, BaseFrame
  <1>3. /\ TeamTypes' /\ ~finished'[t] /\ \A u \in Thread \ {t} : finished'[u] = finished[u]
    BY <1>1 DEF BarrierInv, TeamTypes
  <1>4. /\ \A k \in 0..1 : Spent(k)' <=> Spent(k)
        /\ \A u \in Thread : IsOpen(u)' <=> IsOpen(u)
        /\ Base(Master)' = Base(Master) /\ stack'[Master] = stack[Master]
    BY <1>0, <1>1, <1>2 DEF Spent, IsOpen, Attached, Base
  <1>5. /\ ~IsOpen(t) /\ t \notin go /\ t \notin arrived /\ Base(Master) # "teamwait"
        /\ Base(Master) = "letgo" => ~(t >= stack[Master][1].at)
    BY <1>1 DEF BarrierInv, Phases, Phase
  <1>6. Aside(t)
    BY <1>1, <1>2, <1>3 DEF Aside
  <1>7. OnTeam' /\ Phases'
    <2>1. ASSUME NEW u \in Thread \ {Master} PROVE Phase(u)'
      <3>1. Phase(u)
        BY DEF BarrierInv, Phases
      <3>2. CASE u = t
        BY <1>1, <1>2, <1>4, <1>5, <3>2 DEF Phase
      <3>3. CASE u # t
        BY <1>1, <1>2, <1>4, <3>1, <3>3 DEF Phase, Base
      <3> QED BY <3>2, <3>3
    <2>2. Master \notin arrived' \union go'
      BY <1>1 DEF BarrierInv, Phases
    <2> QED BY <1>1, <2>1, <2>2 DEF BarrierInv, OnTeam, Phases
  <1>8. ASSUME NEW u \in Thread \ {t} PROVE ThreadInv(u)'
    BY <1>1, <1>4, <1>6, AsideRight DEF BarrierInv
  <1>9. ThreadInv(t)'
    <2>1. QueuedRight(t)'
      BY <1>1, <1>4 DEF BarrierInv, ThreadInv, QueuedRight, Queued
    <2> QED BY <1>2, <1>3, <1>4, <1>5, <2>1, JustRight
  <1>10. OutsideRight'
    BY <1>1, <1>4 DEF BarrierInv, OutsideRight, Outside, IsOpen
  <1>11. TeamCounts'
    <2>1. \A u \in Thread : \A k \in 0..1 : Fin(u, k)' <=> Fin(u, k)
      BY <1>1, <1>2, <1>3 DEF Fin, LastWait, Base
    <2> QED BY <1>1, <1>4, <2>1, CountsStay DEF BarrierInv, TeamCounts
  <1> QED BY <1>3, <1>7, <1>8, <1>9, <1>10, <1>11 DEF BarrierInv

(* Where the threads are when the master has gathered the workers.          *)
LEMMA AllArrived ==
    ASSUME Attached, BarrierInv,
           Base(Master) = "teamwait" \/ (Base(Master) = "gather" /\ arrived = Thread \ {Master})
    PROVE  /\ Master \in Thread /\ parity[Master] \in 0..1 /\ ~IsOpen(Master) /\ ~Spent(parity[Master])
           /\ \A u \in Thread : ~IsOpen(u) /\ parity[u] = parity[Master]
           /\ \A u \in Thread \ {Master} : Base(u) = "release" /\ u \notin go
  <1>1. Master \in Thread
    BY TeamAssumption DEF Master, Thread
  <1>2. \A k \in 0..1 : Spent(k) <=> k # parity[Master]
    BY DEF Spent
  <1>3. \A u \in Thread \ {Master} : Base(u) = "release" /\ ~IsOpen(u) /\ u \notin go
    BY DEF BarrierInv, Phases, Phase
  <1> QED BY <1>1, <1>2, <1>3 DEF IsOpen, Attached

(* The master opens the barrier when nothing is left to do.                 *)
LEMMA OpeningKeeps ==
    ASSUME CountInv, Attached, BarrierInv, BarrierStep(Master), Go(Master, "letgo", 1),
           Base(Master) = "teamwait" \/ (Base(Master) = "gather" /\ arrived = Thread \ {Master}),
           UNCHANGED <<parity, go>>,
           TeamTypes', OnTeam', \A u \in Thread \ {Master} : finished'[u] = finished[u] /\ ptr'[u] = ptr[u],
           arrived' = {} \/ (arrived' = arrived /\ Base(Master) = "teamwait"),
           \A u \in Thread \ {Master} : Still(u) \/ finished[u],
           \A x \in Tasks \ Proxies : ~InDeque(x),
           \A x \in Proxies : ~Outside(x),
           \A k \in 0..1 : IF k = parity[Master]
                             THEN team'[k].active => team'[k].unfinished = NProc /\ ~team'[k].found
                             ELSE team'[k] = team[k]
    PROVE  BarrierInv'
  <1>0. Master \in Thread
    BY TeamAssumption DEF Master, Thread
  <1>1. Depth(Master) = 1 /\ UNCHANGED <<deque, parent, incomplete, ext>>
    BY <1>0, BarrierBase
  <1>2. /\ Depth(Master)' = 1 /\ Base(Master)' = "letgo" /\ stack'[Master][1].at = 1
        /\ \A u \in Thread \ {Master} : stack'[u] = stack[u]
    <2>1. "letgo" \in Actions /\ 1 \in Places
      BY TeamAssumption DEF Actions, Places
    <2> QED BY <1>0, <1>1, <2>1, BaseFrame
  <1>3. /\ \A u \in Thread : parity[u] = parity[Master]
        /\ \A u \in Thread \ {Master} : Base(u) = "release" /\ u \notin go
    BY AllArrived
  <1>4. \A u \in Thread : IsOpen(u)'
    BY <1>2, <1>3 DEF IsOpen, Spent
  <1>5. Phases'
    <2>1. ASSUME NEW u \in Thread \ {Master} PROVE Phase(u)'
      <3>1. u \notin arrived' /\ u \notin go' /\ Base(u)' = "release"
        BY <1>2, <1>3 DEF BarrierInv, Phases, Phase, Base
      <3> QED BY <1>2, <1>4, <3>1 DEF Phase
    <2>2. Master \notin arrived' \union go'
      BY DEF BarrierInv, Phases
    <2> QED BY <2>1, <2>2 DEF Phases
  <1>6. \A x \in Tasks \ Proxies : \A u \in Thread : \A k \in 0..1 : \A i \in Nat : ~Queued(x, k, u, i)'
    BY <1>1 DEF InDeque, Queued
  <1>7. ASSUME NEW u \in Thread PROVE QueuedRight(u)' /\ QuietRight(u)'
    BY <1>4, <1>6 DEF QueuedRight, QuietRight
  <1>8. ASSUME NEW u \in Thread \ {Master} PROVE ThreadInv(u)'
    <2>1. ThreadInv(u)
      BY DEF BarrierInv
    <2>2. FinishedRight(u)'
      BY <1>1, <1>2, <2>1 DEF ThreadInv, FinishedRight, LastWait, Base, Emptied, Depth, Plain, Queued
    <2>3. OpenedRight(u)'
      BY <1>2 DEF OpenedRight, Still, Depth
    <2>4. LookedRight(u)'
      BY <1>1, <1>2, <2>1 DEF ThreadInv, LookedRight, LastWait, Base, Depth, Leftover, Queued
    <2> QED BY <1>7, <2>2, <2>3, <2>4 DEF ThreadInv
  <1>9. ThreadInv(Master)'
    BY <1>0, <1>2, <1>7, JustRight DEF LastWait
  <1>10. OutsideRight'
    BY <1>1 DEF OutsideRight, Outside
  <1>11. TeamCounts'
    BY <1>2, <1>3, CountsTurn DEF BarrierInv, Attached
  <1> QED BY <1>5, <1>8, <1>9, <1>10, <1>11 DEF BarrierInv

LEMMA DeactivateKeeps ==
    ASSUME CountInv, Attached, BarrierInv, Deactivate
    PROVE  BarrierInv'
  <1> USE DEF tree, teams, sync
  <1>0. Master \in Thread /\ BarrierStep(Master)
    BY TeamAssumption DEF Master, Thread, BarrierStep, MasterStep
  <1>1. PICK m \in 0..1 : m = parity[Master]
    BY <1>0 DEF Attached
  <1>2. /\ Base(Master) = "teamwait" /\ team[m].unfinished = 0 /\ Go(Master, "letgo", 1)
        /\ UNCHANGED <<parity, finished, arrived, go>>
        /\ team' = [team EXCEPT ![m].active = FALSE, ![m].proxies = FALSE]
        /\ ptr' = [ptr EXCEPT ![Master] = None]
    BY <1>0, <1>1, BarrierBase DEF Deactivate, Doing, Done, Base
  <1>3. (\A u \in Thread : parity[u] = m) /\ ~Spent(m)
    BY <1>1, <1>2, AllArrived
  <1>4. \A u \in Thread : LastWait(u) /\ finished[u]
    <2>1. Cardinality({u \in Thread : ~Fin(u, m)}) = 0
      BY <1>2, <1>3 DEF BarrierInv, TeamCounts
    <2>2. IsFiniteSet({u \in Thread : ~Fin(u, m)})
      BY TeamSize, FS_Subset
    <2>3. {u \in Thread : ~Fin(u, m)} = {}
      BY <2>1, <2>2, FS_EmptySet
    <2> QED BY <2>3 DEF Fin
  <1>5. \A u \in Thread : incomplete[u] = 0 /\ Plain(u)
    BY <1>4 DEF BarrierInv, ThreadInv, FinishedRight
  <1>6. \A x \in Tasks \ Proxies : ~InDeque(x)
    BY <1>5 DEF InDeque, Plain
  <1>7. ASSUME NEW x \in Proxies, Outside(x) PROVE FALSE
    <2>1. PICK u \in Thread : parent[x] = u
      BY <1>7 DEF BarrierInv, OutsideRight
    <2>2. x \in OwedTo(u)
      BY <1>7, <2>1, TaskAssumption DEF OwedTo, Owed
    <2> QED BY <1>5, <2>2, OwedCounts
  <1>8. /\ TeamTypes' /\ ~team'[m].active /\ \A k \in 0..1 : k # m => team'[k] = team[k]
    <2>1. PICK r : r = [team[m] EXCEPT !.active = FALSE, !.proxies = FALSE]
      OBVIOUS
    <2>2. /\ r \in [active : BOOLEAN, found : BOOLEAN, proxies : BOOLEAN, unfinished : Int] /\ ~r.active
          /\ team' = [team EXCEPT ![m] = r]
      BY <1>2, <2>1 DEF BarrierInv, TeamTypes
    <2> QED BY <1>2, <2>2 DEF BarrierInv, TeamTypes
  <1>9. OnTeam' /\ \A u \in Thread \ {Master} : ptr'[u] = ptr[u]
    BY <1>2 DEF BarrierInv, OnTeam, Attached
  <1> QED BY <1>0, <1>1, <1>2, <1>4, <1>6, <1>7, <1>8, <1>9, OpeningKeeps

LEMMA GatheredKeeps ==
    ASSUME CountInv, Attached, BarrierInv, Gathered
    PROVE  BarrierInv'
  <1> USE DEF tree, teams, sync
  <1>0. Master \in Thread /\ BarrierStep(Master)
    BY TeamAssumption DEF Master, Thread, BarrierStep, MasterStep
  <1>1. PICK m \in 0..1 : m = parity[Master]
    BY <1>0 DEF Attached
  <1>2. /\ Depth(Master) = 1 /\ Base(Master) = "gather" /\ arrived = Thread \ {Master}
        /\ UNCHANGED <<deque, parent, incomplete, ext, team, parity, ptr, go>> /\ arrived' = {}
        /\ finished' = [finished EXCEPT ![Master] = FALSE]
    BY <1>0, BarrierBase DEF Gathered, Doing, Done, Base
  <1>3. /\ TeamTypes' /\ ~finished'[Master]
        /\ \A u \in Thread \ {Master} : finished'[u] = finished[u]
    BY <1>0, <1>2 DEF BarrierInv, TeamTypes
  <1>4. OnTeam'
    BY <1>2 DEF BarrierInv, OnTeam
  <1>5. /\ \A u \in Thread : ~IsOpen(u) /\ parity[u] = m
        /\ \A u \in Thread \ {Master} : Base(u) = "release" /\ u \notin go
        /\ ~Spent(m)
    BY <1>1, <1>2, AllArrived
  <1>6. CASE team[m].found
    <2>1. Go(Master, "teamwait", "wait")
      BY <1>1, <1>6 DEF Gathered
    <2>2. /\ Depth(Master)' = 1 /\ Base(Master)' = "teamwait" /\ stack'[Master][1].at = "wait"
          /\ \A u \in Thread \ {Master} : stack'[u] = stack[u]
      <3>1. "teamwait" \in Actions /\ "wait" \in Places
        BY DEF Actions, Places
      <3> QED BY <1>0, <1>2, <2>1, <3>1, BaseFrame
    <2>3. /\ \A k \in 0..1 : Spent(k)' <=> Spent(k)
          /\ \A u \in Thread : IsOpen(u)' <=> IsOpen(u)
      BY <1>2, <2>2 DEF Spent, IsOpen, Attached
    <2>4. Phases'
      <3>1. ASSUME NEW u \in Thread \ {Master} PROVE Phase(u)'
        BY <1>2, <1>5, <2>2, <2>3 DEF Phase, Base
      <3>2. Master \notin arrived' \union go'
        BY <1>2 DEF BarrierInv, Phases
      <3> QED BY <3>1, <3>2 DEF Phases
    <2>5. Aside(Master)
      BY <1>2, <1>3, <2>2 DEF Aside
    <2>6. ASSUME NEW u \in Thread \ {Master} PROVE ThreadInv(u)'
      BY <1>0, <1>2, <2>3, <2>5, AsideRight DEF BarrierInv
    <2>7. ThreadInv(Master)'
      <3>1. QueuedRight(Master)'
        BY <1>0, <1>2, <2>3 DEF BarrierInv, ThreadInv, QueuedRight, Queued
      <3> QED BY <1>0, <1>3, <2>2, <3>1, JustRight
    <2>8. OutsideRight'
      BY <1>2, <2>3 DEF BarrierInv, OutsideRight, Outside, IsOpen
    <2>9. TeamCounts'
      <3>1. \A u \in Thread : \A k \in 0..1 : Fin(u, k)' <=> Fin(u, k)
        BY <1>2, <1>3, <2>2 DEF Fin, LastWait, Base
      <3> QED BY <1>2, <2>2, <2>3, <3>1, CountsStay DEF BarrierInv, TeamCounts
    <2> QED BY <1>3, <1>4, <2>4, <2>6, <2>7, <2>8, <2>9 DEF BarrierInv
  <1>7. CASE ~team[m].found
    <2>1. Go(Master, "letgo", 1)
      BY <1>1, <1>7 DEF Gathered
    <2>2. \A u \in Thread \ {Master} : Still(u) /\ ~finished[u]
      BY <1>5, <1>7 DEF BarrierInv, ThreadInv, QuietRight, LastWait
    <2>3. \A x \in Tasks \ Proxies : ~InDeque(x)
      BY <1>5, <1>7 DEF InDeque, BarrierInv, ThreadInv, QueuedRight
    <2>4. \A x \in Proxies : ~Outside(x)
      BY <1>5, <1>7 DEF BarrierInv, OutsideRight
    <2>5. team[m].unfinished = NProc
      <3>1. {u \in Thread : ~Fin(u, m)} = Thread
        BY <1>2, <2>2 DEF Fin, LastWait
      <3> QED BY <1>5, <3>1, TeamSize DEF BarrierInv, TeamCounts
    <2>6. \A k \in 0..1 : IF k = m THEN team'[k].active => team'[k].unfinished = NProc /\ ~team'[k].found
                                   ELSE team'[k] = team[k]
      BY <1>2, <1>7, <2>5
    <2>7. \A u \in Thread \ {Master} : ptr'[u] = ptr[u]
      BY <1>2
    <2> QED BY <1>0, <1>1, <1>2, <1>3, <1>4, <2>1, <2>2, <2>3, <2>4, <2>6, <2>7, OpeningKeeps
  <1> QED BY <1>6, <1>7

LEMMA LetGoKeeps ==
    ASSUME CountInv, Attached, BarrierInv, LetGo
    PROVE  BarrierInv'
  <1> USE DEF tree, teams, sync
  <1>0. Master \in Thread /\ BarrierStep(Master)
    BY TeamAssumption DEF Master, Thread, BarrierStep, MasterStep
  <1>1. PICK a : a = stack[Master][1].at
    OBVIOUS
  <1>2. /\ Depth(Master) = 1 /\ Base(Master) = "letgo" /\ a < NProc /\ Go(Master, "letgo", a + 1)
        /\ UNCHANGED <<deque, parent, incomplete, ext, team, parity, ptr, finished, arrived>>
        /\ go' = go \union {a}
    BY <1>0, <1>1, BarrierBase DEF LetGo, Doing, Base
  <1>3. a \in 1..NProc
    BY <1>0, <1>1, <1>2, FrameTop DEF GoodFrame, Base
  <1>4. a \in Thread \ {Master} /\ a + 1 \in Places
    BY <1>2, <1>3, TeamAssumption DEF Thread, Master, Places
  <1>5. /\ Depth(Master)' = 1 /\ Base(Master)' = "letgo" /\ stack'[Master][1].at = a + 1
        /\ \A u \in Thread \ {Master} : stack'[u] = stack[u]
    <2>1. "letgo" \in Actions
      BY DEF Actions
    <2> QED BY <1>0, <1>2, <1>4, <2>1, BaseFrame
  <1>6. /\ \A k \in 0..1 : Spent(k)' <=> Spent(k)
        /\ \A u \in Thread : IsOpen(u)' <=> IsOpen(u)
    BY <1>2, <1>5 DEF Spent, IsOpen, Attached
  <1>7. TeamTypes' /\ OnTeam' /\ Aside(Master)
    BY <1>2, <1>4, <1>5 DEF BarrierInv, TeamTypes, OnTeam, Aside
  <1>8. Phases'
    <2>1. ASSUME NEW u \in Thread \ {Master} PROVE Phase(u)'
      <3>1. Phase(u) /\ u \in Int
        BY TeamAssumption DEF BarrierInv, Phases, Thread
      <3>2. u >= a + 1 => u >= a /\ u # a
        BY <1>3, <3>1
      <3>3. Base(u)' = Base(u) /\ (u = a => IsOpen(u)) /\ (u >= a => IsOpen(u) /\ u \notin go)
        BY <1>1, <1>2, <1>3, <1>5, <3>1 DEF Phase, Base
      <3> QED BY <1>2, <1>5, <1>6, <3>1, <3>2, <3>3 DEF Phase
    <2>2. Master \notin arrived' \union go'
      BY <1>2, <1>4 DEF BarrierInv, Phases
    <2> QED BY <2>1, <2>2 DEF Phases
  <1>9. ASSUME NEW u \in Thread \ {Master} PROVE ThreadInv(u)'
    BY <1>0, <1>2, <1>6, <1>7, AsideRight DEF BarrierInv
  <1>10. ThreadInv(Master)'
    <2>1. QueuedRight(Master)'
      BY <1>0, <1>2, <1>6 DEF BarrierInv, ThreadInv, QueuedRight, Queued
    <2> QED BY <1>0, <1>5, <2>1, JustRight DEF LastWait
  <1>11. OutsideRight'
    BY <1>2, <1>6 DEF BarrierInv, OutsideRight, Outside, IsOpen
  <1>12. TeamCounts'
    <2>1. \A u \in Thread : \A k \in 0..1 : Fin(u, k)' <=> Fin(u, k)
      BY <1>2, <1>5 DEF Fin, LastWait, Base
    <2> QED BY <1>2, <1>5, <1>6, <2>1, CountsStay DEF BarrierInv, TeamCounts
  <1> QED BY <1>7, <1>8, <1>9, <1>10, <1>11, <1>12 DEF BarrierInv

(* A thread leaves the barrier and turns to the other task team.            *)
LEMMA SyncKeeps ==
    ASSUME CountInv, Attached, BarrierInv, NEW t \in Thread, BarrierStep(t), Sync(t), IsOpen(t),
           IF t = Master THEN Base(t) = "letgo" /\ go' = go ELSE t \in go /\ go' = go \ {t}
    PROVE  BarrierInv'
  <1> USE DEF tree, teams, sync
  <1>0. Master \in Thread
    BY TeamAssumption DEF Master, Thread
  <1>1. /\ Depth(t) = 1 /\ Go(t, "run", "-")
        /\ UNCHANGED <<deque, parent, incomplete, ext, team, finished, arrived>>
    BY BarrierBase DEF Sync
  <1>2. PICK m \in 0..1 : m = parity[t] /\ 1 - m \in 0..1
    BY DEF Attached
  <1>3. /\ parity'[t] = 1 - m /\ ptr'[t] = 1 - m
        /\ \A u \in Thread \ {t} : parity'[u] = parity[u] /\ ptr'[u] = ptr[u]
        /\ parity' \in [Thread -> 0..1]
    BY <1>2 DEF Sync, Attached
  <1>4. /\ Depth(t)' = 1 /\ Base(t)' = "run" /\ \A u \in Thread \ {t} : stack'[u] = stack[u]
    <2>1. "run" \in Actions /\ "-" \in Places
      BY DEF Actions, Places
    <2> QED BY <1>1, <2>1, BaseFrame
  <1>5. \A k \in 0..1 : (Spent(k)' <=> Spent(k)) /\ (Spent(k) <=> k = m)
    <2>1. Spent(m) /\ parity[Master] \in 0..1
      BY <1>0, <1>2 DEF IsOpen, Attached
    <2>2. CASE t = Master
      BY <1>2, <1>3, <1>4, <2>1, <2>2 DEF Spent
    <2>3. CASE t # Master
      <3>1. parity'[Master] = parity[Master] /\ Base(Master)' = Base(Master)
        BY <1>0, <1>3, <1>4, <2>3 DEF Base
      <3> QED BY <2>1, <3>1 DEF Spent
    <2> QED BY <2>2, <2>3
  <1>6. /\ ~IsOpen(t)' /\ \A u \in Thread \ {t} : IsOpen(u)' <=> IsOpen(u)
    BY <1>2, <1>3, <1>5 DEF IsOpen, Attached
  <1>7. TeamTypes' /\ OnTeam' /\ Aside(t)
    <2>1. TeamTypes' /\ Aside(t)
      BY <1>1, <1>3, <1>4 DEF BarrierInv, TeamTypes, Aside
    <2>2. OnTeam'
      BY <1>3 DEF BarrierInv, OnTeam
    <2> QED BY <2>1, <2>2
  <1>8. Phases'
    <2>1. ASSUME NEW u \in Thread \ {Master} PROVE Phase(u)'
      <3>1. Phase(u)
        BY DEF BarrierInv, Phases
      <3>2. t # Master => stack'[Master] = stack[Master]
        BY <1>0, <1>4
      <3>3. CASE u = t
        BY <1>1, <1>4, <1>6, <3>1, <3>2, <3>3 DEF Phase, Base
      <3>4. CASE u # t
        BY <1>1, <1>4, <1>6, <3>1, <3>2, <3>4 DEF Phase, Base
      <3> QED BY <3>3, <3>4
    <2>2. Master \notin arrived' \union go'
      BY <1>1 DEF BarrierInv, Phases
    <2> QED BY <2>1, <2>2 DEF Phases
  <1>9. ASSUME NEW u \in Thread \ {t} PROVE ThreadInv(u)'
    BY <1>1, <1>6, <1>7, AsideRight DEF BarrierInv
  <1>10. ThreadInv(t)'
    <2>1. QueuedRight(t)'
      BY <1>1 DEF BarrierInv, ThreadInv, QueuedRight, Queued
    <2> QED BY <1>4, <1>6, <2>1, JustRight DEF LastWait
  <1>11. OutsideRight'
    <2> SUFFICES ASSUME NEW x \in Proxies, Outside(x)'
                 PROVE  parent'[x] \in Thread /\ ~IsOpen(parent[x])' /\ team'[parity'[parent'[x]]].found
      BY <1>1 DEF OutsideRight
    <2>1. PICK u \in Thread : u = parent[x] /\ ~IsOpen(u) /\ team[parity[u]].found
      BY <1>1 DEF BarrierInv, OutsideRight, Outside
    <2>2. u # t /\ ~IsOpen(u)' /\ parity'[u] = parity[u]
      BY <1>3, <1>6, <2>1
    <2>3. parent'[x] = u /\ team'[parity'[u]].found
      BY <1>1, <2>1, <2>2
    <2>4. IsOpen(parent[x])' <=> IsOpen(u)'
      BY <2>3 DEF IsOpen
    <2> QED BY <2>2, <2>3, <2>4
  <1>12. TeamCounts'
    <2>1. ASSUME NEW k \in 0..1, ~Spent(k), NEW u \in Thread PROVE Fin(u, k)' <=> Fin(u, k)
      <3>1. CASE u = t
        BY <1>2, <1>4, <1>5, <2>1, <3>1 DEF Fin, LastWait
      <3>2. CASE u # t
        BY <1>1, <1>3, <1>4, <3>2 DEF Fin, LastWait, Base
      <3> QED BY <3>1, <3>2
    <2>2. Base(Master)' \in {"gather", "teamwait"} => Base(Master) \in {"gather", "teamwait"}
      BY <1>0, <1>4 DEF Base
    <2> QED BY <1>1, <1>5, <2>1, <2>2, CountsStay DEF BarrierInv, TeamCounts
  <1> QED BY <1>7, <1>8, <1>9, <1>10, <1>11, <1>12 DEF BarrierInv

LEMMA BarrierKeeps ==
    ASSUME CountInv, Attached, BarrierInv, NEW t \in Thread, BarrierStep(t)
    PROVE  BarrierInv'
  <1>0. Master \in Thread
    BY TeamAssumption DEF Master, Thread
  <1>1. CASE WorkerLeaves(t)
    <2>1. t \in go /\ t # Master
      BY <1>1, BarrierBase, FrameTop DEF WorkerLeaves, Done, Doing, Working, InBarrier, BarrierInv, Phases
    <2>2. IsOpen(t)
      BY <2>1 DEF BarrierInv, Phases, Phase
    <2> QED BY <1>1, <2>1, <2>2, SyncKeeps DEF WorkerLeaves
  <1>2. CASE t = Master /\ MasterLeaves
    <2>1. Base(Master) = "letgo" /\ IsOpen(Master)
      BY <1>2, BarrierBase DEF MasterLeaves, Doing, Base, IsOpen, Spent
    <2> QED BY <1>2, <2>1, SyncKeeps DEF MasterLeaves
  <1> QED BY <1>1, <1>2, WorkerArrivesKeeps, MasterArrivesKeeps, GatheredKeeps, DeactivateKeeps, LetGoKeeps
          DEF BarrierStep, MasterStep

-----------------------------------------------------------------------------
(* The invariant holds for ever.                                            *)

LEMMA BarrierInit == Init => BarrierInv
  <1> SUFFICES ASSUME Init PROVE BarrierInv
    OBVIOUS
  <1>1. 0 \in Thread /\ Master \in Thread /\ NProc \in Int
    BY TeamAssumption DEF Thread, Master
  <1>2. \A t \in Thread : stack[t] = <<Run(t)>> /\ Len(stack[t]) = 1 /\ stack[t][1].doing = "run"
    BY DEF Init, Run, Frame
  <1>3. \A t \in Thread : Base(t) = "run" /\ ~LastWait(t)
    BY <1>2 DEF Base, LastWait
  <1>4. \A k \in 0..1 : Spent(k) <=> k = 1
    BY <1>1, <1>3 DEF Spent, Init
  <1>5. \A t \in Thread : ~IsOpen(t)
    BY <1>4 DEF IsOpen, Init
  <1>6. \A k \in 0..1 : team[k] = FreshTeam
    BY DEF Init
  <1>7. FreshTeam \in [active : BOOLEAN, found : BOOLEAN, proxies : BOOLEAN, unfinished : Int]
        /\ FreshTeam.active /\ ~FreshTeam.found /\ FreshTeam.unfinished = NProc
    BY <1>1 DEF FreshTeam
  <1> HIDE DEF FreshTeam
  <1>8. TeamTypes /\ OnTeam
    BY <1>7 DEF TeamTypes, OnTeam, Init
  <1>9. Phases
    BY <1>1, <1>3, <1>5 DEF Phases, Phase, Init
  <1>10. ASSUME NEW t \in Thread PROVE ThreadInv(t)
    <2>1. QueuedRight(t)
      BY DEF QueuedRight, Queued, Init
    <2> QED BY <1>3, <1>5, <2>1 DEF ThreadInv, FinishedRight, OpenedRight, QuietRight, LookedRight
  <1>11. OutsideRight
    BY DEF OutsideRight, Outside, Init
  <1>12. TeamCounts
    <2>1. \A k \in 0..1 : {t \in Thread : ~Fin(t, k)} = Thread
      BY <1>3 DEF Fin
    <2> QED BY <1>6, <1>7, <2>1, TeamSize DEF TeamCounts
  <1> QED BY <1>8, <1>9, <1>10, <1>11, <1>12 DEF BarrierInv

LEMMA InvariantKept ==
    ASSUME CountInv, Attached, BarrierInv, Direct, [Next /\ InTime]_vars
    PROVE  BarrierInv'
  <1>1. CASE UNCHANGED vars
    <2>1. /\ UNCHANGED <<stack, deque, parent, incomplete, ext, team, parity, ptr, finished, arrived, go>>
      BY <1>1 DEF vars
    <2>2. TeamTypes' /\ OnTeam' /\ Phases' /\ OutsideRight' /\ TeamCounts'
      BY <2>1 DEF BarrierInv, TeamTypes, OnTeam, Phases, Phase, OutsideRight, Outside, TeamCounts, Fin, LastWait,
         IsOpen, Spent, Base
    <2>3. (\A u \in Thread : ThreadInv(u))'
      BY <2>1 DEF BarrierInv, ThreadInv, FinishedRight, OpenedRight, QuietRight, LookedRight, QueuedRight,
         LastWait, Still, Emptied, Plain, Leftover, IsOpen, Spent, Base, Depth, Queued
    <2> QED BY <2>2, <2>3 DEF BarrierInv
  <1>2. CASE Next /\ InTime
    <2>1. ASSUME NEW t \in Thread, Step(t) \/ Reach(t) \/ Taskwait(t) \/ (t = Master /\ MasterStep)
          PROVE  BarrierInv'
      <3>1. CASE \/ CountParent(t) \/ CountGroup(t) \/ ProxyTopHalf(t) \/ BottomHalf(t) \/ End(t)
                 \/ Taskwait(t) \/ EndGroup(t) \/ LeaveTaskwait(t) \/ LeaveGroup(t)
        BY <3>1, EndKeeps
      <3>2. CASE FreeTask(t) \/ WaitTurn(t) \/ TakeOwn(t) \/ GiveUp(t)
        BY <3>2, FreeKeeps, TurnKeeps, TakeOwnKeeps, GiveUpKeeps
      <3>3. CASE \E v \in Thread : Steal(t, v)
        BY <1>2, <3>3, StealKeeps
      <3>4. CASE BarrierStep(t)
        BY <3>4, BarrierKeeps
      <3> QED BY <2>1, <3>1, <3>2, <3>3, <3>4 DEF Step, Reach, BarrierStep
    <2>2. Master \in Thread
      BY TeamAssumption DEF Master, Thread
    <2> QED BY <1>2, <2>1, <2>2, CreateKeeps, GroupKeeps, CompleteKeeps DEF Next
  <1> QED BY <1>1, <1>2

(* Nothing is left when the master opens the barrier.                       *)
LEMMA NothingPending ==
    ASSUME CountInv, Attached, BarrierInv
    PROVE  BarrierWaitsForTasks
  <1> SUFFICES ASSUME Doing(Master, "letgo"), Top(Master).at = 1, NEW x \in Tasks
               PROVE  Over(x)
    BY DEF BarrierWaitsForTasks
  <1>0. Master \in Thread
    BY TeamAssumption DEF Master, Thread
  <1>1. /\ Depth(Master) = 1 /\ Base(Master) = "letgo" /\ stack[Master][1].at = 1
    BY <1>0, FrameTop DEF Doing, Working, Ends, Halves, Base
  <1>2. \A u \in Thread : IsOpen(u) /\ (u # Master => LastWait(u))
    <2>1. \A u \in Thread \ {Master} : u >= 1
      BY TeamAssumption DEF Thread, Master
    <2>2. \A u \in Thread \ {Master} : IsOpen(u) /\ Base(u) = "release"
      BY <1>1, <2>1 DEF BarrierInv, Phases, Phase
    <2>3. IsOpen(Master)
      BY <1>1 DEF IsOpen, Spent
    <2> QED BY <2>2, <2>3 DEF LastWait
  <1>3. x \in Proxies \/ ~InDeque(x)
    BY <1>2 DEF InDeque, BarrierInv, ThreadInv, QueuedRight
  <1>4. ~Outside(x)
    BY <1>2 DEF BarrierInv, OutsideRight, Outside
  <1>5. ASSUME NEW u \in Thread, NEW i \in Nat, Hold(x, u, i) PROVE FALSE
    <2>1. i \in 2..Depth(u)
      BY <1>5, HeldTask DEF CountInv
    <2>2. Depth(u) # 1 /\ u # Master
      BY <1>0, <1>1, <2>1, FrameTop
    <2>3. Emptied(u)
      BY <1>2, <2>2 DEF BarrierInv, ThreadInv, OpenedRight, FinishedRight, Still
    <2> QED BY <1>5, <2>1, <2>3 DEF Emptied, Hold, Owing, Working
  <1>6. ~Owed(x)
    BY <1>3, <1>4, <1>5 DEF Owed, OnStack
  <1> QED BY <1>6 DEF CountInv, Alive, Pending, Over, TaskTypes

(* A barrier waits for the tasks of the region, where a thread that has     *)
(* counted itself as finished does not execute a task after the master has  *)
(* gone on (__kmp_task_team_wait in kmp_tasking.cpp waits until the count   *)
(* of unfinished threads is zero).                                          *)
THEOREM BarrierWaits == Direct => (TimelySpec => []BarrierWaitsForTasks)
  <1> SUFFICES ASSUME Direct PROVE TimelySpec => []BarrierWaitsForTasks
    OBVIOUS
  <1>1. Init => CountInv /\ Attached /\ BarrierInv
    BY CountInit, BarrierInit
  <1>2. CountInv /\ Attached /\ BarrierInv /\ [Next /\ InTime]_vars => (CountInv /\ Attached /\ BarrierInv)'
    BY CountStep, InvariantKept
  <1>3. CountInv /\ Attached /\ BarrierInv => BarrierWaitsForTasks
    BY NothingPending
  <1> QED BY <1>1, <1>2, <1>3, PTL DEF TimelySpec

(* Without proxy tasks no thread does that: nothing is queued in the task   *)
(* team of a barrier that has been opened.                                  *)
LEMMA NoLateThief ==
    ASSUME Proxies = {}, CountInv, Attached, BarrierInv, [Next]_vars
    PROVE  [Next /\ InTime]_vars
  <1> USE DEF tree, teams, sync
  <1> SUFFICES ASSUME Next, NEW t \in Thread, IsOpen(t), finished[t], ~finished'[t] PROVE FALSE
    BY DEF InTime
  <1>0. Master \in Thread /\ finished \in [Thread -> BOOLEAN]
    BY TeamAssumption DEF Master, Thread, BarrierInv, TeamTypes
  <1>1. ~UNCHANGED finished
    OBVIOUS
  <1>2. ASSUME NEW u \in Thread, NEW v \in Thread, Steal(u, v) PROVE FALSE
    <2>1. PICK k \in 0..1 : k = ptr[u]
      BY <1>2, Busy DEF CountInv, Steal
    <2>2. PICK x : x = Head(deque[k][v])
      OBVIOUS
    <2>3. /\ deque[k][v] # <<>> /\ Waiting(u) /\ Top(u).at = "steal" /\ Final(u)
          /\ TakenOldest(k, v) /\ u = t
      BY <1>0, <1>1, <1>2, <2>1, <2>2 DEF Steal, TakenOldest
    <2>4. k = parity[t]
      BY <2>1, <2>3, Looks DEF Final, InBarrierWait
    <2>5. PICK i \in Nat : x \in Tasks /\ Queued(x, k, v, i)
      BY <2>2, <2>3, Takes
    <2>6. ~IsOpen(v) /\ parity[v] = k
      BY <2>5 DEF BarrierInv, ThreadInv, QueuedRight
    <2> QED BY <2>4, <2>6 DEF IsOpen
  <1>3. ASSUME NEW u \in Thread, GiveUp(u) PROVE FALSE
    BY <1>0, <1>3 DEF GiveUp
  <1>4. ASSUME NEW u \in Thread, WorkerArrives(u) PROVE FALSE
    <2>1. u = t /\ u # Master
      BY <1>0, <1>4 DEF WorkerArrives
    <2>2. Base(t) = "run"
      <3>1. BarrierStep(t)
        BY <1>4, <2>1 DEF BarrierStep
      <3> QED BY <1>4, <2>1, <3>1, BarrierBase DEF WorkerArrives, AtBarrier, Doing, Base
    <2> QED BY <2>1, <2>2 DEF BarrierInv, Phases, Phase
  <1>5. ASSUME Gathered PROVE FALSE
    <2>1. t = Master
      BY <1>0, <1>5 DEF Gathered
    <2>2. Base(Master) = "gather"
      <3>1. BarrierStep(Master)
        BY <1>5 DEF BarrierStep, MasterStep
      <3> QED BY <1>0, <1>5, <3>1, BarrierBase DEF Gathered, Doing, Base
    <2> QED BY <2>1, <2>2 DEF IsOpen, Spent
  <1>6. ASSUME NEW u \in Thread,
               \/ CountParent(u) \/ CountGroup(u) \/ FreeTask(u) \/ ProxyTopHalf(u) \/ BottomHalf(u)
               \/ WaitTurn(u) \/ TakeOwn(u) \/ LeaveTaskwait(u) \/ LeaveGroup(u) \/ WorkerLeaves(u)
               \/ End(u) \/ EndGroup(u) \/ MasterArrives \/ Taskwait(u) \/ Deactivate \/ LetGo \/ MasterLeaves
        PROVE  UNCHANGED finished
    BY <1>6 DEF CountParent, CountGroup, FreeTask, ProxyTopHalf, BottomHalf, WaitTurn, TakeOwn, LeaveTaskwait,
       LeaveGroup, WorkerLeaves, Sync, End, EndGroup, MasterArrives, Taskwait, Deactivate, LetGo, MasterLeaves
  <1>7. ASSUME NEW u \in Thread,
               \/ \E x \in Tasks : CreateDeferred(u, x) \/ CreateUndeferred(u, x) \/ CreateProxy(u, x)
               \/ \E g \in Groups : StartGroup(u, g)
        PROVE  UNCHANGED finished
    BY <1>7 DEF CreateDeferred, CreateUndeferred, CreateProxy, StartGroup
  <1> QED BY <1>0, <1>1, <1>2, <1>3, <1>4, <1>5, <1>6, <1>7 DEF Next, Step, Reach, MasterStep

(* A barrier waits for the tasks of the region: in a program without proxy  *)
(* tasks every explicit task has been executed when the master opens the    *)
(* barrier, wherever it was queued or stolen (__kmp_task_team_wait and      *)
(* __kmp_execute_tasks_template in kmp_tasking.cpp).                        *)
THEOREM BarrierWaitsAlways == Proxies = {} /\ Direct => (SafeSpec => []BarrierWaitsForTasks)
  <1> SUFFICES ASSUME Proxies = {}, Direct PROVE SafeSpec => []BarrierWaitsForTasks
    OBVIOUS
  <1>1. Init => CountInv /\ Attached /\ BarrierInv
    BY CountInit, BarrierInit
  <1>2. CountInv /\ Attached /\ BarrierInv /\ [Next]_vars => (CountInv /\ Attached /\ BarrierInv)'
    BY CountStep, InvariantKept, NoLateThief
  <1>3. CountInv /\ Attached /\ BarrierInv => BarrierWaitsForTasks
    BY NothingPending
  <1> QED BY <1>1, <1>2, <1>3, PTL DEF SafeSpec


-----------------------------------------------------------------------------
(* The run of module MCTasks takes steps of the tasks, of the dependences   *)
(* and of the taskloops in turn, so that it keeps what each of them keeps.  *)
(* No task and no node of a dependence graph is used after it was freed     *)
(* (__kmp_free_task_and_ancestors, __kmp_node_deref).                       *)
THEOREM NothingFreedIsUsed == MCSpec => []NothingUsedAfterFree
  <1>1. MCInit => Init /\ DepsInit
    BY DEF MCInit
  <1>2. [MCNext]_<<part, vars, depsVars, loopVars>> => [Next]_vars /\ [DepsNext]_depsVars
    BY DEF MCNext
  <1>3. SafeSpec => []NoUseAfterFree
    BY NothingIsUsedAfterFree
  <1>4. DepsInv /\ [DepsNext]_depsVars => DepsInv'
    BY InvNext
  <1>5. MCInit => DepsInv
    BY <1>1, InvAtFirst
  <1>6. DepsInv => NodesLiveWhileUsed
    BY InvCounts
  <1>7. NoUseAfterFree /\ NodesLiveWhileUsed <=> NothingUsedAfterFree
    BY DEF NothingUsedAfterFree
  <1> QED BY <1>1, <1>2, <1>3, <1>4, <1>5, <1>6, <1>7, PTL DEF MCSpec, SafeSpec
=============================================================================
