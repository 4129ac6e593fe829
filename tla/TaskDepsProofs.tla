---------------------------- MODULE TaskDepsProofs ----------------------------
(***************************************************************************)
(* Dependences are kept, and nodes live as long as they are used, for any  *)
(* program of a parent, any variables and any limit on locks, while tasks  *)
(* end as the parent links new ones to them.  DepsInv is inductive:        *)
(*                                                                         *)
(*   DepsShape   what each step of the program and its node look like,     *)
(*   HashGood    what the entries of the hash name,                        *)
(*   DepCounts   npredecessors is the number of notifications on the way,  *)
(*   Order       whoever a step depends on is over or on a path to it,     *)
(*   LockInv     who has the locks of mutexinoutset variables,             *)
(*   RefsInv     nrefs is the number of references,                        *)
(*   CleanInv    who counts as a child, and who cleans the hash.           *)
(***************************************************************************)
EXTENDS TaskDeps, FiniteSetTheorems, SequenceTheorems, TLAPS
-----------------------------------------------------------------------------
(* Words of the invariant.                                                  *)

Kinds == {"in", "out", "mtx"}

(* The new step is being linked, or is a wait that waits.                   *)
Preparing == at \in {"deps", "link"}
Entering == Preparing \/ at = "wait"
Creating == Entering \/ at = "step"
Entered(x) == x < step \/ (x = step /\ Entering)
Submitted(x) == x < step \/ (x = step /\ at = "wait")

(* The step has been put into the entry of v; step x has, as k.             *)
Treated(v) == Entering /\ \E i \in Filtered(step) \ todo : VarOf(step, i) = v
Seen(x, v, k) == Names(x, v, k) /\ (x < step \/ (x = step /\ Treated(v)))

(* The dependence that the step is being linked for is on v.                *)
Linking(v) == at = "link" /\ \E i \in todo : Least(todo, i) /\ VarOf(step, i) = v

Ready(x) == IF IsTask(x) THEN nodeLife[x] \notin {"none", "new", "blocked"} ELSE x < step

(* An earlier step that x depends on, by itself or through another one.     *)
Follows(u, x) == u < x /\ Ordered(u, x)
ComesBefore(u, x) == Follows(u, x) \/ \E m \in Steps : Follows(u, m) /\ Follows(m, x)
Leads(u, p) == p = u \/ ComesBefore(u, p)

(* The notifications that x has yet to get.                                 *)
ToNotify(p) == IF nodeLife[p] \in {"queueing", "forgetting"} THEN left[p] - 1 ELSE Listed(p)
Linked(p, x) == \E i \in 1..ToNotify(p) : node[p].succ[i] = x
Owes(x) == UNION {{<<p, i>> : i \in {j \in 1..ToNotify(p) : node[p].succ[j] = x}} : p \in Steps}

(* The body of u is over, or x waits for a step that u is before.           *)
Cov(u, x) == BodyIsOver(u) \/ \E p \in Steps : Leads(u, p) /\ Linked(p, x)

-----------------------------------------------------------------------------
(* The places of the parent, the lives of the tasks and the nodes.          *)

ParentPlaces ==
    /\ graph \in Graphs
    /\ step \in 1..(Len(graph.does) + 1)
    /\ at \in {"step", "deps", "link", "wait", "mark", "clean", "empty", "end"}
    /\ tracked \in BOOLEAN /\ complete \in BOOLEAN /\ found \in Nat
    /\ Entering => step \in Steps /\ tracked
    /\ at = "wait" => ~IsTask(step) /\ todo = {}
    /\ ~Creating => step = Len(graph.does) + 1
    /\ Creating => ~complete
    /\ complete => tracked /\ Implicit
    /\ at = "empty" => Implicit
    /\ Preparing => todo \subseteq Filtered(step)
    /\ at = "link" => \E i \in todo : Least(todo, i)

Lives == {"none", "new", "blocked", "queued", "locking", "backing", "runs", "unlocking", "ended",
          "releasing", "notifying", "queueing", "forgetting", "freeing", "cleaning", "emptying",
          "freed"}
Notifying == {"releasing", "notifying", "queueing", "forgetting"}
Gone == {"freeing", "cleaning", "emptying", "freed"}

LifeAt(x) ==
    /\ nodeLife[x] = "new" <=> IsTask(x) /\ x = step /\ Preparing
    /\ nodeLife[x] = "none" <=> ~IsTask(x) \/ ~Entered(x)
    /\ nodeLife[x] \in {"new", "blocked"} \cup Notifying => HasNode(x)
    /\ nodeLife[x] \in {"cleaning", "emptying"} => Implicit /\ ~Creating
LifeInv == nodeLife \in [Steps -> Lives] /\ \A x \in Steps : LifeAt(x)

NodeType == [task : BOOLEAN, npred : Int, succ : Seq(Nat), refs : Int, locks : SUBSET Variables]
NodeTypes == node \in [Steps -> NodeType] /\ left \in [Steps -> Nat]

(* Who has yet to be told stands in the list of a task that has begun ...   *)
MarkAt(x) == node[x].task <=> IsTask(x) /\ HasNode(x) /\ nodeLife[x] \notin {"none", "new"} \cup Released
LeftAt(x) ==
    /\ left[x] <= Len(node[x].succ)
    /\ nodeLife[x] \in {"queueing", "forgetting"} => left[x] > 0
    /\ nodeLife[x] \in Gone => left[x] = 0
(* ... and is a later step.                                                 *)
SuccAt(x) ==
    /\ node[x].succ # <<>> => IsTask(x) /\ HasNode(x) /\ x < step
    /\ \A i \in 1..Len(node[x].succ) : LET s == node[x].succ[i] IN s \in Steps /\ x < s /\ Entered(s)
NodeInv == \A x \in Steps : MarkAt(x) /\ LeftAt(x) /\ SuccAt(x) /\ (~Entered(x) => node[x] = NoNode)

HashIsEmpty == \A v \in Variables : LastOut(hash[v]) = {} /\ hash[v].ins = {} /\ hash[v].mtxs = {}

(* Without a hash there has been no dependence.                             *)
TrackedInv == ~tracked => HashIsEmpty /\ \A x \in Steps : x < step /\ IsTask(x) => ~HasNode(x)

DepsShape == ParentPlaces /\ LifeInv /\ NodeTypes /\ NodeInv

-----------------------------------------------------------------------------
(* The entries of the hash.                                                 *)

EntryType == [out : Nat, ins : SUBSET Nat, mtxs : SUBSET Nat, flag : {"ins", "mtxs"},
              lock : {"none", "made", "freed"}]
GoodEntry(h, v) ==
    /\ \A x \in LastOut(h) : x \in Steps /\ Seen(x, v, "out") /\ IsTask(x)
    /\ \A x \in h.ins : x \in Steps /\ Seen(x, v, "in")
    /\ \A x \in h.mtxs : x \in Steps /\ Seen(x, v, "mtx")
    /\ h.flag = "ins" /\ h.mtxs # {} => h.ins # {}
    /\ h.flag = "mtxs" /\ h.ins # {} => h.mtxs # {}
    /\ h.flag = "ins" /\ h.ins # {} => \E m \in h.ins : \A x \in Steps, k \in Kinds : Seen(x, v, k) => x <= m
    /\ h.flag = "mtxs" /\ h.mtxs # {} => \E m \in h.mtxs : \A x \in Steps, k \in Kinds : Seen(x, v, k) => x <= m
HashInv == hash \in [Variables -> EntryType] /\ \A v \in Variables : GoodEntry(hash[v], v)

(* The nodes that the step is yet to be linked to.                          *)
LinkInv == at = "link" => \A p \in link : p \in Steps /\ p < step /\ (IsTask(p) => HasNode(p))

-----------------------------------------------------------------------------
(* The counts of predecessors.                                              *)

CountsInv ==
    \A x \in Steps :
        /\ IsFiniteSet(Owes(x))
        /\ Submitted(x) => node[x].npred = Cardinality(Owes(x))
        /\ x = step /\ Preparing =>
              node[x].npred < 0 /\ node[x].npred = Cardinality(Owes(x)) - found - 1

(* Only the one who took the last predecessor away queues the task.         *)
QueueInv ==
    \A p \in Steps : nodeLife[p] = "queueing" =>
        /\ Submitted(Successor(p)) /\ node[Successor(p)].npred = 0
        /\ IsTask(Successor(p)) => nodeLife[Successor(p)] = "blocked"
        /\ \A q \in Steps : nodeLife[q] = "queueing" /\ Successor(q) = Successor(p) => q = p

ReadyInv == \A x, p \in Steps : Ready(x) => ~Linked(p, x)

-----------------------------------------------------------------------------
(* The order of the tasks.                                                  *)

(* The wait has wiped the entry: it waits for u itself.                     *)
Waited(u, v) == Treated(v) /\ ~IsTask(step) /\ Follows(u, step)

HashCovers ==
    Creating => \A u \in Steps, v \in Variables, k, l \in Kinds :
        IsTask(u) /\ Seen(u, v, k) /\ Conflict(k, l) =>
            BodyIsOver(u) \/ Waited(u, v) \/ \E p \in Predecessors(hash[v], l) : Leads(u, p)

LinkCovers ==
    Preparing => \A u \in Steps, v \in Variables, k, l \in Kinds :
        IsTask(u) /\ u < step /\ Names(u, v, k) /\ Names(step, v, l) /\ Conflict(k, l) =>
            /\ Treated(v) => Cov(u, step)
            /\ Linking(v) => Cov(u, step) \/ \E p \in link : Leads(u, p)

Covered == \A u, x \in Steps : IsTask(u) /\ Submitted(x) /\ Follows(u, x) => Cov(u, x)

-----------------------------------------------------------------------------
(* The locks of mutexinoutset dependences.                                  *)

LockInv ==
    /\ held \in [Steps -> SUBSET Variables]
    /\ mtx \in [Variables -> Nat]
    /\ \A x \in Steps :
         /\ held[x] \subseteq node[x].locks
         /\ \A v \in held[x] : mtx[v] = x
         /\ nodeLife[x] = "runs" => held[x] = node[x].locks
         /\ \A v \in Variables : Seen(x, v, "mtx") => v \in node[x].locks
    /\ \A v \in Variables : mtx[v] # 0 => mtx[v] \in Steps /\ v \in held[mtx[v]]

-----------------------------------------------------------------------------
(* The references to nodes, and the end of the hash.                        *)

Own(x) == IF HasNode(x) /\ nodeLife[x] \notin {"none"} \cup Gone THEN 1 ELSE 0
RefsInv == \A x \in Steps :
    /\ IsFiniteSet(LinksTo(x))
    /\ IsTask(x) => node[x].refs = Own(x) + References(x)

Uncounted == {x \in Steps : nodeLife[x] \in {"new", "blocked", "queued", "locking", "backing", "runs",
                                             "unlocking", "ended"}}
CleanInv ==
    /\ pending = Cardinality(Uncounted)
    /\ Emptying => ~complete
    /\ complete /\ at = "end" => \E x \in Steps : IsTask(x) /\ nodeLife[x] # "freed"
    /\ at = "empty" => \A x \in Steps : nodeLife[x] # "emptying"
    /\ \A x, y \in Steps : nodeLife[x] = "emptying" /\ nodeLife[y] = "emptying" => x = y
    /\ ~Creating /\ ~complete => Emptying \/ HashIsEmpty

-----------------------------------------------------------------------------
(* What the program says of its steps.                                      *)

LEMMA GraphSteps ==
    ASSUME graph \in Graphs
    PROVE  /\ Len(graph.does) \in Nat /\ Steps = 1..Len(graph.does) /\ Steps \subseteq Nat
           /\ IsFiniteSet(Steps)
           /\ \A x \in Steps : graph.does[x].op \in {"task", "wait"}
           /\ \A x \in Steps : graph.does[x].deps \in Seq(Dependences)
<1>1. graph \in [parent : {"implicit", "explicit"},
                 does : Seq([op : {"task", "wait"}, deps : Seq(Dependences)])]
  BY DepsAssumption
<1>2. graph.does \in Seq([op : {"task", "wait"}, deps : Seq(Dependences)])
  BY <1>1
<1>3. Len(graph.does) \in Nat /\ Steps = 1..Len(graph.does)
  BY <1>2 DEF Steps
<1>4. \A x \in Steps : graph.does[x] \in [op : {"task", "wait"}, deps : Seq(Dependences)]
  BY <1>2, <1>3, ElementOfSeq
<1>5. IsFiniteSet(Steps)
  BY <1>3, FS_Interval
<1> QED
  BY <1>3, <1>4, <1>5

LEMMA StepKinds ==
    ASSUME graph \in Graphs, NEW x \in Steps
    PROVE  /\ Filtered(x) \subseteq Nat
           /\ \A i \in Filtered(x) : /\ VarOf(x, i) \in Variables
                                     /\ KindOf(x, i) \in Kinds
                                     /\ KindOf(x, i) = "mtx" => IsTask(x)
           /\ \A i, j \in Filtered(x) : VarOf(x, i) = VarOf(x, j) => i = j
           /\ IsTask(x) /\ Filtered(x) # {} => HasNode(x)
<1> DEFINE deps == graph.does[x].deps
<1>1. deps \in Seq(Dependences)
  BY GraphSteps
<1>2. DOMAIN deps \subseteq Nat /\ \A i \in DOMAIN deps : deps[i] \in Dependences
  BY <1>1
<1>3. \A i \in DOMAIN deps : deps[i].kind \in Kinds /\ deps[i].var \in Variables
  BY <1>2 DEF Dependences, Kinds
<1>4. Filtered(x) \subseteq DOMAIN deps
  BY DEF Filtered, First
<1>5. \A i \in DOMAIN deps : Merged(deps, deps[i].var) \in Kinds
  <2> SUFFICES ASSUME NEW i \in DOMAIN deps PROVE Merged(deps, deps[i].var) \in Kinds
    OBVIOUS
  <2> DEFINE kinds == {deps[k].kind : k \in {j \in DOMAIN deps : deps[j].var = deps[i].var}}
  <2>1. deps[i].kind \in kinds /\ kinds \subseteq Kinds
    BY <1>3
  <2>2. (CHOOSE k \in kinds : TRUE) \in kinds
    BY <2>1
  <2>3. Merged(deps, deps[i].var) = IF Cardinality(kinds) = 1 THEN CHOOSE k \in kinds : TRUE ELSE "out"
    BY DEF Merged
  <2> HIDE DEF kinds
  <2> QED
    BY <2>1, <2>2, <2>3 DEF Kinds
<1>6. \A i \in Filtered(x) : VarOf(x, i) \in Variables
  BY <1>3, <1>4 DEF VarOf
<1>7. \A i \in Filtered(x) : KindOf(x, i) \in Kinds /\ (KindOf(x, i) = "mtx" => IsTask(x))
  BY <1>4, <1>5 DEF KindOf, Kinds
<1>8. ASSUME NEW i \in Filtered(x), NEW j \in Filtered(x), VarOf(x, i) = VarOf(x, j), i < j
      PROVE  FALSE
  <2>1. i \in DOMAIN deps /\ j \in DOMAIN deps /\ i \in Nat /\ j \in Nat
    BY <1>4, <1>2
  <2>2. i \in 1..(j - 1)
    <3>1. i # 0
      BY <1>1, <2>1
    <3> QED
      BY <3>1, <2>1, <1>8
  <2>3. \A k \in 1..(j - 1) : deps[k].var # deps[j].var
    BY DEF Filtered, First
  <2>4. deps[i].var = deps[j].var
    BY <1>8 DEF VarOf
  <2> QED
    BY <2>2, <2>3, <2>4
<1>9. \A i, j \in Filtered(x) : VarOf(x, i) = VarOf(x, j) => i = j
  BY <1>8, <1>4, <1>2
<1>10. Filtered(x) # {} => HasNode(x)
  BY <1>4 DEF HasNode
<1> QED
  BY <1>2, <1>4, <1>6, <1>7, <1>9, <1>10

LEMMA NamesOnce ==
    ASSUME graph \in Graphs, NEW x \in Steps, NEW v, NEW k, NEW l,
           Names(x, v, k), Names(x, v, l)
    PROVE  k = l /\ k \in Kinds /\ (k = "mtx" => IsTask(x)) /\ (IsTask(x) => HasNode(x))
BY StepKinds DEF Names

LEMMA NamedBy ==
    ASSUME graph \in Graphs, NEW x \in Steps, NEW i \in Filtered(x)
    PROVE  Names(x, VarOf(x, i), KindOf(x, i))
BY DEF Names

LEMMA NameOrders ==
    ASSUME graph \in Graphs, NEW u \in Steps, NEW x \in Steps, u < x,
           NEW v \in Variables, NEW k \in Kinds, NEW l \in Kinds,
           Names(u, v, k), Names(x, v, l), Conflict(k, l)
    PROVE  Follows(u, x)
BY DEF Follows, Ordered, Kinds

(* The program does not change.                                             *)
LEMMA SameProgram ==
    ASSUME graph' = graph
    PROVE  /\ Steps' = Steps /\ Implicit' = Implicit
           /\ \A x : /\ IsTask(x)' = IsTask(x)
                     /\ HasNode(x)' = HasNode(x)
                     /\ Filtered(x)' = Filtered(x)
           /\ \A x, i : VarOf(x, i)' = VarOf(x, i) /\ KindOf(x, i)' = KindOf(x, i)
           /\ \A x, v, k : Names(x, v, k)' <=> Names(x, v, k)
           /\ \A u, x : /\ Follows(u, x)' <=> Follows(u, x)
                        /\ ComesBefore(u, x)' <=> ComesBefore(u, x)
                        /\ Leads(u, x)' <=> Leads(u, x)
<1>1. Steps' = Steps /\ Implicit' = Implicit
  BY DEF Steps, Implicit
<1>2. \A x : IsTask(x)' = IsTask(x) /\ HasNode(x)' = HasNode(x) /\ Filtered(x)' = Filtered(x)
  BY DEF IsTask, HasNode, Filtered
<1>3. \A x, i : VarOf(x, i)' = VarOf(x, i) /\ KindOf(x, i)' = KindOf(x, i)
  BY DEF VarOf, KindOf, IsTask
<1>4. \A x, v, k : Names(x, v, k)' <=> Names(x, v, k)
  BY <1>2, <1>3 DEF Names
<1>5. \A u, x : Follows(u, x)' <=> Follows(u, x)
  BY <1>4 DEF Follows, Ordered
<1>6. \A u, x : ComesBefore(u, x)' <=> ComesBefore(u, x)
  BY <1>1, <1>5 DEF ComesBefore
<1>7. \A u, x : Leads(u, x)' <=> Leads(u, x)
  BY <1>6 DEF Leads
<1> QED
  BY <1>1, <1>2, <1>3, <1>4, <1>5, <1>6, <1>7

-----------------------------------------------------------------------------
(* ParentPlaces, lives and nodes: the steps of the parent.                        *)

LEMMA FewLists == IsFiniteSet({"out", "ins", "mtxs"})
<1>1. IsFiniteSet({})
  BY FS_EmptySet
<1>2. IsFiniteSet({} \cup {"out"})
  BY <1>1, FS_AddElement
<1>3. IsFiniteSet(({} \cup {"out"}) \cup {"ins"})
  BY <1>2, FS_AddElement
<1>4. IsFiniteSet((({} \cup {"out"}) \cup {"ins"}) \cup {"mtxs"})
  BY <1>3, FS_AddElement
<1>5. {"out", "ins", "mtxs"} = (({} \cup {"out"}) \cup {"ins"}) \cup {"mtxs"}
  OBVIOUS
<1> QED
  BY <1>4, <1>5

LEMMA FewHeld ==
    ASSUME NEW h, NEW x
    PROVE  IsFiniteSet(Held(h, x)) /\ Cardinality(Held(h, x)) \in Nat
<1>1. Held(h, x) \subseteq {"out", "ins", "mtxs"}
  BY DEF Held
<1> QED
  BY <1>1, FewLists, FS_Subset, FS_CardinalityType

LEMMA FewInHash ==
    ASSUME NEW x
    PROVE  IsFiniteSet(InHash(x)) /\ Cardinality(InHash(x)) \in Nat
<1>1. InHash(x) \subseteq Variables \X {"out", "ins", "mtxs"}
  BY DEF InHash
<1>2. IsFiniteSet(Variables \X {"out", "ins", "mtxs"})
  BY FewLists, FS_Product, DepsAssumption
<1> QED
  BY <1>1, <1>2, FS_Subset, FS_CardinalityType

LEMMA NodeFields ==
    ASSUME NodeTypes, NEW x \in Steps
    PROVE  /\ node[x] \in NodeType /\ left[x] \in Nat
           /\ node[x].task \in BOOLEAN /\ node[x].npred \in Int /\ node[x].refs \in Int
           /\ node[x].succ \in Seq(Nat) /\ Len(node[x].succ) \in Nat
           /\ node[x].locks \subseteq Variables
BY DEF NodeTypes, NodeType

(* Fields of a node.                                                         *)
LEMMA NodeWithRefs ==
    ASSUME NEW n \in NodeType, NEW r \in Int
    PROVE  \E m \in NodeType : /\ m = [n EXCEPT !.refs = r]
                               /\ m.task = n.task /\ m.npred = n.npred /\ m.succ = n.succ
                               /\ m.refs = r /\ m.locks = n.locks
<1> DEFINE k == [n EXCEPT !.refs = r]
<1>1. k \in NodeType /\ k.task = n.task /\ k.npred = n.npred /\ k.succ = n.succ /\ k.refs = r /\ k.locks = n.locks
  BY DEF NodeType
<1>2. k = [n EXCEPT !.refs = r]
  OBVIOUS
<1> HIDE DEF k
<1> QED
  BY <1>1, <1>2

LEMMA NodeWithTask ==
    ASSUME NEW n \in NodeType, NEW b \in BOOLEAN
    PROVE  \E m \in NodeType : /\ m = [n EXCEPT !.task = b]
                               /\ m.task = b /\ m.npred = n.npred /\ m.succ = n.succ
                               /\ m.refs = n.refs /\ m.locks = n.locks
<1> DEFINE k == [n EXCEPT !.task = b]
<1>1. k \in NodeType /\ k.task = b /\ k.npred = n.npred /\ k.succ = n.succ /\ k.refs = n.refs /\ k.locks = n.locks
  BY DEF NodeType
<1>2. k = [n EXCEPT !.task = b]
  OBVIOUS
<1> HIDE DEF k
<1> QED
  BY <1>1, <1>2

LEMMA NodeWithPred ==
    ASSUME NEW n \in NodeType, NEW r \in Int
    PROVE  \E m \in NodeType : /\ m = [n EXCEPT !.npred = r]
                               /\ m.task = n.task /\ m.npred = r /\ m.succ = n.succ
                               /\ m.refs = n.refs /\ m.locks = n.locks
<1> DEFINE k == [n EXCEPT !.npred = r]
<1>1. k \in NodeType /\ k.task = n.task /\ k.npred = r /\ k.succ = n.succ /\ k.refs = n.refs /\ k.locks = n.locks
  BY DEF NodeType
<1>2. k = [n EXCEPT !.npred = r]
  OBVIOUS
<1> HIDE DEF k
<1> QED
  BY <1>1, <1>2

LEMMA NodeWithSucc ==
    ASSUME NEW n \in NodeType, NEW s \in Seq(Nat)
    PROVE  \E m \in NodeType : /\ m = [n EXCEPT !.succ = s]
                               /\ m.task = n.task /\ m.npred = n.npred /\ m.succ = s
                               /\ m.refs = n.refs /\ m.locks = n.locks
<1> DEFINE k == [n EXCEPT !.succ = s]
<1>1. k \in NodeType /\ k.task = n.task /\ k.npred = n.npred /\ k.succ = s /\ k.refs = n.refs /\ k.locks = n.locks
  BY DEF NodeType
<1>2. k = [n EXCEPT !.succ = s]
  OBVIOUS
<1> HIDE DEF k
<1> QED
  BY <1>1, <1>2

LEMMA NodeWithLocks ==
    ASSUME NEW n \in NodeType, NEW l \in SUBSET Variables
    PROVE  \E m \in NodeType : /\ m = [n EXCEPT !.locks = l]
                               /\ m.task = n.task /\ m.npred = n.npred /\ m.succ = n.succ
                               /\ m.refs = n.refs /\ m.locks = l
<1> DEFINE k == [n EXCEPT !.locks = l]
<1>1. k \in NodeType /\ k.task = n.task /\ k.npred = n.npred /\ k.succ = n.succ /\ k.refs = n.refs /\ k.locks = l
  BY DEF NodeType
<1>2. k = [n EXCEPT !.locks = l]
  OBVIOUS
<1> HIDE DEF k
<1> QED
  BY <1>1, <1>2

LEMMA SameSteps ==
    ASSUME graph' = graph
    PROVE  /\ Steps' = Steps /\ Implicit' = Implicit
           /\ \A x : IsTask(x)' = IsTask(x) /\ HasNode(x)' = HasNode(x) /\ Filtered(x)' = Filtered(x)
BY SameProgram

LEMMA LifeKept ==
    ASSUME graph' = graph, NEW x \in Steps, LifeAt(x), nodeLife'[x] = nodeLife[x],
           Entered(x)' <=> Entered(x), (x = step /\ Preparing)' <=> (x = step /\ Preparing),
           Creating' => Creating
    PROVE  LifeAt(x)'
BY SameSteps DEF LifeAt

LEMMA MarkKept ==
    ASSUME graph' = graph, NEW x \in Steps, MarkAt(x), LeftAt(x),
           nodeLife'[x] = nodeLife[x], left'[x] = left[x],
           node'[x].task = node[x].task, node'[x].succ = node[x].succ
    PROVE  MarkAt(x)' /\ LeftAt(x)'
BY SameSteps DEF MarkAt, LeftAt, Released

LEMMA SuccKept ==
    ASSUME graph' = graph, NEW x \in Steps, SuccAt(x), node'[x].succ = node[x].succ,
           x < step => x < step', \A y \in Steps : Entered(y) => Entered(y)'
    PROVE  SuccAt(x)'
<1>1. /\ Steps' = Steps
      /\ \A y : IsTask(y)' = IsTask(y) /\ HasNode(y)' = HasNode(y)
  BY SameSteps
<1>2. ASSUME NEW i \in 1..Len(node[x].succ)
      PROVE  node[x].succ[i] \in Steps /\ x < node[x].succ[i] /\ Entered(node[x].succ[i])'
  <2>1. node[x].succ[i] \in Steps /\ x < node[x].succ[i] /\ Entered(node[x].succ[i])
    BY DEF SuccAt
  <2> PICK s \in Steps : s = node[x].succ[i]
    BY <2>1
  <2> QED
    BY <2>1
<1>3. node[x].succ # <<>> => IsTask(x) /\ HasNode(x) /\ x < step
  BY DEF SuccAt
<1> QED
  BY <1>1, <1>2, <1>3 DEF SuccAt

LEMMA ShapeAt ==
    ASSUME DepsShape
    PROVE  /\ graph \in Graphs /\ step \in Nat /\ Len(graph.does) \in Nat
           /\ Steps = 1..Len(graph.does) /\ Steps \subseteq Nat
           /\ nodeLife \in [Steps -> Lives]
           /\ \A x \in Steps : /\ LifeAt(x) /\ MarkAt(x) /\ LeftAt(x) /\ SuccAt(x)
                               /\ ~Entered(x) => node[x] = NoNode
BY GraphSteps DEF DepsShape, ParentPlaces, LifeInv, NodeInv

LEMMA ShapeFrom ==
    ASSUME graph' = graph, ParentPlaces', nodeLife' \in [Steps -> Lives], NodeTypes',
           \A x \in Steps : LifeAt(x)',
           \A x \in Steps : MarkAt(x)' /\ LeftAt(x)',
           \A x \in Steps : SuccAt(x)' /\ (~Entered(x) => node[x] = NoNode)'
    PROVE  DepsShape'
<1>1. Steps' = Steps /\ Lives' = Lives
  BY SameSteps DEF Lives
<1> QED
  BY <1>1 DEF DepsShape, LifeInv, NodeInv

(* The parent moves and leaves lives and lists alone.                       *)
LEMMA ShapeStays ==
    ASSUME DepsShape, ParentPlaces', UNCHANGED <<graph, nodeLife, left>>, node' \in [Steps -> NodeType],
           \A x \in Steps : /\ node'[x].task = node[x].task /\ node'[x].succ = node[x].succ
                            /\ node'[x] = node[x] \/ Entered(x),
           Preparing' <=> Preparing, \A x \in Steps : Entered(x)' <=> Entered(x),
           step' \in Nat, step' >= step, Preparing => step' = step, Creating' => Creating
    PROVE  DepsShape'
<1>1. \A x \in Steps : LifeAt(x)'
  BY LifeKept, ShapeAt
<1>2. \A x \in Steps : MarkAt(x)' /\ LeftAt(x)'
  BY MarkKept, ShapeAt
<1>3. \A x \in Steps : SuccAt(x)' /\ (~Entered(x) => node[x] = NoNode)'
  <2> SUFFICES ASSUME NEW x \in Steps PROVE SuccAt(x)' /\ (~Entered(x)' => node'[x] = NoNode)
    OBVIOUS
  <2>1. SuccAt(x)'
    BY SuccKept, ShapeAt
  <2>2. ~Entered(x)' => node'[x] = NoNode
    BY ShapeAt
  <2> QED
    BY <2>1, <2>2
<1>4. NodeTypes'
  BY SameSteps DEF NodeTypes, DepsShape
<1> QED
  BY <1>1, <1>2, <1>3, <1>4, ShapeFrom, ShapeAt

LEMMA ShapeCreatePlain == ASSUME DepsShape, CreatePlain PROVE DepsShape'
<1>a. graph' = graph /\ step \in Nat /\ step \in Steps /\ IsTask(step) /\ ~HasNode(step)
  BY ShapeAt DEF HasNode, CreatePlain
<1>c. at = "step" /\ at' = "step" /\ step' = step + 1 /\ nodeLife' = [nodeLife EXCEPT ![step] = "queued"]
      /\ UNCHANGED <<graph, node, left, tracked, complete, found>>
  BY DEF CreatePlain, Advance
<1>p. /\ Steps' = Steps /\ Implicit' = Implicit
      /\ \A x : IsTask(x)' = IsTask(x) /\ HasNode(x)' = HasNode(x)
  BY SameSteps, <1>a
<1>1. ParentPlaces'
  BY <1>a, <1>c, <1>p, ShapeAt DEF ParentPlaces, DepsShape, Entering, Creating, Preparing
<1>e. \A x \in Steps : Entered(x)' <=> Entered(x) \/ x = step
  <2> SUFFICES ASSUME NEW x \in Steps PROVE Entered(x)' <=> Entered(x) \/ x = step
    OBVIOUS
  <2> QED
    BY <1>a, <1>c, ShapeAt DEF Entered, Entering, Preparing
<1>2. nodeLife' \in [Steps -> Lives]
  BY <1>a, <1>c, ShapeAt DEF Lives
<1>3. NodeTypes'
  BY <1>a, <1>p, <1>c DEF NodeTypes, DepsShape
<1>4. ASSUME NEW x \in Steps PROVE LifeAt(x)'
  BY <1>a, <1>c, <1>p, <1>e, ShapeAt DEF LifeAt, Entering, Creating, Preparing, Entered, Notifying
<1>5. ASSUME NEW x \in Steps PROVE MarkAt(x)' /\ LeftAt(x)'
  BY <1>a, <1>p, <1>c, ShapeAt DEF MarkAt, LeftAt, Released, Gone, NoNode
<1>6. ASSUME NEW x \in Steps PROVE SuccAt(x)' /\ (~Entered(x) => node[x] = NoNode)'
  BY <1>a, <1>c, <1>e, SuccKept, ShapeAt
<1> QED
  BY <1>a, <1>1, <1>2, <1>3, <1>4, <1>5, <1>6, ShapeFrom

LEMMA ShapeCreateWithDeps == ASSUME DepsShape, CreateWithDeps PROVE DepsShape'
<1>a. graph' = graph /\ step \in Nat /\ step \in Steps /\ IsTask(step) /\ HasNode(step)
  BY ShapeAt DEF HasNode, CreateWithDeps
<1>c. /\ at = "step" /\ at' = "deps" /\ step' = step /\ nodeLife' = [nodeLife EXCEPT ![step] = "new"]
      /\ node' = [node EXCEPT ![step] = NewNode] /\ tracked' = TRUE /\ todo' = Filtered(step) /\ found' = 0
      /\ UNCHANGED <<graph, left, complete>>
  BY DEF CreateWithDeps
<1>p. /\ Steps' = Steps /\ Implicit' = Implicit
      /\ \A x : IsTask(x)' = IsTask(x) /\ HasNode(x)' = HasNode(x) /\ Filtered(x)' = Filtered(x)
  BY SameSteps, <1>a
<1>1. ParentPlaces'
  BY <1>a, <1>c, <1>p, ShapeAt DEF ParentPlaces, DepsShape, Entering, Creating, Preparing
<1>e. \A x \in Steps : Entered(x)' <=> Entered(x) \/ x = step
  <2> SUFFICES ASSUME NEW x \in Steps PROVE Entered(x)' <=> Entered(x) \/ x = step
    OBVIOUS
  <2> QED
    BY <1>a, <1>c, ShapeAt DEF Entered, Entering, Preparing
<1>2. nodeLife' \in [Steps -> Lives]
  BY <1>a, <1>c, ShapeAt DEF Lives
<1>n. NewNode \in NodeType /\ NewNode.succ = <<>> /\ NewNode.task = FALSE /\ node \in [Steps -> NodeType]
  BY DEF NewNode, NodeType, DepsShape, NodeTypes
<1>3. NodeTypes'
  BY <1>a, <1>p, <1>c, <1>n DEF NodeTypes, DepsShape
<1>z. ~Entered(step)
  BY <1>a, <1>c DEF Entered, Entering, Preparing
<1>4. ASSUME NEW x \in Steps PROVE LifeAt(x)'
  BY <1>a, <1>c, <1>p, <1>e, ShapeAt DEF LifeAt, Entering, Creating, Preparing, Entered, Notifying
<1>5. ASSUME NEW x \in Steps PROVE MarkAt(x)' /\ LeftAt(x)'
  <2>1. CASE x = step
    <3>1. node[step] = NoNode
      BY <1>z, <1>a, ShapeAt
    <3>2. left[step] = 0
      <4>1. left[step] <= Len(<<>>) /\ left[step] \in Nat
        BY <3>1, <1>a, ShapeAt, NodeFields DEF LeftAt, NoNode, DepsShape
      <4> QED
        BY <4>1
    <3> QED
      BY <2>1, <3>2, <1>a, <1>p, <1>c, <1>n, ShapeAt DEF MarkAt, LeftAt, Released, Gone
  <2>2. CASE x # step
    <3>1. nodeLife'[x] = nodeLife[x] /\ node'[x] = node[x]
      BY <2>2, <1>c, <1>n, ShapeAt
    <3> QED
      BY <3>1, MarkKept, <1>c, ShapeAt
  <2> QED
    BY <2>1, <2>2
<1>6. ASSUME NEW x \in Steps PROVE SuccAt(x)' /\ (~Entered(x) => node[x] = NoNode)'
  <2>1. CASE x = step
    BY <2>1, <1>a, <1>c, <1>e, <1>n DEF SuccAt
  <2>2. CASE x # step
    <3>1. node'[x] = node[x]
      BY <2>2, <1>c, <1>n
    <3> QED
      BY <3>1, <1>a, <1>c, <1>e, SuccKept, ShapeAt
  <2> QED
    BY <2>1, <2>2
<1> QED
  BY <1>a, <1>1, <1>2, <1>3, <1>4, <1>5, <1>6, ShapeFrom

LEMMA ShapeWaitDeps == ASSUME DepsShape, WaitDeps PROVE DepsShape'
<1>a. graph' = graph /\ step \in Nat /\ step \in Steps /\ ~IsTask(step)
  BY ShapeAt DEF WaitDeps
<1>c. /\ at = "step" /\ UNCHANGED <<graph, left, complete, tracked, nodeLife>>
  BY DEF WaitDeps, running
<1>d. \/ /\ tracked /\ at' = "deps" /\ step' = step /\ node' = [node EXCEPT ![step] = NewNode]
         /\ todo' = Filtered(step) /\ found' = 0
      \/ /\ at' = "step" /\ step' = step + 1 /\ UNCHANGED <<node, todo, found>>
  BY DEF WaitDeps, Advance
<1>p. /\ Steps' = Steps /\ Implicit' = Implicit
      /\ \A x : IsTask(x)' = IsTask(x) /\ HasNode(x)' = HasNode(x) /\ Filtered(x)' = Filtered(x)
  BY SameSteps, <1>a
<1>1. ParentPlaces'
  BY <1>a, <1>c, <1>d, <1>p, ShapeAt DEF ParentPlaces, DepsShape, Entering, Creating, Preparing
<1>e. \A x \in Steps : Entered(x)' <=> Entered(x) \/ x = step
  <2> SUFFICES ASSUME NEW x \in Steps PROVE Entered(x)' <=> Entered(x) \/ x = step
    OBVIOUS
  <2> QED
    BY <1>a, <1>c, <1>d, ShapeAt DEF Entered, Entering, Preparing
<1>n. NewNode \in NodeType /\ NewNode.succ = <<>> /\ NewNode.task = FALSE /\ node \in [Steps -> NodeType]
  BY DEF NewNode, NodeType, DepsShape, NodeTypes
<1>3. NodeTypes'
  BY <1>a, <1>p, <1>c, <1>d, <1>n DEF NodeTypes, DepsShape
<1>z. ~Entered(step) /\ node[step] = NoNode
  BY <1>a, <1>c, ShapeAt DEF Entered, Entering, Preparing
<1>m. \A x \in Steps : node'[x].succ = node[x].succ /\ node'[x].task = node[x].task
                       /\ (node'[x] = node[x] \/ x = step)
  <2> SUFFICES ASSUME NEW x \in Steps
               PROVE  node'[x].succ = node[x].succ /\ node'[x].task = node[x].task
                      /\ (node'[x] = node[x] \/ x = step)
    OBVIOUS
  <2>1. node[step].succ = <<>> /\ node[step].task = FALSE
    BY <1>z DEF NoNode
  <2> QED
    BY <1>d, <1>n, <2>1
<1>4. ASSUME NEW x \in Steps PROVE LifeAt(x)'
  BY <1>a, <1>c, <1>d, <1>p, <1>e, ShapeAt DEF LifeAt, Entering, Creating, Preparing, Entered, Notifying
<1>5. ASSUME NEW x \in Steps PROVE MarkAt(x)' /\ LeftAt(x)'
  BY MarkKept, <1>c, <1>m, ShapeAt
<1>6. ASSUME NEW x \in Steps PROVE SuccAt(x)' /\ (~Entered(x) => node[x] = NoNode)'
  BY <1>m, <1>a, <1>c, <1>d, <1>e, SuccKept, ShapeAt
<1> QED
  BY <1>a, <1>c, <1>1, <1>3, <1>4, <1>5, <1>6, ShapeFrom, ShapeAt

LEMMA ShapeNextDep == ASSUME DepsShape, NextDep PROVE DepsShape'
<1>c. /\ at = "deps" /\ at' = "link" /\ UNCHANGED <<graph, step, todo, found, tracked, node, nodeLife, left, complete>>
      /\ \E i \in todo : Least(todo, i)
  BY DEF NextDep, running
<1>1. ParentPlaces'
  BY <1>c, SameSteps, ShapeAt DEF ParentPlaces, DepsShape, Entering, Creating, Preparing
<1>e. \A x \in Steps : Entered(x)' <=> Entered(x)
  BY <1>c DEF Entered, Entering, Preparing
<1> QED
  BY <1>1, <1>c, <1>e, ShapeStays, ShapeAt DEF Entering, Creating, Preparing, DepsShape, NodeTypes

(* A node enters an entry only with its own step.                            *)
LEMMA HeldAfter ==
    ASSUME NEW h \in EntryType, NEW k, NEW x \in Nat \ {0}, NEW y, y # x
    PROVE  Held(After(h, k, x), y) \subseteq Held(h, y)
<1> DEFINE new == After(h, k, x)
<1>1. h.ins \subseteq Nat /\ h.mtxs \subseteq Nat
  BY DEF EntryType
<1>2. LastOut(new) \subseteq LastOut(h) \cup {x}
  BY DEF EntryType, After, LastOut
<1>3. new.ins \subseteq h.ins \cup {x}
  BY DEF EntryType, After
<1>4. new.mtxs \subseteq h.mtxs \cup {x}
  BY DEF EntryType, After
<1> HIDE DEF new
<1> PICK n : n = After(h, k, x)
  OBVIOUS
<1>5. LastOut(n) \subseteq LastOut(h) \cup {x} /\ n.ins \subseteq h.ins \cup {x} /\ n.mtxs \subseteq h.mtxs \cup {x}
  BY <1>2, <1>3, <1>4 DEF new
<1>6. ASSUME NEW l \in Held(n, y) PROVE l \in Held(h, y)
  <2>1. l \in {"out", "ins", "mtxs"}
    BY DEF Held
  <2>2. CASE l = "out"
    BY <2>2, <1>5 DEF Held
  <2>3. CASE l = "ins"
    BY <2>3, <1>5 DEF Held
  <2>4. CASE l = "mtxs"
    BY <2>4, <1>5 DEF Held
  <2> QED
    BY <2>1, <2>2, <2>3, <2>4
<1> QED
  BY <1>6

LEMMA NotYetHeld ==
    ASSUME DepsShape, HashInv, NEW v \in Variables, NEW x, ~Entered(x)
    PROVE  Held(hash[v], x) = {}
<1>1. \A k : ~Seen(x, v, k)
  BY DEF Seen, Entered, Treated
<1>2. GoodEntry(hash[v], v)
  BY DEF HashInv
<1> QED
  BY <1>1, <1>2 DEF GoodEntry, Held

LEMMA HashUpdated ==
    ASSUME DepsShape, HashInv, UpdateHash
    PROVE  /\ at = "link" /\ at' = "deps" /\ link = {} /\ step \in Steps
           /\ UNCHANGED <<graph, step, link, found, tracked, nodeLife, held, mtx, left, pending, complete>>
           /\ \E i \in Filtered(step) \cap todo :
                 /\ Least(todo, i) /\ todo' = todo \ {i} /\ VarOf(step, i) \in Variables
                 /\ hash' = [hash EXCEPT ![VarOf(step, i)] = EntryAfter(i)]
                 /\ node' \in [Steps -> NodeType]
                 /\ \A x \in Steps :
                       /\ node'[x].task = node[x].task /\ node'[x].succ = node[x].succ
                       /\ node'[x].npred = node[x].npred
                       /\ node'[x].refs = node[x].refs + Cardinality(Held(EntryAfter(i), x))
                                              - Cardinality(Held(hash[VarOf(step, i)], x))
                       /\ node'[x].locks = IF x = step /\ KindOf(step, i) = "mtx"
                                           THEN node[x].locks \cup {VarOf(step, i)} ELSE node[x].locks
                       /\ node'[x] = node[x] \/ Entered(x)
<1>c. /\ at = "link" /\ at' = "deps" /\ link = {}
      /\ UNCHANGED <<graph, step, link, found, tracked, nodeLife, held, mtx, left, pending, complete>>
  BY DEF UpdateHash, running
<1>d. PICK i \in todo : /\ node' = [x \in Steps |-> NodeAfter(x, i)] /\ todo' = todo \ {i} /\ Least(todo, i)
                        /\ hash' = [hash EXCEPT ![VarOf(step, i)] = EntryAfter(i)]
  BY DEF UpdateHash
<1>i. i \in Filtered(step) /\ step \in Steps
  BY <1>c, ShapeAt DEF DepsShape, ParentPlaces, Preparing, Entering
<1>v. VarOf(step, i) \in Variables
  BY <1>i, StepKinds, ShapeAt
<1>n. ASSUME NEW x \in Steps
      PROVE  /\ node'[x] \in NodeType /\ node'[x].task = node[x].task /\ node'[x].succ = node[x].succ
             /\ node'[x].npred = node[x].npred
             /\ node'[x].refs = node[x].refs + Cardinality(Held(EntryAfter(i), x))
                                    - Cardinality(Held(hash[VarOf(step, i)], x))
             /\ node'[x].locks = IF x = step /\ KindOf(step, i) = "mtx"
                                 THEN node[x].locks \cup {VarOf(step, i)} ELSE node[x].locks
             /\ node'[x] = node[x] \/ Entered(x)
  <2> DEFINE v   == VarOf(step, i)
             new == EntryAfter(i)
             l == IF x = step /\ KindOf(step, i) = "mtx" THEN node[x].locks \cup {v} ELSE node[x].locks
  <2>0. node'[x] = NodeAfter(x, i)
    BY <1>d
  <2>1. node'[x] = [node[x] EXCEPT
                        !.refs = @ + Cardinality(Held(new, x)) - Cardinality(Held(hash[v], x)),
                        !.locks = l]
    BY <2>0, Zenon DEF NodeAfter
  <2>2. node[x] \in NodeType
    BY DEF DepsShape, NodeTypes
  <2>3. Cardinality(Held(new, x)) \in Nat /\ Cardinality(Held(hash[v], x)) \in Nat
    BY FewHeld
  <2>4. l \subseteq Variables
    BY <1>v, <2>2 DEF NodeType
  <2>5. ~Entered(x) => Held(new, x) = {} /\ Held(hash[v], x) = {} /\ l = node[x].locks
    <3> SUFFICES ASSUME ~Entered(x) PROVE Held(new, x) = {} /\ Held(hash[v], x) = {} /\ l = node[x].locks
      OBVIOUS
    <3>1. x # step /\ step \in Nat \ {0}
      BY <1>c, ShapeAt DEF Entered, Entering, Preparing, DepsShape, ParentPlaces
    <3>2. Held(hash[v], x) = {}
      BY NotYetHeld, <1>v
    <3>3. hash[v] \in EntryType
      BY <1>v DEF HashInv
    <3>4. Held(new, x) \subseteq Held(hash[v], x)
      BY <3>1, <3>3, HeldAfter DEF EntryAfter
    <3> QED
      BY <3>1, <3>2, <3>4
  <2> HIDE DEF v, new, l
  <2>r. PICK r \in Int : r = node[x].refs + Cardinality(Held(new, x)) - Cardinality(Held(hash[v], x))
    BY <2>2, <2>3 DEF NodeType
  <2>w. node'[x] = [node[x] EXCEPT !.refs = r, !.locks = l]
    BY <2>1, <2>r, Zenon
  <2>m. PICK m \in NodeType : m = [node[x] EXCEPT !.refs = r] /\ m.task = node[x].task /\ m.refs = r
                              /\ m.npred = node[x].npred /\ m.succ = node[x].succ /\ m.locks = node[x].locks
    BY <2>2, NodeWithRefs
  <2>6. /\ node'[x] \in NodeType /\ node'[x].task = node[x].task /\ node'[x].succ = node[x].succ
        /\ node'[x].npred = node[x].npred /\ node'[x].refs = r /\ node'[x].locks = l
    <3>1. [node[x] EXCEPT !.refs = r, !.locks = l] = [m EXCEPT !.locks = l]
      BY <2>m, Zenon
    <3>2. PICK n \in NodeType : n = [m EXCEPT !.locks = l] /\ n.task = m.task /\ n.succ = m.succ
                                /\ n.npred = m.npred /\ n.refs = m.refs /\ n.locks = l
      BY <2>4, NodeWithLocks
    <3> QED
      BY <2>w, <3>1, <3>2, <2>m
  <2>7. ~Entered(x) => node'[x] = node[x]
    <3> SUFFICES ASSUME ~Entered(x) PROVE node'[x] = node[x]
      OBVIOUS
    <3>1. Cardinality(Held(new, x)) = Cardinality(Held(hash[v], x)) /\ l = node[x].locks
      BY <2>5
    <3>2. node[x].refs = r /\ node[x].locks = l
      BY <3>1, <2>r, <2>2, <2>3 DEF NodeType
    <3> QED
      BY <2>6, <2>2, <3>2 DEF NodeType
  <2> QED
    BY <2>6, <2>7, <2>r DEF l, v, new
<1>f. node' \in [Steps -> NodeType]
  <2>1. node' = [x \in Steps |-> node'[x]]
    BY <1>d
  <2> QED
    BY <2>1, <1>n
<1> QED
  BY <1>c, <1>d, <1>i, <1>v, <1>n, <1>f

LEMMA ShapeUpdateHash == ASSUME DepsShape, HashInv, UpdateHash PROVE DepsShape'
<1>c. /\ at = "link" /\ at' = "deps" /\ UNCHANGED <<graph, step, found, tracked, nodeLife, left, complete>>
      /\ node' \in [Steps -> NodeType] /\ todo' \subseteq todo
      /\ \A x \in Steps : node'[x].task = node[x].task /\ node'[x].succ = node[x].succ
                          /\ (node'[x] = node[x] \/ Entered(x))
  BY HashUpdated
<1>p. /\ Steps' = Steps /\ Implicit' = Implicit
      /\ \A x : IsTask(x)' = IsTask(x) /\ HasNode(x)' = HasNode(x) /\ Filtered(x)' = Filtered(x)
  BY SameSteps, <1>c
<1>1. ParentPlaces'
  BY <1>c, <1>p, ShapeAt DEF ParentPlaces, DepsShape, Entering, Creating, Preparing
<1>e. \A x \in Steps : Entered(x)' <=> Entered(x)
  BY <1>c DEF Entered, Entering, Preparing
<1> QED
  BY <1>1, <1>c, <1>e, ShapeStays, ShapeAt DEF Entering, Creating, Preparing

LEMMA ShapeEndWait == ASSUME DepsShape, EndWait PROVE DepsShape'
<1>c. /\ at = "wait" /\ at' = "step" /\ step' = step + 1
      /\ UNCHANGED <<graph, todo, found, tracked, node, nodeLife, left, complete>>
  BY DEF EndWait, Advance, running
<1>1. ParentPlaces'
  BY <1>c, SameSteps, ShapeAt DEF ParentPlaces, DepsShape, Entering, Creating, Preparing
<1>e. \A x \in Steps : Entered(x)' <=> Entered(x)
  <2> SUFFICES ASSUME NEW x \in Steps PROVE Entered(x)' <=> Entered(x)
    OBVIOUS
  <2> QED
    BY <1>c, ShapeAt DEF Entered, Entering, Preparing
<1> QED
  BY <1>1, <1>c, <1>e, ShapeStays, ShapeAt DEF Entering, Creating, Preparing, DepsShape, NodeTypes

(* The end of the parent.                                                   *)
LEMMA FreedEntries ==
    ASSUME DepsShape, FreeEntries
    PROVE  /\ node' \in [Steps -> NodeType]
           /\ \A x \in Steps : /\ node'[x].task = node[x].task /\ node'[x].succ = node[x].succ
                               /\ node'[x].npred = node[x].npred /\ node'[x].locks = node[x].locks
                               /\ node'[x].refs = node[x].refs - Cardinality(InHash(x))
<1>1. node' = [x \in Steps |-> [node[x] EXCEPT !.refs = @ - Cardinality(InHash(x))]]
  BY DEF FreeEntries
<1>2. node \in [Steps -> NodeType]
  BY DEF DepsShape, NodeTypes
<1>3. ASSUME NEW x \in Steps
      PROVE  /\ node'[x] \in NodeType
             /\ node'[x].task = node[x].task /\ node'[x].succ = node[x].succ
             /\ node'[x].npred = node[x].npred /\ node'[x].locks = node[x].locks
             /\ node'[x].refs = node[x].refs - Cardinality(InHash(x))
  <2>1. node'[x] = [node[x] EXCEPT !.refs = @ - Cardinality(InHash(x))] /\ node[x] \in NodeType
    BY <1>1, <1>2
  <2>2. Cardinality(InHash(x)) \in Nat /\ node[x].refs \in Int
    BY <2>1, FewInHash DEF NodeType
  <2>3. PICK r \in Int : r = node[x].refs - Cardinality(InHash(x))
    BY <2>2
  <2>4. node'[x] = [node[x] EXCEPT !.refs = r]
    BY <2>1, <2>3
  <2> QED
    BY <2>1, <2>4, <2>3, NodeWithRefs
<1>4. node' = [x \in Steps |-> node'[x]]
  BY <1>1
<1> QED
  BY <1>3, <1>4

LEMMA EnteredAtEnd ==
    ASSUME DepsShape, step = Len(graph.does) + 1
    PROVE  \A x \in Steps : Entered(x) /\ Submitted(x) /\ x < step
BY ShapeAt DEF Entered, Submitted

Ending == EndExplicit \/ EndImplicit \/ LookForChildren \/ ParentCleans \/ ParentEmpties

LEMMA EndingSteps ==
    ASSUME DepsShape, Ending
    PROVE  /\ UNCHANGED <<graph, step, todo, link, found, tracked, nodeLife, held, mtx, left, pending>>
           /\ step = Len(graph.does) + 1 /\ ~Entering /\ ~Preparing /\ ~Creating' /\ ~Entering' /\ ~Preparing'
           /\ UNCHANGED node \/ FreeEntries
           /\ UNCHANGED hash \/ EmptyBuckets
<1>1. step \notin Steps => step = Len(graph.does) + 1
  BY ShapeAt DEF DepsShape, ParentPlaces
<1> USE ShapeAt DEF Entering, Preparing, Creating, DepsShape, ParentPlaces, running
<1>2. CASE EndExplicit
  BY <1>1, <1>2 DEF EndExplicit
<1>3. CASE EndImplicit
  BY <1>1, <1>3 DEF EndImplicit
<1>4. CASE LookForChildren
  BY <1>4 DEF LookForChildren
<1>5. CASE ParentCleans
  BY <1>5 DEF ParentCleans, Clean
<1>6. CASE ParentEmpties
  BY <1>6 DEF ParentEmpties
<1> QED
  BY <1>2, <1>3, <1>4, <1>5, <1>6 DEF Ending

LEMMA ShapeEnding == ASSUME DepsShape, Ending PROVE DepsShape'
<1>1. /\ UNCHANGED <<graph, step, todo, link, found, tracked, nodeLife, held, mtx, left, pending>>
      /\ step = Len(graph.does) + 1 /\ ~Entering /\ ~Preparing /\ ~Creating' /\ ~Entering' /\ ~Preparing'
  BY EndingSteps
<1>2. ParentPlaces'
  <2> USE <1>1, SameSteps, ShapeAt DEF Entering, Preparing, Creating, DepsShape, ParentPlaces
  <2>2. CASE EndExplicit
    BY <2>2 DEF EndExplicit
  <2>3. CASE EndImplicit
    BY <2>3 DEF EndImplicit
  <2>4. CASE LookForChildren
    BY <2>4 DEF LookForChildren
  <2>5. CASE ParentCleans
    BY <2>5 DEF ParentCleans, Clean, MarkTaken
  <2>6. CASE ParentEmpties
    BY <2>6 DEF ParentEmpties
  <2> QED
    BY <2>2, <2>3, <2>4, <2>5, <2>6 DEF Ending
<1>3. /\ node' \in [Steps -> NodeType]
      /\ \A x \in Steps : node'[x].task = node[x].task /\ node'[x].succ = node[x].succ
  BY EndingSteps, FreedEntries DEF DepsShape, NodeTypes
<1>4. \A x \in Steps : Entered(x) /\ Entered(x)'
  BY <1>1, EnteredAtEnd DEF Entered
<1> QED
  BY <1>1, <1>2, <1>3, <1>4, ShapeStays, ShapeAt DEF Creating, Entering, Preparing

(* One more node is linked.                                                  *)
LEMMA Linked1 ==
    ASSUME DepsShape, LinkInv, Link
    PROVE  /\ at = "link" /\ at' = "link" /\ step \in Steps
           /\ UNCHANGED <<graph, step, at, todo, hash, tracked, running, pending, complete>>
           /\ \E p \in link : /\ p \in Steps /\ p < step /\ link' = link \ {p} /\ (IsTask(p) => HasNode(p))
                              /\ \/ ~node[p].task /\ UNCHANGED <<node, found>>
                                 \/ /\ node[p].task /\ found' = found + 1
                                    /\ node' \in [Steps -> NodeType]
                                    /\ \A x \in Steps :
                                          /\ node'[x].task = node[x].task /\ node'[x].npred = node[x].npred
                                          /\ node'[x].locks = node[x].locks
                                          /\ node'[x].succ = IF x = p THEN Append(node[x].succ, step)
                                                             ELSE node[x].succ
                                          /\ node'[x].refs = IF x = step THEN node[x].refs + 1
                                                             ELSE node[x].refs
                                          /\ x # p /\ x # step => node'[x] = node[x]
<1>1. at = "link" /\ at' = "link" /\ UNCHANGED <<graph, step, at, todo, hash, tracked, running, pending, complete>>
  BY DEF Link
<1>2. step \in Steps /\ step \in Nat
  BY <1>1, ShapeAt DEF DepsShape, ParentPlaces, Entering, Preparing
<1>3. PICK p \in link :
         /\ link' = link \ {p}
         /\ IF node[p].task
            THEN /\ node' = [node EXCEPT ![p].succ = Append(@, step), ![step].refs = @ + 1]
                 /\ found' = found + 1
            ELSE UNCHANGED <<node, found>>
  BY DEF Link
<1>4. p \in Steps /\ p < step /\ (IsTask(p) => HasNode(p)) /\ p # step
  <2>1. p \in Steps /\ p < step /\ (IsTask(p) => HasNode(p))
    BY <1>1 DEF LinkInv
  <2> QED
    BY <2>1, <1>2, ShapeAt
<1>5. ASSUME node[p].task
      PROVE  /\ node' \in [Steps -> NodeType]
             /\ \A x \in Steps :
                   /\ node'[x].task = node[x].task /\ node'[x].npred = node[x].npred
                   /\ node'[x].locks = node[x].locks
                   /\ node'[x].succ = IF x = p THEN Append(node[x].succ, step) ELSE node[x].succ
                   /\ node'[x].refs = IF x = step THEN node[x].refs + 1 ELSE node[x].refs
                   /\ x # p /\ x # step => node'[x] = node[x]
  <2>1. node \in [Steps -> NodeType] /\ node[p] \in NodeType /\ node[step] \in NodeType
    BY <1>2, <1>4 DEF DepsShape, NodeTypes
  <2>2. Append(node[p].succ, step) \in Seq(Nat) /\ node[step].refs + 1 \in Int
    BY <2>1, <1>2 DEF NodeType
  <2>s. PICK list \in Seq(Nat) : list = Append(node[p].succ, step)
    BY <2>2
  <2>r. PICK r \in Int : r = node[step].refs + 1
    BY <2>2
  <2>3. PICK m \in NodeType : /\ m = [node[p] EXCEPT !.succ = list]
                              /\ m.task = node[p].task /\ m.npred = node[p].npred /\ m.succ = list
                              /\ m.refs = node[p].refs /\ m.locks = node[p].locks
    BY <2>1, NodeWithSucc
  <2>4. PICK n \in NodeType : /\ n = [node[step] EXCEPT !.refs = r]
                              /\ n.task = node[step].task /\ n.npred = node[step].npred
                              /\ n.succ = node[step].succ /\ n.refs = r /\ n.locks = node[step].locks
    BY <2>1, NodeWithRefs
  <2>5. PICK f : f = [node EXCEPT ![p].succ = Append(@, step)]
    OBVIOUS
  <2>6. f \in [Steps -> NodeType] /\ f[p] = m /\ \A x \in Steps : x # p => f[x] = node[x]
    <3>1. \A x \in Steps : x # p => f[x] = node[x]
      BY <2>5, <2>1
    <3>2. f[p] = m
      <4>1. f[p] = [node[p] EXCEPT !.succ = Append(@, step)]
        BY <2>5, <2>1, <1>4
      <4> QED
        BY <4>1, <2>s, <2>3
    <3>3. f = [x \in Steps |-> IF x = p THEN m ELSE node[x]]
      <4>1. f = [x \in DOMAIN node |-> f[x]] /\ DOMAIN node = Steps
        BY <2>5, <2>1
      <4> QED
        BY <4>1, <3>1, <3>2
    <3>4. \A x \in Steps : (IF x = p THEN m ELSE node[x]) \in NodeType
      BY <2>1
    <3>5. f \in [Steps -> NodeType]
      BY <3>3, <3>4
    <3> QED
      BY <3>1, <3>2, <3>5
  <2>0. node' = [node EXCEPT ![p].succ = Append(@, step), ![step].refs = @ + 1]
    BY <1>3, <1>5, Zenon
  <2>7. node' = [f EXCEPT ![step].refs = @ + 1]
    BY <2>0, <2>5, Zenon
  <2>8. node' = [f EXCEPT ![step] = n]
    <3>1. f[step] = node[step]
      BY <2>6, <1>2, <1>4
    <3>2. node' = [f EXCEPT ![step] = [f[step] EXCEPT !.refs = f[step].refs + 1]]
      BY <2>7
    <3> QED
      BY <3>1, <3>2, <2>4, <2>r
  <2>9. node' \in [Steps -> NodeType] /\ node'[step] = n /\ node'[p] = m
        /\ \A x \in Steps : x # p /\ x # step => node'[x] = node[x]
    BY <2>8, <2>6, <1>2, <1>4
  <2> QED
    BY <2>9, <2>3, <2>4, <2>s, <2>r, <1>4
<1> QED
  BY <1>1, <1>2, <1>3, <1>4, <1>5

LEMMA ShapeLink == ASSUME DepsShape, LinkInv, Link PROVE DepsShape'
<1>1. /\ at = "link" /\ step \in Steps /\ step \in Nat
      /\ UNCHANGED <<graph, step, at, todo, tracked, nodeLife, left, complete>>
  BY Linked1, ShapeAt DEF running
<1>2. PICK p \in link : /\ p \in Steps /\ p < step /\ (IsTask(p) => HasNode(p))
                        /\ \/ ~node[p].task /\ UNCHANGED <<node, found>>
                           \/ /\ node[p].task /\ found' = found + 1
                              /\ node' \in [Steps -> NodeType]
                              /\ \A x \in Steps :
                                    /\ node'[x].task = node[x].task
                                    /\ node'[x].succ = IF x = p THEN Append(node[x].succ, step)
                                                       ELSE node[x].succ
                                    /\ x # p /\ x # step => node'[x] = node[x]
  BY Linked1
<1>p. /\ Steps' = Steps /\ Implicit' = Implicit
      /\ \A x : IsTask(x)' = IsTask(x) /\ HasNode(x)' = HasNode(x) /\ Filtered(x)' = Filtered(x)
  BY SameSteps, <1>1
<1>3. ParentPlaces'
  BY <1>1, <1>2, <1>p, ShapeAt DEF ParentPlaces, DepsShape, Entering, Creating, Preparing
<1>e. \A x \in Steps : (Entered(x)' <=> Entered(x)) /\ (x < step => Entered(x)) /\ Entered(step)
  BY <1>1 DEF Entered, Entering, Preparing
<1>4. node' \in [Steps -> NodeType]
  BY <1>2 DEF DepsShape, NodeTypes
<1>5. CASE UNCHANGED <<node, found>>
  BY <1>1, <1>3, <1>4, <1>5, <1>e, ShapeStays DEF Entering, Creating, Preparing
<1>6. CASE ~UNCHANGED <<node, found>>
  <2>1. /\ node[p].task
        /\ \A x \in Steps :
                                    /\ node'[x].task = node[x].task
                                    /\ node'[x].succ = IF x = p THEN Append(node[x].succ, step)
                                                       ELSE node[x].succ
                                    /\ x # p /\ x # step => node'[x] = node[x]
    BY <1>2, <1>6
  <2>2. ASSUME NEW x \in Steps PROVE LifeAt(x)'
    BY <1>1, <1>e, LifeKept, ShapeAt DEF Entering, Creating, Preparing
  <2>3. ASSUME NEW x \in Steps PROVE MarkAt(x)' /\ LeftAt(x)'
    <3>1. CASE x # p
      BY <3>1, <2>1, <1>1, MarkKept, ShapeAt
    <3>2. CASE x = p
      <4>1. Len(node'[p].succ) >= Len(node[p].succ) /\ left[p] \in Nat
        <5>1. node[p].succ \in Seq(Nat) /\ left[p] \in Nat
          BY <1>2, NodeFields DEF DepsShape
        <5>2. Len(Append(node[p].succ, step)) = Len(node[p].succ) + 1 /\ Len(node[p].succ) \in Nat
          BY <5>1
        <5>3. node'[p].succ = Append(node[p].succ, step)
          BY <2>1, <1>2
        <5> QED
          BY <5>1, <5>2, <5>3
      <4>2. Len(node'[p].succ) \in Nat /\ Len(node[p].succ) \in Nat
        BY <1>2, <1>4, NodeFields DEF NodeType, DepsShape
      <4>3. MarkAt(p) /\ LeftAt(p) /\ left'[p] = left[p]
        BY <1>2, <1>1, ShapeAt
      <4>4. LeftAt(p)'
        BY <4>1, <4>2, <4>3, <1>1 DEF LeftAt
      <4>5. MarkAt(p)'
        BY <4>3, <1>1, <1>p, <2>1, <1>2 DEF MarkAt, Released
      <4> QED
        BY <3>2, <4>4, <4>5
    <3> QED
      BY <3>1, <3>2
  <2>4. ASSUME NEW x \in Steps PROVE SuccAt(x)' /\ (~Entered(x) => node[x] = NoNode)'
    <3>1. CASE x # p
      BY <3>1, <2>1, <1>1, <1>e, SuccKept, ShapeAt
    <3>2. CASE x = p
      <4>1. node[p].succ \in Seq(Nat) /\ IsTask(p) /\ HasNode(p)
        BY <1>2, <2>1, ShapeAt, NodeFields DEF MarkAt, DepsShape
      <4>2. node'[p].succ = Append(node[p].succ, step)
        BY <2>1, <1>2
      <4>3. ASSUME NEW i \in 1..Len(node'[p].succ)
            PROVE  \E s \in Steps : s = node'[p].succ[i] /\ p < s /\ Entered(s)'
        <5>1. CASE i = Len(node[p].succ) + 1
          <6>1. node'[p].succ[i] = step
            BY <4>1, <4>2, <5>1
          <6> QED
            BY <6>1, <1>1, <1>2, <1>e
        <5>2. CASE i # Len(node[p].succ) + 1
          <6>1. i \in 1..Len(node[p].succ) /\ node'[p].succ[i] = node[p].succ[i]
            BY <4>1, <4>2, <5>2
          <6>2. node[p].succ[i] \in Steps /\ p < node[p].succ[i] /\ Entered(node[p].succ[i])
            BY <6>1, <1>2, ShapeAt DEF SuccAt
          <6> PICK s \in Steps : s = node[p].succ[i]
            BY <6>2
          <6> QED
            BY <6>1, <6>2, <1>e
        <5> QED
          BY <5>1, <5>2
      <4>4. SuccAt(p)'
        BY <4>1, <4>3, <1>1, <1>2, <1>p DEF SuccAt
      <4> QED
        BY <3>2, <4>4, <1>2, <1>e
    <3> QED
      BY <3>1, <3>2
  <2>5. NodeTypes'
    BY <1>4, <1>1, <1>p DEF NodeTypes, DepsShape
  <2> QED
    BY <1>1, <1>3, <2>2, <2>3, <2>4, <2>5, ShapeFrom, ShapeAt
<1> QED
  BY <1>5, <1>6

(* The step is linked to all.                                                *)
LEMMA Submitting ==
    ASSUME DepsShape, Submit
    PROVE  LET npred == node[step].npred + found + 1 IN
           /\ at = "deps" /\ todo = {} /\ step \in Steps /\ step \in Nat /\ npred \in Int
           /\ UNCHANGED <<graph, todo, link, found, hash, tracked, held, mtx, left, pending, complete>>
           /\ node' \in [Steps -> NodeType]
           /\ node'[step].npred = npred /\ node'[step].task = IsTask(step)
           /\ node'[step].succ = node[step].succ /\ node'[step].refs = node[step].refs
           /\ node'[step].locks = node[step].locks
           /\ \A x \in Steps \ {step} : node'[x] = node[x]
           /\ IsTask(step) => /\ nodeLife' = [nodeLife EXCEPT ![step] = IF npred > 0 THEN "blocked" ELSE "queued"]
                              /\ step' = step + 1 /\ at' = "step"
           /\ ~IsTask(step) => /\ nodeLife' = nodeLife
                               /\ \/ npred <= 0 /\ step' = step + 1 /\ at' = "step"
                                  \/ npred > 0 /\ step' = step /\ at' = "wait"
<1> DEFINE npred == node[step].npred + found + 1
<1>1. /\ at = "deps" /\ todo = {}
      /\ node' = [node EXCEPT ![step].npred = npred, ![step].task = IsTask(step)]
      /\ nodeLife' = IF IsTask(step)
               THEN [nodeLife EXCEPT ![step] = IF npred > 0 THEN "blocked" ELSE "queued"] ELSE nodeLife
      /\ IF IsTask(step) \/ npred <= 0 THEN step' = step + 1 /\ at' = "step" ELSE at' = "wait" /\ step' = step
      /\ UNCHANGED <<graph, todo, link, found, hash, tracked, held, mtx, left, pending, complete>>
  BY DEF Submit, Advance
<1>2. step \in Steps /\ step \in Nat /\ found \in Nat
  BY <1>1, ShapeAt DEF DepsShape, ParentPlaces, Entering, Preparing
<1>3. node \in [Steps -> NodeType] /\ node[step] \in NodeType /\ npred \in Int /\ IsTask(step) \in BOOLEAN
  BY <1>2, NodeFields DEF DepsShape, NodeTypes, IsTask
<1> HIDE DEF npred
<1>4. PICK m \in NodeType : m = [node[step] EXCEPT !.npred = npred, !.task = IsTask(step)]
                            /\ m.npred = npred /\ m.task = IsTask(step) /\ m.succ = node[step].succ
                            /\ m.refs = node[step].refs /\ m.locks = node[step].locks
  <2>1. PICK n \in NodeType : n = [node[step] EXCEPT !.npred = npred]
                            /\ n.npred = npred /\ n.succ = node[step].succ
                            /\ n.refs = node[step].refs /\ n.locks = node[step].locks
    BY <1>3, NodeWithPred
  <2>2. PICK m \in NodeType : m = [n EXCEPT !.task = IsTask(step)]
                            /\ m.npred = n.npred /\ m.task = IsTask(step) /\ m.succ = n.succ
                            /\ m.refs = n.refs /\ m.locks = n.locks
    BY <1>3, NodeWithTask
  <2>3. m = [node[step] EXCEPT !.npred = npred, !.task = IsTask(step)]
    BY <2>1, <2>2, Zenon
  <2> QED
    BY <2>1, <2>2, <2>3
<1>5. node' = [node EXCEPT ![step] = m]
  <2>1. node' = [node EXCEPT ![step] = [node[step] EXCEPT !.npred = npred, !.task = IsTask(step)]]
    BY <1>1, <1>2, <1>3
  <2> QED
    BY <2>1, <1>4
<1>6. node' \in [Steps -> NodeType] /\ node'[step] = m /\ \A x \in Steps \ {step} : node'[x] = node[x]
  BY <1>5, <1>2, <1>3
<1>7. npred > 0 \/ npred <= 0
  BY <1>3
<1> QED
  BY <1>1, <1>2, <1>3, <1>4, <1>6, <1>7 DEF npred

LEMMA ShapeSubmit == ASSUME DepsShape, Submit PROVE DepsShape'
<1>1. /\ at = "deps" /\ todo = {} /\ todo' = {} /\ step \in Steps /\ step \in Nat
      /\ UNCHANGED <<graph, found, tracked, left, complete>>
      /\ node' \in [Steps -> NodeType]
      /\ node'[step].task = IsTask(step) /\ node'[step].succ = node[step].succ
      /\ \A x \in Steps \ {step} : node'[x] = node[x]
      /\ IsTask(step) => /\ nodeLife' = [nodeLife EXCEPT ![step] = "blocked"]
                            \/ nodeLife' = [nodeLife EXCEPT ![step] = "queued"]
                         /\ step' = step + 1 /\ at' = "step"
      /\ ~IsTask(step) => /\ nodeLife' = nodeLife
                          /\ \/ step' = step + 1 /\ at' = "step"
                             \/ step' = step /\ at' = "wait"
  <2>1. IsTask(step) => nodeLife' = [nodeLife EXCEPT ![step] = "blocked"]
                        \/ nodeLife' = [nodeLife EXCEPT ![step] = "queued"]
    BY Submitting
  <2> QED
    BY <2>1, Submitting
<1>p. /\ Steps' = Steps /\ Implicit' = Implicit
      /\ \A x : IsTask(x)' = IsTask(x) /\ HasNode(x)' = HasNode(x) /\ Filtered(x)' = Filtered(x)
  BY SameSteps, <1>1
<1>2. ParentPlaces'
  <2>1. ParentPlaces /\ Len(graph.does) \in Nat /\ Steps = 1..Len(graph.does) /\ Entering /\ Creating
    BY <1>1, ShapeAt DEF DepsShape, Entering, Preparing, Creating
  <2>2. graph' = graph /\ complete' = complete /\ tracked' = tracked /\ todo' = {} /\ found' = found
    BY <1>1
  <2>3. CASE step' = step + 1 /\ at' = "step"
    BY <2>1, <2>2, <2>3, <1>1, <1>p DEF ParentPlaces, Entering, Creating, Preparing
  <2>4. CASE step' = step /\ at' = "wait" /\ ~IsTask(step)
    BY <2>1, <2>2, <2>4, <1>1, <1>p DEF ParentPlaces, Entering, Creating, Preparing
  <2> QED
    BY <2>3, <2>4, <1>1
<1>e. \A x \in Steps : (Entered(x)' <=> Entered(x)) /\ (x < step => x < step')
  <2> SUFFICES ASSUME NEW x \in Steps PROVE (Entered(x)' <=> Entered(x)) /\ (x < step => x < step')
    OBVIOUS
  <2> QED
    BY <1>1, ShapeAt DEF Entered, Entering, Preparing
<1>n. step \in Steps /\ Entered(step) /\ (IsTask(step) => nodeLife[step] = "new" /\ HasNode(step))
  BY <1>1, ShapeAt DEF LifeAt, Entered, Entering, Preparing
<1>3. nodeLife' \in [Steps -> Lives]
  BY <1>1, ShapeAt DEF Lives
<1>4. ASSUME NEW x \in Steps PROVE LifeAt(x)'
  <2>1. LifeAt(x)
    BY ShapeAt
  <2>2. CASE x # step
    <3>1. nodeLife'[x] = nodeLife[x] /\ (Creating' => Creating) /\ ((x = step /\ Preparing)' <=> (x = step /\ Preparing))
      BY <2>2, <1>1, ShapeAt DEF Creating, Entering, Preparing
    <3> QED
      BY <3>1, <2>1, <1>1, <1>e, LifeKept
  <2>3. CASE x = step /\ IsTask(step)
    <3>1. nodeLife'[step] \in {"blocked", "queued"} /\ ~Preparing'
      BY <2>3, <1>1, ShapeAt DEF Preparing
    <3> QED
      BY <3>1, <2>3, <1>1, <1>n, <1>p, <1>e DEF LifeAt, Notifying
  <2>4. CASE x = step /\ ~IsTask(step)
    <3>1. nodeLife'[step] = "none" /\ ~Preparing'
      BY <2>4, <1>1, ShapeAt DEF LifeAt, Preparing
    <3> QED
      BY <3>1, <2>4, <1>1, <1>n, <1>p, <1>e DEF LifeAt, Notifying
  <2> QED
    BY <2>2, <2>3, <2>4
<1>5. ASSUME NEW x \in Steps PROVE MarkAt(x)' /\ LeftAt(x)'
  <2>1. MarkAt(x) /\ LeftAt(x)
    BY ShapeAt
  <2>2. CASE x # step
    <3>1. nodeLife'[x] = nodeLife[x] /\ node'[x] = node[x]
      BY <2>2, <1>1, ShapeAt
    <3> QED
      BY <3>1, <2>1, <1>1, MarkKept
  <2>3. CASE x = step /\ IsTask(step)
    <3>1. nodeLife'[step] \in {"blocked", "queued"}
      BY <2>3, <1>1, ShapeAt
    <3> QED
      BY <3>1, <2>1, <2>3, <1>1, <1>n, <1>p DEF MarkAt, LeftAt, Released, Gone
  <2>4. CASE x = step /\ ~IsTask(step)
    BY <2>4, <2>1, <1>1, <1>n, <1>p DEF MarkAt, LeftAt, Released, Gone
  <2> QED
    BY <2>2, <2>3, <2>4
<1>6. ASSUME NEW x \in Steps PROVE SuccAt(x)' /\ (~Entered(x) => node[x] = NoNode)'
  <2>1. node'[x].succ = node[x].succ
    BY <1>1
  <2>2. SuccAt(x)'
    BY <2>1, <1>1, <1>e, SuccKept, ShapeAt
  <2>3. ~Entered(x)' => node'[x] = NoNode
    BY <1>1, <1>e, <1>n, ShapeAt
  <2> QED
    BY <2>2, <2>3
<1>7. NodeTypes'
  BY <1>1, <1>p DEF NodeTypes, DepsShape
<1> QED
  BY <1>1, <1>2, <1>3, <1>4, <1>5, <1>6, <1>7, ShapeFrom

-----------------------------------------------------------------------------
(* ParentPlaces, lives and nodes: the steps of the tasks.                         *)

(* A task does not move the parent.                                         *)
LEMMA ParentStays ==
    ASSUME UNCHANGED <<graph, creator>>
    PROVE  /\ UNCHANGED <<step, at, todo, link, found>> /\ Steps' = Steps
           /\ Preparing' = Preparing /\ Entering' = Entering /\ Creating' = Creating
           /\ \A x : /\ Entered(x)' = Entered(x) /\ Submitted(x)' = Submitted(x)
                     /\ Treated(x)' = Treated(x) /\ Linking(x)' = Linking(x)
           /\ \A x, v, k : Seen(x, v, k)' = Seen(x, v, k)
<1>1. UNCHANGED <<step, at, todo, link, found>> /\ Steps' = Steps
  BY DEF creator, Steps
<1>2. Preparing' = Preparing /\ Entering' = Entering /\ Creating' = Creating
  BY <1>1 DEF Preparing, Entering, Creating
<1>3. \A x : Entered(x)' = Entered(x) /\ Submitted(x)' = Submitted(x)
  BY <1>1, <1>2 DEF Entered, Submitted
<1>4. \A v : Treated(v)' = Treated(v)
  BY <1>1, <1>2, SameProgram DEF Treated
<1>5. \A v : Linking(v)' = Linking(v)
  BY <1>1, SameProgram DEF Linking
<1>6. \A x, v, k : Seen(x, v, k)' = Seen(x, v, k)
  BY <1>1, <1>4, SameProgram DEF Seen
<1> QED
  BY <1>1, <1>2, <1>3, <1>4, <1>5, <1>6

LEMMA ShapeTurn ==
    ASSUME DepsShape, NEW x \in Steps, UNCHANGED <<graph, creator, tracked>>, complete' \in BOOLEAN, complete' => complete,
           nodeLife[x] \notin {"none", "new"}, NEW a \in Lives \ {"none", "new"},
           nodeLife' = [nodeLife EXCEPT ![x] = a],
           node' \in [Steps -> NodeType], left' \in [Steps -> Nat],
           \A y \in Steps : node'[y].succ = node[y].succ /\ (node'[y] = node[y] \/ Entered(y)),
           \A y \in Steps \ {x} : node'[y].task = node[y].task /\ left'[y] = left[y],
           a \in {"blocked"} \cup Notifying => HasNode(x),
           a \in {"cleaning", "emptying"} => Implicit /\ ~Creating,
           MarkAt(x)', LeftAt(x)'
    PROVE  DepsShape'
<1>1. /\ UNCHANGED <<graph, step, at, todo, found, tracked>>
      /\ Preparing' = Preparing /\ Entering' = Entering /\ Creating' = Creating
      /\ \A y : Entered(y)' = Entered(y)
  BY ParentStays
<1>p. /\ Steps' = Steps /\ Implicit' = Implicit
      /\ \A y : IsTask(y)' = IsTask(y) /\ HasNode(y)' = HasNode(y) /\ Filtered(y)' = Filtered(y)
  BY SameSteps
<1>2. ParentPlaces'
  BY <1>1, <1>p DEF DepsShape, ParentPlaces
<1>3. nodeLife' \in [Steps -> Lives]
  BY ShapeAt
<1>4. ASSUME NEW y \in Steps PROVE LifeAt(y)'
  <2>1. LifeAt(y)
    BY ShapeAt
  <2>2. CASE y # x
    <3>1. nodeLife'[y] = nodeLife[y]
      BY <2>2, ShapeAt
    <3> QED
      BY <3>1, <2>1, <1>1, LifeKept
  <2>3. CASE y = x
    <3>1. nodeLife'[x] = a
      BY ShapeAt
    <3> QED
      BY <3>1, <2>1, <2>3, <1>1, <1>p DEF LifeAt, Notifying
  <2> QED
    BY <2>2, <2>3
<1>5. ASSUME NEW y \in Steps PROVE MarkAt(y)' /\ LeftAt(y)'
  <2>1. CASE y # x
    <3>1. nodeLife'[y] = nodeLife[y]
      BY <2>1, ShapeAt
    <3> QED
      BY <3>1, <2>1, MarkKept, ShapeAt
  <2> QED
    BY <2>1
<1>6. ASSUME NEW y \in Steps PROVE SuccAt(y)' /\ (~Entered(y) => node[y] = NoNode)'
  <2>1. SuccAt(y)'
    BY <1>1, SuccKept, ShapeAt
  <2>2. ~Entered(y)' => node'[y] = NoNode
    BY <1>1, ShapeAt
  <2> QED
    BY <2>1, <2>2
<1>7. NodeTypes'
  BY <1>p DEF NodeTypes
<1> QED
  BY <1>1, <1>2, <1>3, <1>4, <1>5, <1>6, <1>7, ShapeFrom

(* Nothing but the lives, the locks held and the count of children changes.  *)
Quiet(x) == TryLocks(x) \/ TestLock(x) \/ BackOff(x) \/ EndOf(x) \/ Unlock(x) \/ UncountChild(x)

Unreleased == {"queued", "locking", "backing", "runs", "unlocking", "ended", "releasing"}

LEMMA QuietMoves ==
    ASSUME DepsShape, NEW x \in Steps, Quiet(x)
    PROVE  /\ UNCHANGED <<graph, creator, hash, tracked, node, left, complete>>
           /\ \E a \in Unreleased \cup {"freeing"} :
                 /\ nodeLife' = [nodeLife EXCEPT ![x] = a] /\ nodeLife[x] \in Unreleased \ {"releasing"}
                 /\ a = "releasing" => HasNode(x)
                 /\ a = "freeing" => ~HasNode(x)
                 /\ nodeLife[x] \in {"unlocking", "ended"} => a \notin {"queued", "locking", "backing", "runs"}
<1> USE DEF Becomes, Unreleased
<1>1. CASE TryLocks(x)
  BY <1>1 DEF TryLocks
<1>2. CASE TestLock(x)
  BY <1>2 DEF TestLock
<1>3. CASE BackOff(x)
  BY <1>3 DEF BackOff, ReleaseLock
<1>4. CASE EndOf(x)
  BY <1>4 DEF EndOf
<1>5. CASE Unlock(x)
  <2>1. PICK v, a : /\ a = IF held[x] = {v} THEN "ended" ELSE "unlocking"
                    /\ nodeLife[x] = "unlocking" /\ nodeLife' = [nodeLife EXCEPT ![x] = a]
                    /\ UNCHANGED <<graph, creator, hash, tracked, node, left, complete>>
    BY <1>5 DEF Unlock, ReleaseLock
  <2>2. a \in {"ended", "unlocking"}
    BY <2>1
  <2> QED
    BY <2>1, <2>2
<1>6. CASE UncountChild(x)
  <2>1. PICK a : /\ a = IF HasNode(x) THEN "releasing" ELSE "freeing"
                 /\ nodeLife[x] = "ended" /\ nodeLife' = [nodeLife EXCEPT ![x] = a]
                 /\ UNCHANGED <<graph, creator, hash, tracked, node, left, complete>>
    BY <1>6 DEF UncountChild
  <2>2. CASE HasNode(x)
    BY <2>1, <2>2
  <2>3. CASE ~HasNode(x)
    BY <2>1, <2>3
  <2> QED
    BY <2>2, <2>3
<1> QED
  BY <1>1, <1>2, <1>3, <1>4, <1>5, <1>6 DEF Quiet

LEMMA ShapeQuiet == ASSUME DepsShape, NEW x \in Steps, Quiet(x) PROVE DepsShape'
<1>1. PICK a \in Unreleased \cup {"freeing"} :
         /\ nodeLife' = [nodeLife EXCEPT ![x] = a] /\ nodeLife[x] \in Unreleased \ {"releasing"}
         /\ a = "releasing" => HasNode(x)
         /\ a = "freeing" => ~HasNode(x)
  BY QuietMoves
<1>2. UNCHANGED <<graph, creator, hash, tracked, node, left, complete>>
  BY QuietMoves
<1>3. /\ IsTask(x)' = IsTask(x) /\ HasNode(x)' = HasNode(x)
      /\ nodeLife'[x] = a /\ MarkAt(x) /\ LeftAt(x) /\ SuccAt(x) /\ left[x] \in Nat
  BY <1>1, <1>2, SameSteps, ShapeAt, NodeFields DEF DepsShape
<1>4. a = "freeing" => left[x] = 0 /\ ~node[x].task
  <2>1. ~HasNode(x) => node[x].succ = <<>> /\ ~node[x].task
    BY <1>3 DEF SuccAt, MarkAt
  <2>2. node[x].succ = <<>> => left[x] = 0
    BY <1>3 DEF LeftAt
  <2> QED
    BY <2>1, <2>2, <1>1
<1>5. MarkAt(x)' /\ LeftAt(x)'
  BY <1>1, <1>2, <1>3, <1>4 DEF MarkAt, LeftAt, Released, Gone, Unreleased
<1>6. a \in Lives \ {"none", "new"} /\ nodeLife[x] \notin {"none", "new"} /\ a \notin {"blocked", "cleaning", "emptying"}
      /\ (a \in Notifying => HasNode(x))
  BY <1>1 DEF Unreleased, Lives, Notifying
<1>7. node' \in [Steps -> NodeType] /\ left' \in [Steps -> Nat] /\ complete' \in BOOLEAN
      /\ (complete' => complete)
  BY <1>2 DEF DepsShape, NodeTypes, ParentPlaces
<1> QED
  <2>1. \A y \in Steps : node'[y].succ = node[y].succ /\ node'[y] = node[y]
    BY <1>2
  <2>2. \A y \in Steps \ {x} : node'[y].task = node[y].task /\ left'[y] = left[y]
    BY <1>2
  <2>3. UNCHANGED <<graph, creator, tracked>>
    BY <1>2
  <2>4. /\ a \in {"blocked"} \cup Notifying => HasNode(x)
        /\ a \in {"cleaning", "emptying"} => Implicit /\ ~Creating
    BY <1>6
  <2>5. \A y \in Steps : node'[y].succ = node[y].succ /\ (node'[y] = node[y] \/ Entered(y))
    BY <2>1
  <2>6. nodeLife' = [nodeLife EXCEPT ![x] = a] /\ nodeLife[x] \notin {"none", "new"}
    BY <1>1, <1>6
  <2>7. a \in Lives \ {"none", "new"}
    BY <1>6
  <2> QED
    BY <2>2, <2>3, <2>4, <2>5, <2>6, <2>7, <1>5, <1>7, ShapeTurn

LEMMA SuccessorAt ==
    ASSUME DepsShape, NEW x \in Steps, NEW i \in 1..Len(node[x].succ)
    PROVE  /\ node[x].succ[i] \in Steps /\ x < node[x].succ[i] /\ x # node[x].succ[i]
           /\ Entered(node[x].succ[i])
           /\ IsTask(x) /\ HasNode(x) /\ x < step
<1>1. SuccAt(x) /\ x \in Nat /\ Steps \subseteq Nat
  BY ShapeAt
<1>2. node[x].succ # <<>>
  BY NodeFields DEF DepsShape
<1> QED
  BY <1>1, <1>2 DEF SuccAt

LEMMA LeftIn ==
    ASSUME DepsShape, NEW x \in Steps, nodeLife[x] \in {"queueing", "forgetting"} \/ left[x] > 0
    PROVE  /\ left[x] \in 1..Len(node[x].succ) /\ left[x] \in Nat
           /\ Successor(x) = node[x].succ[left[x]]
           /\ Successor(x) \in Steps /\ x < Successor(x) /\ x # Successor(x) /\ Entered(Successor(x))
           /\ IsTask(x) /\ HasNode(x) /\ x < step
<1>1. LeftAt(x) /\ left[x] \in Nat /\ Len(node[x].succ) \in Nat
  BY ShapeAt, NodeFields DEF DepsShape
<1>2. left[x] \in 1..Len(node[x].succ)
  BY <1>1 DEF LeftAt
<1> QED
  BY <1>1, <1>2, SuccessorAt DEF Successor

LEMMA MarkFinishedDoes ==
    ASSUME DepsShape, NEW x \in Steps, MarkFinished(x)
    PROVE  /\ UNCHANGED <<graph, creator, hash, tracked, held, mtx, pending, complete>>
           /\ nodeLife[x] = "releasing" /\ nodeLife' = [nodeLife EXCEPT ![x] = "notifying"]
           /\ left' = [left EXCEPT ![x] = Len(node[x].succ)] /\ left' \in [Steps -> Nat]
           /\ node' \in [Steps -> NodeType]
           /\ \A y \in Steps :
                 /\ node'[y].npred = node[y].npred /\ node'[y].succ = node[y].succ
                 /\ node'[y].refs = node[y].refs /\ node'[y].locks = node[y].locks
                 /\ y # x => node'[y] = node[y]
           /\ ~node'[x].task
<1>1. /\ UNCHANGED <<graph, creator, hash, tracked, held, mtx, pending, complete>>
      /\ nodeLife[x] = "releasing" /\ nodeLife' = [nodeLife EXCEPT ![x] = "notifying"]
      /\ left' = [left EXCEPT ![x] = Len(node[x].succ)]
      /\ node' = [node EXCEPT ![x].task = FALSE]
  BY DEF MarkFinished, Becomes
<1>2. node \in [Steps -> NodeType] /\ node[x] \in NodeType /\ left \in [Steps -> Nat] /\ Len(node[x].succ) \in Nat
  BY NodeFields DEF DepsShape, NodeTypes
<1>3. PICK m \in NodeType : /\ m = [node[x] EXCEPT !.task = FALSE] /\ ~m.task /\ m.npred = node[x].npred
                            /\ m.succ = node[x].succ /\ m.refs = node[x].refs /\ m.locks = node[x].locks
  BY <1>2, NodeWithTask
<1>4. node' = [node EXCEPT ![x] = m]
  BY <1>1, <1>2, <1>3
<1>5. left' \in [Steps -> Nat]
  BY <1>1, <1>2
<1>6. node' \in [Steps -> NodeType] /\ node'[x] = m /\ \A y \in Steps : y # x => node'[y] = node[y]
  BY <1>4, <1>2
<1> QED
  BY <1>1, <1>3, <1>5, <1>6

LEMMA ShapeMarkFinished == ASSUME DepsShape, NEW x \in Steps, MarkFinished(x) PROVE DepsShape'
<1>1. /\ UNCHANGED <<graph, creator, tracked, complete>> /\ left' \in [Steps -> Nat]
      /\ nodeLife[x] = "releasing" /\ nodeLife' = [nodeLife EXCEPT ![x] = "notifying"]
      /\ node' \in [Steps -> NodeType]
      /\ \A y \in Steps : node'[y].succ = node[y].succ /\ (y # x => node'[y] = node[y])
      /\ ~node'[x].task
      /\ left'[x] = Len(node[x].succ) /\ \A y \in Steps : y # x => left'[y] = left[y]
  BY MarkFinishedDoes DEF DepsShape, NodeTypes
<1>2. IsTask(x) /\ HasNode(x) /\ Entered(x) /\ nodeLife'[x] = "notifying"
  BY <1>1, ShapeAt DEF LifeAt, Notifying
<1>3. MarkAt(x)' /\ LeftAt(x)'
  BY <1>1, <1>2, NodeFields, SameSteps DEF MarkAt, LeftAt, Released, Gone, DepsShape
<1>4. complete' \in BOOLEAN /\ "notifying" \in Lives \ {"none", "new"}
  BY <1>1 DEF DepsShape, ParentPlaces, Lives
<1>5. \A y \in Steps : node'[y].succ = node[y].succ /\ (node'[y] = node[y] \/ Entered(y))
  BY <1>1, <1>2
<1>6. \A y \in Steps \ {x} : node'[y].task = node[y].task /\ left'[y] = left[y]
  BY <1>1
<1> QED
  BY <1>1, <1>2, <1>3, <1>4, <1>5, <1>6, ShapeTurn DEF Notifying

LEMMA NotifyDoes ==
    ASSUME DepsShape, NEW x \in Steps, Notify(x)
    PROVE  LET s == Successor(x) IN
           /\ UNCHANGED <<graph, creator, hash, tracked, held, mtx, left, pending, complete>>
           /\ nodeLife[x] = "notifying" /\ left[x] > 0
           /\ nodeLife' = [nodeLife EXCEPT ![x] = IF node[s].npred = 1 THEN "queueing" ELSE "forgetting"]
           /\ node' \in [Steps -> NodeType]
           /\ \A y \in Steps :
                 /\ node'[y].task = node[y].task /\ node'[y].succ = node[y].succ
                 /\ node'[y].refs = node[y].refs /\ node'[y].locks = node[y].locks
                 /\ y # s => node'[y] = node[y]
           /\ node'[s].npred = node[s].npred - 1
<1> DEFINE s == Successor(x)
<1>1. /\ UNCHANGED <<graph, creator, hash, tracked, held, mtx, left, pending, complete>>
      /\ nodeLife[x] = "notifying" /\ left[x] > 0
      /\ nodeLife' = [nodeLife EXCEPT ![x] = IF node[s].npred = 1 THEN "queueing" ELSE "forgetting"]
      /\ node' = [node EXCEPT ![s].npred = @ - 1]
  BY DEF Notify, Becomes
<1>2. s \in Steps
  BY <1>1, LeftIn
<1> HIDE DEF s
<1>3. node \in [Steps -> NodeType] /\ node[s] \in NodeType /\ node[s].npred - 1 \in Int
  BY <1>2, NodeFields DEF DepsShape, NodeTypes
<1>r. PICK r \in Int : r = node[s].npred - 1
  BY <1>3
<1>4. PICK m \in NodeType : /\ m = [node[s] EXCEPT !.npred = r] /\ m.task = node[s].task /\ m.npred = r
                            /\ m.succ = node[s].succ /\ m.refs = node[s].refs /\ m.locks = node[s].locks
  BY <1>3, NodeWithPred
<1>5. node' = [node EXCEPT ![s] = m]
  BY <1>1, <1>2, <1>3, <1>4, <1>r
<1>6. node' \in [Steps -> NodeType] /\ node'[s] = m /\ \A y \in Steps : y # s => node'[y] = node[y]
  BY <1>5, <1>2, <1>3
<1> QED
  BY <1>1, <1>4, <1>6, <1>r DEF s

LEMMA ShapeNotify == ASSUME DepsShape, NEW x \in Steps, Notify(x) PROVE DepsShape'
<1> DEFINE s == Successor(x)
<1>1. /\ UNCHANGED <<graph, creator, tracked, left, complete>>
      /\ nodeLife[x] = "notifying" /\ left[x] > 0
      /\ nodeLife' = [nodeLife EXCEPT ![x] = IF node[s].npred = 1 THEN "queueing" ELSE "forgetting"]
      /\ node' \in [Steps -> NodeType]
      /\ \A y \in Steps : /\ node'[y].task = node[y].task /\ node'[y].succ = node[y].succ
                          /\ y # s => node'[y] = node[y]
  BY NotifyDoes
<1>2. IsTask(x) /\ HasNode(x) /\ Entered(s) /\ left[x] \in Nat /\ MarkAt(x) /\ LeftAt(x)
  BY <1>1, LeftIn, ShapeAt
<1> HIDE DEF s
<1>a. PICK a \in {"queueing", "forgetting"} : a = IF node[s].npred = 1 THEN "queueing" ELSE "forgetting"
  OBVIOUS
<1>b. nodeLife'[x] = a /\ node'[x].task = node[x].task /\ node'[x].succ = node[x].succ
  BY <1>1, <1>a, ShapeAt
<1>3. MarkAt(x)' /\ LeftAt(x)'
  BY <1>1, <1>2, <1>a, <1>b, SameSteps DEF MarkAt, LeftAt, Released, Gone
<1>4. complete' \in BOOLEAN /\ left' \in [Steps -> Nat] /\ a \in Lives \ {"none", "new"}
  BY <1>1, <1>a DEF DepsShape, ParentPlaces, NodeTypes, Lives
<1>5. \A y \in Steps : node'[y].succ = node[y].succ /\ (node'[y] = node[y] \/ Entered(y))
  BY <1>1, <1>2
<1> QED
  BY <1>1, <1>2, <1>3, <1>4, <1>5, <1>a, ShapeTurn DEF Notifying

LEMMA ForgetSuccessorDoes ==
    ASSUME DepsShape, NEW x \in Steps, ForgetSuccessor(x)
    PROVE  LET s == Successor(x) IN
           /\ UNCHANGED <<graph, creator, hash, tracked, held, mtx, pending, complete>>
           /\ nodeLife[x] = "forgetting" /\ nodeLife' = [nodeLife EXCEPT ![x] = "notifying"]
           /\ left' = [left EXCEPT ![x] = left[x] - 1] /\ left' \in [Steps -> Nat]
           /\ node' \in [Steps -> NodeType]
           /\ \A y \in Steps :
                 /\ node'[y].task = node[y].task /\ node'[y].succ = node[y].succ
                 /\ node'[y].npred = node[y].npred /\ node'[y].locks = node[y].locks
                 /\ y # s => node'[y] = node[y]
           /\ node'[s].refs = node[s].refs - 1
<1> DEFINE s == Successor(x)
<1>1. /\ UNCHANGED <<graph, creator, hash, tracked, held, mtx, pending, complete>>
      /\ nodeLife[x] = "forgetting" /\ nodeLife' = [nodeLife EXCEPT ![x] = "notifying"]
      /\ left' = [left EXCEPT ![x] = left[x] - 1]
      /\ node' = [node EXCEPT ![s].refs = @ - 1]
  BY DEF ForgetSuccessor, Becomes
<1>2. s \in Steps /\ left[x] \in Nat /\ left[x] >= 1
  BY <1>1, LeftIn
<1>l. left' \in [Steps -> Nat]
  <2>1. left[x] - 1 \in Nat
    BY <1>2
  <2> QED
    BY <1>1, <2>1 DEF DepsShape, NodeTypes
<1> HIDE DEF s
<1>3. node \in [Steps -> NodeType] /\ node[s] \in NodeType /\ node[s].refs - 1 \in Int
  BY <1>2, NodeFields DEF DepsShape, NodeTypes
<1>r. PICK r \in Int : r = node[s].refs - 1
  BY <1>3
<1>4. PICK m \in NodeType : /\ m = [node[s] EXCEPT !.refs = r] /\ m.task = node[s].task /\ m.npred = node[s].npred
                            /\ m.succ = node[s].succ /\ m.refs = r /\ m.locks = node[s].locks
  BY <1>3, NodeWithRefs
<1>5. node' = [node EXCEPT ![s] = m]
  BY <1>1, <1>2, <1>3, <1>4, <1>r
<1>6. node' \in [Steps -> NodeType] /\ node'[s] = m /\ \A y \in Steps : y # s => node'[y] = node[y]
  BY <1>5, <1>2, <1>3
<1> QED
  BY <1>1, <1>4, <1>6, <1>r, <1>l DEF s

LEMMA ShapeForgetSuccessor == ASSUME DepsShape, NEW x \in Steps, ForgetSuccessor(x) PROVE DepsShape'
<1> DEFINE s == Successor(x)
<1>1. /\ UNCHANGED <<graph, creator, tracked, complete>>
      /\ nodeLife[x] = "forgetting" /\ nodeLife' = [nodeLife EXCEPT ![x] = "notifying"]
      /\ left' = [left EXCEPT ![x] = left[x] - 1] /\ left' \in [Steps -> Nat]
      /\ node' \in [Steps -> NodeType]
      /\ \A y \in Steps : /\ node'[y].task = node[y].task /\ node'[y].succ = node[y].succ
                          /\ y # s => node'[y] = node[y]
  BY ForgetSuccessorDoes
<1>2. IsTask(x) /\ HasNode(x) /\ Entered(s) /\ left[x] \in Nat /\ MarkAt(x) /\ LeftAt(x)
      /\ Len(node[x].succ) \in Nat
  BY <1>1, LeftIn, ShapeAt, NodeFields DEF DepsShape
<1> HIDE DEF s
<1>b. nodeLife'[x] = "notifying" /\ node'[x].task = node[x].task /\ node'[x].succ = node[x].succ
      /\ left'[x] = left[x] - 1 /\ \A y \in Steps : y # x => left'[y] = left[y]
  BY <1>1, ShapeAt DEF DepsShape, NodeTypes
<1>3. MarkAt(x)' /\ LeftAt(x)'
  BY <1>1, <1>2, <1>b, SameSteps DEF MarkAt, LeftAt, Released, Gone
<1>4. complete' \in BOOLEAN /\ "notifying" \in Lives \ {"none", "new"}
  BY <1>1 DEF DepsShape, ParentPlaces, Lives
<1>5. \A y \in Steps : node'[y].succ = node[y].succ /\ (node'[y] = node[y] \/ Entered(y))
  BY <1>1, <1>2
<1>6. \A y \in Steps \ {x} : node'[y].task = node[y].task /\ left'[y] = left[y]
  BY <1>1, <1>b
<1> QED
  BY <1>1, <1>2, <1>3, <1>4, <1>5, <1>6, ShapeTurn DEF Notifying

LEMMA QueueSuccessorDoes ==
    ASSUME DepsShape, QueueInv, NEW x \in Steps, QueueSuccessor(x)
    PROVE  LET s == Successor(x) IN
           /\ UNCHANGED <<graph, creator, hash, tracked, node, held, mtx, left, pending, complete>>
           /\ nodeLife[x] = "queueing" /\ s \in Steps /\ x # s /\ Submitted(s) /\ Entered(s) /\ node[s].npred = 0
           /\ nodeLife'[x] = "forgetting" /\ nodeLife' \in [Steps -> Lives]
           /\ \A y \in Steps \ {x, s} : nodeLife'[y] = nodeLife[y]
           /\ IsTask(s) => nodeLife[s] = "blocked" /\ nodeLife'[s] = "queued"
           /\ ~IsTask(s) => nodeLife'[s] = nodeLife[s]
<1> DEFINE s == Successor(x)
<1>1. /\ UNCHANGED <<graph, creator, hash, tracked, node, held, mtx, left, pending, complete>>
      /\ nodeLife[x] = "queueing"
      /\ nodeLife' = [nodeLife EXCEPT ![x] = "forgetting", ![s] = IF node[s].task THEN "queued" ELSE @]
  BY DEF QueueSuccessor
<1>2. s \in Steps /\ x # s /\ Entered(s)
  BY <1>1, LeftIn
<1>3. Submitted(s) /\ node[s].npred = 0 /\ (IsTask(s) => nodeLife[s] = "blocked")
  BY <1>1 DEF QueueInv
<1>4. LifeAt(s) /\ MarkAt(s) /\ nodeLife \in [Steps -> Lives]
  BY <1>2, ShapeAt
<1> HIDE DEF s
<1>5. node[s].task <=> IsTask(s)
  BY <1>3, <1>4 DEF MarkAt, LifeAt, Released
<1>6. PICK f \in [Steps -> Lives] : f = [nodeLife EXCEPT ![x] = "forgetting"] /\ f[x] = "forgetting"
                                    /\ f[s] = nodeLife[s] /\ \A y \in Steps : y # x => f[y] = nodeLife[y]
  <2>1. PICK f : f = [nodeLife EXCEPT ![x] = "forgetting"]
    OBVIOUS
  <2>2. "forgetting" \in Lives
    BY DEF Lives
  <2>3. f \in [Steps -> Lives] /\ f[x] = "forgetting" /\ f[s] = nodeLife[s]
    BY <2>1, <2>2, <1>2, <1>4
  <2>4. \A y \in Steps : y # x => f[y] = nodeLife[y]
    BY <2>1, <1>4
  <2> QED
    BY <2>1, <2>3, <2>4
<1>7. nodeLife' = [f EXCEPT ![s] = IF node[s].task THEN "queued" ELSE f[s]]
  BY <1>1, <1>6, Zenon
<1>8. CASE IsTask(s)
  <2>1. nodeLife' = [f EXCEPT ![s] = "queued"] /\ "queued" \in Lives
    BY <1>7, <1>5, <1>8 DEF Lives
  <2> QED
    BY <2>1, <1>1, <1>2, <1>3, <1>6, <1>8 DEF s
<1>9. CASE ~IsTask(s)
  <2>1. nodeLife' = [f EXCEPT ![s] = f[s]]
    BY <1>7, <1>5, <1>9
  <2>2. nodeLife' \in [Steps -> Lives] /\ \A y \in Steps : nodeLife'[y] = f[y]
    BY <2>1, <1>6
  <2> QED
    BY <2>2, <1>1, <1>2, <1>3, <1>6, <1>9 DEF s
<1> QED
  BY <1>8, <1>9

LEMMA ShapeQueueSuccessor == ASSUME DepsShape, QueueInv, NEW x \in Steps, QueueSuccessor(x) PROVE DepsShape'
<1> DEFINE s == Successor(x)
<1>1. /\ UNCHANGED <<graph, creator, tracked, node, left, complete>>
      /\ nodeLife[x] = "queueing" /\ s \in Steps /\ x # s
      /\ nodeLife'[x] = "forgetting" /\ nodeLife' \in [Steps -> Lives]
      /\ \A y \in Steps \ {x, s} : nodeLife'[y] = nodeLife[y]
      /\ IsTask(s) => nodeLife[s] = "blocked" /\ nodeLife'[s] = "queued"
      /\ ~IsTask(s) => nodeLife'[s] = nodeLife[s]
  BY QueueSuccessorDoes
<1> HIDE DEF s
<1>2. /\ UNCHANGED <<step, at, todo, found>>
      /\ Preparing' = Preparing /\ Entering' = Entering /\ Creating' = Creating
      /\ \A y : Entered(y)' = Entered(y)
  BY <1>1, ParentStays
<1>p. /\ Steps' = Steps /\ Implicit' = Implicit
      /\ \A y : IsTask(y)' = IsTask(y) /\ HasNode(y)' = HasNode(y) /\ Filtered(y)' = Filtered(y)
  BY <1>1, SameSteps
<1>3. ParentPlaces'
  BY <1>1, <1>2, <1>p DEF DepsShape, ParentPlaces
<1>4. ASSUME NEW y \in Steps PROVE LifeAt(y)' /\ MarkAt(y)' /\ LeftAt(y)'
  <2>1. LifeAt(y) /\ MarkAt(y) /\ LeftAt(y)
    BY ShapeAt
  <2>2. CASE nodeLife'[y] = nodeLife[y]
    BY <2>1, <2>2, <1>1, <1>2, LifeKept, MarkKept
  <2>3. CASE y = x
    BY <2>1, <2>3, <1>1, <1>2, <1>p DEF LifeAt, MarkAt, LeftAt, Notifying, Released, Gone
  <2>4. CASE y = s /\ IsTask(s)
    BY <2>1, <2>4, <1>1, <1>2, <1>p DEF LifeAt, MarkAt, LeftAt, Notifying, Released, Gone
  <2> QED
    BY <2>2, <2>3, <2>4, <1>1
<1>6. ASSUME NEW y \in Steps PROVE SuccAt(y)' /\ (~Entered(y) => node[y] = NoNode)'
  <2>1. SuccAt(y)'
    BY <1>1, <1>2, SuccKept, ShapeAt
  <2>2. ~Entered(y)' => node'[y] = NoNode
    BY <1>1, <1>2, ShapeAt
  <2> QED
    BY <2>1, <2>2
<1>7. NodeTypes'
  BY <1>1, <1>p DEF NodeTypes, DepsShape
<1> QED
  BY <1>1, <1>3, <1>4, <1>6, <1>7, ShapeFrom

LEMMA ForgetOwnNodeDoes ==
    ASSUME DepsShape, NEW x \in Steps, ForgetOwnNode(x)
    PROVE  /\ UNCHANGED <<graph, creator, hash, tracked, held, mtx, left, pending, complete>>
           /\ nodeLife[x] = "notifying" /\ left[x] = 0 /\ nodeLife' = [nodeLife EXCEPT ![x] = "freeing"]
           /\ node' \in [Steps -> NodeType]
           /\ \A y \in Steps :
                 /\ node'[y].task = node[y].task /\ node'[y].succ = node[y].succ
                 /\ node'[y].npred = node[y].npred /\ node'[y].locks = node[y].locks
                 /\ y # x => node'[y] = node[y]
           /\ node'[x].refs = node[x].refs - 1
<1>1. /\ UNCHANGED <<graph, creator, hash, tracked, held, mtx, left, pending, complete>>
      /\ nodeLife[x] = "notifying" /\ left[x] = 0 /\ nodeLife' = [nodeLife EXCEPT ![x] = "freeing"]
      /\ node' = [node EXCEPT ![x].refs = @ - 1]
  BY DEF ForgetOwnNode, Becomes
<1>3. node \in [Steps -> NodeType] /\ node[x] \in NodeType /\ node[x].refs - 1 \in Int
  BY NodeFields DEF DepsShape, NodeTypes
<1>r. PICK r \in Int : r = node[x].refs - 1
  BY <1>3
<1>4. PICK m \in NodeType : /\ m = [node[x] EXCEPT !.refs = r] /\ m.task = node[x].task /\ m.npred = node[x].npred
                            /\ m.succ = node[x].succ /\ m.refs = r /\ m.locks = node[x].locks
  BY <1>3, NodeWithRefs
<1>5. node' = [node EXCEPT ![x] = m]
  BY <1>1, <1>3, <1>4, <1>r
<1>6. node' \in [Steps -> NodeType] /\ node'[x] = m /\ \A y \in Steps : y # x => node'[y] = node[y]
  BY <1>5, <1>3
<1> QED
  BY <1>1, <1>4, <1>6, <1>r

LEMMA ShapeForgetOwnNode == ASSUME DepsShape, NEW x \in Steps, ForgetOwnNode(x) PROVE DepsShape'
<1>1. /\ UNCHANGED <<graph, creator, tracked, left, complete>>
      /\ nodeLife[x] = "notifying" /\ nodeLife' = [nodeLife EXCEPT ![x] = "freeing"]
      /\ node' \in [Steps -> NodeType] /\ left[x] = 0
      /\ \A y \in Steps : /\ node'[y].task = node[y].task /\ node'[y].succ = node[y].succ
                          /\ y # x => node'[y] = node[y]
  BY ForgetOwnNodeDoes
<1>2. Entered(x) /\ MarkAt(x) /\ LeftAt(x) /\ nodeLife'[x] = "freeing"
  BY <1>1, ShapeAt DEF LifeAt
<1>3. MarkAt(x)' /\ LeftAt(x)'
  BY <1>1, <1>2, SameSteps DEF MarkAt, LeftAt, Released, Gone
<1>4. complete' \in BOOLEAN /\ left' \in [Steps -> Nat] /\ "freeing" \in Lives \ {"none", "new"}
  BY <1>1 DEF DepsShape, ParentPlaces, Lives, NodeTypes
<1>5. \A y \in Steps : node'[y].succ = node[y].succ /\ (node'[y] = node[y] \/ Entered(y))
  BY <1>1, <1>2
<1> QED
  BY <1>1, <1>3, <1>4, <1>5, ShapeTurn DEF Notifying

(* The end of a task that is freed, and perhaps empties the hash.            *)
Freeing(x) == DropTask(x) \/ TaskCleans(x) \/ TaskEmpties(x)

LEMMA FreeingDoes ==
    ASSUME DepsShape, NEW x \in Steps, Freeing(x)
    PROVE  /\ UNCHANGED <<graph, creator, tracked, held, mtx, left, pending>>
           /\ \E a \in {"cleaning", "emptying", "freed"} :
                 /\ nodeLife' = [nodeLife EXCEPT ![x] = a] /\ nodeLife'[x] = a
                 /\ a # "freed" => Implicit /\ ~Creating
           /\ nodeLife[x] \in {"freeing", "cleaning", "emptying"}
           /\ complete' \in BOOLEAN /\ (complete' => complete)
           /\ UNCHANGED node \/ (FreeEntries /\ ~Creating)
           /\ UNCHANGED hash \/ (EmptyBuckets /\ ~Creating)
<1>1. nodeLife \in [Steps -> Lives] /\ LifeAt(x) /\ complete \in BOOLEAN /\ (complete => Implicit /\ ~Creating)
  BY ShapeAt DEF DepsShape, ParentPlaces
<1>2. CASE DropTask(x)
  <2>1. PICK a : /\ a = IF Implicit /\ tracked /\ pending = 0 /\ complete THEN "cleaning" ELSE "freed"
                 /\ nodeLife[x] = "freeing" /\ nodeLife' = [nodeLife EXCEPT ![x] = a]
                 /\ UNCHANGED <<graph, creator, hash, tracked, node, held, mtx, left, pending, complete>>
    BY <1>2 DEF DropTask, Becomes
  <2>2. a \in {"cleaning", "freed"} /\ (a = "cleaning" => complete)
    BY <2>1
  <2> QED
    BY <2>1, <2>2, <1>1
<1>3. CASE TaskCleans(x)
  <2>1. PICK a : /\ a = IF MarkTaken THEN "emptying" ELSE "freed"
                 /\ nodeLife[x] = "cleaning" /\ nodeLife' = [nodeLife EXCEPT ![x] = a]
                 /\ UNCHANGED <<graph, creator, hash, tracked, held, mtx, left, pending>>
                 /\ (complete' = FALSE /\ FreeEntries) \/ UNCHANGED <<complete, node>>
    BY <1>3 DEF TaskCleans, Becomes, Clean
  <2>2. a \in {"emptying", "freed"}
    BY <2>1
  <2>3. Implicit /\ ~Creating
    BY <1>1, <2>1 DEF LifeAt
  <2>4. /\ UNCHANGED <<graph, creator, hash, tracked, held, mtx, left, pending>>
        /\ nodeLife' = [nodeLife EXCEPT ![x] = a] /\ nodeLife'[x] = a
    BY <2>1, <1>1
  <2>5. complete' \in BOOLEAN /\ (complete' => complete) /\ (UNCHANGED node \/ FreeEntries)
    <3>1. CASE complete' = FALSE /\ FreeEntries
      BY <3>1
    <3>2. CASE UNCHANGED <<complete, node>>
      BY <3>2, <1>1
    <3> QED
      BY <3>1, <3>2, <2>1
  <2> QED
    BY <2>1, <2>2, <2>3, <2>4, <2>5
<1>4. CASE TaskEmpties(x)
  <2>1. Implicit /\ ~Creating
    BY <1>1, <1>4 DEF LifeAt, TaskEmpties
  <2> QED
    BY <1>4, <1>1, <2>1 DEF TaskEmpties, Becomes
<1> QED
  BY <1>2, <1>3, <1>4 DEF Freeing

LEMMA ShapeFreeing == ASSUME DepsShape, NEW x \in Steps, Freeing(x) PROVE DepsShape'
<1>1. /\ UNCHANGED <<graph, creator, tracked, left>> /\ complete' \in BOOLEAN /\ (complete' => complete)
      /\ nodeLife[x] \in {"freeing", "cleaning", "emptying"}
      /\ UNCHANGED node \/ (FreeEntries /\ ~Creating)
  BY FreeingDoes
<1>a. PICK a \in {"cleaning", "emptying", "freed"} :
         /\ nodeLife' = [nodeLife EXCEPT ![x] = a] /\ nodeLife'[x] = a
         /\ a # "freed" => Implicit /\ ~Creating
  BY FreeingDoes
<1>2. /\ node' \in [Steps -> NodeType]
      /\ \A y \in Steps : node'[y].task = node[y].task /\ node'[y].succ = node[y].succ
  BY <1>1, FreedEntries DEF DepsShape, NodeTypes
<1>3. MarkAt(x) /\ LeftAt(x) /\ LifeAt(x)
  BY ShapeAt
<1>4. MarkAt(x)' /\ LeftAt(x)'
  BY <1>1, <1>a, <1>2, <1>3, SameSteps DEF MarkAt, LeftAt, Released, Gone
<1>5. \A y \in Steps : node'[y] = node[y] \/ Entered(y)
  <2>1. ASSUME ~Creating PROVE \A y \in Steps : Entered(y)
    BY <2>1, EnteredAtEnd DEF DepsShape, ParentPlaces
  <2> QED
    BY <2>1, <1>1
<1>6. left' \in [Steps -> Nat] /\ a \in Lives \ {"none", "new"} /\ nodeLife[x] \notin {"none", "new"}
  BY <1>1, <1>a DEF DepsShape, NodeTypes, Lives
<1>7. \A y \in Steps : node'[y].succ = node[y].succ /\ (node'[y] = node[y] \/ Entered(y))
  BY <1>2, <1>5
<1>8. \A y \in Steps \ {x} : node'[y].task = node[y].task /\ left'[y] = left[y]
  BY <1>1, <1>2
<1>9. /\ a \in {"blocked"} \cup Notifying => HasNode(x)
      /\ a \in {"cleaning", "emptying"} => Implicit /\ ~Creating
  BY <1>a DEF Notifying
<1> QED
  BY <1>1, <1>a, <1>2, <1>4, <1>6, <1>7, <1>8, <1>9, ShapeTurn

-----------------------------------------------------------------------------
(* The entries of the hash.                                                 *)

HashGood == HashInv /\ TrackedInv /\ LinkInv

LEMMA PredecessorsIn ==
    ASSUME NEW h, NEW k
    PROVE  Predecessors(h, k) \subseteq LastOut(h) \cup h.ins \cup h.mtxs
BY DEF Predecessors

(* What the step names and has yet to process is not treated.               *)
LEMMA NotTreated ==
    ASSUME DepsShape, Preparing, NEW i \in todo
    PROVE  i \in Filtered(step) /\ VarOf(step, i) \in Variables /\ ~Treated(VarOf(step, i))
<1>1. todo \subseteq Filtered(step) /\ step \in Steps /\ graph \in Graphs
  BY DEF DepsShape, ParentPlaces, Entering
<1> QED
  BY <1>1, StepKinds DEF Treated

LEMMA SeenBefore ==
    ASSUME DepsShape, NEW x \in Steps, NEW v \in Variables, NEW k, Seen(x, v, k)
    PROVE  /\ k \in Kinds /\ Names(x, v, k) /\ Entered(x) /\ (IsTask(x) => HasNode(x)) /\ x <= step
           /\ ~Treated(v) => x < step
<1>1. Names(x, v, k) /\ (x < step \/ (x = step /\ Treated(v)))
  BY DEF Seen
<1>2. k \in Kinds /\ (IsTask(x) => HasNode(x))
  BY <1>1, NamesOnce, ShapeAt
<1> QED
  BY <1>1, <1>2, ShapeAt DEF Treated, Entered

LEMMA HashKept ==
    ASSUME HashInv, UNCHANGED <<graph, hash>>,
           \A v \in Variables : \A x, k : x \in Steps => (Seen(x, v, k)' <=> Seen(x, v, k))
    PROVE  HashInv'
<1>1. Steps' = Steps /\ \A x : IsTask(x)' = IsTask(x)
  BY SameSteps
<1>2. EntryType' = EntryType /\ Kinds' = Kinds
  BY DEF EntryType, Kinds
<1>3. ASSUME NEW v \in Variables PROVE GoodEntry(hash[v], v)'
  <2>1. GoodEntry(hash[v], v)
    BY DEF HashInv
  <2>2. \A x \in Steps : \A k : Seen(x, v, k)' <=> Seen(x, v, k)
    OBVIOUS
  <2> PICK h : h = hash[v]
    OBVIOUS
  <2>3. GoodEntry(h, v)'
    BY <2>1, <2>2, <1>1, <1>2 DEF GoodEntry, LastOut
  <2> QED
    BY <2>3
<1> QED
  BY <1>2, <1>3 DEF HashInv

LEMMA EmptyIsGood ==
    ASSUME NEW h, LastOut(h) = {}, h.ins = {}, h.mtxs = {}, NEW v
    PROVE  GoodEntry(h, v)
BY DEF GoodEntry

LEMMA EmptyHashIsGood ==
    ASSUME hash' \in [Variables -> EntryType], HashIsEmpty'
    PROVE  HashInv'
<1>1. EntryType' = EntryType
  BY DEF EntryType
<1>2. ASSUME NEW v \in Variables PROVE GoodEntry(hash[v], v)'
  <2>1. LastOut(hash[v])' = {} /\ (hash[v].ins)' = {} /\ (hash[v].mtxs)' = {}
    BY DEF HashIsEmpty
  <2> QED
    BY <2>1 DEF GoodEntry
<1> QED
  BY <1>1, <1>2 DEF HashInv

LEMMA HashEmptied ==
    ASSUME EmptyBuckets
    PROVE  hash' \in [Variables -> EntryType] /\ HashIsEmpty'
<1>1. hash' = [v \in Variables |-> [EmptyEntry EXCEPT !.lock = IF hash[v].lock = "made" THEN "freed" ELSE @]]
  BY DEF EmptyBuckets
<1>2. ASSUME NEW v \in Variables
      PROVE  hash'[v] \in EntryType /\ LastOut(hash'[v]) = {} /\ hash'[v].ins = {} /\ hash'[v].mtxs = {}
  <2>1. hash'[v] = [EmptyEntry EXCEPT !.lock = IF hash[v].lock = "made" THEN "freed" ELSE "none"]
    BY <1>1 DEF EmptyEntry
  <2>2. PICK l \in {"freed", "none"} : l = IF hash[v].lock = "made" THEN "freed" ELSE "none"
    OBVIOUS
  <2>3. hash'[v] = [out |-> 0, ins |-> {}, mtxs |-> {}, flag |-> "ins", lock |-> l]
    BY <2>1, <2>2 DEF EmptyEntry
  <2> QED
    BY <2>3 DEF EntryType, LastOut
<1>3. hash' = [v \in Variables |-> hash'[v]]
  BY <1>1
<1> QED
  BY <1>2, <1>3 DEF HashIsEmpty, LastOut

(* The entry that the step has gone into.                                   *)
LEMMA SeenAfterUpdate ==
    ASSUME DepsShape, HashInv, UpdateHash, NEW i \in Filtered(step) \cap todo, todo' = todo \ {i}
    PROVE  /\ \A w : Treated(w)' <=> Treated(w) \/ w = VarOf(step, i)
           /\ \A x \in Steps, w \in Variables : \A k : Seen(x, w, k)' <=>
                 Seen(x, w, k) \/ (x = step /\ w = VarOf(step, i) /\ k = KindOf(step, i))
<1>1. at = "link" /\ at' = "deps" /\ step \in Steps /\ graph' = graph /\ step' = step
  BY HashUpdated
<1>2. Entering /\ Entering' /\ todo \subseteq Filtered(step)
  BY <1>1 DEF Entering, Preparing, DepsShape, ParentPlaces
<1>p. /\ Filtered(step)' = Filtered(step) /\ \A j : VarOf(step, j)' = VarOf(step, j)
      /\ \A x, v, k : Names(x, v, k)' <=> Names(x, v, k)
  BY <1>1, SameProgram
<1>3. \A w : Treated(w)' <=> Treated(w) \/ w = VarOf(step, i)
  BY <1>1, <1>2, <1>p, StepKinds, ShapeAt DEF Treated
<1>4. ~Treated(VarOf(step, i))
  BY <1>1, NotTreated DEF Preparing
<1>5. ASSUME NEW x \in Steps, NEW w \in Variables, NEW k
      PROVE  Seen(x, w, k)' <=> Seen(x, w, k) \/ (x = step /\ w = VarOf(step, i) /\ k = KindOf(step, i))
  <2>1. Names(step, VarOf(step, i), KindOf(step, i))
    BY DEF Names
  <2>2. Names(step, VarOf(step, i), k) => k = KindOf(step, i)
    BY <2>1, <1>1, NamesOnce, ShapeAt
  <2> QED
    BY <2>1, <2>2, <1>1, <1>3, <1>4, <1>p, ShapeAt DEF Seen
<1> QED
  BY <1>3, <1>5

(* What the entry of v becomes.                                              *)
LEMMA EntryFields ==
    ASSUME NEW h \in EntryType, NEW k \in Kinds, NEW x \in Nat
    PROVE  LET n == After(h, k, x) IN
           /\ n \in EntryType
           /\ k = "out" => n.out = (IF IsTask(x) THEN x ELSE 0) /\ n.ins = {} /\ n.mtxs = {}
           /\ k = "in" => /\ n.out = (IF h.mtxs # {} THEN 0 ELSE h.out)
                          /\ n.ins = {x} \cup (IF h.mtxs # {} /\ h.flag = "mtxs" THEN {} ELSE h.ins)
                          /\ n.mtxs = h.mtxs /\ n.flag = "ins"
           /\ k = "mtx" => /\ n.out = (IF h.ins # {} THEN 0 ELSE h.out)
                           /\ n.mtxs = {x} \cup (IF h.ins # {} /\ h.flag = "ins" THEN {} ELSE h.mtxs)
                           /\ n.ins = h.ins /\ n.flag = "mtxs"
<1>1. CASE k = "out"
  <2>1. After(h, k, x) = [h EXCEPT !.out = IF IsTask(x) THEN x ELSE 0, !.ins = {}, !.mtxs = {}]
    BY <1>1 DEF After
  <2>2. PICK o \in Nat : o = IF IsTask(x) THEN x ELSE 0
    OBVIOUS
  <2>3. After(h, k, x) = [out |-> o, ins |-> {}, mtxs |-> {}, flag |-> h.flag, lock |-> h.lock]
    BY <2>1, <2>2 DEF EntryType
  <2> QED
    BY <2>2, <2>3, <1>1 DEF EntryType
<1>2. CASE k = "in"
  <2>1. After(h, k, x) = [h EXCEPT !.out = IF h.mtxs # {} THEN 0 ELSE @,
                     !.ins = {x} \cup (IF h.mtxs # {} /\ h.flag = "mtxs" THEN {} ELSE @),
                     !.flag = "ins"]
    BY <1>2 DEF After
  <2>2. PICK o \in Nat : o = IF h.mtxs # {} THEN 0 ELSE h.out
    BY DEF EntryType
  <2>3. PICK S \in SUBSET Nat : S = {x} \cup (IF h.mtxs # {} /\ h.flag = "mtxs" THEN {} ELSE h.ins)
    BY DEF EntryType
  <2>4. After(h, k, x) = [out |-> o, ins |-> S, mtxs |-> h.mtxs, flag |-> "ins", lock |-> h.lock]
    BY <2>1, <2>2, <2>3 DEF EntryType
  <2> QED
    BY <2>2, <2>3, <2>4, <1>2 DEF EntryType
<1>3. CASE k = "mtx"
  <2>1. After(h, k, x) = [h EXCEPT !.out = IF h.ins # {} THEN 0 ELSE @,
                     !.mtxs = {x} \cup (IF h.ins # {} /\ h.flag = "ins" THEN {} ELSE @),
                     !.flag = "mtxs", !.lock = "made"]
    BY <1>3 DEF After
  <2>2. PICK o \in Nat : o = IF h.ins # {} THEN 0 ELSE h.out
    BY DEF EntryType
  <2>3. PICK S \in SUBSET Nat : S = {x} \cup (IF h.ins # {} /\ h.flag = "ins" THEN {} ELSE h.mtxs)
    BY DEF EntryType
  <2>4. After(h, k, x) = [out |-> o, ins |-> h.ins, mtxs |-> S, flag |-> "mtxs", lock |-> "made"]
    BY <2>1, <2>2, <2>3 DEF EntryType
  <2> QED
    BY <2>2, <2>3, <2>4, <1>3 DEF EntryType
<1> QED
  BY <1>1, <1>2, <1>3 DEF Kinds

LEMMA HashGoodUpdateHash == ASSUME DepsShape, HashGood, UpdateHash PROVE HashGood'
<1>c. /\ at = "link" /\ at' = "deps" /\ step \in Steps /\ step \in Nat /\ UNCHANGED <<graph, step, tracked>>
  BY HashUpdated, ShapeAt DEF HashGood
<1>d. PICK i \in Filtered(step) \cap todo :
         /\ todo' = todo \ {i} /\ VarOf(step, i) \in Variables
         /\ hash' = [hash EXCEPT ![VarOf(step, i)] = EntryAfter(i)]
  BY HashUpdated DEF HashGood
<1>v. PICK v \in Variables : v = VarOf(step, i)
  BY <1>d
<1>kk. PICK k \in Kinds : k = KindOf(step, i) /\ (k = "mtx" => IsTask(step))
  BY <1>c, StepKinds, ShapeAt
<1>hn. PICK h, n : h = hash[v] /\ n = EntryAfter(i)
  OBVIOUS
<1>s. /\ \A w : Treated(w)' <=> Treated(w) \/ w = v
      /\ \A x \in Steps, w \in Variables : \A l : Seen(x, w, l)' <=>
            Seen(x, w, l) \/ (x = step /\ w = v /\ l = k)
  BY SeenAfterUpdate, <1>d, <1>v, <1>kk DEF HashGood
<1>p. Steps' = Steps /\ \A x : IsTask(x)' = IsTask(x)
  BY <1>c, SameSteps
<1>k. k \in Kinds /\ (k = "mtx" => IsTask(step))
  BY <1>kk
<1>h. h \in EntryType /\ GoodEntry(h, v) /\ n = After(h, k, step)
  BY <1>d, <1>v, <1>kk, <1>hn DEF HashGood, HashInv, EntryAfter
<1>b. \A x \in Steps : \A l : Seen(x, v, l) => x < step
  <2>1. ~Treated(v)
    BY <1>c, <1>d, <1>v, NotTreated DEF Preparing
  <2> QED
    BY <2>1, <1>v, SeenBefore
<1>w. /\ hash' \in [Variables -> EntryType]
      /\ \A w \in Variables : hash'[w] = IF w = v THEN n ELSE hash[w]
  <2>1. n \in EntryType
    BY <1>h, <1>k, <1>c, EntryFields
  <2> QED
    BY <2>1, <1>d, <1>v, <1>hn DEF HashGood, HashInv
<1>f. /\ n \in EntryType
      /\ k = "out" => n.out = (IF IsTask(step) THEN step ELSE 0) /\ n.ins = {} /\ n.mtxs = {}
      /\ k = "in" => /\ n.out = (IF h.mtxs # {} THEN 0 ELSE h.out)
                     /\ n.ins = {step} \cup (IF h.mtxs # {} /\ h.flag = "mtxs" THEN {} ELSE h.ins)
                     /\ n.mtxs = h.mtxs /\ n.flag = "ins"
      /\ k = "mtx" => /\ n.out = (IF h.ins # {} THEN 0 ELSE h.out)
                      /\ n.mtxs = {step} \cup (IF h.ins # {} /\ h.flag = "ins" THEN {} ELSE h.mtxs)
                      /\ n.ins = h.ins /\ n.flag = "mtxs"
  BY <1>h, <1>k, <1>c, EntryFields
<1>vv. v \in Variables
  BY <1>v
<1>m. \A x \in Steps : \A l : Seen(x, v, l)' => x <= step
  BY <1>s, <1>b, <1>c, <1>vv, ShapeAt
<1>o. /\ \A x \in LastOut(h) : x \in Steps /\ Seen(x, v, "out")' /\ IsTask(x)
      /\ \A x \in h.ins : x \in Steps /\ Seen(x, v, "in")'
      /\ \A x \in h.mtxs : x \in Steps /\ Seen(x, v, "mtx")'
      /\ Seen(step, v, k)'
  BY <1>h, <1>s, <1>vv, <1>c DEF GoodEntry
<1>1. GoodEntry(n, v)'
  <2>1. CASE k = "out"
    <3>1. \A x \in LastOut(n) : x = step /\ IsTask(step)
      BY <2>1, <1>f DEF LastOut
    <3> QED
      BY <2>1, <3>1, <1>f, <1>o, <1>p, <1>c DEF GoodEntry, LastOut
  <2>2. CASE k = "in"
    <3>1. LastOut(n) \subseteq LastOut(h) /\ n.ins \subseteq {step} \cup h.ins /\ step \in n.ins /\ n.mtxs = h.mtxs
          /\ n.flag = "ins"
      BY <2>2, <1>f DEF LastOut
    <3>2. /\ \A x \in LastOut(n) : x \in Steps /\ Seen(x, v, "out")' /\ IsTask(x)
          /\ \A x \in n.ins : x \in Steps /\ Seen(x, v, "in")'
          /\ \A x \in n.mtxs : x \in Steps /\ Seen(x, v, "mtx")'
      BY <3>1, <2>2, <1>o, <1>c
    <3>3. \E z \in n.ins : \A x \in Steps, l \in Kinds : Seen(x, v, l)' => x <= z
      BY <3>1, <1>m
    <3>4. n.ins # {} /\ n.flag # "mtxs"
      BY <3>1
    <3>5. GoodEntry(n, v)'
      BY <3>2, <3>3, <3>4, <1>p DEF GoodEntry, LastOut, Kinds
    <3> QED
      BY <3>5
  <2>3. CASE k = "mtx"
    <3>1. LastOut(n) \subseteq LastOut(h) /\ n.mtxs \subseteq {step} \cup h.mtxs /\ step \in n.mtxs /\ n.ins = h.ins
          /\ n.flag = "mtxs"
      BY <2>3, <1>f DEF LastOut
    <3>2. /\ \A x \in LastOut(n) : x \in Steps /\ Seen(x, v, "out")' /\ IsTask(x)
          /\ \A x \in n.ins : x \in Steps /\ Seen(x, v, "in")'
          /\ \A x \in n.mtxs : x \in Steps /\ Seen(x, v, "mtx")'
      BY <3>1, <2>3, <1>o, <1>c
    <3>3. \E z \in n.mtxs : \A x \in Steps, l \in Kinds : Seen(x, v, l)' => x <= z
      BY <3>1, <1>m
    <3>4. n.mtxs # {} /\ n.flag # "ins"
      BY <3>1
    <3>5. GoodEntry(n, v)'
      BY <3>2, <3>3, <3>4, <1>p DEF GoodEntry, LastOut, Kinds
    <3> QED
      BY <3>5
  <2> QED
    BY <2>1, <2>2, <2>3, <1>k DEF Kinds
<1>2. ASSUME NEW w \in Variables, w # v PROVE GoodEntry(hash[w], w)'
  <2>1. GoodEntry(hash[w], w) /\ hash'[w] = hash[w]
    BY <1>2, <1>w DEF HashGood, HashInv
  <2>2. \A x \in Steps : \A l : Seen(x, w, l)' <=> Seen(x, w, l)
    BY <1>2, <1>s
  <2> PICK g : g = hash[w]
    OBVIOUS
  <2>3. GoodEntry(g, w)'
    BY <2>1, <2>2, <1>p DEF GoodEntry, LastOut, Kinds
  <2> QED
    BY <2>1, <2>3
<1>3. HashInv'
  <2>1. EntryType' = EntryType
    BY DEF EntryType
  <2>2. ASSUME NEW w \in Variables PROVE GoodEntry(hash[w], w)'
    BY <1>1, <1>2, <1>w
  <2> QED
    BY <2>1, <2>2, <1>w DEF HashInv
<1>4. TrackedInv'
  <2>1. tracked
    BY <1>c DEF DepsShape, ParentPlaces, Entering, Preparing
  <2> QED
    BY <2>1, <1>c DEF TrackedInv
<1>5. LinkInv'
  BY <1>c DEF LinkInv
<1> QED
  BY <1>3, <1>4, <1>5 DEF HashGood

LEMMA SameSeen ==
    ASSUME DepsShape, graph' = graph, step' \in Nat, NEW v,
           \/ step' = step /\ (Treated(v)' <=> Treated(v))
           \/ step' = step + 1 /\ ~Entering' /\ \A k : Names(step, v, k) => Treated(v)
    PROVE  \A x, k : x \in Steps => (Seen(x, v, k)' <=> Seen(x, v, k))
<1>1. \A x, k : Names(x, v, k)' <=> Names(x, v, k)
  BY SameProgram
<1>2. CASE step' = step /\ (Treated(v)' <=> Treated(v))
  BY <1>1, <1>2 DEF Seen
<1>3. CASE step' = step + 1 /\ ~Entering' /\ \A k : Names(step, v, k) => Treated(v)
  <2>1. ~Treated(v)'
    BY <1>3 DEF Treated
  <2>2. ASSUME NEW x \in Steps, NEW k PROVE Seen(x, v, k)' <=> Seen(x, v, k)
    BY <1>1, <1>3, <2>1, ShapeAt DEF Seen
  <2> QED
    BY <2>2
<1> QED
  BY <1>2, <1>3

LEMMA HashGoodCreatePlain == ASSUME DepsShape, HashGood, CreatePlain PROVE HashGood'
<1>1. /\ at = "step" /\ at' = "step" /\ step' = step + 1 /\ step \in Steps /\ step \in Nat /\ ~HasNode(step)
      /\ UNCHANGED <<graph, hash, tracked>>
  BY ShapeAt DEF CreatePlain, Advance, HasNode
<1>2. \A v, k : ~Names(step, v, k)
  <2>1. Filtered(step) = {}
    <3>1. graph.does[step].deps = <<>>
      BY <1>1 DEF HasNode
    <3> QED
      BY <3>1 DEF Filtered, First
  <2> QED
    BY <2>1 DEF Names
<1>3. HashInv'
  <2>1. \A v \in Variables : \A x, k : x \in Steps => (Seen(x, v, k)' <=> Seen(x, v, k))
    BY <1>1, <1>2, SameSeen DEF Entering, Preparing
  <2> QED
    BY <2>1, <1>1, HashKept DEF HashGood
<1>4. TrackedInv'
  <2>1. \A x \in Steps : x < step' => x < step \/ x = step
    BY <1>1, ShapeAt
  <2> QED
    BY <2>1, <1>1, SameSteps DEF HashGood, TrackedInv, HashIsEmpty, LastOut
<1>5. LinkInv'
  BY <1>1 DEF LinkInv
<1> QED
  BY <1>3, <1>4, <1>5 DEF HashGood

LEMMA HashGoodCreateWithDeps == ASSUME DepsShape, HashGood, CreateWithDeps PROVE HashGood'
<1>1. /\ at = "step" /\ at' = "deps" /\ step' = step /\ step \in Nat
      /\ todo' = Filtered(step) /\ tracked' /\ UNCHANGED <<graph, hash>>
  BY ShapeAt DEF CreateWithDeps
<1>2. \A v : ~Treated(v) /\ ~Treated(v)'
  BY <1>1, SameProgram DEF Treated, Entering, Preparing
<1>3. \A v \in Variables : \A x, k : x \in Steps => (Seen(x, v, k)' <=> Seen(x, v, k))
  BY <1>1, <1>2, SameSeen
<1> QED
  BY <1>1, <1>3, HashKept DEF HashGood, TrackedInv, LinkInv

LEMMA HashGoodWaitDeps == ASSUME DepsShape, HashGood, WaitDeps PROVE HashGood'
<1>1. at = "step" /\ step \in Nat /\ UNCHANGED <<graph, hash, tracked>> /\ ~IsTask(step) /\ at' # "link"
  BY ShapeAt DEF WaitDeps, Advance
<1>2. CASE tracked
  <2>1. step' = step /\ todo' = Filtered(step)
    BY <1>2 DEF WaitDeps
  <2>2. \A v : ~Treated(v) /\ ~Treated(v)'
    BY <1>1, <2>1, SameProgram DEF Treated, Entering, Preparing
  <2>3. \A v \in Variables : \A x, k : x \in Steps => (Seen(x, v, k)' <=> Seen(x, v, k))
    BY <1>1, <2>1, <2>2, SameSeen
  <2> QED
    BY <1>1, <1>2, <2>3, HashKept DEF HashGood, TrackedInv, LinkInv
<1>3. CASE ~tracked
  <2>1. step' = step + 1
    BY <1>3 DEF WaitDeps, Advance
  <2>2. HashIsEmpty' /\ hash' \in [Variables -> EntryType]
    BY <1>1, <1>3 DEF HashGood, TrackedInv, HashIsEmpty, LastOut, HashInv
  <2>3. TrackedInv'
    <3>1. \A x \in Steps : x < step' => x < step \/ x = step
      BY <1>1, <2>1, ShapeAt
    <3> QED
      BY <3>1, <2>2, <1>1, <1>3, SameSteps DEF HashGood, TrackedInv
  <2> QED
    BY <1>1, <2>2, <2>3, EmptyHashIsGood DEF HashGood, LinkInv
<1> QED
  BY <1>2, <1>3

LEMMA HashGoodNextDep == ASSUME DepsShape, HashGood, NextDep PROVE HashGood'
<1>1. /\ at = "deps" /\ at' = "link" /\ step \in Nat /\ tracked
      /\ UNCHANGED <<graph, step, todo, hash, tracked>>
  BY ShapeAt DEF NextDep, DepsShape, ParentPlaces, Entering, Preparing
<1>2. \A v : Treated(v)' <=> Treated(v)
  BY <1>1, SameProgram DEF Treated, Entering, Preparing
<1>3. \A v \in Variables : \A x, k : x \in Steps => (Seen(x, v, k)' <=> Seen(x, v, k))
  BY <1>1, <1>2, SameSeen
<1>4. LinkInv'
  <2>1. PICK i \in todo : link' = Predecessors(hash[VarOf(step, i)], KindOf(step, i))
    BY DEF NextDep
  <2>2. VarOf(step, i) \in Variables /\ ~Treated(VarOf(step, i))
    BY <1>1, NotTreated DEF Preparing
  <2>3. GoodEntry(hash[VarOf(step, i)], VarOf(step, i))
    BY <2>2 DEF HashGood, HashInv
  <2>4. \A p \in link' : p \in Steps /\ \E k : Seen(p, VarOf(step, i), k)
    BY <2>1, <2>3, PredecessorsIn DEF GoodEntry
  <2>5. \A p \in link' : p \in Steps /\ p < step /\ (IsTask(p) => HasNode(p))
    BY <2>2, <2>4, SeenBefore
  <2> QED
    BY <2>5, <1>1, SameSteps DEF LinkInv
<1> QED
  BY <1>1, <1>3, <1>4, HashKept DEF HashGood, TrackedInv

LEMMA HashGoodLink == ASSUME DepsShape, HashGood, Link PROVE HashGood'
<1>1. /\ at = "link" /\ at' = "link" /\ step \in Nat /\ tracked
      /\ UNCHANGED <<graph, step, todo, hash, tracked>> /\ link' \subseteq link
  BY ShapeAt DEF Link, DepsShape, ParentPlaces, Entering, Preparing
<1>2. \A v : Treated(v)' <=> Treated(v)
  BY <1>1, SameProgram DEF Treated, Entering, Preparing
<1>3. \A v \in Variables : \A x, k : x \in Steps => (Seen(x, v, k)' <=> Seen(x, v, k))
  BY <1>1, <1>2, SameSeen
<1>4. LinkInv'
  BY <1>1, SameSteps DEF LinkInv, HashGood
<1> QED
  BY <1>1, <1>3, <1>4, HashKept DEF HashGood, TrackedInv

LEMMA HashGoodSubmit == ASSUME DepsShape, HashGood, Submit PROVE HashGood'
<1>1. /\ at = "deps" /\ at' # "link" /\ step \in Nat /\ tracked /\ todo = {} /\ UNCHANGED <<graph, todo, hash, tracked>>
      /\ \/ step' = step /\ at' = "wait"
         \/ step' = step + 1 /\ at' = "step"
  BY ShapeAt, Submitting DEF DepsShape, ParentPlaces, Entering, Preparing
<1>2. \A v, k : Names(step, v, k) => Treated(v)
  BY <1>1 DEF Treated, Names, Entering, Preparing
<1>3. \A v \in Variables : \A x, k : x \in Steps => (Seen(x, v, k)' <=> Seen(x, v, k))
  <2>1. CASE step' = step /\ at' = "wait"
    <3>1. \A v : Treated(v)' <=> Treated(v)
      BY <1>1, <2>1, SameProgram DEF Treated, Entering, Preparing
    <3> QED
      BY <3>1, <1>1, <2>1, SameSeen
  <2>2. CASE step' = step + 1 /\ at' = "step"
    BY <1>1, <1>2, <2>2, SameSeen DEF Entering, Preparing
  <2> QED
    BY <2>1, <2>2, <1>1
<1> QED
  BY <1>1, <1>3, HashKept DEF HashGood, TrackedInv, LinkInv

LEMMA HashGoodEndWait == ASSUME DepsShape, HashGood, EndWait PROVE HashGood'
<1>1. /\ at = "wait" /\ at' = "step" /\ step' = step + 1 /\ step \in Nat /\ tracked /\ todo = {}
      /\ UNCHANGED <<graph, todo, hash, tracked>>
  BY ShapeAt DEF EndWait, Advance, DepsShape, ParentPlaces, Entering, Preparing
<1>2. \A v, k : Names(step, v, k) => Treated(v)
  BY <1>1 DEF Treated, Names, Entering, Preparing
<1>3. \A v \in Variables : \A x, k : x \in Steps => (Seen(x, v, k)' <=> Seen(x, v, k))
  BY <1>1, <1>2, SameSeen DEF Entering, Preparing
<1> QED
  BY <1>1, <1>3, HashKept DEF HashGood, TrackedInv, LinkInv

(* Nobody is linked, and the hash is as it was or empty.                     *)
LEMMA HashGoodLater ==
    ASSUME DepsShape, HashGood, UNCHANGED <<graph, step, tracked>>, UNCHANGED hash \/ EmptyBuckets,
           \A v \in Variables : \A x, k : Seen(x, v, k)' <=> Seen(x, v, k),
           at' = "link" => at = "link" /\ UNCHANGED link
    PROVE  HashGood'
<1>1. HashInv'
  <2>1. CASE UNCHANGED hash
    BY <2>1, HashKept DEF HashGood
  <2>2. CASE EmptyBuckets
    BY <2>2, HashEmptied, EmptyHashIsGood
  <2> QED
    BY <2>1, <2>2
<1>2. TrackedInv'
  <2>1. ~tracked => HashIsEmpty'
    BY HashEmptied DEF HashGood, TrackedInv, HashIsEmpty, LastOut
  <2> QED
    BY <2>1, SameSteps DEF TrackedInv, HashGood
<1>3. LinkInv'
  BY SameSteps DEF LinkInv, HashGood
<1> QED
  BY <1>1, <1>2, <1>3 DEF HashGood

LEMMA HashGoodEnding == ASSUME DepsShape, HashGood, Ending PROVE HashGood'
<1>1. /\ UNCHANGED <<graph, step, todo, tracked>> /\ ~Entering /\ ~Entering' /\ ~Preparing'
      /\ UNCHANGED hash \/ EmptyBuckets
  BY EndingSteps
<1>2. \A v : ~Treated(v) /\ ~Treated(v)'
  BY <1>1 DEF Treated
<1>3. \A v \in Variables : \A x, k : Seen(x, v, k)' <=> Seen(x, v, k)
  BY <1>1, <1>2, SameProgram DEF Seen
<1> QED
  BY <1>1, <1>3, HashGoodLater DEF Preparing

LEMMA TaskKeeps ==
    ASSUME DepsShape, NEW x \in Steps, Task(x)
    PROVE  /\ UNCHANGED <<graph, creator, tracked>> /\ (UNCHANGED hash \/ EmptyBuckets)
<1> USE DEF TryLocks, TestLock, BackOff, Unlock, ReleaseLock, EndOf, UncountChild, MarkFinished, Notify,
            QueueSuccessor, ForgetSuccessor, ForgetOwnNode, DropTask, TaskCleans, TaskEmpties
<1> QED
  BY DEF Task

LEMMA HashGoodTask == ASSUME DepsShape, HashGood, NEW x \in Steps, Task(x) PROVE HashGood'
<1>1. UNCHANGED <<graph, creator, tracked>> /\ (UNCHANGED hash \/ EmptyBuckets)
  BY TaskKeeps
<1>2. /\ UNCHANGED <<step, at, link>> /\ \A z, v, k : Seen(z, v, k)' = Seen(z, v, k)
  BY <1>1, ParentStays
<1> QED
  BY <1>1, <1>2, HashGoodLater

-----------------------------------------------------------------------------
(* The counts of predecessors.                                              *)

DepCounts == CountsInv /\ QueueInv /\ ReadyInv

LEMMA OwedType ==
    ASSUME DepsShape, NEW p \in Steps
    PROVE  ToNotify(p) \in Nat /\ ToNotify(p) <= Len(node[p].succ) /\ Listed(p) \in Nat /\ Listed(p) <= Len(node[p].succ)
           /\ ToNotify(p) <= Listed(p)
<1>1. LeftAt(p) /\ left[p] \in Nat /\ Len(node[p].succ) \in Nat
  BY ShapeAt, NodeFields DEF DepsShape
<1>2. nodeLife[p] \in {"queueing", "forgetting"} => nodeLife[p] \in Released
  BY DEF Released
<1> QED
  BY <1>1, <1>2 DEF ToNotify, Listed, LeftAt

LEMMA OwesMembers ==
    ASSUME NEW x
    PROVE  /\ \A e \in Owes(x) : \E p \in Steps : \E i \in 1..ToNotify(p) : e = <<p, i>> /\ node[p].succ[i] = x
           /\ \A p \in Steps : \A i \in 1..ToNotify(p) : node[p].succ[i] = x => <<p, i>> \in Owes(x)
           /\ \A p, i : <<p, i>> \in Owes(x) => p \in Steps /\ i \in 1..ToNotify(p) /\ node[p].succ[i] = x
<1>1. ASSUME NEW e \in Owes(x) PROVE \E p \in Steps : \E i \in 1..ToNotify(p) : e = <<p, i>> /\ node[p].succ[i] = x
  BY <1>1 DEF Owes
<1>2. ASSUME NEW p \in Steps, NEW i \in 1..ToNotify(p), node[p].succ[i] = x PROVE <<p, i>> \in Owes(x)
  BY <1>2 DEF Owes
<1>3. ASSUME NEW p, NEW i, <<p, i>> \in Owes(x) PROVE p \in Steps /\ i \in 1..ToNotify(p) /\ node[p].succ[i] = x
  BY <1>1, <1>3
<1> QED
  BY <1>1, <1>2, <1>3

LEMMA LinkedOwes == ASSUME NEW x PROVE (\E p \in Steps : Linked(p, x)) <=> Owes(x) # {}
<1>1. ASSUME NEW p \in Steps, Linked(p, x) PROVE Owes(x) # {}
  BY <1>1, OwesMembers DEF Linked
<1>2. ASSUME Owes(x) # {} PROVE \E p \in Steps : Linked(p, x)
  BY <1>2, OwesMembers DEF Linked
<1> QED
  BY <1>1, <1>2

LEMMA LinkedSteps ==
    ASSUME DepsShape, NEW p \in Steps, NEW x, Linked(p, x)
    PROVE  /\ x \in Steps /\ p < x /\ Entered(x) /\ IsTask(p) /\ HasNode(p)
           /\ nodeLife[p] \notin Gone
<1>1. PICK i \in 1..ToNotify(p) : node[p].succ[i] = x
  BY DEF Linked
<1>2. i \in 1..Len(node[p].succ) /\ ToNotify(p) > 0
  BY <1>1, OwedType, NodeFields DEF DepsShape
<1>3. x \in Steps /\ p < x /\ Entered(x) /\ IsTask(p) /\ HasNode(p)
  BY <1>1, <1>2, SuccessorAt
<1>4. nodeLife[p] \in Gone => ToNotify(p) = 0
  BY ShapeAt DEF LeftAt, ToNotify, Listed, Gone, Released
<1> QED
  BY <1>2, <1>3, <1>4

LEMMA NoneOwed == ASSUME DepsShape, NEW x, x \in Steps => ~Entered(x) PROVE Owes(x) = {}
BY LinkedOwes, LinkedSteps

(* Nothing changes in the lists.                                             *)
SameLists == \A p \in Steps : ToNotify(p)' = ToNotify(p) /\ node'[p].succ = node[p].succ

LEMMA OwesSame ==
    ASSUME Steps' = Steps, SameLists
    PROVE  /\ \A x : Owes(x)' = Owes(x)
           /\ \A x : \A p \in Steps : Linked(p, x)' <=> Linked(p, x)
<1>1. ASSUME NEW x PROVE Owes(x)' = Owes(x)
  BY DEF Owes, SameLists
<1>2. ASSUME NEW x, NEW p \in Steps PROVE Linked(p, x)' <=> Linked(p, x)
  BY DEF Linked, SameLists
<1> QED
  BY <1>1, <1>2

LEMMA DepCountsKept ==
    ASSUME CountsInv, Steps' = Steps, SameLists,
           \A x \in Steps : Submitted(x)' => \/ Submitted(x) /\ node'[x].npred = node[x].npred
                                             \/ node'[x].npred = Cardinality(Owes(x)),
           \A x \in Steps : (x = step /\ Preparing)' =>
                                  \/ x = step /\ Preparing /\ node'[x].npred = node[x].npred /\ found' = found
                                  \/ node'[x].npred = -1 /\ found' = 0 /\ Owes(x) = {}
    PROVE  CountsInv'
<1>1. \A x : Owes(x)' = Owes(x)
  BY OwesSame
<1>2. Cardinality({}) = 0
  BY FS_EmptySet
<1> SUFFICES ASSUME NEW x \in Steps
             PROVE  /\ IsFiniteSet(Owes(x)')
                    /\ Submitted(x)' => node'[x].npred = Cardinality(Owes(x)')
                    /\ (x = step /\ Preparing)' =>
                          node'[x].npred < 0 /\ node'[x].npred = Cardinality(Owes(x)') - found' - 1
  BY DEF CountsInv
<1>3. IsFiniteSet(Owes(x)')
  BY <1>1 DEF CountsInv
<1>4. Submitted(x)' => node'[x].npred = Cardinality(Owes(x)')
  BY <1>1 DEF CountsInv
<1>5. (x = step /\ Preparing)' => node'[x].npred < 0 /\ node'[x].npred = Cardinality(Owes(x)') - found' - 1
  <2> SUFFICES ASSUME (x = step /\ Preparing)'
               PROVE  node'[x].npred < 0 /\ node'[x].npred = Cardinality(Owes(x)) - found' - 1
    BY <1>1
  <2>1. CASE x = step /\ Preparing /\ node'[x].npred = node[x].npred /\ found' = found
    BY <2>1 DEF CountsInv
  <2>2. CASE node'[x].npred = -1 /\ found' = 0 /\ Owes(x) = {}
    BY <2>2, <1>2
  <2> QED
    BY <2>1, <2>2
<1> QED
  BY <1>3, <1>4, <1>5

LEMMA ReadyKept ==
    ASSUME ReadyInv, Steps' = Steps, SameLists, \A x \in Steps : Ready(x)' => Ready(x) \/ Owes(x) = {}
    PROVE  ReadyInv'
<1> SUFFICES ASSUME NEW x \in Steps, NEW p \in Steps, Ready(x)' PROVE ~Linked(p, x)'
  BY DEF ReadyInv
<1>1. ~Linked(p, x)
  BY LinkedOwes DEF ReadyInv
<1> QED
  BY <1>1, OwesSame

LEMMA QueueKept ==
    ASSUME DepsShape, QueueInv, graph' = graph,
           \A p \in Steps : nodeLife'[p] = "queueing" =>
               nodeLife[p] = "queueing" /\ left'[p] = left[p] /\ node'[p].succ = node[p].succ,
           \A s \in Steps : Submitted(s) => Submitted(s)' /\ node'[s].npred = node[s].npred,
           \A s \in Steps : nodeLife[s] = "blocked" => \/ nodeLife'[s] = "blocked"
                                                      \/ \A p \in Steps : nodeLife'[p] = "queueing" => Successor(p) # s
    PROVE  QueueInv'
<1>1. Steps' = Steps /\ \A x : IsTask(x)' = IsTask(x)
  BY SameSteps
<1>2. ASSUME NEW p \in Steps, nodeLife'[p] = "queueing"
      PROVE  /\ nodeLife[p] = "queueing" /\ Successor(p)' = Successor(p) /\ Successor(p) \in Steps
             /\ Submitted(Successor(p))' /\ node'[Successor(p)].npred = 0
             /\ IsTask(Successor(p)) => nodeLife'[Successor(p)] = "blocked"
  <2>1. nodeLife[p] = "queueing" /\ Successor(p)' = Successor(p)
    BY <1>2 DEF Successor
  <2>2. PICK s \in Steps : s = Successor(p)
    BY <2>1, LeftIn
  <2>3. Submitted(s) /\ node[s].npred = 0 /\ (IsTask(s) => nodeLife[s] = "blocked")
    BY <2>1, <2>2 DEF QueueInv
  <2>4. Submitted(s)' /\ node'[s].npred = 0 /\ (IsTask(s) => nodeLife'[s] = "blocked")
    BY <2>3, <2>2, <1>2
  <2>5. Successor(p)' = s
    BY <2>1, <2>2
  <2> QED
    BY <2>1, <2>2, <2>4, <2>5 DEF Submitted, Entering, Preparing
<1>3. ASSUME NEW p \in Steps, NEW q \in Steps, nodeLife'[p] = "queueing", nodeLife'[q] = "queueing",
             Successor(q)' = Successor(p)'
      PROVE  q = p
  BY <1>2, <1>3 DEF QueueInv
<1>4. ASSUME NEW p \in Steps, nodeLife'[p] = "queueing"
      PROVE  /\ Submitted(Successor(p))' /\ (node[Successor(p)].npred = 0)'
             /\ (IsTask(Successor(p)) => nodeLife[Successor(p)] = "blocked")'
  <2>1. PICK s \in Steps : s = Successor(p) /\ Successor(p)' = s
    BY <1>2, <1>4
  <2>2. Submitted(s)' /\ node'[s].npred = 0 /\ (IsTask(s) => nodeLife'[s] = "blocked")
    BY <1>2, <1>4, <2>1
  <2>3. IsTask(s)' = IsTask(s)
    BY <1>1
  <2> QED
    BY <2>1, <2>2, <2>3 DEF Submitted, IsTask
<1> QED
  BY <1>1, <1>3, <1>4 DEF QueueInv

LEMMA ListsKept ==
    ASSUME NEW p, node'[p].succ = node[p].succ, left'[p] = left[p],
           nodeLife'[p] \in Released <=> nodeLife[p] \in Released,
           nodeLife'[p] \in {"queueing", "forgetting"} <=> nodeLife[p] \in {"queueing", "forgetting"}
    PROVE  ToNotify(p)' = ToNotify(p)
<1>1. Released' = Released
  BY DEF Released
<1> QED
  BY <1>1 DEF ToNotify, Listed

LEMMA OwedOne ==
    ASSUME DepsShape, CountsInv, NEW x \in Steps
    PROVE  /\ Cardinality(Owes(x)) \in Nat
           /\ Cardinality(Owes(x)) = 0 <=> Owes(x) = {}
<1>1. IsFiniteSet(Owes(x))
  BY DEF CountsInv
<1> QED
  BY <1>1, FS_CardinalityType, FS_EmptySet

LEMMA CountsCreatePlain == ASSUME DepsShape, DepCounts, CreatePlain PROVE DepCounts'
<1>1. /\ at = "step" /\ at' = "step" /\ step' = step + 1 /\ step \in Steps /\ step \in Nat /\ IsTask(step)
      /\ nodeLife' = [nodeLife EXCEPT ![step] = "queued"] /\ UNCHANGED <<graph, node, left>>
  BY ShapeAt DEF CreatePlain, Advance
<1>2. /\ ~Entered(step) /\ nodeLife[step] = "none" /\ nodeLife'[step] = "queued"
      /\ \A y \in Steps : y # step => nodeLife'[y] = nodeLife[y]
  BY <1>1, ShapeAt DEF Entered, Entering, Preparing, LifeAt
<1>3. Owes(step) = {} /\ node[step].npred = 0 /\ Cardinality(Owes(step)) = 0
  <2>1. Owes(step) = {}
    BY <1>1, <1>2, NoneOwed
  <2>2. node[step] = NoNode
    BY <1>1, <1>2, ShapeAt
  <2> QED
    BY <2>1, <2>2, FS_EmptySet DEF NoNode
<1>4. Steps' = Steps /\ \A x : IsTask(x)' = IsTask(x)
  BY <1>1, SameSteps
<1>5. SameLists
  <2>1. ASSUME NEW p \in Steps PROVE ToNotify(p)' = ToNotify(p) /\ node'[p].succ = node[p].succ
    <3>1. p = step \/ nodeLife'[p] = nodeLife[p]
      BY <1>2
    <3> QED
      BY <3>1, <1>1, <1>2, ListsKept DEF Released
  <2> QED
    BY <2>1 DEF SameLists
<1>6. \A x \in Steps : (Submitted(x)' <=> Submitted(x) \/ x = step) /\ ~(x = step /\ Preparing)'
  <2> SUFFICES ASSUME NEW x \in Steps PROVE (Submitted(x)' <=> Submitted(x) \/ x = step) /\ ~Preparing'
    OBVIOUS
  <2> QED
    BY <1>1, ShapeAt DEF Submitted, Preparing
<1>7. CountsInv'
  BY <1>1, <1>3, <1>4, <1>5, <1>6, DepCountsKept DEF DepCounts
<1>8. ReadyInv'
  <2>1. ASSUME NEW x \in Steps, Ready(x)' PROVE Ready(x) \/ Owes(x) = {}
    <3>1. CASE x = step
      BY <3>1, <1>3
    <3>2. CASE x # step
      <4>1. x < step' => x < step
        BY <3>2, <1>1, ShapeAt
      <4> QED
        BY <4>1, <3>2, <2>1, <1>2, <1>4 DEF Ready
    <3> QED
      BY <3>1, <3>2
  <2> QED
    BY <2>1, <1>4, <1>5, ReadyKept DEF DepCounts
<1>9. QueueInv'
  BY <1>1, <1>2, <1>6, QueueKept DEF DepCounts
<1> QED
  BY <1>7, <1>8, <1>9 DEF DepCounts

LEMMA CountsEnter ==
    ASSUME DepsShape, DepCounts, UNCHANGED <<graph, left, step>>, step \in Steps, at = "step", at' = "deps", found' = 0,
           node' = [node EXCEPT ![step] = NewNode],
           \/ IsTask(step) /\ nodeLife' = [nodeLife EXCEPT ![step] = "new"]
           \/ ~IsTask(step) /\ nodeLife' = nodeLife
    PROVE  DepCounts'
<1>2. /\ ~Entered(step) /\ nodeLife[step] = "none" /\ nodeLife'[step] \in {"none", "new"}
      /\ \A y \in Steps : y # step => nodeLife'[y] = nodeLife[y]
  BY ShapeAt DEF Entered, Entering, Preparing, LifeAt
<1>3. /\ Owes(step) = {} /\ node[step] = NoNode /\ node'[step] = NewNode
      /\ \A y \in Steps : y # step => node'[y] = node[y]
  BY <1>2, NoneOwed, ShapeAt DEF DepsShape, NodeTypes
<1>4. Steps' = Steps /\ \A x : IsTask(x)' = IsTask(x)
  BY SameSteps
<1>5. SameLists
  <2>1. ASSUME NEW p \in Steps PROVE ToNotify(p)' = ToNotify(p) /\ node'[p].succ = node[p].succ
    <3>1. p = step \/ nodeLife'[p] = nodeLife[p]
      BY <1>2
    <3>2. node'[p].succ = node[p].succ
      BY <1>3 DEF NewNode, NoNode
    <3> QED
      BY <3>1, <3>2, <1>2, ListsKept DEF Released
  <2> QED
    BY <2>1 DEF SameLists
<1>6. /\ \A x \in Steps : (Submitted(x)' <=> Submitted(x)) /\ (Submitted(x) => x # step)
  BY ShapeAt DEF Submitted
<1>7. CountsInv'
  <2>1. node'[step].npred = -1 /\ \A x \in Steps : x # step => node'[x].npred = node[x].npred
    BY <1>3 DEF NewNode
  <2>2. \A x \in Steps : Submitted(x)' => Submitted(x) /\ node'[x].npred = node[x].npred
    BY <2>1, <1>6
  <2>3. \A x \in Steps : (x = step /\ Preparing)' => node'[x].npred = -1 /\ found' = 0 /\ Owes(x) = {}
    BY <2>1, <1>3
  <2> QED
    BY <2>2, <2>3, <1>4, <1>5, DepCountsKept DEF DepCounts
<1>8. ReadyInv'
  <2>1. ASSUME NEW x \in Steps, Ready(x)' PROVE Ready(x)
    BY <2>1, <1>2, <1>4 DEF Ready
  <2> QED
    BY <2>1, <1>4, <1>5, ReadyKept DEF DepCounts
<1>9. QueueInv'
  <2>1. \A p \in Steps : nodeLife'[p] = "queueing" =>
               nodeLife[p] = "queueing" /\ left'[p] = left[p] /\ node'[p].succ = node[p].succ
    BY <1>2, <1>5 DEF SameLists
  <2>2. \A s \in Steps : Submitted(s) => Submitted(s)' /\ node'[s].npred = node[s].npred
    BY <1>3, <1>6
  <2>3. \A s \in Steps : nodeLife[s] = "blocked" => nodeLife'[s] = "blocked"
    BY <1>2
  <2> QED
    BY <2>1, <2>2, <2>3, QueueKept DEF DepCounts
<1> QED
  BY <1>7, <1>8, <1>9 DEF DepCounts

LEMMA CountsCreateWithDeps == ASSUME DepsShape, DepCounts, CreateWithDeps PROVE DepCounts'
BY CountsEnter DEF CreateWithDeps

LEMMA CountsWaitDeps == ASSUME DepsShape, DepCounts, WaitDeps PROVE DepCounts'
<1>1. CASE tracked
  BY <1>1, CountsEnter DEF WaitDeps, running
<1>2. CASE ~tracked
  <2>1. /\ at = "step" /\ at' = "step" /\ step' = step + 1 /\ step \in Steps /\ step \in Nat /\ ~IsTask(step)
        /\ UNCHANGED <<graph, node, left, nodeLife>>
    BY <1>2, ShapeAt DEF WaitDeps, Advance, running
  <2>2. ~Entered(step)
    BY <2>1 DEF Entered, Entering, Preparing
  <2>3. Owes(step) = {} /\ node[step].npred = 0 /\ Cardinality(Owes(step)) = 0
    <3>1. Owes(step) = {}
      BY <2>1, <2>2, NoneOwed
    <3>2. node[step] = NoNode
      BY <2>1, <2>2, ShapeAt
    <3> QED
      BY <3>1, <3>2, FS_EmptySet DEF NoNode
  <2>4. Steps' = Steps /\ \A x : IsTask(x)' = IsTask(x)
    BY <2>1, SameSteps
  <2>5. SameLists
    BY <2>1, ListsKept DEF SameLists
  <2>6. \A x \in Steps : (Submitted(x)' <=> Submitted(x) \/ x = step) /\ ~(x = step /\ Preparing)'
    <3> SUFFICES ASSUME NEW x \in Steps PROVE (Submitted(x)' <=> Submitted(x) \/ x = step) /\ ~Preparing'
      OBVIOUS
    <3> QED
      BY <2>1, ShapeAt DEF Submitted, Preparing
  <2>7. CountsInv'
    BY <2>1, <2>3, <2>4, <2>5, <2>6, DepCountsKept DEF DepCounts
  <2>8. ReadyInv'
    <3>1. ASSUME NEW x \in Steps, Ready(x)' PROVE Ready(x) \/ Owes(x) = {}
      <4>1. x < step' => x < step \/ x = step
        BY <2>1, ShapeAt
      <4> QED
        BY <4>1, <3>1, <2>1, <2>3, <2>4 DEF Ready
    <3> QED
      BY <3>1, <2>4, <2>5, ReadyKept DEF DepCounts
  <2>9. QueueInv'
    BY <2>1, <2>6, QueueKept DEF DepCounts
  <2> QED
    BY <2>7, <2>8, <2>9 DEF DepCounts
<1> QED
  BY <1>1, <1>2

(* Neither lists nor lives change, nor who waits.                            *)
LEMMA DepCountsStay ==
    ASSUME DepsShape, DepCounts, UNCHANGED <<graph, step, nodeLife, left, found>>,
           \A p \in Steps : node'[p].succ = node[p].succ /\ node'[p].npred = node[p].npred,
           Preparing' <=> Preparing, at' = "wait" <=> at = "wait"
    PROVE  DepCounts'
<1>1. Steps' = Steps /\ (\A x : IsTask(x)' = IsTask(x)) /\ \A x \in Steps : Submitted(x)' <=> Submitted(x)
  BY SameSteps DEF Submitted
<1>2. SameLists
  BY ListsKept DEF SameLists
<1>3. CountsInv'
  BY <1>1, <1>2, DepCountsKept DEF DepCounts
<1>4. ReadyInv'
  <2>1. \A x \in Steps : Ready(x)' => Ready(x)
    BY <1>1 DEF Ready
  <2> QED
    BY <2>1, <1>1, <1>2, ReadyKept DEF DepCounts
<1>5. QueueInv'
  BY <1>1, QueueKept DEF DepCounts
<1> QED
  BY <1>3, <1>4, <1>5 DEF DepCounts

LEMMA CountsNextDep == ASSUME DepsShape, DepCounts, NextDep PROVE DepCounts'
BY DepCountsStay DEF NextDep, running, Preparing

LEMMA CountsUpdateHash == ASSUME DepsShape, HashInv, DepCounts, UpdateHash PROVE DepCounts'
BY DepCountsStay, HashUpdated DEF Preparing

LEMMA CountsEnding == ASSUME DepsShape, DepCounts, Ending PROVE DepCounts'
<1>1. /\ UNCHANGED <<graph, step, nodeLife, left, found>> /\ ~Entering /\ ~Preparing /\ ~Entering' /\ ~Preparing'
  BY EndingSteps
<1>2. \A p \in Steps : node'[p].succ = node[p].succ /\ node'[p].npred = node[p].npred
  BY EndingSteps, FreedEntries
<1> QED
  BY <1>1, <1>2, DepCountsStay DEF Entering

LEMMA CountsSubmit == ASSUME DepsShape, DepCounts, Submit PROVE DepCounts'
<1> DEFINE npred == node[step].npred + found + 1
<1>1. /\ at = "deps" /\ step \in Steps /\ step \in Nat /\ npred \in Int
      /\ UNCHANGED <<graph, found, left>>
      /\ node'[step].npred = npred /\ node'[step].succ = node[step].succ
      /\ \A x \in Steps \ {step} : node'[x] = node[x]
  BY Submitting
<1>2. /\ IsTask(step) => /\ nodeLife' = [nodeLife EXCEPT ![step] = IF npred > 0 THEN "blocked" ELSE "queued"]
                         /\ step' = step + 1 /\ at' = "step"
      /\ ~IsTask(step) => /\ nodeLife' = nodeLife
                          /\ \/ npred <= 0 /\ step' = step + 1 /\ at' = "step"
                             \/ npred > 0 /\ step' = step /\ at' = "wait"
  BY Submitting
<1>3. npred = Cardinality(Owes(step))
  <2>1. node[step].npred = Cardinality(Owes(step)) - found - 1
    BY <1>1 DEF DepCounts, CountsInv, Preparing
  <2> QED
    BY <2>1, <1>1, OwedOne DEF DepsShape, ParentPlaces, DepCounts
<1>4. npred <= 0 => Owes(step) = {}
  BY <1>3, <1>1, OwedOne DEF DepCounts
<1> HIDE DEF npred
<1>5. /\ IsTask(step) => nodeLife[step] = "new"
      /\ \A y \in Steps : y # step => nodeLife'[y] = nodeLife[y]
      /\ IsTask(step) => nodeLife'[step] = (IF npred > 0 THEN "blocked" ELSE "queued")
      /\ ~IsTask(step) => nodeLife'[step] = nodeLife[step]
  BY <1>1, <1>2, ShapeAt DEF LifeAt, Preparing
<1>6. Steps' = Steps /\ \A x : IsTask(x)' = IsTask(x)
  BY <1>1, SameSteps
<1>7. SameLists
  <2>1. ASSUME NEW p \in Steps PROVE ToNotify(p)' = ToNotify(p) /\ node'[p].succ = node[p].succ
    <3>1. nodeLife'[p] = nodeLife[p] \/ (nodeLife[p] = "new" /\ nodeLife'[p] \in {"blocked", "queued"})
      BY <1>5
    <3> QED
      BY <3>1, <1>1, ListsKept DEF Released
  <2> QED
    BY <2>1 DEF SameLists
<1>8. ~Preparing' /\ \A x \in Steps : (Submitted(x)' <=> Submitted(x) \/ x = step) /\ (Submitted(x) => x # step)
  <2> SUFFICES ASSUME NEW x \in Steps
               PROVE  ~Preparing' /\ (Submitted(x)' <=> Submitted(x) \/ x = step) /\ (Submitted(x) => x # step)
    BY <1>1, <1>2 DEF Preparing
  <2> QED
    BY <1>1, <1>2, ShapeAt DEF Submitted, Preparing
<1>9. CountsInv'
  BY <1>1, <1>3, <1>6, <1>7, <1>8, DepCountsKept DEF DepCounts
<1>10. ReadyInv'
  <2>1. ASSUME NEW x \in Steps, Ready(x)' PROVE Ready(x) \/ Owes(x) = {}
    <3>1. CASE x # step
      <4>1. x < step' => x < step
        BY <3>1, <1>1, <1>2, ShapeAt
      <4> QED
        BY <4>1, <3>1, <2>1, <1>5, <1>6 DEF Ready
    <3>2. CASE x = step /\ IsTask(step)
      BY <3>2, <2>1, <1>4, <1>5, <1>6, <1>1 DEF Ready
    <3>3. CASE x = step /\ ~IsTask(step)
      BY <3>3, <2>1, <1>1, <1>2, <1>4, <1>6 DEF Ready
    <3> QED
      BY <3>1, <3>2, <3>3
  <2> QED
    BY <2>1, <1>6, <1>7, ReadyKept DEF DepCounts
<1>11. QueueInv'
  <2>1. \A p \in Steps : nodeLife'[p] = "queueing" =>
               nodeLife[p] = "queueing" /\ left'[p] = left[p] /\ node'[p].succ = node[p].succ
    BY <1>1, <1>5, <1>7 DEF SameLists
  <2>2. \A s \in Steps : Submitted(s) => Submitted(s)' /\ node'[s].npred = node[s].npred
    BY <1>1, <1>8
  <2>3. \A s \in Steps : nodeLife[s] = "blocked" => nodeLife'[s] = "blocked"
    BY <1>5
  <2> QED
    BY <2>1, <2>2, <2>3, <1>1, QueueKept DEF DepCounts
<1> QED
  BY <1>9, <1>10, <1>11 DEF DepCounts

LEMMA CountsEndWait == ASSUME DepsShape, DepCounts, EndWait PROVE DepCounts'
<1>1. /\ at = "wait" /\ at' = "step" /\ step' = step + 1 /\ step \in Steps /\ step \in Nat
      /\ node[step].npred <= 0 /\ UNCHANGED <<graph, node, nodeLife, left, found>>
  BY ShapeAt DEF EndWait, Advance, running, DepsShape, ParentPlaces, Entering
<1>2. Steps' = Steps /\ \A x : IsTask(x)' = IsTask(x)
  BY <1>1, SameSteps
<1>3. SameLists
  BY <1>1, ListsKept DEF SameLists
<1>4. ~Preparing' /\ Submitted(step) /\ \A x \in Steps : Submitted(x)' <=> Submitted(x)
  <2> SUFFICES ASSUME NEW x \in Steps PROVE ~Preparing' /\ Submitted(step) /\ (Submitted(x)' <=> Submitted(x))
    BY <1>1 DEF Preparing, Submitted
  <2> QED
    BY <1>1, ShapeAt DEF Submitted, Preparing
<1>5. Owes(step) = {}
  <2>1. node[step].npred = Cardinality(Owes(step))
    BY <1>1, <1>4 DEF DepCounts, CountsInv
  <2>2. Cardinality(Owes(step)) \in Nat /\ (Cardinality(Owes(step)) = 0 <=> Owes(step) = {})
    BY <1>1, OwedOne DEF DepCounts
  <2> QED
    BY <2>1, <2>2, <1>1
<1>6. CountsInv'
  BY <1>1, <1>2, <1>3, <1>4, DepCountsKept DEF DepCounts
<1>7. ReadyInv'
  <2>1. ASSUME NEW x \in Steps, Ready(x)' PROVE Ready(x) \/ Owes(x) = {}
    <3>1. x < step' => x < step \/ x = step
      BY <1>1, ShapeAt
    <3> QED
      BY <3>1, <2>1, <1>1, <1>2, <1>5 DEF Ready
  <2> QED
    BY <2>1, <1>2, <1>3, ReadyKept DEF DepCounts
<1>8. QueueInv'
  BY <1>1, <1>4, QueueKept DEF DepCounts
<1> QED
  BY <1>6, <1>7, <1>8 DEF DepCounts

(* The notifications of y when only those of the pair <<p, i>> change.       *)
LEMMA OwesAre ==
    ASSUME Steps' = Steps, NEW y, NEW S,
           \A p \in Steps : \A i : (i \in 1..ToNotify(p)' /\ node'[p].succ[i] = y) <=> <<p, i>> \in S,
           \A e \in S : \E p \in Steps : \E i : e = <<p, i>>
    PROVE  Owes(y)' = S
<1>1. ASSUME NEW e \in Owes(y)' PROVE e \in S
  <2>1. \E p \in Steps : \E i \in 1..ToNotify(p)' : e = <<p, i>> /\ node'[p].succ[i] = y
    BY <1>1 DEF Owes
  <2> QED
    BY <2>1
<1>2. ASSUME NEW e \in S PROVE e \in Owes(y)'
  <2>1. PICK p \in Steps : \E i : e = <<p, i>>
    BY <1>2
  <2>2. PICK i : e = <<p, i>>
    BY <2>1
  <2>3. i \in 1..ToNotify(p)' /\ node'[p].succ[i] = y
    BY <1>2, <2>1, <2>2
  <2> QED
    BY <2>1, <2>2, <2>3 DEF Owes
<1> QED
  BY <1>1, <1>2

LEMMA OwesWere ==
    ASSUME NEW y
    PROVE  /\ \A p \in Steps : \A i : (i \in 1..ToNotify(p) /\ node[p].succ[i] = y) <=> <<p, i>> \in Owes(y)
           /\ \A e \in Owes(y) : \E p \in Steps : \E i : e = <<p, i>>
<1>1. ASSUME NEW e \in Owes(y) PROVE \E p \in Steps : \E i : e = <<p, i>>
  BY <1>1, OwesMembers
<1> QED
  BY <1>1, OwesMembers

LEMMA OneMore ==
    ASSUME NEW S, IsFiniteSet(S), NEW e, e \notin S
    PROVE  IsFiniteSet(S \cup {e}) /\ Cardinality(S \cup {e}) = Cardinality(S) + 1 /\ Cardinality(S) \in Nat
BY FS_AddElement, FS_CardinalityType

LEMMA OneLess ==
    ASSUME NEW S, IsFiniteSet(S), NEW e \in S
    PROVE  IsFiniteSet(S \ {e}) /\ Cardinality(S \ {e}) = Cardinality(S) - 1 /\ Cardinality(S) \in Nat
BY FS_RemoveElement, FS_CardinalityType

LEMMA OwesAfterLink ==
    ASSUME DepsShape, LinkInv, Link, NEW p \in Steps, p < step, node[p].task,
           \A x \in Steps : node'[x].succ = IF x = p THEN Append(node[x].succ, step) ELSE node[x].succ
    PROVE  LET e == <<p, Len(node[p].succ) + 1>> IN
           /\ \A y \in Steps : y # step => Owes(y)' = Owes(y)
           /\ \A y \in Steps : y = step => Owes(y)' = Owes(y) \cup {e} /\ e \notin Owes(y)
<1>1. UNCHANGED <<graph, nodeLife, left, step>> /\ Steps' = Steps /\ step \in Steps
  BY Linked1, SameSteps DEF running
<1>2. nodeLife[p] \notin Released /\ p \in Nat /\ p # step /\ node[p].succ \in Seq(Nat) /\ Len(node[p].succ) \in Nat
  BY <1>1, ShapeAt, NodeFields DEF MarkAt, DepsShape
<1>n. PICK n \in Nat : n = Len(node[p].succ)
  BY <1>2
<1>3. ToNotify(p) = n /\ ToNotify(p)' = n + 1
  <2>1. node'[p].succ = Append(node[p].succ, step) /\ Len(Append(node[p].succ, step)) = n + 1
    <3>1. node'[p].succ = Append(node[p].succ, step)
      OBVIOUS
    <3>2. Len(Append(node[p].succ, step)) = Len(node[p].succ) + 1
      BY <1>2
    <3> QED
      BY <3>1, <3>2, <1>n
  <2>2. nodeLife'[p] \notin Released' /\ nodeLife'[p] = nodeLife[p]
    BY <1>1, <1>2 DEF Released
  <2> QED
    BY <2>1, <2>2, <1>2, <1>n DEF ToNotify, Listed, Released
<1>4. \A q \in Steps : q # p => ToNotify(q)' = ToNotify(q) /\ node'[q].succ = node[q].succ
  <2> SUFFICES ASSUME NEW q \in Steps, q # p PROVE ToNotify(q)' = ToNotify(q) /\ node'[q].succ = node[q].succ
    OBVIOUS
  <2>1. node'[q].succ = node[q].succ
    OBVIOUS
  <2> QED
    BY <2>1, <1>1, ListsKept
<1>5. \A i : i \in 1..(n + 1) <=> i \in 1..n \/ i = n + 1
  OBVIOUS
<1>6. /\ \A i \in 1..n : node'[p].succ[i] = node[p].succ[i]
      /\ node'[p].succ[n + 1] = step
  <2>1. node'[p].succ = Append(node[p].succ, step)
    OBVIOUS
  <2> QED
    BY <2>1, <1>2, <1>n
<1>7. ASSUME NEW y \in Steps, y # step PROVE Owes(y)' = Owes(y)
  <2>2. PICK S : S = Owes(y)
    OBVIOUS
  <2>1. \A q \in Steps : \A i : (i \in 1..ToNotify(q)' /\ node'[q].succ[i] = y) <=> <<q, i>> \in S
    <3>1. ASSUME NEW q \in Steps, NEW i
          PROVE  (i \in 1..ToNotify(q)' /\ node'[q].succ[i] = y) <=> (i \in 1..ToNotify(q) /\ node[q].succ[i] = y)
      <4>1. CASE q # p
        BY <4>1, <1>4
      <4>2. CASE q = p
        BY <4>2, <1>3, <1>5, <1>6, <1>7
      <4> QED
        BY <4>1, <4>2
    <3>2. \A q \in Steps : \A i : (i \in 1..ToNotify(q) /\ node[q].succ[i] = y) <=> <<q, i>> \in Owes(y)
      BY OwesWere
    <3> QED
      BY <3>1, <3>2, <2>2
  <2>3. \A e \in S : \E q \in Steps : \E i : e = <<q, i>>
    BY <2>2, OwesWere
  <2>4. Owes(y)' = S
    BY <1>1, <2>1, <2>3, OwesAre
  <2> QED
    BY <2>2, <2>4
<1>8. ASSUME NEW y \in Steps, y = step
      PROVE  Owes(y)' = Owes(y) \cup {<<p, n + 1>>} /\ <<p, n + 1>> \notin Owes(y)
  <2>2. PICK S : S = Owes(y) \cup {<<p, n + 1>>}
    OBVIOUS
  <2>1. \A q \in Steps : \A i : (i \in 1..ToNotify(q)' /\ node'[q].succ[i] = y) <=> <<q, i>> \in S
    <3>1. ASSUME NEW q \in Steps, NEW i
          PROVE  (i \in 1..ToNotify(q)' /\ node'[q].succ[i] = y) <=>
                     (i \in 1..ToNotify(q) /\ node[q].succ[i] = y) \/ (q = p /\ i = n + 1)
      <4>1. CASE q # p
        BY <4>1, <1>4
      <4>2. CASE q = p
        BY <4>2, <1>3, <1>5, <1>6, <1>8
      <4> QED
        BY <4>1, <4>2
    <3>2. \A q \in Steps : \A i : (i \in 1..ToNotify(q) /\ node[q].succ[i] = y) <=> <<q, i>> \in Owes(y)
      BY OwesWere
    <3>3. \A q, i : <<q, i>> \in S <=> <<q, i>> \in Owes(y) \/ (q = p /\ i = n + 1)
      BY <2>2
    <3> QED
      BY <3>1, <3>2, <3>3
  <2>3. \A e \in S : \E q \in Steps : \E i : e = <<q, i>>
    BY <2>2, OwesWere
  <2>4. <<p, n + 1>> \notin Owes(y)
    BY <1>3, OwesWere
  <2>5. Owes(y)' = S
    BY <1>1, <2>1, <2>3, OwesAre
  <2> QED
    BY <2>2, <2>4, <2>5
<1> QED
  BY <1>7, <1>8, <1>n

LEMMA LinkedOwesThen ==
    ASSUME NEW x, NEW q \in Steps', NEW i \in 1..ToNotify(q)', node'[q].succ[i] = x
    PROVE  Owes(x)' # {}
<1>1. PICK T : T = {<<q, j>> : j \in {k \in 1..ToNotify(q)' : node'[q].succ[k] = x}}
  OBVIOUS
<1>2. <<q, i>> \in T
  BY <1>1
<1>3. <<q, i>> \in Owes(x)'
  BY <1>1, <1>2 DEF Owes
<1> QED
  BY <1>3

LEMMA CountsLink == ASSUME DepsShape, LinkInv, DepCounts, Link PROVE DepCounts'
<1>1. /\ at = "link" /\ at' = "link" /\ step \in Steps
      /\ UNCHANGED <<graph, step, at, nodeLife, left>>
  BY Linked1 DEF running
<1>2. PICK p \in link : /\ p \in Steps /\ p < step
                        /\ \/ ~node[p].task /\ UNCHANGED <<node, found>>
                           \/ /\ node[p].task /\ found' = found + 1
                              /\ \A x \in Steps :
                                    /\ node'[x].npred = node[x].npred
                                    /\ node'[x].succ = IF x = p THEN Append(node[x].succ, step)
                                                       ELSE node[x].succ
  BY Linked1
<1>3. CASE UNCHANGED <<node, found>>
  BY <1>1, <1>3, DepCountsStay DEF Preparing
<1>4. CASE ~UNCHANGED <<node, found>>
  <2>1. /\ node[p].task /\ found' = found + 1 /\ found \in Nat
        /\ \A x \in Steps : node'[x].npred = node[x].npred
        /\ \A x \in Steps : node'[x].succ = IF x = p THEN Append(node[x].succ, step) ELSE node[x].succ
    BY <1>2, <1>4 DEF DepsShape, ParentPlaces
  <2>2. PICK e : /\ \A y \in Steps : y # step => Owes(y)' = Owes(y)
                 /\ \A y \in Steps : y = step => Owes(y)' = Owes(y) \cup {e} /\ e \notin Owes(y)
    BY <2>1, <1>2, OwesAfterLink
  <2>3. Steps' = Steps /\ (\A x : IsTask(x)' = IsTask(x)) /\ Preparing /\ Preparing'
        /\ \A x \in Steps : (Submitted(x)' <=> Submitted(x)) /\ (Submitted(x) => x # step)
    BY <1>1, SameSteps, ShapeAt DEF Submitted, Preparing
  <2>4. CountsInv'
    <3> SUFFICES ASSUME NEW x \in Steps
                 PROVE  /\ IsFiniteSet(Owes(x)')
                        /\ Submitted(x)' => node'[x].npred = Cardinality(Owes(x)')
                        /\ (x = step /\ Preparing)' =>
                              node'[x].npred < 0 /\ node'[x].npred = Cardinality(Owes(x)') - found' - 1
      BY <2>3 DEF CountsInv
    <3>1. CASE x # step
      BY <3>1, <1>1, <2>1, <2>2, <2>3 DEF DepCounts, CountsInv
    <3>2. CASE x = step
      <4>1. IsFiniteSet(Owes(x)) /\ node[x].npred < 0 /\ node[x].npred = Cardinality(Owes(x)) - found - 1
        BY <3>2, <2>3 DEF DepCounts, CountsInv
      <4>2. Owes(x)' = Owes(x) \cup {e} /\ e \notin Owes(x)
        BY <3>2, <2>2
      <4>3. IsFiniteSet(Owes(x) \cup {e}) /\ Cardinality(Owes(x) \cup {e}) = Cardinality(Owes(x)) + 1
            /\ Cardinality(Owes(x)) \in Nat
        BY <4>1, <4>2, OneMore
      <4> QED
        BY <4>1, <4>2, <4>3, <3>2, <2>1, <2>3
    <3> QED
      BY <3>1, <3>2
  <2>5. ReadyInv'
    <3> SUFFICES ASSUME NEW x \in Steps, NEW q \in Steps, Ready(x)', Linked(q, x)' PROVE FALSE
      BY <2>3 DEF ReadyInv
    <3>1. Ready(x)
      BY <1>1, <2>3 DEF Ready
    <3>2. x # step
      BY <3>1, <1>1, <2>3, ShapeAt DEF Ready, LifeAt
    <3>3. Owes(x)' # {}
      <4>1. PICK i \in 1..ToNotify(q)' : node'[q].succ[i] = x
        BY DEF Linked
      <4> QED
        BY <4>1, <2>3, LinkedOwesThen
    <3>4. \E r \in Steps : Linked(r, x)
      BY <3>2, <3>3, <2>2, LinkedOwes
    <3> QED
      BY <3>1, <3>4 DEF DepCounts, ReadyInv
  <2>6. QueueInv'
    <3>1. \A q \in Steps : nodeLife'[q] = "queueing" =>
               nodeLife[q] = "queueing" /\ left'[q] = left[q] /\ node'[q].succ = node[q].succ
      BY <1>1, <2>1, ShapeAt DEF MarkAt, Released
    <3> QED
      BY <3>1, <1>1, <2>1, <2>3, QueueKept DEF DepCounts
  <2> QED
    BY <2>4, <2>5, <2>6 DEF DepCounts
<1> QED
  BY <1>3, <1>4


(* A task goes on, and the lists stay as they are.                           *)
LEMMA DepCountsTurn ==
    ASSUME DepsShape, DepCounts, NEW x \in Steps, UNCHANGED <<graph, creator>>, SameLists,
           \A y \in Steps : node'[y].npred = node[y].npred /\ (y # x => left'[y] = left[y]),
           NEW a \in Lives \ {"none", "new", "blocked", "queueing"},
           nodeLife' = [nodeLife EXCEPT ![x] = a], nodeLife[x] \notin {"none", "new", "blocked"}
    PROVE  DepCounts'
<1>1. /\ UNCHANGED <<step, at, todo, link, found>> /\ Steps' = Steps /\ Preparing' = Preparing
      /\ \A y : Submitted(y)' = Submitted(y)
  BY ParentStays
<1>2. nodeLife \in [Steps -> Lives] /\ nodeLife'[x] = a /\ \A y \in Steps : y # x => nodeLife'[y] = nodeLife[y]
  BY ShapeAt
<1>3. CountsInv'
  BY <1>1, DepCountsKept DEF DepCounts
<1>4. ReadyInv'
  <2>1. \A y \in Steps : Ready(y)' => Ready(y)
    <3> SUFFICES ASSUME NEW y \in Steps PROVE Ready(y)' => Ready(y)
      OBVIOUS
    <3>1. IsTask(y)' = IsTask(y)
      BY SameSteps
    <3>2. CASE y = x
      BY <3>1, <3>2, <1>1, <1>2 DEF Ready
    <3>3. CASE y # x
      BY <3>1, <3>3, <1>1, <1>2 DEF Ready
    <3> QED
      BY <3>2, <3>3
  <2> QED
    BY <1>1, <2>1, ReadyKept DEF DepCounts
<1>5. QueueInv'
  <2>1. \A p \in Steps : nodeLife'[p] = "queueing" =>
               nodeLife[p] = "queueing" /\ left'[p] = left[p] /\ node'[p].succ = node[p].succ
    BY <1>2 DEF SameLists
  <2>2. \A s \in Steps : nodeLife[s] = "blocked" => nodeLife'[s] = "blocked"
    BY <1>2
  <2> QED
    BY <1>1, <2>1, <2>2, QueueKept DEF DepCounts
<1> QED
  BY <1>3, <1>4, <1>5 DEF DepCounts

LEMMA CountsQuiet == ASSUME DepsShape, DepCounts, NEW x \in Steps, Quiet(x) PROVE SameLists /\ DepCounts'
<1>1. /\ UNCHANGED <<graph, creator, node, left>>
      /\ \E a \in Unreleased \cup {"freeing"} :
             /\ nodeLife' = [nodeLife EXCEPT ![x] = a] /\ nodeLife[x] \in Unreleased \ {"releasing"}
             /\ a = "freeing" => ~HasNode(x)
  BY QuietMoves
<1>2. PICK a \in Unreleased \cup {"freeing"} :
             /\ nodeLife' = [nodeLife EXCEPT ![x] = a] /\ nodeLife[x] \in Unreleased \ {"releasing"}
             /\ a = "freeing" => ~HasNode(x)
  BY <1>1
<1>3. nodeLife \in [Steps -> Lives] /\ nodeLife'[x] = a /\ \A y \in Steps : y # x => nodeLife'[y] = nodeLife[y]
  BY <1>2, ShapeAt
<1>4. SameLists
  <2> SUFFICES ASSUME NEW p \in Steps PROVE ToNotify(p)' = ToNotify(p) /\ node'[p].succ = node[p].succ
    BY DEF SameLists
  <2>1. node'[p].succ = node[p].succ /\ left'[p] = left[p]
    BY <1>1
  <2>2. CASE p # x
    BY <2>1, <2>2, <1>3, ListsKept
  <2>3. CASE p = x /\ a # "freeing"
    BY <2>1, <2>3, <1>2, <1>3, ListsKept DEF Unreleased, Released
  <2>4. CASE p = x /\ a = "freeing"
    <3>1. node[x].succ = <<>> /\ Len(node[x].succ) = 0 /\ left[x] = 0
      <4>1. node[x].succ = <<>>
        BY <2>4, <1>2, ShapeAt DEF SuccAt
      <4>2. left[x] \in Nat /\ left[x] <= Len(node[x].succ)
        BY ShapeAt, NodeFields DEF LeftAt, DepsShape
      <4> QED
        BY <4>1, <4>2
    <3>2. ToNotify(x) = 0
      BY <3>1, <1>2 DEF ToNotify, Listed, Unreleased, Released
    <3>3. ToNotify(x)' = 0
      BY <3>1, <2>1, <2>4, <1>3 DEF ToNotify, Listed, Released
    <3> QED
      BY <3>2, <3>3, <2>1, <2>4
  <2> QED
    BY <2>2, <2>3, <2>4
<1>5. a \in Lives \ {"none", "new", "blocked", "queueing"} /\ nodeLife[x] \notin {"none", "new", "blocked"}
  BY <1>2 DEF Unreleased, Lives
<1> QED
  BY <1>1, <1>2, <1>4, <1>5, DepCountsTurn

LEMMA CountsMarkFinished == ASSUME DepsShape, DepCounts, NEW x \in Steps, MarkFinished(x) PROVE SameLists /\ DepCounts'
<1>1. /\ UNCHANGED <<graph, creator>>
      /\ nodeLife[x] = "releasing" /\ nodeLife' = [nodeLife EXCEPT ![x] = "notifying"]
      /\ left' = [left EXCEPT ![x] = Len(node[x].succ)]
      /\ \A y \in Steps : node'[y].npred = node[y].npred /\ node'[y].succ = node[y].succ
  BY MarkFinishedDoes
<1>2. nodeLife \in [Steps -> Lives] /\ left \in [Steps -> Nat]
  BY ShapeAt DEF DepsShape, NodeTypes
<1>3. /\ nodeLife'[x] = "notifying" /\ left'[x] = Len(node[x].succ)
      /\ \A y \in Steps : y # x => nodeLife'[y] = nodeLife[y] /\ left'[y] = left[y]
  BY <1>1, <1>2
<1>4. SameLists
  <2> SUFFICES ASSUME NEW p \in Steps PROVE ToNotify(p)' = ToNotify(p) /\ node'[p].succ = node[p].succ
    BY DEF SameLists
  <2>2. CASE p # x
    BY <1>1, <2>2, <1>3, ListsKept
  <2>3. CASE p = x
    BY <1>1, <2>3, <1>3 DEF ToNotify, Listed, Released
  <2> QED
    BY <2>2, <2>3
<1>5. "notifying" \in Lives \ {"none", "new", "blocked", "queueing"}
  BY DEF Lives
<1> QED
  BY <1>1, <1>3, <1>4, <1>5, DepCountsTurn

LEMMA CountsForgetSuccessor == ASSUME DepsShape, DepCounts, NEW x \in Steps, ForgetSuccessor(x) PROVE SameLists /\ DepCounts'
<1>1. /\ UNCHANGED <<graph, creator>>
      /\ nodeLife[x] = "forgetting" /\ nodeLife' = [nodeLife EXCEPT ![x] = "notifying"]
      /\ left' = [left EXCEPT ![x] = left[x] - 1]
      /\ \A y \in Steps : node'[y].npred = node[y].npred /\ node'[y].succ = node[y].succ
  BY ForgetSuccessorDoes
<1>2. nodeLife \in [Steps -> Lives] /\ left \in [Steps -> Nat]
  BY ShapeAt DEF DepsShape, NodeTypes
<1>3. /\ nodeLife'[x] = "notifying" /\ left'[x] = left[x] - 1
      /\ \A y \in Steps : y # x => nodeLife'[y] = nodeLife[y] /\ left'[y] = left[y]
  BY <1>1, <1>2
<1>4. SameLists
  <2> SUFFICES ASSUME NEW p \in Steps PROVE ToNotify(p)' = ToNotify(p) /\ node'[p].succ = node[p].succ
    BY DEF SameLists
  <2>2. CASE p # x
    BY <1>1, <2>2, <1>3, ListsKept
  <2>3. CASE p = x
    BY <1>1, <2>3, <1>3 DEF ToNotify, Listed, Released
  <2> QED
    BY <2>2, <2>3
<1>5. "notifying" \in Lives \ {"none", "new", "blocked", "queueing"}
  BY DEF Lives
<1> QED
  BY <1>1, <1>3, <1>4, <1>5, DepCountsTurn

LEMMA CountsForgetOwnNode == ASSUME DepsShape, DepCounts, NEW x \in Steps, ForgetOwnNode(x) PROVE SameLists /\ DepCounts'
<1>1. /\ UNCHANGED <<graph, creator, left>>
      /\ nodeLife[x] = "notifying" /\ nodeLife' = [nodeLife EXCEPT ![x] = "freeing"]
      /\ \A y \in Steps : node'[y].npred = node[y].npred /\ node'[y].succ = node[y].succ
  BY ForgetOwnNodeDoes
<1>3. /\ nodeLife'[x] = "freeing"
      /\ \A y \in Steps : y # x => nodeLife'[y] = nodeLife[y]
  BY <1>1, ShapeAt
<1>4. SameLists
  <2> SUFFICES ASSUME NEW p \in Steps PROVE ToNotify(p)' = ToNotify(p) /\ node'[p].succ = node[p].succ
    BY DEF SameLists
  <2>2. CASE p # x
    BY <1>1, <2>2, <1>3, ListsKept
  <2>3. CASE p = x
    BY <1>1, <2>3, <1>3, ListsKept DEF Released
  <2> QED
    BY <2>2, <2>3
<1>5. "freeing" \in Lives \ {"none", "new", "blocked", "queueing"}
  BY DEF Lives
<1> QED
  BY <1>1, <1>3, <1>4, <1>5, DepCountsTurn

LEMMA CountsFreeing == ASSUME DepsShape, DepCounts, NEW x \in Steps, Freeing(x) PROVE SameLists /\ DepCounts'
<1>1. /\ UNCHANGED <<graph, creator, left>>
      /\ \E a \in {"cleaning", "emptying", "freed"} : nodeLife' = [nodeLife EXCEPT ![x] = a]
      /\ nodeLife[x] \in {"freeing", "cleaning", "emptying"}
      /\ UNCHANGED node \/ FreeEntries
  BY FreeingDoes
<1>2. PICK a \in {"cleaning", "emptying", "freed"} : nodeLife' = [nodeLife EXCEPT ![x] = a]
  BY <1>1
<1>3. /\ nodeLife'[x] = a
      /\ \A y \in Steps : y # x => nodeLife'[y] = nodeLife[y]
  BY <1>2, ShapeAt
<1>n. \A y \in Steps : node'[y].npred = node[y].npred /\ node'[y].succ = node[y].succ
  BY <1>1, FreedEntries
<1>4. SameLists
  <2> SUFFICES ASSUME NEW p \in Steps PROVE ToNotify(p)' = ToNotify(p) /\ node'[p].succ = node[p].succ
    BY DEF SameLists
  <2>2. CASE p # x
    BY <1>1, <1>n, <2>2, <1>3, ListsKept
  <2>3. CASE p = x
    BY <1>1, <1>n, <2>3, <1>3, ListsKept DEF Released
  <2> QED
    BY <2>2, <2>3
<1>5. a \in Lives \ {"none", "new", "blocked", "queueing"}
  BY DEF Lives
<1> QED
  BY <1>1, <1>n, <1>2, <1>4, <1>5, DepCountsTurn

LEMMA CountsQueueSuccessor == ASSUME DepsShape, DepCounts, NEW x \in Steps, QueueSuccessor(x) PROVE SameLists /\ DepCounts'
<1>1. PICK s \in Steps :
           /\ UNCHANGED <<graph, creator, node, left>> /\ s = Successor(x)
           /\ nodeLife[x] = "queueing" /\ x # s /\ Submitted(s) /\ node[s].npred = 0
           /\ nodeLife'[x] = "forgetting" /\ nodeLife' \in [Steps -> Lives]
           /\ \A y \in Steps \ {x, s} : nodeLife'[y] = nodeLife[y]
           /\ IsTask(s) => nodeLife[s] = "blocked" /\ nodeLife'[s] = "queued"
           /\ ~IsTask(s) => nodeLife'[s] = nodeLife[s]
  BY QueueSuccessorDoes DEF DepCounts
<1>2. /\ UNCHANGED <<step, at, todo, link, found>> /\ Steps' = Steps /\ Preparing' = Preparing
      /\ \A y : Submitted(y)' = Submitted(y)
  BY <1>1, ParentStays
<1>3. SameLists
  <2> SUFFICES ASSUME NEW p \in Steps PROVE ToNotify(p)' = ToNotify(p) /\ node'[p].succ = node[p].succ
    BY DEF SameLists
  <2>1. node'[p].succ = node[p].succ /\ left'[p] = left[p]
    BY <1>1
  <2>2. CASE p = x
    BY <2>1, <2>2, <1>1, ListsKept DEF Released
  <2>3. CASE p = s
    BY <2>1, <2>3, <1>1, ListsKept DEF Released
  <2>4. CASE p \notin {x, s}
    BY <2>1, <2>4, <1>1, ListsKept DEF Released
  <2> QED
    BY <2>2, <2>3, <2>4
<1>4. CountsInv'
  BY <1>1, <1>2, <1>3, DepCountsKept DEF DepCounts
<1>5. Owes(s) = {}
  <2>1. Cardinality(Owes(s)) = 0
    BY <1>1 DEF DepCounts, CountsInv
  <2> QED
    BY <2>1, OwedOne DEF DepCounts
<1>6. ReadyInv'
  <2>1. \A y \in Steps : Ready(y)' => Ready(y) \/ Owes(y) = {}
    <3> SUFFICES ASSUME NEW y \in Steps, y # s PROVE Ready(y)' => Ready(y)
      BY <1>5
    <3>1. IsTask(y)' = IsTask(y)
      BY <1>1, SameSteps
    <3>2. CASE y = x
      BY <3>1, <3>2, <1>1, <1>2 DEF Ready
    <3>3. CASE y # x
      BY <3>1, <3>3, <1>1, <1>2 DEF Ready
    <3> QED
      BY <3>2, <3>3
  <2> QED
    BY <1>2, <1>3, <2>1, ReadyKept DEF DepCounts
<1>7. QueueInv'
  <2>1. \A p \in Steps : nodeLife'[p] = "queueing" => nodeLife[p] = "queueing" /\ p # x /\ p # s
    BY <1>1, ShapeAt DEF LifeAt
  <2>2. \A p \in Steps : nodeLife'[p] = "queueing" => Successor(p) # s
    BY <2>1, <1>1 DEF DepCounts, QueueInv
  <2>3. \A y \in Steps : nodeLife[y] = "blocked" => nodeLife'[y] = "blocked" \/ y = s
    BY <1>1
  <2> QED
    BY <1>1, <1>2, <2>1, <2>2, <2>3, QueueKept DEF DepCounts
<1> QED
  BY <1>3, <1>4, <1>6, <1>7 DEF DepCounts

(* One notification less is owed.                                            *)
LEMMA OwesAfterNotify ==
    ASSUME DepsShape, NEW x \in Steps, Notify(x)
    PROVE  LET e == <<x, left[x]>> IN
           /\ \A y \in Steps : y # Successor(x) => Owes(y)' = Owes(y)
           /\ \A y \in Steps : y = Successor(x) => Owes(y)' = Owes(y) \ {e} /\ e \in Owes(y)
<1>1. /\ UNCHANGED <<graph, creator, left>>
      /\ nodeLife[x] = "notifying" /\ left[x] > 0
      /\ nodeLife'[x] \in {"queueing", "forgetting"}
      /\ \A y \in Steps : y # x => nodeLife'[y] = nodeLife[y]
      /\ \A y \in Steps : node'[y].succ = node[y].succ
  BY NotifyDoes, ShapeAt
<1>2. Steps' = Steps
  BY <1>1, SameSteps
<1>n. PICK n \in Nat : n = left[x] /\ n > 0 /\ Successor(x) = node[x].succ[n]
  BY <1>1, LeftIn DEF Successor
<1>3. ToNotify(x) = n /\ ToNotify(x)' = n - 1
  BY <1>1, <1>n DEF ToNotify, Listed, Released
<1>4. \A q \in Steps : q # x => ToNotify(q)' = ToNotify(q)
  BY <1>1, ListsKept
<1>5. \A i : i \in 1..n <=> i \in 1..(n - 1) \/ i = n
  BY <1>n
<1>6. \A i : i = n => i \notin 1..(n - 1)
  OBVIOUS
<1>7. ASSUME NEW y \in Steps, y # Successor(x) PROVE Owes(y)' = Owes(y)
  <2>2. PICK S : S = Owes(y)
    OBVIOUS
  <2>1. \A q \in Steps : \A i : (i \in 1..ToNotify(q)' /\ node'[q].succ[i] = y) <=> <<q, i>> \in S
    <3>1. ASSUME NEW q \in Steps, NEW i
          PROVE  (i \in 1..ToNotify(q)' /\ node'[q].succ[i] = y) <=> (i \in 1..ToNotify(q) /\ node[q].succ[i] = y)
      <4>1. CASE q # x
        BY <4>1, <1>4, <1>1
      <4>2. CASE q = x
        BY <4>2, <1>1, <1>n, <1>3, <1>5, <1>7
      <4> QED
        BY <4>1, <4>2
    <3>2. \A q \in Steps : \A i : (i \in 1..ToNotify(q) /\ node[q].succ[i] = y) <=> <<q, i>> \in Owes(y)
      BY OwesWere
    <3> QED
      BY <3>1, <3>2, <2>2
  <2>3. \A e \in S : \E q \in Steps : \E i : e = <<q, i>>
    BY <2>2, OwesWere
  <2>4. Owes(y)' = S
    BY <1>2, <2>1, <2>3, OwesAre
  <2> QED
    BY <2>2, <2>4
<1>8. ASSUME NEW y \in Steps, y = Successor(x)
      PROVE  Owes(y)' = Owes(y) \ {<<x, n>>} /\ <<x, n>> \in Owes(y)
  <2>2. PICK S : S = Owes(y) \ {<<x, n>>}
    OBVIOUS
  <2>1. \A q \in Steps : \A i : (i \in 1..ToNotify(q)' /\ node'[q].succ[i] = y) <=> <<q, i>> \in S
    <3>1. ASSUME NEW q \in Steps, NEW i
          PROVE  (i \in 1..ToNotify(q)' /\ node'[q].succ[i] = y) <=>
                     (i \in 1..ToNotify(q) /\ node[q].succ[i] = y) /\ ~(q = x /\ i = n)
      <4>1. CASE q # x
        BY <4>1, <1>4, <1>1
      <4>2. CASE q = x
        BY <4>2, <1>1, <1>3, <1>5, <1>6
      <4> QED
        BY <4>1, <4>2
    <3>2. \A q \in Steps : \A i : (i \in 1..ToNotify(q) /\ node[q].succ[i] = y) <=> <<q, i>> \in Owes(y)
      BY OwesWere
    <3>3. \A q, i : <<q, i>> \in S <=> <<q, i>> \in Owes(y) /\ ~(q = x /\ i = n)
      BY <2>2
    <3> QED
      BY <3>1, <3>2, <3>3
  <2>3. \A e \in S : \E q \in Steps : \E i : e = <<q, i>>
    BY <2>2, OwesWere
  <2>4. <<x, n>> \in Owes(y)
    BY <1>3, <1>n, <1>5, <1>8, OwesWere
  <2>5. Owes(y)' = S
    BY <1>2, <2>1, <2>3, OwesAre
  <2> QED
    BY <2>2, <2>4, <2>5
<1> QED
  BY <1>7, <1>8, <1>n

LEMMA CountsNotify == ASSUME DepsShape, DepCounts, NEW x \in Steps, Notify(x) PROVE DepCounts'
<1>1. PICK s \in Steps : s = Successor(x) /\ x < s /\ Entered(s)
  BY LeftIn, NotifyDoes
<1>2. /\ UNCHANGED <<graph, creator, left>>
      /\ nodeLife[x] = "notifying" /\ left[x] > 0
      /\ nodeLife' = [nodeLife EXCEPT ![x] = IF node[s].npred = 1 THEN "queueing" ELSE "forgetting"]
      /\ \A y \in Steps : node'[y].succ = node[y].succ /\ (y # s => node'[y] = node[y])
      /\ node'[s].npred = node[s].npred - 1 /\ node[s].npred \in Int
  BY <1>1, NotifyDoes, NodeFields DEF DepsShape
<1>3. /\ nodeLife'[x] = IF node[s].npred = 1 THEN "queueing" ELSE "forgetting"
      /\ \A y \in Steps : y # x => nodeLife'[y] = nodeLife[y]
  BY <1>2, ShapeAt
<1>4. /\ UNCHANGED <<step, at, todo, link, found>> /\ Steps' = Steps /\ Preparing' = Preparing
      /\ (\A y : Submitted(y)' = Submitted(y)) /\ \A y : IsTask(y)' = IsTask(y)
  BY <1>2, ParentStays, SameSteps
<1>5. PICK e : /\ \A y \in Steps : y # s => Owes(y)' = Owes(y)
               /\ Owes(s)' = Owes(s) \ {e} /\ e \in Owes(s)
  BY <1>1, OwesAfterNotify
<1>6. /\ IsFiniteSet(Owes(s) \ {e}) /\ Cardinality(Owes(s) \ {e}) = Cardinality(Owes(s)) - 1
      /\ Cardinality(Owes(s)) \in Nat /\ Cardinality(Owes(s)) # 0
  <2>1. IsFiniteSet(Owes(s))
    BY DEF DepCounts, CountsInv
  <2> QED
    BY <2>1, <1>5, OneLess, OwedOne DEF DepCounts
<1>7. CountsInv'
  <2> SUFFICES ASSUME NEW y \in Steps
               PROVE  /\ IsFiniteSet(Owes(y)')
                      /\ Submitted(y)' => node'[y].npred = Cardinality(Owes(y)')
                      /\ (y = step /\ Preparing)' =>
                            node'[y].npred < 0 /\ node'[y].npred = Cardinality(Owes(y)') - found' - 1
    BY <1>4 DEF CountsInv
  <2>1. CASE y # s
    BY <2>1, <1>2, <1>4, <1>5 DEF DepCounts, CountsInv
  <2>2. CASE y = s
    <3>1. IsFiniteSet(Owes(s)') /\ Cardinality(Owes(s)') = Cardinality(Owes(s)) - 1
      BY <1>5, <1>6
    <3>2. Submitted(s) => node[s].npred = Cardinality(Owes(s))
      BY DEF DepCounts, CountsInv
    <3>3. s = step /\ Preparing => node[s].npred < 0 /\ node[s].npred = Cardinality(Owes(s)) - found - 1 /\ found \in Nat
      BY DEF DepCounts, CountsInv, DepsShape, ParentPlaces
    <3>4. found' = found
      BY <1>4
    <3>5. Submitted(s)' => node'[s].npred = Cardinality(Owes(s)')
      BY <3>1, <3>2, <1>2, <1>4
    <3>6. (s = step /\ Preparing)' => node'[s].npred < 0 /\ node'[s].npred = Cardinality(Owes(s)') - found' - 1
      BY <3>1, <3>3, <3>4, <1>2, <1>4, <1>6
    <3> QED
      BY <3>1, <3>5, <3>6, <2>2
  <2> QED
    BY <2>1, <2>2
<1>8. ReadyInv'
  <2> SUFFICES ASSUME NEW y \in Steps, NEW q \in Steps, Ready(y)', Linked(q, y)' PROVE FALSE
    BY <1>4 DEF ReadyInv
  <2>1. Ready(y)
    BY <1>2, <1>3, <1>4 DEF Ready
  <2>2. Owes(y)' # {}
    <3>1. PICK i \in 1..ToNotify(q)' : node'[q].succ[i] = y
      BY DEF Linked
    <3> QED
      BY <3>1, <1>4, LinkedOwesThen
  <2>3. Owes(y) # {}
    BY <2>2, <1>5
  <2> QED
    BY <2>1, <2>3, LinkedOwes DEF DepCounts, ReadyInv
<1>9. ~Ready(s)
  BY <1>5, LinkedOwes DEF DepCounts, ReadyInv
<1>10. Submitted(s) => node[s].npred # 0
  BY <1>6 DEF DepCounts, CountsInv
<1>11. ASSUME NEW p \in Steps, nodeLife'[p] = "queueing"
       PROVE  \E t \in Steps :
                  /\ Successor(p) = t /\ Successor(p)' = t
                  /\ Submitted(t)' /\ node'[t].npred = 0
                  /\ IsTask(t) => nodeLife'[t] = "blocked"
                  /\ IF p = x THEN t = s ELSE t # s /\ nodeLife[p] = "queueing"
  <2>1. Successor(p)' = Successor(p)
    BY <1>2 DEF Successor
  <2>2. CASE p = x
    <3>1. node[s].npred = 1
      BY <2>2, <1>11, <1>3
    <3>2. Submitted(s) /\ ~(s = step /\ Preparing)
      <4>1. ~(s = step /\ Preparing)
        BY <3>1 DEF DepCounts, CountsInv
      <4> QED
        BY <4>1, <1>1 DEF Entered, Submitted, Entering
    <3>3. IsTask(s) => nodeLife[s] = "blocked"
      BY <1>1, <1>9, <3>2, ShapeAt DEF Ready, LifeAt
    <3>4. IsTask(s) => nodeLife'[s] = "blocked"
      BY <3>3, <1>2, <1>3
    <3>5. node'[s].npred = 0 /\ Submitted(s)'
      BY <3>1, <3>2, <1>2, <1>4
    <3> QED
      BY <2>1, <2>2, <3>4, <3>5, <1>1
  <2>3. CASE p # x
    <3>1. nodeLife[p] = "queueing"
      BY <2>3, <1>11, <1>3
    <3>2. PICK t \in Steps : t = Successor(p)
      BY <3>1, LeftIn
    <3>3. Submitted(t) /\ node[t].npred = 0 /\ (IsTask(t) => nodeLife[t] = "blocked")
      BY <3>1, <3>2 DEF DepCounts, QueueInv
    <3>4. t # s
      BY <3>3, <1>10
    <3>5. Submitted(t)' /\ node'[t].npred = 0 /\ (IsTask(t) => nodeLife'[t] = "blocked")
      BY <3>3, <3>4, <1>2, <1>3, <1>4
    <3> QED
      BY <2>1, <2>3, <3>1, <3>2, <3>4, <3>5
  <2> QED
    BY <2>2, <2>3
<1>12. QueueInv'
  <2>1. ASSUME NEW p \in Steps, nodeLife'[p] = "queueing"
        PROVE  /\ Submitted(Successor(p))' /\ (node[Successor(p)].npred = 0)'
               /\ (IsTask(Successor(p)) => nodeLife[Successor(p)] = "blocked")'
    <3>1. PICK t \in Steps :
                  /\ Successor(p)' = t
                  /\ Submitted(t)' /\ node'[t].npred = 0
                  /\ IsTask(t) => nodeLife'[t] = "blocked"
      BY <1>11, <2>1
    <3> QED
      BY <3>1, <1>4 DEF Submitted, IsTask
  <2>2. ASSUME NEW p \in Steps, NEW q \in Steps, nodeLife'[p] = "queueing", nodeLife'[q] = "queueing",
               Successor(q)' = Successor(p)'
        PROVE  q = p
    <3>1. PICK t \in Steps : Successor(p) = t /\ Successor(p)' = t
                             /\ IF p = x THEN t = s ELSE t # s /\ nodeLife[p] = "queueing"
      BY <1>11, <2>2
    <3>2. PICK u \in Steps : Successor(q) = u /\ Successor(q)' = u
                             /\ IF q = x THEN u = s ELSE u # s /\ nodeLife[q] = "queueing"
      BY <1>11, <2>2
    <3> QED
      BY <3>1, <3>2, <2>2 DEF DepCounts, QueueInv
  <2> QED
    BY <1>4, <2>1, <2>2 DEF QueueInv
<1> QED
  BY <1>7, <1>8, <1>12 DEF DepCounts

-----------------------------------------------------------------------------
(* The order of the tasks.                                                  *)

Order == HashCovers /\ LinkCovers /\ Covered

(* A step that is ready waits for nobody.                                    *)
LEMMA NobodyOwes ==
    ASSUME ReadyInv, NEW u \in Steps, NEW x \in Steps, Ready(x), Cov(u, x)
    PROVE  BodyIsOver(u)
BY DEF Cov, ReadyInv

LEMMA OverIsReady ==
    ASSUME DepsShape, NEW x \in Steps, IsTask(x), BodyIsOver(x)
    PROVE  Ready(x) /\ Entered(x) /\ Submitted(x)
<1>1. nodeLife[x] \notin {"none", "new", "blocked"}
  BY DEF BodyIsOver
<1>2. LifeAt(x)
  BY ShapeAt
<1> QED
  BY <1>1, <1>2 DEF Ready, LifeAt, Entered, Submitted, Entering

(* What leads to a step that is over is over.                                *)
LEMMA LeadsOver ==
    ASSUME DepsShape, ReadyInv, Covered, NEW u \in Steps, NEW p \in Steps, IsTask(u), p < step,
           IsTask(p) => BodyIsOver(p), Leads(u, p)
    PROVE  BodyIsOver(u)
<1>1. \A y \in Steps : y < step /\ (IsTask(y) => BodyIsOver(y)) => Submitted(y) /\ Ready(y)
  <2> SUFFICES ASSUME NEW y \in Steps, y < step, IsTask(y) => BodyIsOver(y) PROVE Submitted(y) /\ Ready(y)
    OBVIOUS
  <2>1. CASE IsTask(y)
    BY <2>1, OverIsReady
  <2>2. CASE ~IsTask(y)
    BY <2>2 DEF Submitted, Ready
  <2> QED
    BY <2>1, <2>2
<1>2. \A y, x \in Steps : /\ IsTask(y) /\ x < step /\ (IsTask(x) => BodyIsOver(x)) /\ Follows(y, x)
                             => BodyIsOver(y)
  BY <1>1, NobodyOwes DEF Covered
<1>3. CASE p = u
  BY <1>3
<1>4. CASE Follows(u, p)
  BY <1>2, <1>4
<1>5. CASE \E m \in Steps : Follows(u, m) /\ Follows(m, p)
  <2>1. PICK m \in Steps : Follows(u, m) /\ Follows(m, p)
    BY <1>5
  <2>2. m < step
    BY <2>1, ShapeAt DEF Follows
  <2>3. IsTask(m) => BodyIsOver(m)
    BY <2>1, <1>2
  <2> QED
    BY <2>1, <2>2, <2>3, <1>2
<1> QED
  BY <1>3, <1>4, <1>5 DEF Leads, ComesBefore

(* Lists and ends stay.                                                      *)
StayOver == \A u \in Steps : BodyIsOver(u) => BodyIsOver(u)'

LEMMA CovKept ==
    ASSUME graph' = graph, SameLists, StayOver
    PROVE  \A u, x \in Steps : Cov(u, x) => Cov(u, x)'
<1>1. Steps' = Steps /\ \A u, x : Leads(u, x)' <=> Leads(u, x)
  BY SameProgram
<1>2. \A x : \A p \in Steps : Linked(p, x)' <=> Linked(p, x)
  BY <1>1, OwesSame
<1> QED
  BY <1>1, <1>2 DEF Cov, StayOver

LEMMA SameOver ==
    ASSUME UNCHANGED nodeLife
    PROVE  StayOver
BY DEF StayOver, BodyIsOver

(* The parts of the order, when those who cover go on covering.              *)
LEMMA CoveredKept ==
    ASSUME Covered, graph' = graph,
           \A u, x \in Steps : IsTask(u) /\ Cov(u, x) => Cov(u, x)',
           \A u, x \in Steps : IsTask(u) /\ Submitted(x)' /\ Follows(u, x) => Submitted(x) \/ Cov(u, x)'
    PROVE  Covered'
<1>1. Steps' = Steps /\ (\A x : IsTask(x)' = IsTask(x)) /\ \A u, x : Follows(u, x)' <=> Follows(u, x)
  BY SameProgram
<1> SUFFICES ASSUME NEW u \in Steps, NEW x \in Steps, IsTask(u), Submitted(x)', Follows(u, x) PROVE Cov(u, x)'
  BY <1>1 DEF Covered
<1> QED
  BY DEF Covered

LEMMA HashCoversKept ==
    ASSUME HashCovers, Creating, StayOver, UNCHANGED <<graph, hash>>,
           \A v \in Variables : \A u, k : u \in Steps => (Seen(u, v, k)' <=> Seen(u, v, k)),
           \A u \in Steps, v \in Variables : IsTask(u) /\ Waited(u, v) => Waited(u, v)' \/ BodyIsOver(u)
    PROVE  HashCovers'
<1>1. Steps' = Steps /\ (\A x : IsTask(x)' = IsTask(x)) /\ \A u, x : Leads(u, x)' <=> Leads(u, x)
  BY SameProgram
<1> SUFFICES ASSUME NEW u \in Steps, NEW v \in Variables, NEW k \in Kinds, NEW l \in Kinds,
                    IsTask(u), Seen(u, v, k), Conflict(k, l)
             PROVE  BodyIsOver(u)' \/ Waited(u, v)' \/ \E p \in Predecessors(hash[v], l) : Leads(u, p)'
  BY <1>1 DEF HashCovers
<1>2. BodyIsOver(u) \/ Waited(u, v) \/ \E p \in Predecessors(hash[v], l) : Leads(u, p)
  BY DEF HashCovers
<1> QED
  BY <1>1, <1>2 DEF StayOver

LEMMA LinkCoversKept ==
    ASSUME LinkCovers, UNCHANGED <<graph, creator>>,
           \A u \in Steps : IsTask(u) /\ Cov(u, step) => Cov(u, step)', step \in Steps
    PROVE  LinkCovers'
<1>1. Steps' = Steps /\ (\A x : IsTask(x)' = IsTask(x)) /\ (\A u, x : Leads(u, x)' <=> Leads(u, x))
      /\ \A x, v, k : Names(x, v, k)' <=> Names(x, v, k)
  BY SameProgram
<1>2. /\ UNCHANGED <<step, at, todo, link, found>> /\ Preparing' = Preparing
      /\ \A v : Treated(v)' = Treated(v) /\ Linking(v)' = Linking(v)
  BY ParentStays
<1> SUFFICES ASSUME Preparing, NEW u \in Steps, NEW v \in Variables, NEW k \in Kinds, NEW l \in Kinds,
                    IsTask(u), u < step, Names(u, v, k), Names(step, v, l), Conflict(k, l)
             PROVE  /\ Treated(v) => Cov(u, step)'
                    /\ Linking(v) => Cov(u, step)' \/ \E p \in link : Leads(u, p)'
  <2>1. \A u, v, k : Names(step, v, k)' <=> Names(step, v, k)
    BY <1>1, <1>2
  <2> QED
    BY <1>1, <1>2, <2>1 DEF LinkCovers
<1>3. /\ Treated(v) => Cov(u, step)
      /\ Linking(v) => Cov(u, step) \/ \E p \in link : Leads(u, p)
  BY DEF LinkCovers
<1> QED
  BY <1>1, <1>3

LEMMA OrderCreatePlain == ASSUME DepsShape, Order, CreatePlain PROVE Order'
<1>1. /\ at = "step" /\ at' = "step" /\ step \in Steps /\ step' = step + 1 /\ step \in Nat
      /\ graph.does[step].deps = <<>>
      /\ UNCHANGED <<graph, node, left, hash>> /\ nodeLife' = [nodeLife EXCEPT ![step] = "queued"]
      /\ nodeLife[step] = "none" /\ node[step] = NoNode
  BY ShapeAt DEF CreatePlain, Advance, LifeAt, Entered, Entering, Preparing
<1>2. /\ nodeLife'[step] = "queued"
      /\ \A y \in Steps : y # step => nodeLife'[y] = nodeLife[y]
  BY <1>1, ShapeAt
<1>3. StayOver /\ SameLists
  <2>1. \A p \in Steps : ToNotify(p)' = ToNotify(p) /\ node'[p].succ = node[p].succ
    <3> SUFFICES ASSUME NEW p \in Steps PROVE ToNotify(p)' = ToNotify(p)
      BY <1>1
    <3>1. node'[p].succ = node[p].succ /\ left'[p] = left[p]
      BY <1>1
    <3>2. CASE p = step
      BY <1>1, <1>2, <3>1, <3>2, ListsKept DEF Released
    <3>3. CASE p # step
      BY <1>1, <1>2, <3>1, <3>3, ListsKept
    <3> QED
      BY <3>2, <3>3
  <2> QED
    BY <2>1, <1>1, <1>2 DEF StayOver, SameLists, BodyIsOver
<1>4. ~Entering /\ ~Entering' /\ Creating /\ ~Preparing'
  BY <1>1 DEF Entering, Preparing, Creating
<1>5. \A v, k : ~Names(step, v, k)
  <2>1. Filtered(step) = {}
    BY <1>1 DEF Filtered, First
  <2> QED
    BY <2>1 DEF Names
<1>6. \A u : ~Follows(u, step)
  BY <1>5 DEF Follows, Ordered
<1>7. Covered'
  <2>1. \A x \in Steps : Submitted(x)' => Submitted(x) \/ x = step
    BY <1>1, ShapeAt DEF Submitted
  <2> QED
    BY <2>1, <1>1, <1>3, <1>6, CovKept, CoveredKept DEF Order
<1>8. HashCovers'
  <2>1. \A v : ~Treated(v) /\ ~Treated(v)'
    BY <1>4 DEF Treated
  <2>2. \A v \in Variables : \A x, k : x \in Steps => (Seen(x, v, k)' <=> Seen(x, v, k))
    <3> SUFFICES ASSUME NEW v \in Variables
                 PROVE  \A x, k : x \in Steps => (Seen(x, v, k)' <=> Seen(x, v, k))
      OBVIOUS
    <3>1. step' \in Nat /\ \A k : Names(step, v, k) => Treated(v)
      BY <1>1, <1>5
    <3> QED
      BY <3>1, <1>1, <1>4, SameSeen
  <2> QED
    BY <2>1, <2>2, <1>1, <1>3, <1>4, HashCoversKept DEF Order, Waited
<1>9. LinkCovers'
  BY <1>4 DEF LinkCovers
<1> QED
  BY <1>7, <1>8, <1>9 DEF Order

(* A node is made for the step.                                              *)
LEMMA OrderEnter ==
    ASSUME DepsShape, Order, UNCHANGED <<graph, left, step, hash>>, step \in Steps, at = "step", at' = "deps",
           todo' = Filtered(step), node' = [node EXCEPT ![step] = NewNode],
           \/ IsTask(step) /\ nodeLife' = [nodeLife EXCEPT ![step] = "new"]
           \/ ~IsTask(step) /\ nodeLife' = nodeLife
    PROVE  Order'
<1>1. ~Entered(step) /\ node[step] = NoNode /\ nodeLife[step] = "none" /\ step \in Nat
  BY ShapeAt DEF LifeAt, Entered, Entering, Preparing
<1>2. /\ nodeLife'[step] \in {"none", "new"}
      /\ \A y \in Steps : y # step => nodeLife'[y] = nodeLife[y] /\ node'[y] = node[y]
      /\ node'[step].succ = <<>> /\ node[step].succ = <<>>
  BY <1>1, ShapeAt DEF NoNode, NewNode, DepsShape, NodeTypes
<1>3. StayOver /\ SameLists
  <2>1. \A p \in Steps : ToNotify(p)' = ToNotify(p) /\ node'[p].succ = node[p].succ
    <3> SUFFICES ASSUME NEW p \in Steps PROVE ToNotify(p)' = ToNotify(p) /\ node'[p].succ = node[p].succ
      OBVIOUS
    <3>1. left'[p] = left[p]
      OBVIOUS
    <3>2. CASE p = step
      BY <1>1, <1>2, <3>1, <3>2, ListsKept DEF Released
    <3>3. CASE p # step
      BY <1>1, <1>2, <3>1, <3>3, ListsKept
    <3> QED
      BY <3>2, <3>3
  <2>2. \A p \in Steps : BodyIsOver(p) => BodyIsOver(p)'
    BY <1>1, <1>2 DEF BodyIsOver
  <2> QED
    BY <2>1, <2>2 DEF StayOver, SameLists
<1>4. ~Entering /\ Creating /\ at' # "link"
  BY DEF Entering, Preparing, Creating
<1>5. \A v : ~Treated(v) /\ ~Treated(v)' /\ ~Linking(v)'
  <2>1. step' = step /\ todo' = Filtered(step) /\ Filtered(step)' = Filtered(step)
    BY SameProgram DEF Filtered
  <2> QED
    BY <2>1, <1>4 DEF Treated, Linking
<1>6. Covered'
  <2>1. \A x \in Steps : Submitted(x)' => Submitted(x)
    BY DEF Submitted
  <2> QED
    BY <2>1, <1>3, CovKept, CoveredKept DEF Order
<1>7. HashCovers'
  <2>1. \A v \in Variables : \A x, k : x \in Steps => (Seen(x, v, k)' <=> Seen(x, v, k))
    BY <1>1, <1>5, SameSeen
  <2> QED
    BY <2>1, <1>3, <1>4, <1>5, HashCoversKept DEF Order, Waited
<1>8. LinkCovers'
  BY <1>5 DEF LinkCovers
<1> QED
  BY <1>6, <1>7, <1>8 DEF Order

LEMMA OrderCreateWithDeps == ASSUME DepsShape, Order, CreateWithDeps PROVE Order'
BY OrderEnter DEF CreateWithDeps

LEMMA OrderWaitDeps == ASSUME DepsShape, HashGood, Order, WaitDeps PROVE Order'
<1>1. CASE tracked
  BY <1>1, OrderEnter DEF WaitDeps, running
<1>2. CASE ~tracked
  <2>1. /\ at = "step" /\ at' = "step" /\ step \in Steps /\ step' = step + 1 /\ step \in Nat /\ ~IsTask(step)
        /\ UNCHANGED <<graph, node, left, hash, nodeLife>>
    BY <1>2, ShapeAt DEF WaitDeps, running, Advance
  <2>2. ~Entering' /\ ~Preparing'
    BY <2>1 DEF Entering, Preparing
  <2>3. \A x \in Steps : x < step + 1 /\ IsTask(x) => ~HasNode(x)
    BY <2>1, <1>2, ShapeAt DEF HashGood, TrackedInv
  <2>4. \A x \in Steps : \A v, k : x < step + 1 /\ IsTask(x) => ~Names(x, v, k)
    BY <2>3, NamesOnce, ShapeAt
  <2>5. Steps' = Steps /\ (\A x : IsTask(x)' = IsTask(x)) /\ (\A u, x : Follows(u, x)' <=> Follows(u, x))
        /\ \A x, v, k : Names(x, v, k)' <=> Names(x, v, k)
    BY <2>1, SameProgram
  <2>6. Covered'
    <3> SUFFICES ASSUME NEW u \in Steps, NEW x \in Steps, IsTask(u), Submitted(x)', Follows(u, x) PROVE FALSE
      BY <2>5 DEF Covered
    <3>1. x < step + 1 /\ u < step + 1
      BY <2>1, ShapeAt DEF Submitted, Follows
    <3> QED
      BY <3>1, <2>4 DEF Follows, Ordered
  <2>7. HashCovers'
    <3> SUFFICES ASSUME NEW u \in Steps, NEW v \in Variables, NEW k \in Kinds, NEW l \in Kinds,
                        IsTask(u), Seen(u, v, k)'
                 PROVE  FALSE
      BY <2>5 DEF HashCovers
    <3>1. u < step + 1 /\ Names(u, v, k)
      BY <2>1, <2>2, <2>5 DEF Seen, Treated
    <3> QED
      BY <3>1, <2>4
  <2>8. LinkCovers'
    BY <2>2 DEF LinkCovers
  <2> QED
    BY <2>6, <2>7, <2>8 DEF Order
<1> QED
  BY <1>1, <1>2

LEMMA OrderNextDep == ASSUME DepsShape, HashGood, Order, NextDep PROVE Order'
<1>1. PICK i \in todo : /\ Least(todo, i)
                        /\ link' = Predecessors(hash[VarOf(step, i)], KindOf(step, i))
                        /\ at = "deps" /\ at' = "link" /\ UNCHANGED <<graph, step, todo, hash, node, nodeLife, left>>
  BY DEF NextDep, running
<1>2. Preparing /\ Preparing' /\ Creating /\ Entering /\ Entering' /\ step \in Steps
  BY <1>1 DEF Preparing, Creating, Entering, DepsShape, ParentPlaces
<1>3. i \in Filtered(step) /\ VarOf(step, i) \in Variables /\ ~Treated(VarOf(step, i))
  BY <1>2, NotTreated
<1>4. StayOver /\ SameLists
  BY <1>1, SameOver, ListsKept DEF SameLists
<1>5. Steps' = Steps /\ (\A x : IsTask(x)' = IsTask(x)) /\ (\A u, x : Leads(u, x)' <=> Leads(u, x))
      /\ (\A x, v, k : Names(x, v, k)' <=> Names(x, v, k)) /\ (\A x, j : VarOf(x, j)' = VarOf(x, j))
      /\ \A x : Filtered(x)' = Filtered(x)
  BY <1>1, SameProgram
<1>6. \A v : Treated(v)' <=> Treated(v)
  BY <1>1, <1>2, <1>5 DEF Treated
<1>7. \A v : Linking(v)' => v = VarOf(step, i)
  <2> SUFFICES ASSUME NEW v, Linking(v)' PROVE v = VarOf(step, i)
    OBVIOUS
  <2>1. PICK j \in todo : Least(todo, j) /\ VarOf(step, j) = v
    BY <1>1, <1>5 DEF Linking, Least
  <2>2. i \in Nat /\ j \in Nat
    BY <1>2, ShapeAt, StepKinds DEF DepsShape, ParentPlaces
  <2> QED
    BY <1>1, <2>1, <2>2 DEF Least
<1>8. Covered'
  <2>1. \A x \in Steps : Submitted(x)' => Submitted(x)
    BY <1>1 DEF Submitted
  <2> QED
    BY <2>1, <1>1, <1>4, CovKept, CoveredKept DEF Order
<1>9. HashCovers'
  <2>1. \A v \in Variables : \A x, k : x \in Steps => (Seen(x, v, k)' <=> Seen(x, v, k))
    BY <1>1, <1>6, SameSeen, ShapeAt
  <2>2. \A u, v : Waited(u, v) => Waited(u, v)'
    BY <1>1, <1>5, <1>6, SameProgram DEF Waited
  <2> QED
    BY <2>1, <2>2, <1>1, <1>2, <1>4, HashCoversKept DEF Order
<1>10. LinkCovers'
  <2>1. \A v, k : Names(step, v, k)' <=> Names(step, v, k)
    BY <1>1, <1>5
  <2> SUFFICES ASSUME NEW u \in Steps, NEW v \in Variables, NEW k \in Kinds, NEW l \in Kinds,
                      IsTask(u), u < step, Names(u, v, k), Names(step, v, l), Conflict(k, l)
               PROVE  /\ Treated(v)' => Cov(u, step)'
                      /\ Linking(v)' => Cov(u, step)' \/ \E p \in link' : Leads(u, p)
    BY <1>1, <1>5, <2>1 DEF LinkCovers
  <2>2. Cov(u, step) => Cov(u, step)'
    <3>1. \A a, b \in Steps : Cov(a, b) => Cov(a, b)'
      BY <1>1, <1>4, CovKept
    <3>2. Cov(u, step) => \A b : b = step => Cov(u, b)'
      BY <3>1, <1>2
    <3> QED
      BY <3>2, <1>1 DEF Cov
  <2>3. Treated(v)' => Cov(u, step)'
    BY <2>2, <1>6, <1>2 DEF Order, LinkCovers
  <2>4. Linking(v)' => Cov(u, step)' \/ \E p \in link' : Leads(u, p)
    <3> SUFFICES ASSUME v = VarOf(step, i) PROVE Cov(u, step)' \/ \E p \in link' : Leads(u, p)
      BY <1>7
    <3>1. l = KindOf(step, i)
      BY <1>2, <1>3, NamedBy, NamesOnce, ShapeAt
    <3>2. Seen(u, v, k) /\ ~Waited(u, v)
      BY <1>3 DEF Seen, Waited
    <3>3. BodyIsOver(u) \/ \E p \in link' : Leads(u, p)
      BY <1>1, <1>2, <3>1, <3>2 DEF Order, HashCovers
    <3> QED
      BY <2>2, <3>3 DEF Cov
  <2> QED
    BY <2>3, <2>4
<1> QED
  BY <1>8, <1>9, <1>10 DEF Order

LEMMA LinkedAfterLink ==
    ASSUME DepsShape, UNCHANGED <<graph, nodeLife, left, step>>, NEW p \in Steps, node[p].task,
           \A x \in Steps : node'[x].succ = IF x = p THEN Append(node[x].succ, step) ELSE node[x].succ
    PROVE  /\ \A q \in Steps : \A x : Linked(q, x) => Linked(q, x)'
           /\ Linked(p, step)'
<1>2. nodeLife[p] \notin Released /\ node[p].succ \in Seq(Nat) /\ Len(node[p].succ) \in Nat /\ step \in Nat
  BY ShapeAt, NodeFields DEF MarkAt, DepsShape
<1>n. PICK n \in Nat : n = Len(node[p].succ)
  BY <1>2
<1>1. node'[p].succ = Append(node[p].succ, step)
  OBVIOUS
<1>3. /\ \A i \in 1..n : node'[p].succ[i] = node[p].succ[i]
      /\ node'[p].succ[n + 1] = step
      /\ Len(node'[p].succ) = n + 1
  BY <1>1, <1>2, <1>n
<1>4. ToNotify(p) = n /\ ToNotify(p)' = n + 1
  BY <1>2, <1>3, <1>n DEF ToNotify, Listed, Released
<1>5. \A q \in Steps : q # p => ToNotify(q)' = ToNotify(q) /\ node'[q].succ = node[q].succ
  BY ListsKept
<1>6. ASSUME NEW q \in Steps, NEW x, Linked(q, x) PROVE Linked(q, x)'
  <2>1. CASE q # p
    BY <1>5, <1>6, <2>1 DEF Linked
  <2>2. CASE q = p
    <3>1. PICK i \in 1..n : node[p].succ[i] = x
      BY <1>4, <1>6, <2>2 DEF Linked
    <3>2. i \in 1..(n + 1) /\ node'[p].succ[i] = x
      BY <1>3, <3>1
    <3> QED
      BY <1>4, <3>2, <2>2 DEF Linked
  <2> QED
    BY <2>1, <2>2
<1>7. Linked(p, step)'
  <2>1. n + 1 \in 1..(n + 1) /\ node'[p].succ[n + 1] = step'
    BY <1>3
  <2> QED
    BY <2>1, <1>4 DEF Linked
<1> QED
  BY <1>6, <1>7

LEMMA OrderLink == ASSUME DepsShape, HashGood, DepCounts, Order, Link PROVE Order'
<1>1. /\ at = "link" /\ at' = "link" /\ step \in Steps /\ UNCHANGED <<graph, step, at, todo, hash, nodeLife, left>>
  BY Linked1 DEF running, HashGood
<1>2. PICK p \in link : /\ p \in Steps /\ p < step /\ link' = link \ {p} /\ (IsTask(p) => HasNode(p))
                        /\ \/ ~node[p].task /\ UNCHANGED <<node, found>>
                           \/ /\ node[p].task
                              /\ \A x \in Steps : node'[x].succ = IF x = p THEN Append(node[x].succ, step)
                                                                  ELSE node[x].succ
  BY Linked1 DEF HashGood
<1>3. Preparing /\ Preparing' /\ Creating /\ Entering /\ Entering' /\ StayOver /\ Creating'
  BY <1>1, SameOver DEF Preparing, Creating, Entering
<1>4. Steps' = Steps /\ (\A x : IsTask(x)' = IsTask(x)) /\ (\A u, x : Leads(u, x)' <=> Leads(u, x))
      /\ (\A x, v, k : Names(x, v, k)' <=> Names(x, v, k)) /\ (\A x, j : VarOf(x, j)' = VarOf(x, j))
      /\ \A x : Filtered(x)' = Filtered(x)
  BY <1>1, SameProgram
<1>5. \A v : (Treated(v)' <=> Treated(v)) /\ (Linking(v)' <=> Linking(v))
  BY <1>1, <1>3, <1>4 DEF Treated, Linking, Least
<1>6. \A q \in Steps : \A x : Linked(q, x) => Linked(q, x)'
  <2>1. CASE node[p].task /\ \A x \in Steps : node'[x].succ = IF x = p THEN Append(node[x].succ, step)
                                                              ELSE node[x].succ
    BY <2>1, <1>1, <1>2, LinkedAfterLink
  <2>2. CASE UNCHANGED node
    <3>1. SameLists
      BY <1>1, <2>2, ListsKept DEF SameLists
    <3> QED
      BY <3>1, <1>4, OwesSame
  <2> QED
    BY <1>2, <2>1, <2>2
<1>7. \A u, x \in Steps : Cov(u, x) => Cov(u, x)'
  BY <1>3, <1>4, <1>6 DEF Cov, StayOver
<1>8. ASSUME NEW u \in Steps, IsTask(u), Leads(u, p) PROVE Cov(u, step)'
  <2>1. CASE node[p].task
    <3>1. \A x \in Steps : node'[x].succ = IF x = p THEN Append(node[x].succ, step) ELSE node[x].succ
      BY <1>2, <2>1
    <3>2. Linked(p, step)'
      BY <1>1, <1>2, <2>1, <3>1, LinkedAfterLink
    <3> QED
      BY <1>2, <1>4, <1>8, <3>2 DEF Cov
  <2>2. CASE ~node[p].task
    <3>1. IsTask(p) => BodyIsOver(p)
      <4> SUFFICES ASSUME IsTask(p) PROVE BodyIsOver(p)
        OBVIOUS
      <4>1. MarkAt(p) /\ LifeAt(p)
        BY <1>2, ShapeAt
      <4>2. p \in Nat /\ step \in Nat
        BY <1>2, ShapeAt
      <4>3. nodeLife[p] \notin {"none", "new"}
        BY <4>1, <4>2, <1>2 DEF LifeAt, Entered
      <4>4. nodeLife[p] \in Released
        BY <4>1, <4>3, <2>2, <1>2 DEF MarkAt
      <4> QED
        BY <4>4 DEF Released, BodyIsOver
    <3>2. BodyIsOver(u)
      BY <1>2, <1>8, <3>1, LeadsOver DEF DepCounts, Order
    <3> QED
      BY <3>2, <1>3 DEF Cov, StayOver
  <2> QED
    BY <2>1, <2>2
<1>9. Covered'
  <2>1. \A x \in Steps : Submitted(x)' => Submitted(x)
    BY <1>1 DEF Submitted
  <2> QED
    BY <2>1, <1>1, <1>7, CoveredKept DEF Order
<1>10. HashCovers'
  <2>1. \A v \in Variables : \A x, k : x \in Steps => (Seen(x, v, k)' <=> Seen(x, v, k))
    BY <1>1, <1>5, SameSeen, ShapeAt
  <2>2. \A u, v : Waited(u, v) => Waited(u, v)'
    BY <1>1, <1>4, <1>5, SameProgram DEF Waited
  <2> QED
    BY <2>1, <2>2, <1>1, <1>3, HashCoversKept DEF Order
<1>11. LinkCovers'
  <2>1. \A v, k : Names(step, v, k)' <=> Names(step, v, k)
    BY <1>1, <1>4
  <2> SUFFICES ASSUME NEW u \in Steps, NEW v \in Variables, NEW k \in Kinds, NEW l \in Kinds,
                      IsTask(u), u < step, Names(u, v, k), Names(step, v, l), Conflict(k, l)
               PROVE  /\ Treated(v)' => Cov(u, step)'
                      /\ Linking(v)' => Cov(u, step)' \/ \E q \in link' : Leads(u, q)
    BY <1>1, <1>4, <2>1 DEF LinkCovers
  <2>2. Cov(u, step) => Cov(u, step)'
    <3>1. Cov(u, step) => \A b : b = step => Cov(u, b)'
      BY <1>1, <1>7
    <3> QED
      BY <3>1, <1>1 DEF Cov
  <2>3. /\ Treated(v) => Cov(u, step)
        /\ Linking(v) => Cov(u, step) \/ \E q \in link : Leads(u, q)
    BY <1>3 DEF Order, LinkCovers
  <2> QED
    BY <2>2, <2>3, <1>2, <1>5, <1>8
<1> QED
  BY <1>9, <1>10, <1>11 DEF Order

(* All that the step depends on through what it has processed.               *)
LEMMA AllLinked ==
    ASSUME DepsShape, LinkCovers, Preparing, todo = {}, NEW u \in Steps, IsTask(u), Follows(u, step)
    PROVE  Cov(u, step)
<1>1. PICK v \in Variables, k \in Kinds, l \in Kinds : Conflict(k, l) /\ Names(u, v, k) /\ Names(step, v, l)
  BY DEF Follows, Ordered, Kinds
<1>2. Treated(v)
  BY <1>1 DEF Names, Treated, Entering
<1> QED
  BY <1>1, <1>2 DEF LinkCovers, Follows

LEMMA OrderSubmit == ASSUME DepsShape, DepCounts, Order, Submit PROVE Order'
<1>1. PICK npred \in Int :
           /\ npred = node[step].npred + found + 1
           /\ at = "deps" /\ todo = {} /\ step \in Steps /\ step \in Nat
           /\ UNCHANGED <<graph, todo, hash, left>>
           /\ node'[step].succ = node[step].succ
           /\ \A x \in Steps \ {step} : node'[x] = node[x]
           /\ IsTask(step) => /\ nodeLife' = [nodeLife EXCEPT ![step] = IF npred > 0 THEN "blocked" ELSE "queued"]
                              /\ step' = step + 1 /\ at' = "step"
           /\ ~IsTask(step) => /\ nodeLife' = nodeLife
                               /\ \/ npred <= 0 /\ step' = step + 1 /\ at' = "step"
                                  \/ npred > 0 /\ step' = step /\ at' = "wait"
  BY Submitting
<1>2. Preparing /\ Entering /\ Creating /\ ~Preparing' /\ Creating'
  BY <1>1 DEF Preparing, Entering, Creating
<1>3. npred = Cardinality(Owes(step))
  <2>1. node[step].npred = Cardinality(Owes(step)) - found - 1
    BY <1>1, <1>2 DEF DepCounts, CountsInv
  <2>2. Cardinality(Owes(step)) \in Nat /\ found \in Nat
    BY <1>1, OwedOne DEF DepCounts, DepsShape, ParentPlaces
  <2> QED
    BY <2>1, <2>2, <1>1
<1>4. StayOver /\ SameLists
  <2>1. IsTask(step) => nodeLife[step] = "new"
    BY <1>1, <1>2, ShapeAt DEF LifeAt
  <2>2. IsTask(step) => /\ nodeLife'[step] \in {"blocked", "queued"}
                        /\ \A y \in Steps : y # step => nodeLife'[y] = nodeLife[y]
    BY <1>1, ShapeAt
  <2>3. \A p \in Steps : ToNotify(p)' = ToNotify(p) /\ node'[p].succ = node[p].succ
    <3> SUFFICES ASSUME NEW p \in Steps PROVE ToNotify(p)' = ToNotify(p) /\ node'[p].succ = node[p].succ
      OBVIOUS
    <3>1. left'[p] = left[p] /\ node'[p].succ = node[p].succ
      BY <1>1
    <3>2. CASE p = step /\ IsTask(step)
      BY <2>1, <2>2, <3>1, <3>2, ListsKept DEF Released
    <3>3. CASE p # step \/ ~IsTask(step)
      BY <1>1, <2>2, <3>1, <3>3, ListsKept
    <3> QED
      BY <3>2, <3>3
  <2>4. \A p \in Steps : BodyIsOver(p) => BodyIsOver(p)'
    <3> SUFFICES ASSUME NEW p \in Steps, BodyIsOver(p) PROVE BodyIsOver(p)'
      OBVIOUS
    <3>1. nodeLife'[p] = nodeLife[p]
      BY <1>1, <2>1, <2>2 DEF BodyIsOver
    <3> QED
      BY <3>1 DEF BodyIsOver
  <2> QED
    BY <2>3, <2>4 DEF StayOver, SameLists
<1>5. \A u \in Steps : IsTask(u) /\ Follows(u, step) => Cov(u, step)
  BY <1>1, <1>2, AllLinked DEF Order
<1>6. Covered'
  <2>1. \A x \in Steps : Submitted(x)' => Submitted(x) \/ x = step
    BY <1>1, ShapeAt DEF Submitted
  <2> QED
    BY <2>1, <1>1, <1>4, <1>5, CovKept, CoveredKept DEF Order
<1>7. \A v \in Variables : \A x, k : x \in Steps => (Seen(x, v, k)' <=> Seen(x, v, k))
  <2> SUFFICES ASSUME NEW v \in Variables
               PROVE  \A x, k : x \in Steps => (Seen(x, v, k)' <=> Seen(x, v, k))
    OBVIOUS
  <2>1. \A k : Names(step, v, k) => Treated(v)
    BY <1>1, <1>2 DEF Names, Treated
  <2>2. CASE step' = step + 1 /\ at' = "step"
    BY <2>1, <2>2, <1>1, SameSeen DEF Entering, Preparing
  <2>3. CASE step' = step /\ at' = "wait"
    <3>1. Treated(v)' <=> Treated(v)
      BY <1>1, <1>2, <2>3, SameProgram DEF Treated, Entering
    <3> QED
      BY <2>3, <3>1, <1>1, SameSeen
  <2> QED
    BY <1>1, <2>2, <2>3
<1>8. \A u \in Steps, v \in Variables : IsTask(u) /\ Waited(u, v) => Waited(u, v)' \/ BodyIsOver(u)
  <2> SUFFICES ASSUME NEW u \in Steps, NEW v \in Variables, IsTask(u), Waited(u, v)
               PROVE  Waited(u, v)' \/ BodyIsOver(u)
    OBVIOUS
  <2>1. ~IsTask(step) /\ Follows(u, step) /\ Treated(v)
    BY DEF Waited
  <2>2. CASE npred <= 0
    <3>1. Owes(step) = {}
      BY <1>1, <1>3, <2>2, OwedOne DEF DepCounts
    <3>2. Cov(u, step)
      BY <2>1, <1>5
    <3> QED
      BY <3>1, <3>2, <1>1, LinkedOwes DEF Cov
  <2>3. CASE npred > 0
    <3>1. step' = step /\ at' = "wait"
      BY <2>1, <2>3, <1>1
    <3>2. Entering'
      BY <3>1 DEF Entering
    <3>3. Waited(u, v)'
      BY <1>1, <1>2, <2>1, <3>1, <3>2, SameProgram DEF Waited, Treated
    <3> QED
      BY <3>3
  <2> QED
    BY <2>2, <2>3
<1>9. HashCovers'
  BY <1>1, <1>2, <1>4, <1>7, <1>8, HashCoversKept DEF Order
<1>10. LinkCovers'
  BY <1>2 DEF LinkCovers
<1> QED
  BY <1>6, <1>9, <1>10 DEF Order

LEMMA OrderEndWait == ASSUME DepsShape, DepCounts, Order, EndWait PROVE Order'
<1>1. /\ at = "wait" /\ at' = "step" /\ step' = step + 1 /\ step \in Steps /\ step \in Nat /\ todo = {}
      /\ ~IsTask(step) /\ node[step].npred <= 0
      /\ UNCHANGED <<graph, hash, node, nodeLife, left>>
  BY ShapeAt DEF EndWait, Advance, running, DepsShape, ParentPlaces, Entering
<1>2. Entering /\ Creating /\ ~Entering' /\ ~Preparing'
  BY <1>1 DEF Entering, Preparing, Creating
<1>3. StayOver /\ SameLists
  BY <1>1, SameOver, ListsKept DEF SameLists
<1>4. Submitted(step) /\ Owes(step) = {}
  <2>1. Submitted(step)
    BY <1>1 DEF Submitted
  <2> QED
    BY <2>1, <1>1, OwedOne DEF DepCounts, CountsInv
<1>5. \A u \in Steps : IsTask(u) /\ Follows(u, step) => BodyIsOver(u)
  BY <1>1, <1>4, LinkedOwes DEF Order, Covered, Cov
<1>6. Covered'
  <2>1. \A x \in Steps : Submitted(x)' => Submitted(x)
    BY <1>1, ShapeAt DEF Submitted
  <2> QED
    BY <2>1, <1>1, <1>3, CovKept, CoveredKept DEF Order
<1>7. HashCovers'
  <2>1. \A v \in Variables : \A x, k : x \in Steps => (Seen(x, v, k)' <=> Seen(x, v, k))
    <3> SUFFICES ASSUME NEW v \in Variables
                 PROVE  \A x, k : x \in Steps => (Seen(x, v, k)' <=> Seen(x, v, k))
      OBVIOUS
    <3>1. \A k : Names(step, v, k) => Treated(v)
      BY <1>1, <1>2 DEF Names, Treated
    <3> QED
      BY <3>1, <1>1, <1>2, SameSeen
  <2>2. \A u \in Steps, v \in Variables : IsTask(u) /\ Waited(u, v) => BodyIsOver(u)
    BY <1>5 DEF Waited
  <2> QED
    BY <2>1, <2>2, <1>1, <1>2, <1>3, HashCoversKept DEF Order
<1>8. LinkCovers'
  BY <1>2 DEF LinkCovers
<1> QED
  BY <1>6, <1>7, <1>8 DEF Order

LEMMA OrderEnding == ASSUME DepsShape, Order, Ending PROVE Order'
<1>1. /\ UNCHANGED <<graph, step, nodeLife, left>>
      /\ ~Entering /\ ~Creating' /\ ~Entering' /\ ~Preparing'
      /\ UNCHANGED node \/ FreeEntries
  BY EndingSteps
<1>2. \A p \in Steps : node'[p].succ = node[p].succ
  BY <1>1, FreedEntries
<1>3. StayOver /\ SameLists
  BY <1>1, <1>2, SameOver, ListsKept DEF SameLists
<1>4. \A x \in Steps : Submitted(x)' => Submitted(x)
  BY <1>1 DEF Submitted, Entering
<1>5. Covered'
  BY <1>1, <1>3, <1>4, CovKept, CoveredKept DEF Order
<1> QED
  BY <1>1, <1>5 DEF Order, HashCovers, LinkCovers

(* What the next steps will follow in the entry of v.                        *)
LEMMA NewInEntry ==
    ASSUME NEW h \in EntryType, NEW x \in Nat \ {0}, NEW k \in Kinds, NEW l \in Kinds, Conflict(k, l),
           k = "out" => IsTask(x)
    PROVE  x \in Predecessors(After(h, k, x), l)
<1> DEFINE n == After(h, k, x)
<1>1. CASE k = "out"
  <2>1. LastOut(n) = {x} /\ n.ins = {} /\ n.mtxs = {}
    BY <1>1, EntryFields DEF LastOut
  <2> QED
    BY <2>1 DEF Predecessors, Kinds
<1>2. CASE k = "in"
  <2>0. l \in {"out", "mtx"}
    BY <1>2 DEF Kinds, Conflict
  <2>1. x \in n.ins /\ n.flag = "ins" /\ l \in {"out", "mtx"}
    <3>1. n.ins = {x} \cup (IF h.mtxs # {} /\ h.flag = "mtxs" THEN {} ELSE h.ins) /\ n.flag = "ins"
      BY <1>2, EntryFields
    <3> QED
      BY <3>1, <2>0
  <2> QED
    BY <2>1 DEF Predecessors
<1>3. CASE k = "mtx"
  <2>1. x \in n.mtxs /\ n.flag = "mtxs" /\ l \in {"out", "in"}
    BY <1>3, EntryFields DEF Kinds, Conflict
  <2> QED
    BY <2>1 DEF Predecessors
<1> QED
  BY <1>1, <1>2, <1>3 DEF Kinds

(* What led to the entry's last_out leads to what follows it.                *)
LEMMA LeadsOn ==
    ASSUME DepsShape, NEW v \in Variables, NEW u \in Steps, NEW p \in Steps, NEW x \in Steps,
           NEW k \in Kinds, NEW j \in Kinds, Names(u, v, k), Names(p, v, "out"), Names(x, v, j),
           p < x, Leads(u, p)
    PROVE  Leads(u, x)
<1>1. Follows(p, x)
  BY NameOrders, ShapeAt DEF Conflict, Kinds
<1>2. CASE p = u
  BY <1>1, <1>2 DEF Leads, ComesBefore
<1>3. CASE p # u
  <2>1. u < p
    BY <1>3, ShapeAt DEF Leads, ComesBefore, Follows
  <2>2. Follows(u, p)
    BY <2>1, NameOrders, ShapeAt DEF Conflict, Kinds
  <2> QED
    BY <1>1, <2>2 DEF Leads, ComesBefore
<1> QED
  BY <1>2, <1>3

(* Of the other group, the last one stands between.                          *)
LEMMA LeadsThrough ==
    ASSUME DepsShape, NEW v \in Variables, NEW u \in Steps, NEW m \in Steps, NEW x \in Steps,
           NEW k \in Kinds, NEW j \in Kinds, k # j, Names(u, v, k), Names(m, v, j), Names(x, v, k),
           u <= m, m < x
    PROVE  Leads(u, x)
<1>1. u # m
  BY NamesOnce, ShapeAt
<1>2. u < m /\ Conflict(k, j) /\ Conflict(j, k)
  BY <1>1, ShapeAt DEF Conflict
<1>3. Follows(u, m) /\ Follows(m, x)
  BY <1>2, NameOrders, ShapeAt
<1> QED
  BY <1>3 DEF Leads, ComesBefore

LEMMA CoversAfter ==
    ASSUME DepsShape, step \in Steps, NEW v \in Variables, NEW h \in EntryType, GoodEntry(h, v), ~Treated(v),
           NEW j \in Kinds, Names(step, v, j),
           NEW u \in Steps, NEW k \in Kinds, Seen(u, v, k), NEW l \in Kinds, Conflict(k, l),
           \A i \in Kinds : Conflict(k, i) => \E p \in Predecessors(h, i) : Leads(u, p)
    PROVE  (~IsTask(step) /\ Follows(u, step)) \/ \E p \in Predecessors(After(h, j, step), l) : Leads(u, p)
<1>0. /\ step \in Nat \ {0} /\ u < step /\ Names(u, v, k)
      /\ \A x \in Steps : \A i : Seen(x, v, i) => x < step /\ Names(x, v, i) /\ x \in Nat
  BY SeenBefore, ShapeAt
<1>1. /\ \A x \in LastOut(h) : x \in Steps /\ x < step /\ Names(x, v, "out")
      /\ \A x \in h.ins : x \in Steps /\ x < step /\ Names(x, v, "in")
      /\ \A x \in h.mtxs : x \in Steps /\ x < step /\ Names(x, v, "mtx")
  BY <1>0 DEF GoodEntry
<1>2. Conflict(k, j) => Follows(u, step)
  BY <1>0, NameOrders, ShapeAt
<1>3. Follows(u, step) => Leads(u, step)
  BY DEF Leads, ComesBefore
<1> DEFINE n == After(h, j, step)
<1>4. CASE j = "out"
  <2>1. Conflict(k, j) /\ Conflict(j, l)
    BY <1>4 DEF Conflict
  <2>2. IsTask(step) => step \in Predecessors(n, l)
    BY <2>1, <1>0, NewInEntry
  <2> QED
    BY <2>1, <2>2, <1>2, <1>3
<1>5. CASE j = "in"
  <2>n. /\ n.ins = {step} \cup (IF h.mtxs # {} /\ h.flag = "mtxs" THEN {} ELSE h.ins)
        /\ n.out = (IF h.mtxs # {} THEN 0 ELSE h.out) /\ n.mtxs = h.mtxs /\ n.flag = "ins"
    BY <1>0, <1>5, EntryFields
  <2>1. CASE l # "in"
    <3>1. Predecessors(n, l) = n.ins
      BY <2>1, <2>n DEF Predecessors, Kinds
    <3>2. CASE k # "in"
      <4>1. Conflict(k, j)
        BY <3>2, <1>5 DEF Conflict
      <4> QED
        BY <4>1, <3>1, <2>n, <1>2, <1>3
    <3>3. CASE k = "in" /\ h.mtxs # {} /\ h.flag = "mtxs"
      <4>1. PICK m \in h.mtxs : \A x \in Steps, i \in Kinds : Seen(x, v, i) => x <= m
        BY <3>3 DEF GoodEntry
      <4>2. u <= m /\ m \in Steps /\ m < step /\ Names(m, v, "mtx")
        BY <4>1, <1>1
      <4>3. Leads(u, step)
        BY <4>2, <3>3, <1>0, <1>5, LeadsThrough DEF Kinds
      <4> QED
        BY <4>3, <3>1, <2>n
    <3>4. CASE k = "in" /\ ~(h.mtxs # {} /\ h.flag = "mtxs")
      <4>1. PICK p \in Predecessors(h, l) : Leads(u, p)
        OBVIOUS
      <4>2. p \in h.ins \/ p \in LastOut(h)
        BY <2>1, <3>4 DEF Predecessors, GoodEntry, Kinds, EntryType
      <4>3. CASE p \in h.ins
        BY <4>1, <4>3, <3>1, <3>4, <2>n
      <4>4. CASE p \in LastOut(h)
        <5>1. Leads(u, step)
          BY <4>1, <4>4, <1>0, <1>1, <1>5, LeadsOn DEF Kinds
        <5> QED
          BY <5>1, <3>1, <2>n
      <4> QED
        BY <4>2, <4>3, <4>4
    <3> QED
      BY <3>2, <3>3, <3>4
  <2>2. CASE l = "in"
    <3>1. Predecessors(n, "in") = Predecessors(h, "in")
      BY <2>n DEF Predecessors, LastOut
    <3> QED
      BY <3>1, <2>2
  <2> QED
    BY <2>1, <2>2
<1>6. CASE j = "mtx"
  <2>n. /\ n.mtxs = {step} \cup (IF h.ins # {} /\ h.flag = "ins" THEN {} ELSE h.mtxs)
        /\ n.out = (IF h.ins # {} THEN 0 ELSE h.out) /\ n.ins = h.ins /\ n.flag = "mtxs"
    BY <1>0, <1>6, EntryFields
  <2>1. CASE l # "mtx"
    <3>1. Predecessors(n, l) = n.mtxs
      BY <2>1, <2>n DEF Predecessors, Kinds
    <3>2. CASE k # "mtx"
      <4>1. Conflict(k, j)
        BY <3>2, <1>6 DEF Conflict
      <4> QED
        BY <4>1, <3>1, <2>n, <1>2, <1>3
    <3>3. CASE k = "mtx" /\ h.ins # {} /\ h.flag = "ins"
      <4>1. PICK m \in h.ins : \A x \in Steps, i \in Kinds : Seen(x, v, i) => x <= m
        BY <3>3 DEF GoodEntry
      <4>2. u <= m /\ m \in Steps /\ m < step /\ Names(m, v, "in")
        BY <4>1, <1>1
      <4>3. Leads(u, step)
        BY <4>2, <3>3, <1>0, <1>6, LeadsThrough DEF Kinds
      <4> QED
        BY <4>3, <3>1, <2>n
    <3>4. CASE k = "mtx" /\ ~(h.ins # {} /\ h.flag = "ins")
      <4>1. PICK p \in Predecessors(h, l) : Leads(u, p)
        OBVIOUS
      <4>2. p \in h.mtxs \/ p \in LastOut(h)
        BY <2>1, <3>4 DEF Predecessors, GoodEntry, Kinds, EntryType
      <4>3. CASE p \in h.mtxs
        BY <4>1, <4>3, <3>1, <3>4, <2>n
      <4>4. CASE p \in LastOut(h)
        <5>1. Leads(u, step)
          BY <4>1, <4>4, <1>0, <1>1, <1>6, LeadsOn DEF Kinds
        <5> QED
          BY <5>1, <3>1, <2>n
      <4> QED
        BY <4>2, <4>3, <4>4
    <3> QED
      BY <3>2, <3>3, <3>4
  <2>2. CASE l = "mtx"
    <3>1. Predecessors(n, "mtx") = Predecessors(h, "mtx")
      BY <2>n DEF Predecessors, LastOut
    <3> QED
      BY <3>1, <2>2
  <2> QED
    BY <2>1, <2>2
<1> QED
  BY <1>4, <1>5, <1>6 DEF Kinds

LEMMA OrderUpdateHash == ASSUME DepsShape, HashGood, Order, UpdateHash PROVE Order'
<1>1. /\ at = "link" /\ at' = "deps" /\ link = {} /\ step \in Steps /\ step \in Nat \ {0}
      /\ UNCHANGED <<graph, step, link, nodeLife, left>>
  BY HashUpdated, ShapeAt DEF HashGood
<1>2. PICK i \in Filtered(step) \cap todo :
           /\ Least(todo, i) /\ todo' = todo \ {i} /\ VarOf(step, i) \in Variables
           /\ hash' = [hash EXCEPT ![VarOf(step, i)] = EntryAfter(i)]
           /\ \A x \in Steps : node'[x].succ = node[x].succ
  BY HashUpdated DEF HashGood
<1>3. PICK w \in Variables : w = VarOf(step, i)
  BY <1>2
<1>j. PICK j \in Kinds : j = KindOf(step, i) /\ Names(step, w, j) /\ (j = "mtx" => IsTask(step))
  BY <1>1, <1>2, <1>3, NamedBy, StepKinds, ShapeAt
<1>4. Preparing /\ Preparing' /\ Creating /\ Entering /\ Entering' /\ Creating'
  BY <1>1 DEF Preparing, Creating, Entering
<1>5. StayOver /\ SameLists
  BY <1>1, <1>2, SameOver, ListsKept DEF SameLists
<1>6. Steps' = Steps /\ (\A x : IsTask(x)' = IsTask(x)) /\ (\A u, x : Leads(u, x)' <=> Leads(u, x))
      /\ (\A x, v, k : Names(x, v, k)' <=> Names(x, v, k)) /\ \A u, x : Follows(u, x)' <=> Follows(u, x)
  BY <1>1, SameProgram
<1>7. /\ \A v : Treated(v)' <=> Treated(v) \/ v = w
      /\ \A x \in Steps, v \in Variables : \A k : Seen(x, v, k)' <=> Seen(x, v, k) \/ (x = step /\ v = w /\ k = j)
  BY <1>2, <1>3, <1>j, SeenAfterUpdate DEF HashGood
<1>8. /\ \A v \in Variables : v # w => hash'[v] = hash[v]
      /\ hash[w] \in EntryType /\ GoodEntry(hash[w], w)
      /\ hash'[w] = After(hash[w], j, step)
  BY <1>2, <1>3, <1>j DEF HashGood, HashInv, EntryAfter
<1>9. ~Treated(w) /\ Linking(w)
  <2>1. ~Treated(w)
    BY <1>2, <1>3, <1>4, NotTreated
  <2> QED
    BY <2>1, <1>1, <1>2, <1>3 DEF Linking
<1>10. \A u, x \in Steps : Cov(u, x) => Cov(u, x)'
  BY <1>1, <1>5, CovKept
<1>11. Covered'
  <2>1. \A x \in Steps : Submitted(x)' => Submitted(x)
    BY <1>1 DEF Submitted
  <2> QED
    BY <2>1, <1>1, <1>10, CoveredKept DEF Order
<1>12. LinkCovers'
  <2>1. \A v, k : Names(step, v, k)' <=> Names(step, v, k)
    BY <1>1, <1>6
  <2>2. \A v : ~Linking(v)'
    BY <1>1 DEF Linking
  <2> SUFFICES ASSUME NEW u \in Steps, NEW v \in Variables, NEW k \in Kinds, NEW l \in Kinds,
                      IsTask(u), u < step, Names(u, v, k), Names(step, v, l), Conflict(k, l), Treated(v)'
               PROVE  Cov(u, step)'
    BY <1>1, <1>6, <2>1, <2>2 DEF LinkCovers
  <2>3. Cov(u, step)
    <3>1. CASE Treated(v)
      BY <3>1, <1>4 DEF Order, LinkCovers
    <3>2. CASE v = w
      BY <3>2, <1>1, <1>4, <1>9 DEF Order, LinkCovers
    <3> QED
      BY <3>1, <3>2, <1>7
  <2>4. Cov(u, step) => \A b : b = step => Cov(u, b)'
    BY <1>1, <1>10
  <2> QED
    BY <2>3, <2>4, <1>1 DEF Cov
<1>13. HashCovers'
  <2> SUFFICES ASSUME NEW u \in Steps, NEW v \in Variables, NEW k \in Kinds, NEW l \in Kinds,
                      IsTask(u), Seen(u, v, k)', Conflict(k, l)
               PROVE  BodyIsOver(u) \/ Waited(u, v)' \/ \E p \in Predecessors(hash'[v], l) : Leads(u, p)
    BY <1>5, <1>6 DEF HashCovers, StayOver
  <2>0. Treated(v)' /\ ~IsTask(step) /\ Follows(u, step) => Waited(u, v)'
    BY <1>1, <1>6 DEF Waited
  <2>1. CASE v # w
    <3>1. Seen(u, v, k) /\ (Waited(u, v) => Waited(u, v)')
      BY <2>1, <1>7, <2>0 DEF Waited
    <3> QED
      BY <3>1, <2>1, <1>4, <1>8 DEF Order, HashCovers
  <2>2. CASE v = w /\ ~Seen(u, v, k)
    <3>1. u = step /\ k = j
      BY <2>2, <1>7
    <3>2. step \in Predecessors(hash'[w], l)
      BY <3>1, <1>1, <1>8, NewInEntry
    <3> QED
      BY <3>1, <3>2, <2>2 DEF Leads
  <2>3. CASE v = w /\ Seen(u, v, k)
    <3>1. BodyIsOver(u) \/ \A m \in Kinds : Conflict(k, m) => \E p \in Predecessors(hash[w], m) : Leads(u, p)
      BY <2>3, <1>4, <1>9 DEF Order, HashCovers, Waited
    <3>2. CASE BodyIsOver(u)
      BY <3>2
    <3>3. CASE \A m \in Kinds : Conflict(k, m) => \E p \in Predecessors(hash[w], m) : Leads(u, p)
      <4>1. (~IsTask(step) /\ Follows(u, step)) \/ \E p \in Predecessors(hash'[w], l) : Leads(u, p)
        <5>1. PICK h \in EntryType : h = hash[w] /\ GoodEntry(h, w)
          BY <1>8
        <5>2. \A m \in Kinds : Conflict(k, m) => \E p \in Predecessors(h, m) : Leads(u, p)
          BY <3>3, <5>1
        <5>3. (~IsTask(step) /\ Follows(u, step)) \/ \E p \in Predecessors(After(h, j, step), l) : Leads(u, p)
          BY <2>3, <5>1, <5>2, <1>1, <1>j, <1>9, CoversAfter
        <5> QED
          BY <5>1, <5>3, <1>8
      <4> QED
        BY <4>1, <2>0, <2>3, <1>7
    <3> QED
      BY <3>1, <3>2, <3>3
  <2> QED
    BY <2>1, <2>2, <2>3
<1> QED
  BY <1>11, <1>12, <1>13 DEF Order

(* A task goes on: who was covered stays so.                                 *)
LEMMA OrderTurn ==
    ASSUME DepsShape, Order, UNCHANGED <<graph, creator>>, UNCHANGED hash \/ ~Creating, StayOver,
           \A u, x \in Steps : IsTask(u) /\ Cov(u, x) => Cov(u, x)'
    PROVE  Order'
<1>1. /\ UNCHANGED <<step, at, todo, link, found>> /\ Creating' = Creating /\ Preparing' = Preparing
      /\ \A x : Submitted(x)' = Submitted(x) /\ Treated(x)' = Treated(x)
      /\ \A x, v, k : Seen(x, v, k)' = Seen(x, v, k)
  BY ParentStays
<1>2. Covered'
  BY <1>1, CoveredKept DEF Order
<1>3. HashCovers'
  <2>1. CASE ~Creating
    BY <2>1, <1>1 DEF HashCovers
  <2>2. CASE Creating /\ UNCHANGED hash
    <3>1. \A u, v : Waited(u, v) => Waited(u, v)'
      BY <1>1, SameProgram DEF Waited
    <3> QED
      BY <2>2, <3>1, <1>1, HashCoversKept DEF Order
  <2> QED
    BY <2>1, <2>2
<1>4. LinkCovers'
  <2>1. CASE ~Preparing
    BY <2>1, <1>1 DEF LinkCovers
  <2>2. CASE Preparing
    <3>1. step \in Steps
      BY <2>2 DEF DepsShape, ParentPlaces, Entering
    <3>2. \A u \in Steps : IsTask(u) /\ Cov(u, step) => Cov(u, step)'
      <4>1. \A u \in Steps : IsTask(u) /\ Cov(u, step) => \A b : b = step => Cov(u, b)'
        BY <3>1
      <4> QED
        BY <4>1, <1>1 DEF Cov
    <3> QED
      BY <3>1, <3>2, LinkCoversKept DEF Order
  <2> QED
    BY <2>1, <2>2
<1> QED
  BY <1>2, <1>3, <1>4 DEF Order

(* What is over stays over.                                                  *)
LEMMA OverStays ==
    ASSUME NEW x \in Steps, NEW a, nodeLife \in [Steps -> Lives], nodeLife' = [nodeLife EXCEPT ![x] = a],
           BodyIsOver(x) => a \notin {"none", "new", "blocked", "queued", "locking", "backing", "runs"}
    PROVE  StayOver
<1>1. nodeLife'[x] = a /\ \A y \in Steps : y # x => nodeLife'[y] = nodeLife[y]
  OBVIOUS
<1> QED
  BY <1>1 DEF StayOver, BodyIsOver

LEMMA OrderQuiet == ASSUME DepsShape, DepCounts, Order, NEW x \in Steps, Quiet(x) PROVE Order'
<1>1. PICK a \in Unreleased \cup {"freeing"} :
           /\ UNCHANGED <<graph, creator, hash>>
           /\ nodeLife' = [nodeLife EXCEPT ![x] = a] /\ nodeLife[x] \in Unreleased \ {"releasing"}
           /\ nodeLife[x] \in {"unlocking", "ended"} => a \notin {"queued", "locking", "backing", "runs"}
  BY QuietMoves
<1>2. StayOver
  BY <1>1, OverStays, ShapeAt DEF BodyIsOver, Unreleased
<1>3. \A u, y \in Steps : Cov(u, y) => Cov(u, y)'
  BY <1>1, <1>2, CountsQuiet, CovKept
<1> QED
  BY <1>1, <1>2, <1>3, OrderTurn

LEMMA OrderMarkFinished == ASSUME DepsShape, DepCounts, Order, NEW x \in Steps, MarkFinished(x) PROVE Order'
<1>1. /\ UNCHANGED <<graph, creator, hash>> /\ nodeLife' = [nodeLife EXCEPT ![x] = "notifying"]
  BY MarkFinishedDoes
<1>2. StayOver
  BY <1>1, OverStays, ShapeAt
<1>3. \A u, y \in Steps : Cov(u, y) => Cov(u, y)'
  BY <1>1, <1>2, CountsMarkFinished, CovKept
<1> QED
  BY <1>1, <1>2, <1>3, OrderTurn

LEMMA OrderNotify == ASSUME DepsShape, DepCounts, Order, NEW x \in Steps, Notify(x) PROVE Order'
<1>1. PICK s \in Steps : s = Successor(x) /\ x < s /\ Entered(s) /\ x < step /\ IsTask(x)
  BY LeftIn, NotifyDoes
<1>2. /\ UNCHANGED <<graph, creator, left, hash>>
      /\ nodeLife[x] = "notifying" /\ left[x] > 0
      /\ nodeLife' = [nodeLife EXCEPT ![x] = IF node[s].npred = 1 THEN "queueing" ELSE "forgetting"]
      /\ \A y \in Steps : node'[y].succ = node[y].succ
  BY <1>1, NotifyDoes
<1>3. StayOver
  BY <1>2, OverStays, ShapeAt
<1>4. BodyIsOver(x)
  BY <1>2 DEF BodyIsOver
<1>5. Steps' = Steps /\ \A u, p : Leads(u, p)' <=> Leads(u, p)
  BY <1>2, SameProgram
<1>6. \A q \in Steps : \A y \in Steps : q # x /\ Linked(q, y) => Linked(q, y)'
  <2> SUFFICES ASSUME NEW q \in Steps, NEW y \in Steps, q # x, Linked(q, y) PROVE Linked(q, y)'
    OBVIOUS
  <2>1. nodeLife'[q] = nodeLife[q] /\ left'[q] = left[q] /\ node'[q].succ = node[q].succ
    BY <1>2, ShapeAt
  <2>2. ToNotify(q)' = ToNotify(q)
    BY <2>1, ListsKept
  <2> QED
    BY <2>1, <2>2 DEF Linked
<1>7. \A u, y \in Steps : IsTask(u) /\ Cov(u, y) => Cov(u, y)'
  <2> SUFFICES ASSUME NEW u \in Steps, NEW y \in Steps, IsTask(u), Cov(u, y) PROVE Cov(u, y)'
    OBVIOUS
  <2>1. CASE BodyIsOver(u)
    BY <2>1, <1>3 DEF StayOver, Cov
  <2>2. CASE \E p \in Steps : Leads(u, p) /\ Linked(p, y)
    <3>1. PICK p \in Steps : Leads(u, p) /\ Linked(p, y)
      BY <2>2
    <3>2. CASE p = x
      <4>1. BodyIsOver(u)
        BY <3>1, <3>2, <1>1, <1>4, LeadsOver DEF DepCounts, Order
      <4> QED
        BY <4>1, <1>3 DEF StayOver, Cov
    <3>3. CASE p # x
      BY <3>1, <3>3, <1>5, <1>6 DEF Cov
    <3> QED
      BY <3>2, <3>3
  <2> QED
    BY <2>1, <2>2 DEF Cov
<1> QED
  BY <1>2, <1>3, <1>7, OrderTurn

LEMMA OrderQueueSuccessor == ASSUME DepsShape, DepCounts, Order, NEW x \in Steps, QueueSuccessor(x) PROVE Order'
<1>1. PICK s \in Steps :
           /\ UNCHANGED <<graph, creator, hash, node, left>> /\ s = Successor(x)
           /\ nodeLife'[x] = "forgetting"
           /\ \A y \in Steps \ {x, s} : nodeLife'[y] = nodeLife[y]
           /\ IsTask(s) => nodeLife[s] = "blocked" /\ nodeLife'[s] = "queued"
           /\ ~IsTask(s) => nodeLife'[s] = nodeLife[s]
  BY QueueSuccessorDoes DEF DepCounts
<1>2. StayOver
  <2> SUFFICES ASSUME NEW u \in Steps, BodyIsOver(u) PROVE BodyIsOver(u)'
    BY DEF StayOver
  <2>1. CASE u = x
    BY <1>1, <2>1 DEF BodyIsOver
  <2>2. CASE u = s /\ u # x
    BY <1>1, <2>2 DEF BodyIsOver
  <2>3. CASE u \notin {x, s}
    BY <1>1, <2>3 DEF BodyIsOver
  <2> QED
    BY <2>1, <2>2, <2>3
<1>3. \A u, y \in Steps : Cov(u, y) => Cov(u, y)'
  BY <1>1, <1>2, CountsQueueSuccessor, CovKept
<1> QED
  BY <1>1, <1>2, <1>3, OrderTurn

LEMMA OrderForgetSuccessor == ASSUME DepsShape, DepCounts, Order, NEW x \in Steps, ForgetSuccessor(x) PROVE Order'
<1>1. /\ UNCHANGED <<graph, creator, hash>> /\ nodeLife' = [nodeLife EXCEPT ![x] = "notifying"]
  BY ForgetSuccessorDoes
<1>2. StayOver
  BY <1>1, OverStays, ShapeAt
<1>3. \A u, y \in Steps : Cov(u, y) => Cov(u, y)'
  BY <1>1, <1>2, CountsForgetSuccessor, CovKept
<1> QED
  BY <1>1, <1>2, <1>3, OrderTurn

LEMMA OrderForgetOwnNode == ASSUME DepsShape, DepCounts, Order, NEW x \in Steps, ForgetOwnNode(x) PROVE Order'
<1>1. /\ UNCHANGED <<graph, creator, hash>> /\ nodeLife' = [nodeLife EXCEPT ![x] = "freeing"]
  BY ForgetOwnNodeDoes
<1>2. StayOver
  BY <1>1, OverStays, ShapeAt
<1>3. \A u, y \in Steps : Cov(u, y) => Cov(u, y)'
  BY <1>1, <1>2, CountsForgetOwnNode, CovKept
<1> QED
  BY <1>1, <1>2, <1>3, OrderTurn

LEMMA OrderFreeing == ASSUME DepsShape, DepCounts, Order, NEW x \in Steps, Freeing(x) PROVE Order'
<1>1. PICK a \in {"cleaning", "emptying", "freed"} :
         /\ UNCHANGED <<graph, creator>> /\ (UNCHANGED hash \/ ~Creating)
         /\ nodeLife' = [nodeLife EXCEPT ![x] = a]
  BY FreeingDoes
<1>2. StayOver
  BY <1>1, OverStays, ShapeAt
<1>3. \A u, y \in Steps : Cov(u, y) => Cov(u, y)'
  BY <1>1, <1>2, CountsFreeing, CovKept
<1> QED
  BY <1>1, <1>2, <1>3, OrderTurn

-----------------------------------------------------------------------------
(* The locks of mutexinoutset dependences.                                  *)

LEMMA LockKept ==
    ASSUME LockInv, UNCHANGED <<graph, held, mtx>>,
           \A x \in Steps : /\ node'[x].locks = node[x].locks
                            /\ nodeLife'[x] = "runs" => nodeLife[x] = "runs"
                            /\ \A v \in Variables : Seen(x, v, "mtx")' => Seen(x, v, "mtx")
    PROVE  LockInv'
<1>1. Steps' = Steps
  BY SameSteps
<1> SUFFICES ASSUME NEW x \in Steps
             PROVE  /\ held[x] \subseteq node'[x].locks
                    /\ nodeLife'[x] = "runs" => held[x] = node'[x].locks
                    /\ \A v \in Variables : Seen(x, v, "mtx")' => v \in node'[x].locks
  BY <1>1 DEF LockInv
<1>2. /\ held[x] \subseteq node[x].locks /\ (nodeLife[x] = "runs" => held[x] = node[x].locks)
      /\ \A v \in Variables : Seen(x, v, "mtx") => v \in node[x].locks
  BY DEF LockInv
<1> QED
  BY <1>2

LEMMA LockEnter ==
    ASSUME DepsShape, LockInv, UNCHANGED <<graph, step, held, mtx>>, step \in Steps, at = "step", at' = "deps",
           todo' = Filtered(step), node' = [node EXCEPT ![step] = NewNode],
           \A x \in Steps : nodeLife'[x] = "runs" => nodeLife[x] = "runs"
    PROVE  LockInv'
<1>1. ~Entered(step) /\ node[step] = NoNode /\ ~Entering
  BY ShapeAt DEF Entered, Entering, Preparing
<1>2. \A x \in Steps : node'[x].locks = node[x].locks
  <2> SUFFICES ASSUME NEW x \in Steps PROVE node'[x].locks = node[x].locks
    OBVIOUS
  <2>1. node' = [node EXCEPT ![step] = NewNode] /\ node \in [Steps -> NodeType]
    BY DEF DepsShape, NodeTypes
  <2>2. NewNode.locks = {} /\ NoNode.locks = {}
    BY DEF NewNode, NoNode
  <2>3. CASE x = step
    BY <2>1, <2>2, <2>3, <1>1
  <2>4. CASE x # step
    BY <2>1, <2>4
  <2> QED
    BY <2>3, <2>4
<1>3. \A v : Treated(v)' <=> Treated(v)
  <2>1. Filtered(step)' = Filtered(step)
    BY SameProgram DEF Filtered
  <2> QED
    BY <2>1, <1>1 DEF Treated
<1>4. \A x \in Steps, v \in Variables : Seen(x, v, "mtx")' => Seen(x, v, "mtx")
  BY <1>3, SameSeen, ShapeAt
<1> QED
  BY <1>2, <1>4, LockKept

LEMMA LockParent ==
    ASSUME DepsShape, HashGood, LockInv, Parent
    PROVE  LockInv'
<1>s. step \in Nat
  BY ShapeAt
<1>1. CASE CreatePlain
  <2>1. /\ at = "step" /\ at' = "step" /\ step \in Steps /\ step' = step + 1
        /\ graph.does[step].deps = <<>>
        /\ UNCHANGED <<graph, node, held, mtx>> /\ nodeLife' = [nodeLife EXCEPT ![step] = "queued"]
    BY <1>1, ShapeAt DEF CreatePlain, Advance
  <2>2. \A x \in Steps : nodeLife'[x] = "runs" => nodeLife[x] = "runs"
    BY <2>1, ShapeAt
  <2>4. \A x \in Steps, v \in Variables : Seen(x, v, "mtx")' => Seen(x, v, "mtx")
    <3> SUFFICES ASSUME NEW x \in Steps, NEW v \in Variables PROVE Seen(x, v, "mtx")' => Seen(x, v, "mtx")
      OBVIOUS
    <3>1. \A k : Names(step, v, k) => Treated(v)
      BY <2>1 DEF Names, Filtered, First
    <3>2. ~Entering' /\ step' \in Nat
      BY <2>1, <1>s DEF Entering, Preparing
    <3> QED
      BY <2>1, <3>1, <3>2, SameSeen
  <2> QED
    BY <2>1, <2>2, <2>4, LockKept
<1>2. CASE CreateWithDeps
  <2>1. \A x \in Steps : nodeLife'[x] = "runs" => nodeLife[x] = "runs"
    BY <1>2, ShapeAt DEF CreateWithDeps
  <2> QED
    BY <1>2, <2>1, LockEnter DEF CreateWithDeps
<1>3. CASE WaitDeps
  <2>1. CASE tracked
    BY <1>3, <2>1, LockEnter DEF WaitDeps, running
  <2>2. CASE ~tracked
    <3>1. /\ at = "step" /\ at' = "step" /\ step \in Steps /\ step' = step + 1 /\ ~IsTask(step)
          /\ UNCHANGED <<graph, node, held, mtx, nodeLife>>
      BY <1>3, <2>2 DEF WaitDeps, running, Advance
    <3>2. \A x \in Steps, v \in Variables : Seen(x, v, "mtx")' => Seen(x, v, "mtx")
      <4> SUFFICES ASSUME NEW x \in Steps, NEW v \in Variables, Seen(x, v, "mtx")' PROVE Seen(x, v, "mtx")
        OBVIOUS
      <4>1. ~Entering'
        BY <3>1 DEF Entering, Preparing
      <4>2. Names(x, v, "mtx") /\ x < step + 1
        BY <3>1, <4>1, SameProgram DEF Seen, Treated
      <4>3. IsTask(x)
        BY <4>2, NamesOnce, ShapeAt
      <4> QED
        BY <3>1, <4>2, <4>3, ShapeAt DEF Seen
    <3> QED
      BY <3>1, <3>2, LockKept
  <2> QED
    BY <2>1, <2>2
<1>4. CASE NextDep
  <2>1. UNCHANGED <<graph, step, todo, node, nodeLife, held, mtx>> /\ at = "deps" /\ at' = "link"
    BY <1>4 DEF NextDep, running
  <2>2. \A v : Treated(v)' <=> Treated(v)
    BY <2>1, SameProgram DEF Treated, Entering, Preparing
  <2>3. \A x \in Steps, v \in Variables : Seen(x, v, "mtx")' => Seen(x, v, "mtx")
    BY <2>1, <2>2, <1>s, SameSeen
  <2> QED
    BY <2>1, <2>3, LockKept
<1>5. CASE Link
  <2>1. UNCHANGED <<graph, step, todo, nodeLife, held, mtx, at>> /\ at = "link" /\ step \in Steps
    BY <1>5, Linked1 DEF HashGood, running
  <2>2. \A v : Treated(v)' <=> Treated(v)
    BY <2>1, SameProgram DEF Treated, Entering, Preparing
  <2>3. \A x \in Steps, v \in Variables : Seen(x, v, "mtx")' => Seen(x, v, "mtx")
    BY <2>1, <2>2, <1>s, SameSeen
  <2>4. \A x \in Steps : node'[x].locks = node[x].locks
    BY <1>5, Linked1 DEF HashGood
  <2> QED
    BY <2>1, <2>3, <2>4, LockKept
<1>6. CASE UpdateHash
  <2>1. /\ UNCHANGED <<graph, step, nodeLife, held, mtx>> /\ step \in Steps /\ at = "link"
    BY <1>6, HashUpdated DEF HashGood
  <2>2. PICK i \in Filtered(step) \cap todo :
           /\ todo' = todo \ {i}
           /\ \A x \in Steps : node'[x].locks = IF x = step /\ KindOf(step, i) = "mtx"
                                                THEN node[x].locks \cup {VarOf(step, i)} ELSE node[x].locks
    BY <1>6, HashUpdated DEF HashGood
  <2>3. \A x \in Steps, w \in Variables : \A k : Seen(x, w, k)' <=>
                 Seen(x, w, k) \/ (x = step /\ w = VarOf(step, i) /\ k = KindOf(step, i))
    BY <1>6, <2>2, SeenAfterUpdate DEF HashGood
  <2>4. Steps' = Steps
    BY <2>1, SameSteps
  <2>5. nodeLife[step] # "runs"
    BY <2>1, ShapeAt DEF LifeAt, Entered, Entering, Preparing
  <2> SUFFICES ASSUME NEW x \in Steps
               PROVE  /\ held[x] \subseteq node'[x].locks
                      /\ nodeLife'[x] = "runs" => held[x] = node'[x].locks
                      /\ \A v \in Variables : Seen(x, v, "mtx")' => v \in node'[x].locks
    BY <2>1, <2>4 DEF LockInv
  <2>6. /\ held[x] \subseteq node[x].locks
        /\ nodeLife[x] = "runs" => held[x] = node[x].locks
        /\ \A v \in Variables : Seen(x, v, "mtx") => v \in node[x].locks
    BY DEF LockInv
  <2>7. held[x] \subseteq node'[x].locks
    BY <2>2, <2>6
  <2>8. nodeLife'[x] = "runs" => held[x] = node'[x].locks
    BY <2>1, <2>2, <2>5, <2>6
  <2>9. \A v \in Variables : Seen(x, v, "mtx")' => v \in node'[x].locks
    <3> SUFFICES ASSUME NEW v \in Variables, Seen(x, v, "mtx")' PROVE v \in node'[x].locks
      OBVIOUS
    <3>1. Seen(x, v, "mtx") \/ (x = step /\ v = VarOf(step, i) /\ "mtx" = KindOf(step, i))
      BY <2>3
    <3>2. node'[x].locks = IF x = step /\ KindOf(step, i) = "mtx"
                           THEN node[x].locks \cup {VarOf(step, i)} ELSE node[x].locks
      BY <2>2
    <3> QED
      BY <3>1, <3>2, <2>6
  <2> QED
    BY <2>7, <2>8, <2>9
<1>7. CASE Submit
  <2>1. /\ at = "deps" /\ todo = {} /\ step \in Steps
        /\ UNCHANGED <<graph, todo, held, mtx>>
        /\ \A x \in Steps : node'[x].locks = node[x].locks
        /\ \/ step' = step + 1 /\ at' = "step"
           \/ step' = step /\ at' = "wait"
    BY <1>7, Submitting
  <2>2. \A x \in Steps : nodeLife'[x] = "runs" => nodeLife[x] = "runs"
    <3>1. IsTask(step) => \E a \in {"blocked", "queued"} : nodeLife' = [nodeLife EXCEPT ![step] = a]
      BY <1>7, Submitting
    <3>2. ~IsTask(step) => nodeLife' = nodeLife
      BY <1>7, Submitting
    <3> QED
      BY <3>1, <3>2, ShapeAt
  <2>3. \A x \in Steps, v \in Variables : Seen(x, v, "mtx")' => Seen(x, v, "mtx")
    <3> SUFFICES ASSUME NEW x \in Steps, NEW v \in Variables PROVE Seen(x, v, "mtx")' => Seen(x, v, "mtx")
      OBVIOUS
    <3>1. \A k : Names(step, v, k) => Treated(v)
      BY <2>1 DEF Names, Treated, Entering, Preparing
    <3>2. CASE step' = step + 1 /\ at' = "step"
      <4>1. ~Entering' /\ step' \in Nat /\ graph' = graph
        BY <3>2, <2>1, <1>s DEF Entering, Preparing
      <4> QED
        BY <3>1, <3>2, <4>1, SameSeen
    <3>3. CASE step' = step /\ at' = "wait"
      <4>1. Treated(v)' <=> Treated(v)
        BY <2>1, <3>3, SameProgram DEF Treated, Entering, Preparing
      <4> QED
        BY <3>3, <4>1, <2>1, <1>s, SameSeen
    <3> QED
      BY <2>1, <3>2, <3>3
  <2> QED
    BY <2>1, <2>2, <2>3, LockKept
<1>8. CASE EndWait
  <2>1. /\ at = "wait" /\ at' = "step" /\ step' = step + 1 /\ step \in Steps /\ todo = {}
        /\ UNCHANGED <<graph, node, nodeLife, held, mtx>>
    BY <1>8, ShapeAt DEF EndWait, Advance, running, DepsShape, ParentPlaces, Entering
  <2>2. \A x \in Steps, v \in Variables : Seen(x, v, "mtx")' => Seen(x, v, "mtx")
    <3> SUFFICES ASSUME NEW x \in Steps, NEW v \in Variables PROVE Seen(x, v, "mtx")' => Seen(x, v, "mtx")
      OBVIOUS
    <3>1. \A k : Names(step, v, k) => Treated(v)
      BY <2>1 DEF Names, Treated, Entering, Preparing
    <3>2. ~Entering' /\ step' \in Nat
      BY <2>1, <1>s DEF Entering, Preparing
    <3> QED
      BY <2>1, <3>1, <3>2, SameSeen
  <2> QED
    BY <2>1, <2>2, LockKept
<1>9. CASE Ending
  <2>1. /\ UNCHANGED <<graph, step, todo, nodeLife, held, mtx>>
        /\ ~Entering /\ ~Entering'
        /\ UNCHANGED node \/ FreeEntries
    BY <1>9, EndingSteps
  <2>2. \A x \in Steps : node'[x].locks = node[x].locks
    BY <2>1, FreedEntries
  <2>3. \A x \in Steps, v \in Variables : Seen(x, v, "mtx")' => Seen(x, v, "mtx")
    BY <2>1, <1>s, SameSeen DEF Treated
  <2> QED
    BY <2>1, <2>2, <2>3, LockKept
<1> QED
  BY <1>1, <1>2, <1>3, <1>4, <1>5, <1>6, <1>7, <1>8, <1>9 DEF Parent, Ending

(* Tasks that neither take nor give back a lock.                             *)
LEMMA LockTurn ==
    ASSUME DepsShape, LockInv, UNCHANGED <<graph, creator, held, mtx>>,
           \A x \in Steps : /\ node'[x].locks = node[x].locks
                            /\ nodeLife'[x] = "runs" => nodeLife[x] = "runs" \/ node[x].locks = {}
    PROVE  LockInv'
<1>1. Steps' = Steps /\ \A x, v, k : Seen(x, v, k)' = Seen(x, v, k)
  BY ParentStays
<1> SUFFICES ASSUME NEW x \in Steps
             PROVE  /\ held[x] \subseteq node'[x].locks
                    /\ nodeLife'[x] = "runs" => held[x] = node'[x].locks
                    /\ \A v \in Variables : Seen(x, v, "mtx")' => v \in node'[x].locks
  BY <1>1 DEF LockInv
<1>2. /\ held[x] \subseteq node[x].locks /\ (nodeLife[x] = "runs" => held[x] = node[x].locks)
      /\ \A v \in Variables : Seen(x, v, "mtx") => v \in node[x].locks
  BY DEF LockInv
<1>3. nodeLife'[x] = "runs" => held[x] = node[x].locks
  BY <1>2
<1> QED
  BY <1>1, <1>2, <1>3

LEMMA LockFrom ==
    ASSUME UNCHANGED <<graph, creator, node>>,
           held' \in [Steps -> SUBSET Variables], mtx' \in [Variables -> Nat],
           \A y \in Steps : /\ held'[y] \subseteq node[y].locks
                            /\ \A w \in held'[y] : mtx'[w] = y
                            /\ nodeLife'[y] = "runs" => held'[y] = node[y].locks
                            /\ \A w \in Variables : Seen(y, w, "mtx") => w \in node[y].locks,
           \A w \in Variables : mtx'[w] # 0 => mtx'[w] \in Steps /\ w \in held'[mtx'[w]]
    PROVE  LockInv'
<1>1. Steps' = Steps /\ \A y, v, k : Seen(y, v, k)' = Seen(y, v, k)
  BY ParentStays
<1> SUFFICES ASSUME NEW y \in Steps
             PROVE  /\ held'[y] \subseteq node'[y].locks
                    /\ \A w \in held'[y] : mtx'[w] = y
                    /\ nodeLife'[y] = "runs" => held'[y] = node'[y].locks
                    /\ \A w \in Variables : Seen(y, w, "mtx")' => w \in node'[y].locks
  BY <1>1 DEF LockInv
<1> QED
  BY <1>1

LEMMA LockTask == ASSUME DepsShape, QueueInv, LockInv, NEW x \in Steps, Task(x) PROVE LockInv'
<1>0. /\ nodeLife \in [Steps -> Lives] /\ held \in [Steps -> SUBSET Variables] /\ mtx \in [Variables -> Nat]
      /\ node \in [Steps -> NodeType] /\ x \in Nat \ {0}
  BY ShapeAt DEF DepsShape, NodeTypes, LockInv
<1>1. CASE TryLocks(x)
  <2>1. PICK a \in {"runs", "locking"} : /\ nodeLife' = [nodeLife EXCEPT ![x] = a]
                                         /\ a = "runs" => node[x].locks = {}
    BY <1>1 DEF TryLocks, Becomes
  <2>2. \A y \in Steps : nodeLife'[y] = "runs" => nodeLife[y] = "runs" \/ node[y].locks = {}
    BY <2>1, <1>0
  <2> QED
    BY <1>1, <2>2, LockTurn DEF TryLocks
<1>2. CASE TestLock(x)
  <2>1. UNCHANGED <<graph, creator, node>>
    BY <1>2 DEF TestLock
  <2>2. PICK v \in node[x].locks \ held[x] :
          IF mtx[v] = 0
          THEN /\ mtx' = [mtx EXCEPT ![v] = x]
               /\ held' = [held EXCEPT ![x] = @ \cup {v}]
               /\ Becomes(x, IF node[x].locks = held[x] \cup {v} THEN "runs" ELSE "locking")
          ELSE /\ Becomes(x, IF held[x] = {} THEN "queued" ELSE "backing")
               /\ UNCHANGED <<mtx, held>>
    BY <1>2 DEF TestLock
  <2>3. CASE mtx[v] # 0
    <3>1. \A y \in Steps : nodeLife'[y] = "runs" => nodeLife[y] = "runs"
      BY <2>2, <2>3, <1>0 DEF Becomes
    <3> QED
      BY <3>1, <2>1, <2>2, <2>3, LockTurn
  <2>4. CASE mtx[v] = 0
    <3>1. v \in Variables
      BY <2>2, NodeFields DEF DepsShape
    <3>2. /\ mtx' = [mtx EXCEPT ![v] = x] /\ mtx' \in [Variables -> Nat]
          /\ held' = [held EXCEPT ![x] = @ \cup {v}] /\ held' \in [Steps -> SUBSET Variables]
      BY <2>2, <2>4, <3>1, <1>0
    <3>3. /\ mtx'[v] = x /\ \A w \in Variables : w # v => mtx'[w] = mtx[w]
          /\ held'[x] = held[x] \cup {v} /\ \A y \in Steps : y # x => held'[y] = held[y]
      BY <3>1, <3>2, <1>0
    <3>4. /\ nodeLife'[x] = IF node[x].locks = held[x] \cup {v} THEN "runs" ELSE "locking"
          /\ \A y \in Steps : y # x => nodeLife'[y] = nodeLife[y]
      BY <2>2, <2>4, <1>0 DEF Becomes
    <3>5. \A y \in Steps : /\ held'[y] \subseteq node[y].locks
                           /\ \A w \in held'[y] : mtx'[w] = y
                           /\ nodeLife'[y] = "runs" => held'[y] = node[y].locks
                           /\ \A w \in Variables : Seen(y, w, "mtx") => w \in node[y].locks
      <4> SUFFICES ASSUME NEW y \in Steps
                   PROVE  /\ held'[y] \subseteq node[y].locks
                          /\ \A w \in held'[y] : mtx'[w] = y
                          /\ nodeLife'[y] = "runs" => held'[y] = node[y].locks
                          /\ \A w \in Variables : Seen(y, w, "mtx") => w \in node[y].locks
        OBVIOUS
      <4>1. /\ held[y] \subseteq node[y].locks /\ held[y] \subseteq Variables
            /\ \A w \in held[y] : mtx[w] = y
            /\ nodeLife[y] = "runs" => held[y] = node[y].locks
            /\ \A w \in Variables : Seen(y, w, "mtx") => w \in node[y].locks
        BY <1>0 DEF LockInv
      <4>2. v \notin held[y]
        BY <4>1, <2>4, ShapeAt
      <4>3. CASE y = x
        BY <4>1, <4>2, <4>3, <3>3, <3>4, <2>2
      <4>4. CASE y # x
        BY <4>1, <4>2, <4>4, <3>3, <3>4
      <4> QED
        BY <4>3, <4>4
    <3>6. \A w \in Variables : mtx'[w] # 0 => mtx'[w] \in Steps /\ w \in held'[mtx'[w]]
      <4> SUFFICES ASSUME NEW w \in Variables, mtx'[w] # 0 PROVE mtx'[w] \in Steps /\ w \in held'[mtx'[w]]
        OBVIOUS
      <4>1. CASE w = v
        BY <4>1, <3>3
      <4>2. CASE w # v
        BY <4>2, <3>3 DEF LockInv
      <4> QED
        BY <4>1, <4>2
    <3> QED
      BY <2>1, <3>2, <3>5, <3>6, LockFrom
  <2> QED
    BY <2>3, <2>4
<1>3. ASSUME NEW a \in {"backing", "unlocking"}, NEW b \in {"queued", "ended"}, ReleaseLock(x, a, b) PROVE LockInv'
  <2>1. UNCHANGED <<graph, creator, node>> /\ nodeLife[x] = a
    BY <1>3 DEF ReleaseLock
  <2>2. PICK v \in held[x] : /\ mtx' = [mtx EXCEPT ![v] = 0]
                             /\ held' = [held EXCEPT ![x] = @ \ {v}]
                             /\ Becomes(x, IF held[x] = {v} THEN b ELSE a)
    BY <1>3 DEF ReleaseLock
  <2>3. v \in Variables /\ mtx[v] = x
    BY <2>2, <1>0 DEF LockInv
  <2>4. /\ mtx' \in [Variables -> Nat] /\ held' \in [Steps -> SUBSET Variables]
        /\ mtx'[v] = 0 /\ \A w \in Variables : w # v => mtx'[w] = mtx[w]
        /\ held'[x] = held[x] \ {v} /\ \A y \in Steps : y # x => held'[y] = held[y]
    BY <2>2, <2>3, <1>0
  <2>5. \A y \in Steps : nodeLife'[y] = "runs" => nodeLife[y] = "runs" /\ y # x
    BY <2>2, <1>0 DEF Becomes
  <2>6. \A y \in Steps : /\ held'[y] \subseteq node[y].locks
                         /\ \A w \in held'[y] : mtx'[w] = y
                         /\ nodeLife'[y] = "runs" => held'[y] = node[y].locks
                         /\ \A w \in Variables : Seen(y, w, "mtx") => w \in node[y].locks
    <3> SUFFICES ASSUME NEW y \in Steps
                 PROVE  /\ held'[y] \subseteq node[y].locks
                        /\ \A w \in held'[y] : mtx'[w] = y
                        /\ nodeLife'[y] = "runs" => held'[y] = node[y].locks
                        /\ \A w \in Variables : Seen(y, w, "mtx") => w \in node[y].locks
      OBVIOUS
    <3>1. /\ held[y] \subseteq node[y].locks /\ held[y] \subseteq Variables
          /\ \A w \in held[y] : mtx[w] = y
          /\ nodeLife[y] = "runs" => held[y] = node[y].locks
          /\ \A w \in Variables : Seen(y, w, "mtx") => w \in node[y].locks
      BY <1>0 DEF LockInv
    <3>2. CASE y = x
      BY <3>1, <3>2, <2>4, <2>5
    <3>3. CASE y # x
      <4>1. v \notin held[y]
        BY <3>1, <3>3, <2>3
      <4> QED
        BY <4>1, <3>1, <3>3, <2>4, <2>5
    <3> QED
      BY <3>2, <3>3
  <2>7. \A w \in Variables : mtx'[w] # 0 => mtx'[w] \in Steps /\ w \in held'[mtx'[w]]
    <3> SUFFICES ASSUME NEW w \in Variables, mtx'[w] # 0 PROVE mtx'[w] \in Steps /\ w \in held'[mtx'[w]]
      OBVIOUS
    <3>1. w # v /\ mtx'[w] = mtx[w]
      BY <2>4
    <3>2. mtx[w] \in Steps /\ w \in held[mtx[w]]
      BY <3>1 DEF LockInv
    <3> QED
      BY <3>1, <3>2, <2>4
  <2> QED
    BY <2>1, <2>4, <2>6, <2>7, LockFrom
<1>4. CASE EndOf(x) \/ UncountChild(x)
  <2>1. \E a \in {"unlocking", "ended", "releasing", "freeing"} : nodeLife' = [nodeLife EXCEPT ![x] = a]
    BY <1>4 DEF EndOf, UncountChild, Becomes
  <2>2. \A y \in Steps : nodeLife'[y] = "runs" => nodeLife[y] = "runs"
    BY <2>1, <1>0
  <2> QED
    BY <1>4, <2>2, LockTurn DEF EndOf, UncountChild
<1>5. CASE MarkFinished(x)
  <2>1. \A y \in Steps : node'[y].locks = node[y].locks /\ (nodeLife'[y] = "runs" => nodeLife[y] = "runs")
    BY <1>5, <1>0, MarkFinishedDoes
  <2> QED
    BY <1>5, <2>1, LockTurn, MarkFinishedDoes
<1>6. CASE Notify(x)
  <2>1. \E a \in {"queueing", "forgetting"} : nodeLife' = [nodeLife EXCEPT ![x] = a]
    BY <1>6, NotifyDoes
  <2>2. \A y \in Steps : node'[y].locks = node[y].locks
    BY <1>6, NotifyDoes
  <2>3. \A y \in Steps : nodeLife'[y] = "runs" => nodeLife[y] = "runs"
    BY <2>1, <1>0
  <2> QED
    BY <1>6, <2>2, <2>3, LockTurn, NotifyDoes
<1>7. CASE QueueSuccessor(x)
  <2>1. PICK s \in Steps :
           /\ UNCHANGED <<graph, creator, node, held, mtx>>
           /\ nodeLife'[x] = "forgetting"
           /\ \A y \in Steps \ {x, s} : nodeLife'[y] = nodeLife[y]
           /\ IsTask(s) => nodeLife'[s] = "queued"
           /\ ~IsTask(s) => nodeLife'[s] = nodeLife[s]
    BY <1>7, QueueSuccessorDoes
  <2>2. \A y \in Steps : nodeLife'[y] = "runs" => nodeLife[y] = "runs"
    BY <2>1
  <2> QED
    BY <2>1, <2>2, LockTurn
<1>8. CASE ForgetSuccessor(x)
  <2>1. \A y \in Steps : node'[y].locks = node[y].locks /\ (nodeLife'[y] = "runs" => nodeLife[y] = "runs")
    BY <1>8, <1>0, ForgetSuccessorDoes
  <2> QED
    BY <1>8, <2>1, LockTurn, ForgetSuccessorDoes
<1>9. CASE ForgetOwnNode(x)
  <2>1. \A y \in Steps : node'[y].locks = node[y].locks /\ (nodeLife'[y] = "runs" => nodeLife[y] = "runs")
    BY <1>9, <1>0, ForgetOwnNodeDoes
  <2> QED
    BY <1>9, <2>1, LockTurn, ForgetOwnNodeDoes
<1>10. CASE Freeing(x)
  <2>1. PICK a \in {"cleaning", "emptying", "freed"} : nodeLife' = [nodeLife EXCEPT ![x] = a]
    BY <1>10, FreeingDoes
  <2>2. UNCHANGED <<graph, creator, held, mtx>> /\ (UNCHANGED node \/ FreeEntries)
    BY <1>10, FreeingDoes
  <2>3. \A y \in Steps : node'[y].locks = node[y].locks
    BY <2>2, FreedEntries
  <2>4. \A y \in Steps : nodeLife'[y] = "runs" => nodeLife[y] = "runs"
    BY <2>1, <1>0
  <2> QED
    BY <2>2, <2>3, <2>4, LockTurn
<1> QED
  BY <1>1, <1>2, <1>3, <1>4, <1>5, <1>6, <1>7, <1>8, <1>9, <1>10
  DEF Task, BackOff, Unlock, Freeing

-----------------------------------------------------------------------------
(* The count of children, and who cleans the hash.                          *)

StillCounted == {"new", "blocked", "queued", "locking", "backing", "runs", "unlocking", "ended"}

LEMMA CountedAre == ASSUME DepsShape PROVE IsFiniteSet(Uncounted) /\ Cardinality(Uncounted) \in Nat
<1>1. Uncounted \subseteq Steps /\ IsFiniteSet(Steps)
  BY GraphSteps, ShapeAt DEF Uncounted
<1> QED
  BY <1>1, FS_Subset, FS_CardinalityType

LEMMA SameCounted ==
    ASSUME Steps' = Steps, \A x \in Steps : nodeLife'[x] \in StillCounted <=> nodeLife[x] \in StillCounted
    PROVE  Uncounted' = Uncounted
BY DEF Uncounted, StillCounted

LEMMA OneMoreCounted ==
    ASSUME DepsShape, Steps' = Steps, NEW x \in Steps, nodeLife[x] \notin StillCounted, NEW a \in StillCounted,
           nodeLife' = [nodeLife EXCEPT ![x] = a]
    PROVE  Cardinality(Uncounted') = Cardinality(Uncounted) + 1
<1>1. nodeLife'[x] = a /\ \A y \in Steps : y # x => nodeLife'[y] = nodeLife[y]
  BY ShapeAt
<1>2. Uncounted' = Uncounted \cup {x} /\ x \notin Uncounted
  BY <1>1 DEF Uncounted, StillCounted
<1>3. PICK S : S = Uncounted
  OBVIOUS
<1> QED
  BY <1>2, <1>3, CountedAre, OneMore

LEMMA OneLessCounted ==
    ASSUME DepsShape, Steps' = Steps, NEW x \in Steps, nodeLife[x] \in StillCounted, NEW a, a \notin StillCounted,
           nodeLife' = [nodeLife EXCEPT ![x] = a]
    PROVE  Cardinality(Uncounted') = Cardinality(Uncounted) - 1
<1>1. nodeLife'[x] = a /\ \A y \in Steps : y # x => nodeLife'[y] = nodeLife[y]
  BY ShapeAt
<1>2. Uncounted' = Uncounted \ {x} /\ x \in Uncounted
  BY <1>1 DEF Uncounted, StillCounted
<1>3. PICK S : S = Uncounted
  OBVIOUS
<1> QED
  BY <1>2, <1>3, CountedAre, OneLess

(* While the parent creates, nobody cleans.                                  *)
LEMMA CleanCreating ==
    ASSUME DepsShape', Creating', pending' = Cardinality(Uncounted')
    PROVE  CleanInv'
<1>1. \A x \in Steps' : nodeLife'[x] # "emptying"
  BY DEF DepsShape, LifeInv, LifeAt
<1>2. at' # "empty" /\ at' # "end" /\ complete' = FALSE
  BY DEF Creating, Entering, Preparing, DepsShape, ParentPlaces
<1> QED
  BY <1>1, <1>2 DEF CleanInv, Emptying

LEMMA NobodyEmpties ==
    ASSUME DepsShape, Creating
    PROVE  ~Emptying /\ complete = FALSE
BY DEF DepsShape, LifeInv, LifeAt, Emptying, Creating, Entering, Preparing, ParentPlaces

LEMMA PendingCreates ==
    ASSUME DepsShape, HashGood, pending = Cardinality(Uncounted), Parent
    PROVE  pending' = Cardinality(Uncounted') /\ (Ending \/ Creating')
<1>s. nodeLife \in [Steps -> Lives]
  BY ShapeAt
<1>1. CASE CreatePlain
  <2>1. nodeLife[step] = "none" /\ step \in Steps
    BY <1>1, ShapeAt DEF CreatePlain, LifeAt, Entered, Entering, Preparing
  <2>2. graph' = graph /\ pending' = pending + 1 /\ nodeLife' = [nodeLife EXCEPT ![step] = "queued"] /\ at' = "step"
    BY <1>1 DEF CreatePlain, Advance
  <2> QED
    BY <2>1, <2>2, OneMoreCounted, SameSteps DEF StillCounted, Creating
<1>2. CASE CreateWithDeps
  <2>1. nodeLife[step] = "none" /\ step \in Steps
    BY <1>2, ShapeAt DEF CreateWithDeps, LifeAt, Entered, Entering, Preparing
  <2>2. graph' = graph /\ pending' = pending + 1 /\ nodeLife' = [nodeLife EXCEPT ![step] = "new"] /\ at' = "deps"
    BY <1>2 DEF CreateWithDeps
  <2> QED
    BY <2>1, <2>2, OneMoreCounted, SameSteps DEF StillCounted, Creating, Entering, Preparing
<1>3. CASE WaitDeps \/ NextDep \/ Link \/ UpdateHash \/ EndWait
  <2>1. UNCHANGED <<graph, nodeLife, pending>> /\ at' \in {"step", "deps", "link"}
    BY <1>3 DEF WaitDeps, NextDep, Link, UpdateHash, EndWait, running, Advance
  <2> QED
    BY <2>1, SameCounted, SameSteps DEF Creating, Entering, Preparing
<1>4. CASE Submit
  <2>1. UNCHANGED <<graph, pending>> /\ at' \in {"step", "wait"} /\ step \in Steps /\ at = "deps"
    BY <1>4, Submitting
  <2>2. \A x \in Steps : nodeLife'[x] \in StillCounted <=> nodeLife[x] \in StillCounted
    <3>1. CASE IsTask(step)
      <4>1. nodeLife[step] = "new"
        BY <3>1, <2>1, ShapeAt DEF LifeAt, Preparing
      <4>2. \E a \in {"blocked", "queued"} : nodeLife' = [nodeLife EXCEPT ![step] = a]
        BY <1>4, <3>1, Submitting
      <4> QED
        BY <4>1, <4>2, <1>s DEF StillCounted
    <3>2. CASE ~IsTask(step)
      BY <1>4, <3>2, Submitting
    <3> QED
      BY <3>1, <3>2
  <2> QED
    BY <2>1, <2>2, SameCounted, SameSteps DEF Creating, Entering, Preparing
<1>5. CASE Ending
  BY <1>5, EndingSteps, SameCounted, SameSteps
<1> QED
  BY <1>1, <1>2, <1>3, <1>4, <1>5 DEF Parent, Ending

LEMMA CleanEnding == ASSUME DepsShape, HashGood, CleanInv, Ending PROVE CleanInv'
<1>1. UNCHANGED <<graph, step, tracked, nodeLife, pending>> /\ ~Creating' /\ Steps' = Steps
      /\ \A x : IsTask(x)' = IsTask(x)
  BY EndingSteps, SameSteps
<1>2. pending' = Cardinality(Uncounted')
  BY <1>1, SameCounted DEF CleanInv
<1>3. CASE EndExplicit
  <2>1. ~Emptying /\ complete = FALSE
    BY <1>3, NobodyEmpties DEF EndExplicit, Creating
  <2>2. at' = "end" /\ complete' = FALSE /\ HashIsEmpty'
    BY <1>3, <2>1, HashEmptied DEF EndExplicit
  <2>3. ~Emptying'
    BY <1>1, <2>1, <2>2 DEF Emptying
  <2> QED
    BY <1>1, <1>2, <2>1, <2>2, <2>3 DEF CleanInv, Emptying
<1>4. CASE EndImplicit
  <2>1. ~Emptying /\ complete = FALSE
    BY <1>4, NobodyEmpties DEF EndImplicit, Creating
  <2>2. at' \in {"mark", "end"} /\ (at' = "end" => complete' = FALSE) /\ hash' = hash /\ (complete' \/ ~tracked)
    BY <1>4, <2>1 DEF EndImplicit
  <2>3. ~Emptying'
    BY <1>1, <2>1, <2>2 DEF Emptying
  <2>4. ~complete' => HashIsEmpty'
    BY <2>2 DEF HashGood, TrackedInv, HashIsEmpty, LastOut
  <2> QED
    BY <1>1, <1>2, <2>1, <2>2, <2>3, <2>4 DEF CleanInv, Emptying
<1>5. CASE LookForChildren
  <2>1. /\ at = "mark" /\ at' = (IF pending = 0 /\ complete THEN "clean" ELSE "end")
        /\ UNCHANGED <<hash, complete>> /\ ~Creating
    BY <1>5 DEF LookForChildren, Creating, Entering, Preparing
  <2>2. Emptying' <=> Emptying
    BY <1>1, <2>1 DEF Emptying
  <2>3. complete /\ at' = "end" => \E x \in Steps : IsTask(x) /\ nodeLife[x] # "freed"
    <3> SUFFICES ASSUME complete, at' = "end" PROVE \E x \in Steps : IsTask(x) /\ nodeLife[x] # "freed"
      OBVIOUS
    <3>1. pending # 0
      BY <2>1
    <3>2. Uncounted # {}
      BY <3>1, FS_EmptySet DEF CleanInv
    <3>3. PICK x \in Steps : nodeLife[x] \in StillCounted
      BY <3>2 DEF Uncounted, StillCounted
    <3> QED
      BY <3>3, ShapeAt DEF LifeAt, StillCounted
  <2>4. HashIsEmpty => HashIsEmpty'
    BY <2>1 DEF HashIsEmpty, LastOut
  <2> QED
    BY <1>1, <1>2, <2>1, <2>2, <2>3, <2>4 DEF CleanInv
<1>6. CASE ParentCleans
  <2>1. /\ at = "clean" /\ at' = (IF complete THEN "empty" ELSE "end") /\ complete' = FALSE
        /\ UNCHANGED hash /\ ~Creating
    BY <1>6 DEF ParentCleans, Clean, MarkTaken, Creating, Entering, Preparing, DepsShape, ParentPlaces
  <2>2. CASE complete
    <3>1. at' = "empty" /\ ~Emptying
      BY <2>1, <2>2 DEF CleanInv
    <3> QED
      BY <1>1, <1>2, <2>1, <2>2, <3>1 DEF CleanInv, Emptying
  <2>3. CASE ~complete
    <3>1. at' = "end" /\ (Emptying' <=> Emptying)
      BY <1>1, <2>1, <2>3 DEF Emptying
    <3>2. HashIsEmpty => HashIsEmpty'
      BY <2>1 DEF HashIsEmpty, LastOut
    <3> QED
      BY <1>1, <1>2, <2>1, <2>3, <3>1, <3>2 DEF CleanInv
  <2> QED
    BY <2>2, <2>3
<1>7. CASE ParentEmpties
  <2>1. at = "empty" /\ at' = "end" /\ complete' = complete /\ HashIsEmpty'
    BY <1>7, HashEmptied DEF ParentEmpties
  <2>2. ~complete /\ \A x \in Steps : nodeLife[x] # "emptying"
    BY <2>1 DEF CleanInv, Emptying
  <2> QED
    BY <1>1, <1>2, <2>1, <2>2 DEF CleanInv, Emptying
<1> QED
  BY <1>3, <1>4, <1>5, <1>6, <1>7 DEF Ending

LEMMA CleanParent ==
    ASSUME DepsShape, HashGood, CleanInv, Parent, DepsShape' PROVE CleanInv'
<1>1. pending' = Cardinality(Uncounted') /\ (Ending \/ Creating')
  BY PendingCreates DEF CleanInv
<1>2. CASE Creating'
  BY <1>1, <1>2, CleanCreating
<1>3. CASE Ending
  BY <1>3, CleanEnding
<1> QED
  BY <1>1, <1>2, <1>3

(* Tasks count down when they have ended, and only then.                     *)
LEMMA PendingTask ==
    ASSUME DepsShape, QueueInv, pending = Cardinality(Uncounted), NEW x \in Steps, Task(x)
    PROVE  pending' = Cardinality(Uncounted')
<1>s. nodeLife \in [Steps -> Lives] /\ Steps' = Steps
  BY ShapeAt, TaskKeeps, SameSteps
<1>1. ASSUME pending' = pending, NEW a, nodeLife' = [nodeLife EXCEPT ![x] = a],
             a \in StillCounted <=> nodeLife[x] \in StillCounted
      PROVE  pending' = Cardinality(Uncounted')
  <2>1. \A y \in Steps : nodeLife'[y] \in StillCounted <=> nodeLife[y] \in StillCounted
    BY <1>1, <1>s
  <2> QED
    BY <2>1, <1>1, <1>s, SameCounted
<1>2. CASE TryLocks(x) \/ TestLock(x) \/ BackOff(x) \/ EndOf(x) \/ Unlock(x)
  <2>1. nodeLife[x] \in StillCounted /\ pending' = pending
    BY <1>2 DEF TryLocks, TestLock, BackOff, EndOf, Unlock, ReleaseLock, StillCounted
  <2>2. \E a \in StillCounted : nodeLife' = [nodeLife EXCEPT ![x] = a]
    BY <1>2 DEF TryLocks, TestLock, BackOff, EndOf, Unlock, ReleaseLock, StillCounted, Becomes
  <2> QED
    BY <2>1, <2>2, <1>1
<1>3. CASE UncountChild(x)
  <2>1. nodeLife[x] \in StillCounted /\ pending' = pending - 1
    BY <1>3 DEF UncountChild, StillCounted
  <2>2. \E a \in {"releasing", "freeing"} : nodeLife' = [nodeLife EXCEPT ![x] = a]
    BY <1>3 DEF UncountChild, Becomes
  <2> QED
    BY <2>1, <2>2, <1>s, OneLessCounted DEF StillCounted
<1>4. CASE MarkFinished(x) \/ Notify(x) \/ ForgetSuccessor(x) \/ ForgetOwnNode(x) \/ Freeing(x)
  <2>1. nodeLife[x] \notin StillCounted /\ pending' = pending
    BY <1>4, FreeingDoes DEF MarkFinished, Notify, ForgetSuccessor, ForgetOwnNode, StillCounted
  <2>2. \E a : a \notin StillCounted /\ nodeLife' = [nodeLife EXCEPT ![x] = a]
    <3>1. \E a \in {"notifying", "queueing", "forgetting", "freeing", "cleaning", "emptying", "freed"} :
             nodeLife' = [nodeLife EXCEPT ![x] = a]
      BY <1>4, FreeingDoes DEF MarkFinished, Notify, ForgetSuccessor, ForgetOwnNode, Becomes
    <3> QED
      BY <3>1 DEF StillCounted
  <2> QED
    BY <2>1, <2>2, <1>1
<1>5. CASE QueueSuccessor(x)
  <2>1. PICK s \in Steps :
           /\ pending' = pending /\ nodeLife[x] = "queueing"
           /\ nodeLife'[x] = "forgetting"
           /\ \A y \in Steps \ {x, s} : nodeLife'[y] = nodeLife[y]
           /\ IsTask(s) => nodeLife[s] = "blocked" /\ nodeLife'[s] = "queued"
           /\ ~IsTask(s) => nodeLife'[s] = nodeLife[s]
    BY <1>5, QueueSuccessorDoes
  <2>2. \A y \in Steps : nodeLife'[y] \in StillCounted <=> nodeLife[y] \in StillCounted
    BY <2>1 DEF StillCounted
  <2> QED
    BY <2>1, <2>2, <1>s, SameCounted
<1> QED
  BY <1>2, <1>3, <1>4, <1>5 DEF Task, Freeing

(* No task comes to its end, or leaves it.                                   *)
LEMMA CleanTurn ==
    ASSUME DepsShape, CleanInv, UNCHANGED <<graph, at, complete, hash>>, Creating' = Creating,
           pending' = Cardinality(Uncounted'),
           \A y \in Steps : /\ nodeLife'[y] = "emptying" <=> nodeLife[y] = "emptying"
                            /\ nodeLife'[y] = "freed" => nodeLife[y] = "freed"
    PROVE  CleanInv'
<1>1. Steps' = Steps /\ \A x : IsTask(x)' = IsTask(x)
  BY SameSteps
<1>2. Emptying' <=> Emptying
  BY <1>1 DEF Emptying
<1>3. HashIsEmpty => HashIsEmpty'
  BY DEF HashIsEmpty, LastOut
<1> QED
  BY <1>1, <1>2, <1>3 DEF CleanInv

LEMMA CleanFreeing ==
    ASSUME DepsShape, CleanInv, NEW x \in Steps, Freeing(x), ~Creating, pending' = Cardinality(Uncounted') PROVE CleanInv'
<1>s. /\ nodeLife \in [Steps -> Lives] /\ Steps' = Steps /\ (\A y : IsTask(y)' = IsTask(y))
      /\ UNCHANGED <<graph, at, pending, tracked>> /\ Creating' = Creating /\ ~Creating' /\ complete \in BOOLEAN
      /\ complete => tracked /\ Implicit
      /\ nodeLife[x] \in {"freeing", "cleaning", "emptying"}
  BY ShapeAt, FreeingDoes, ParentStays, SameSteps DEF DepsShape, ParentPlaces
<1>1. CASE DropTask(x) /\ nodeLife' = [nodeLife EXCEPT ![x] = "cleaning"]
  <2>1. nodeLife[x] = "freeing" /\ UNCHANGED <<complete, hash>>
    BY <1>1 DEF DropTask
  <2>2. \A y \in Steps : /\ nodeLife'[y] = "emptying" <=> nodeLife[y] = "emptying"
                         /\ nodeLife'[y] = "freed" => nodeLife[y] = "freed"
    BY <1>1, <2>1, <1>s
  <2> QED
    BY <1>s, <2>1, <2>2, CleanTurn
<1>2. CASE DropTask(x) /\ nodeLife' # [nodeLife EXCEPT ![x] = "cleaning"]
  <2>1. /\ nodeLife[x] = "freeing" /\ UNCHANGED <<complete, hash>> /\ nodeLife' = [nodeLife EXCEPT ![x] = "freed"]
        /\ ~(Implicit /\ tracked /\ pending = 0 /\ complete)
    BY <1>2 DEF DropTask, Becomes
  <2>2. /\ nodeLife'[x] = "freed"
        /\ \A y \in Steps : y # x => nodeLife'[y] = nodeLife[y]
    BY <2>1, <1>s
  <2>3. Emptying' <=> Emptying
    BY <2>1, <2>2, <1>s DEF Emptying
  <2>4. complete => \E y \in Steps : IsTask(y) /\ nodeLife'[y] # "freed"
    <3> SUFFICES ASSUME complete PROVE \E y \in Steps : IsTask(y) /\ nodeLife'[y] # "freed"
      OBVIOUS
    <3>1. pending # 0
      BY <2>1, <1>s
    <3>2. Uncounted # {}
      BY <3>1, FS_EmptySet DEF CleanInv
    <3>3. PICK y \in Steps : nodeLife[y] \in StillCounted
      BY <3>2 DEF Uncounted, StillCounted
    <3>4. y # x /\ IsTask(y)
      BY <3>3, <2>1, ShapeAt DEF StillCounted, LifeAt
    <3> QED
      BY <3>3, <3>4, <2>2 DEF StillCounted
  <2>5. HashIsEmpty => HashIsEmpty'
    BY <2>1 DEF HashIsEmpty, LastOut
  <2>6. \A y \in Steps : nodeLife'[y] = "emptying" => nodeLife[y] = "emptying"
    BY <2>2
  <2> QED
    BY <1>s, <2>1, <2>3, <2>4, <2>5, <2>6 DEF CleanInv
<1>3. CASE TaskCleans(x) /\ complete
  <2>1. complete' = FALSE /\ nodeLife' = [nodeLife EXCEPT ![x] = "emptying"]
    BY <1>3 DEF TaskCleans, Clean, MarkTaken, Becomes
  <2>2. /\ nodeLife'[x] = "emptying"
        /\ \A y \in Steps : y # x => nodeLife'[y] = nodeLife[y]
    BY <2>1, <1>s
  <2>3. at # "empty" /\ \A y \in Steps : nodeLife[y] # "emptying"
    BY <1>3 DEF CleanInv, Emptying
  <2>4. Emptying'
    BY <1>s, <2>2 DEF Emptying
  <2> QED
    BY <1>s, <2>1, <2>2, <2>3, <2>4 DEF CleanInv
<1>4. CASE TaskCleans(x) /\ ~complete
  <2>1. complete' = FALSE /\ nodeLife' = [nodeLife EXCEPT ![x] = "freed"] /\ nodeLife[x] = "cleaning" /\ hash' = hash
    BY <1>4, <1>s DEF TaskCleans, Clean, MarkTaken, Becomes
  <2>2. /\ nodeLife'[x] = "freed"
        /\ \A y \in Steps : y # x => nodeLife'[y] = nodeLife[y]
    BY <2>1, <1>s
  <2>3. Emptying' <=> Emptying
    BY <2>1, <2>2, <1>s DEF Emptying
  <2>4. HashIsEmpty => HashIsEmpty'
    BY <2>1 DEF HashIsEmpty, LastOut
  <2>5. \A y \in Steps : nodeLife'[y] = "emptying" => nodeLife[y] = "emptying"
    BY <2>2
  <2> QED
    BY <1>s, <1>4, <2>1, <2>3, <2>4, <2>5 DEF CleanInv
<1>5. CASE TaskEmpties(x)
  <2>1. complete' = complete /\ nodeLife' = [nodeLife EXCEPT ![x] = "freed"] /\ nodeLife[x] = "emptying" /\ HashIsEmpty'
    BY <1>5, HashEmptied DEF TaskEmpties, Becomes
  <2>2. /\ nodeLife'[x] = "freed"
        /\ \A y \in Steps : y # x => nodeLife'[y] = nodeLife[y]
    BY <2>1, <1>s
  <2>3. ~complete /\ at # "empty"
    BY <2>1 DEF CleanInv, Emptying
  <2>5. \A y \in Steps : nodeLife'[y] = "emptying" => nodeLife[y] = "emptying"
    BY <2>2
  <2> QED
    BY <1>s, <2>1, <2>3, <2>5 DEF CleanInv, Emptying
<1> QED
  BY <1>1, <1>2, <1>3, <1>4, <1>5 DEF Freeing

LEMMA CleanTask ==
    ASSUME DepsShape, QueueInv, CleanInv, NEW x \in Steps, Task(x), DepsShape' PROVE CleanInv'
<1>1. pending' = Cardinality(Uncounted')
  BY PendingTask DEF CleanInv
<1>2. /\ nodeLife \in [Steps -> Lives] /\ UNCHANGED <<graph, at>> /\ Creating' = Creating
  BY ShapeAt, TaskKeeps, ParentStays
<1>3. CASE Creating
  BY <1>1, <1>2, <1>3, CleanCreating
<1>4. CASE ~Creating /\ Freeing(x)
  BY <1>1, <1>4, CleanFreeing
<1>5. CASE Quiet(x) \/ MarkFinished(x) \/ Notify(x) \/ ForgetSuccessor(x) \/ ForgetOwnNode(x)
  <2>1. \E a \in Unreleased \cup {"notifying", "queueing", "forgetting", "freeing"} :
           nodeLife' = [nodeLife EXCEPT ![x] = a]
    BY <1>5, QuietMoves DEF MarkFinished, Notify, ForgetSuccessor, ForgetOwnNode, Becomes
  <2>2. nodeLife[x] # "emptying" /\ UNCHANGED <<complete, hash>>
    BY <1>5, QuietMoves DEF MarkFinished, Notify, ForgetSuccessor, ForgetOwnNode, Unreleased
  <2>3. \A y \in Steps : /\ nodeLife'[y] = "emptying" <=> nodeLife[y] = "emptying"
                         /\ nodeLife'[y] = "freed" => nodeLife[y] = "freed"
    BY <2>1, <2>2, <1>2 DEF Unreleased
  <2> QED
    BY <1>1, <1>2, <2>2, <2>3, CleanTurn
<1>6. CASE QueueSuccessor(x)
  <2>1. PICK s \in Steps :
           /\ UNCHANGED <<hash, complete>> /\ nodeLife[x] = "queueing"
           /\ nodeLife'[x] = "forgetting"
           /\ \A y \in Steps \ {x, s} : nodeLife'[y] = nodeLife[y]
           /\ IsTask(s) => nodeLife[s] = "blocked" /\ nodeLife'[s] = "queued"
           /\ ~IsTask(s) => nodeLife'[s] = nodeLife[s]
    BY <1>6, QueueSuccessorDoes
  <2>2. \A y \in Steps : /\ nodeLife'[y] = "emptying" <=> nodeLife[y] = "emptying"
                         /\ nodeLife'[y] = "freed" => nodeLife[y] = "freed"
    BY <2>1
  <2> QED
    BY <1>1, <1>2, <2>1, <2>2, CleanTurn
<1> QED
  BY <1>3, <1>4, <1>5, <1>6 DEF Task, Quiet, Freeing

-----------------------------------------------------------------------------
(* The references to nodes.                                                  *)

(* Those of one entry, and those of the rest.                                *)
OfEntry(v, H) == {v} \X H

LEMMA SplitHash ==
    ASSUME NEW A, IsFiniteSet(A), NEW v, NEW H, IsFiniteSet(H), \A l : <<v, l>> \notin A
    PROVE  Cardinality(A \cup OfEntry(v, H)) = Cardinality(A) + Cardinality(H)
<1>0. PICK B : B = OfEntry(v, H) /\ B = {v} \X H
  BY DEF OfEntry
<1>1. IsFiniteSet({v}) /\ Cardinality({v}) = 1
  BY FS_Singleton
<1>2. Cardinality(H) \in Nat /\ Cardinality(A) \in Nat
  BY FS_CardinalityType
<1>3. IsFiniteSet({v} \X H) /\ Cardinality({v} \X H) = Cardinality({v}) * Cardinality(H)
  BY <1>1, FS_Product
<1>4. Cardinality({v} \X H) = Cardinality(H)
  BY <1>1, <1>2, <1>3
<1>5. A \cap B = {}
  BY <1>0
<1>6. IsFiniteSet(B) /\ Cardinality(B) = Cardinality(H)
  BY <1>0, <1>3, <1>4
<1>7. Cardinality(A \cup B) = Cardinality(A) + Cardinality(B) - Cardinality({})
  BY <1>5, <1>6, FS_Union
<1> QED
  BY <1>0, <1>2, <1>6, <1>7, FS_EmptySet

LEMMA InHashAfter ==
    ASSUME hash \in [Variables -> EntryType], NEW v \in Variables, NEW n, hash' = [hash EXCEPT ![v] = n], NEW x
    PROVE  Cardinality(InHash(x)') = Cardinality(InHash(x)) + Cardinality(Held(n, x)) - Cardinality(Held(hash[v], x))
<1>1. PICK A : A = {e \in Variables \X {"out", "ins", "mtxs"} : e[1] # v /\ e[2] \in Held(hash[e[1]], x)}
  OBVIOUS
<1>2. PICK H : H = Held(hash[v], x)
  OBVIOUS
<1>3. PICK N : N = Held(n, x)
  OBVIOUS
<1>4. H \subseteq {"out", "ins", "mtxs"} /\ N \subseteq {"out", "ins", "mtxs"}
  BY <1>2, <1>3 DEF Held
<1>5. InHash(x) = A \cup OfEntry(v, H)
  <2>1. \A e \in Variables \X {"out", "ins", "mtxs"} :
           e[2] \in Held(hash[e[1]], x) <=> e \in A \/ e \in {v} \X H
    <3>p. ASSUME NEW w \in Variables, NEW l \in {"out", "ins", "mtxs"}
          PROVE  l \in Held(hash[w], x) <=> <<w, l>> \in A \/ <<w, l>> \in {v} \X H
      BY <1>1, <1>2
    <3>e. ASSUME NEW e \in Variables \X {"out", "ins", "mtxs"}
          PROVE  e[2] \in Held(hash[e[1]], x) <=> e \in A \/ e \in {v} \X H
      <4>1. PICK w \in Variables, l \in {"out", "ins", "mtxs"} : e = <<w, l>>
        OBVIOUS
      <4>2. e[1] = w /\ e[2] = l
        BY <4>1
      <4> QED
        BY <3>p, <4>1, <4>2, Zenon
    <3> QED
      BY <3>e
  <2>2. A \subseteq Variables \X {"out", "ins", "mtxs"} /\ {v} \X H \subseteq Variables \X {"out", "ins", "mtxs"}
    BY <1>1, <1>4
  <2> QED
    BY <2>1, <2>2 DEF InHash, OfEntry
<1>6. InHash(x)' = A \cup OfEntry(v, N)
  <2>1. \A e \in Variables \X {"out", "ins", "mtxs"} :
           e[2] \in Held(hash'[e[1]], x) <=> e \in A \/ e \in {v} \X N
    <3>p. ASSUME NEW w \in Variables, NEW l \in {"out", "ins", "mtxs"}
          PROVE  l \in Held(hash'[w], x) <=> <<w, l>> \in A \/ <<w, l>> \in {v} \X N
      <4>1. CASE w = v
        BY <4>1, <1>1, <1>3
      <4>2. CASE w # v
        <5>1. hash'[w] = hash[w]
          BY <4>2
        <5> QED
          BY <4>2, <5>1, <1>1
      <4> QED
        BY <4>1, <4>2
    <3>e. ASSUME NEW e \in Variables \X {"out", "ins", "mtxs"}
          PROVE  e[2] \in Held(hash'[e[1]], x) <=> e \in A \/ e \in {v} \X N
      <4>1. PICK w \in Variables, l \in {"out", "ins", "mtxs"} : e = <<w, l>>
        OBVIOUS
      <4>2. e[1] = w /\ e[2] = l
        BY <4>1
      <4> QED
        BY <3>p, <4>1, <4>2, Zenon
    <3> QED
      BY <3>e
  <2>2. A \subseteq Variables \X {"out", "ins", "mtxs"} /\ {v} \X N \subseteq Variables \X {"out", "ins", "mtxs"}
    BY <1>1, <1>4
  <2> QED
    BY <2>1, <2>2 DEF InHash, OfEntry
<1>7. IsFiniteSet(A) /\ \A l : <<v, l>> \notin A
  <2>1. A \subseteq InHash(x)
    BY <1>5 DEF OfEntry
  <2> QED
    BY <2>1, <1>1, FewInHash, FS_Subset
<1>8. IsFiniteSet(H) /\ IsFiniteSet(N) /\ Cardinality(H) \in Nat /\ Cardinality(N) \in Nat /\ Cardinality(A) \in Nat
  BY <1>2, <1>3, <1>7, FewHeld, FS_CardinalityType
<1>9. Cardinality(InHash(x)) = Cardinality(A) + Cardinality(H)
  BY <1>5, <1>7, <1>8, SplitHash
<1>10. Cardinality(InHash(x)') = Cardinality(A) + Cardinality(N)
  BY <1>6, <1>7, <1>8, SplitHash
<1> QED
  BY <1>2, <1>3, <1>8, <1>9, <1>10

LEMMA NoneInHash ==
    ASSUME HashIsEmpty, NEW x
    PROVE  InHash(x) = {} /\ Cardinality(InHash(x)) = 0
<1>1. \A v \in Variables : Held(hash[v], x) = {}
  BY DEF HashIsEmpty, Held
<1>2. \A e \in Variables \X {"out", "ins", "mtxs"} : e[2] \notin Held(hash[e[1]], x)
  BY <1>1
<1> QED
  BY <1>2, FS_EmptySet DEF InHash

HashRefs(x) == IF Emptying THEN 0 ELSE Cardinality(InHash(x))

LEMMA SameHashRefs ==
    ASSUME UNCHANGED hash, Emptying' <=> Emptying, NEW x
    PROVE  HashRefs(x)' = HashRefs(x)
BY DEF HashRefs, InHash, Held, LastOut

(* The links of which a reference is left.                                   *)
SameLinks == \A p \in Steps : Listed(p)' = Listed(p) /\ node'[p].succ = node[p].succ

LEMMA ListedKept ==
    ASSUME NEW p, node'[p].succ = node[p].succ, left'[p] = left[p],
           nodeLife'[p] \in Released <=> nodeLife[p] \in Released
    PROVE  Listed(p)' = Listed(p)
BY DEF Listed, Released

LEMMA LinksWere ==
    ASSUME NEW y
    PROVE  /\ \A p \in Steps : \A i : (i \in 1..Listed(p) /\ node[p].succ[i] = y) <=> <<p, i>> \in LinksTo(y)
           /\ \A e \in LinksTo(y) : \E p \in Steps : \E i : e = <<p, i>>
<1>1. ASSUME NEW e \in LinksTo(y) PROVE \E p \in Steps : \E i \in 1..Listed(p) : e = <<p, i>> /\ node[p].succ[i] = y
  BY <1>1 DEF LinksTo
<1>2. ASSUME NEW p \in Steps, NEW i \in 1..Listed(p), node[p].succ[i] = y PROVE <<p, i>> \in LinksTo(y)
  <2>1. PICK T : T = {<<p, j>> : j \in {k \in 1..Listed(p) : node[p].succ[k] = y}}
    OBVIOUS
  <2>2. <<p, i>> \in T
    BY <1>2, <2>1
  <2> QED
    BY <2>1, <2>2 DEF LinksTo
<1> QED
  BY <1>1, <1>2

LEMMA LinksAre ==
    ASSUME Steps' = Steps, NEW y, NEW S,
           \A p \in Steps : \A i : (i \in 1..Listed(p)' /\ node'[p].succ[i] = y) <=> <<p, i>> \in S,
           \A e \in S : \E p \in Steps : \E i : e = <<p, i>>
    PROVE  LinksTo(y)' = S
<1>1. ASSUME NEW e \in LinksTo(y)' PROVE e \in S
  <2>1. \E p \in Steps : \E i \in 1..Listed(p)' : e = <<p, i>> /\ node'[p].succ[i] = y
    BY <1>1 DEF LinksTo
  <2> QED
    BY <2>1
<1>2. ASSUME NEW e \in S PROVE e \in LinksTo(y)'
  <2>1. PICK p \in Steps : \E i : e = <<p, i>>
    BY <1>2
  <2>2. PICK i : e = <<p, i>>
    BY <2>1
  <2>3. i \in 1..Listed(p)' /\ node'[p].succ[i] = y
    BY <1>2, <2>1, <2>2
  <2>4. PICK T : T = {<<p, j>> : j \in {k \in 1..Listed(p)' : node'[p].succ[k] = y}}
    OBVIOUS
  <2>5. <<p, i>> \in T
    BY <2>3, <2>4
  <2> QED
    BY <2>1, <2>2, <2>4, <2>5 DEF LinksTo
<1> QED
  BY <1>1, <1>2

LEMMA LinksSame == ASSUME Steps' = Steps, SameLinks PROVE \A y : LinksTo(y)' = LinksTo(y)
BY DEF SameLinks, LinksTo

LEMMA OwnIs == ASSUME NEW x PROVE Own(x) \in {0, 1}
BY DEF Own

LEMMA RefsFrom ==
    ASSUME DepsShape, RefsInv, graph' = graph, SameLinks,
           \A x \in Steps : IsTask(x) => node'[x].refs = node[x].refs + (Own(x)' - Own(x)) + (HashRefs(x)' - HashRefs(x))
    PROVE  RefsInv'
<1>1. Steps' = Steps /\ \A x : IsTask(x)' = IsTask(x)
  BY SameSteps
<1> SUFFICES ASSUME NEW x \in Steps
             PROVE  /\ IsFiniteSet(LinksTo(x)')
                    /\ IsTask(x) => node'[x].refs = Own(x)' + References(x)'
  BY <1>1 DEF RefsInv
<1>2. LinksTo(x)' = LinksTo(x) /\ IsFiniteSet(LinksTo(x)) /\ Cardinality(LinksTo(x)) \in Nat
  BY <1>1, LinksSame, FS_CardinalityType DEF RefsInv
<1>3. HashRefs(x) \in Nat /\ HashRefs(x)' \in Nat
  <2>1. Cardinality(InHash(x)) \in Nat
    BY FewInHash
  <2>2. HashRefs(x) \in Nat
    BY <2>1 DEF HashRefs
  <2>3. Cardinality(InHash(x)') \in Nat
    <3>1. InHash(x)' \subseteq Variables \X {"out", "ins", "mtxs"}
      BY DEF InHash
    <3>2. IsFiniteSet(Variables \X {"out", "ins", "mtxs"})
      BY FewLists, FS_Product, DepsAssumption
    <3> QED
      BY <3>1, <3>2, FS_Subset, FS_CardinalityType
  <2>4. HashRefs(x)' \in Nat
    BY <2>3 DEF HashRefs
  <2> QED
    BY <2>2, <2>4
<1>4. Own(x) \in {0, 1} /\ Own(x)' \in {0, 1}
  BY DEF Own
<1>5. IsTask(x) => node[x].refs = Own(x) + (HashRefs(x) + Cardinality(LinksTo(x)))
  BY DEF RefsInv, References, HashRefs
<1>6. References(x)' = HashRefs(x)' + Cardinality(LinksTo(x)')
  BY DEF References, HashRefs
<1>7. IsTask(x) => node'[x].refs = Own(x)' + References(x)'
  BY <1>2, <1>3, <1>4, <1>5, <1>6
<1> QED
  BY <1>2, <1>7

(* Lives and nodes stay as far as references go.                             *)
LEMMA RefsStay ==
    ASSUME DepsShape, RefsInv, UNCHANGED <<graph, hash, left>>, Emptying' <=> Emptying,
           \A x \in Steps : /\ node'[x].succ = node[x].succ
                            /\ IsTask(x) => node'[x].refs = node[x].refs
                            /\ nodeLife'[x] \in Released <=> nodeLife[x] \in Released
                            /\ HasNode(x) => (nodeLife'[x] \in {"none"} \cup Gone <=> nodeLife[x] \in {"none"} \cup Gone)
    PROVE  RefsInv'
<1>1. SameLinks
  BY ListedKept DEF SameLinks
<1>2. \A x \in Steps : Own(x)' = Own(x)
  BY SameSteps DEF Own, Gone
<1>3. \A x \in Steps : HashRefs(x)' = HashRefs(x)
  BY SameHashRefs
<1>4. \A x \in Steps : Own(x) \in {0, 1} /\ HashRefs(x) \in Nat /\ node[x].refs \in Int
  <2> SUFFICES ASSUME NEW x \in Steps PROVE Own(x) \in {0, 1} /\ HashRefs(x) \in Nat /\ node[x].refs \in Int
    OBVIOUS
  <2>1. Cardinality(InHash(x)) \in Nat
    BY FewInHash
  <2> QED
    BY <2>1, OwnIs, NodeFields DEF HashRefs, DepsShape
<1> QED
  BY <1>1, <1>2, <1>3, <1>4, RefsFrom

(* A node is made.                                                           *)
LEMMA RefsEnter ==
    ASSUME DepsShape, HashGood, RefsInv, UNCHANGED <<graph, left, step, hash>>, step \in Steps, at = "step", at' = "deps",
           node' = [node EXCEPT ![step] = NewNode],
           \/ IsTask(step) /\ HasNode(step) /\ nodeLife' = [nodeLife EXCEPT ![step] = "new"]
           \/ ~IsTask(step) /\ nodeLife' = nodeLife
    PROVE  RefsInv'
<1>1. ~Entered(step) /\ node[step] = NoNode /\ nodeLife[step] = "none"
  BY ShapeAt DEF LifeAt, Entered, Entering, Preparing
<1>2. /\ nodeLife'[step] = (IF IsTask(step) THEN "new" ELSE "none")
      /\ \A y \in Steps : y # step => nodeLife'[y] = nodeLife[y] /\ node'[y] = node[y]
      /\ node'[step] = NewNode
  BY <1>1, ShapeAt DEF DepsShape, NodeTypes
<1>3. NewNode.succ = <<>> /\ NoNode.succ = <<>> /\ NewNode.refs = 1 /\ NoNode.refs = 0
  BY DEF NoNode, NewNode
<1>4. SameLinks
  <2> SUFFICES ASSUME NEW p \in Steps PROVE Listed(p)' = Listed(p) /\ node'[p].succ = node[p].succ
    BY DEF SameLinks
  <2>1. left'[p] = left[p]
    OBVIOUS
  <2>2. CASE p = step
    BY <1>1, <1>2, <1>3, <2>1, <2>2, ListedKept DEF Released
  <2>3. CASE p # step
    BY <1>2, <2>1, <2>3, ListedKept
  <2> QED
    BY <2>2, <2>3
<1>5. Emptying' <=> Emptying
  BY <1>1, <1>2, SameSteps DEF Emptying
<1>6. \A x \in Steps : IsTask(x) => node'[x].refs = node[x].refs + (Own(x)' - Own(x)) + (HashRefs(x)' - HashRefs(x))
  <2> SUFFICES ASSUME NEW x \in Steps, IsTask(x)
               PROVE  node'[x].refs = node[x].refs + (Own(x)' - Own(x)) + (HashRefs(x)' - HashRefs(x))
    OBVIOUS
  <2>1. HashRefs(x)' = HashRefs(x) /\ HashRefs(x) \in Nat
    <3>1. Cardinality(InHash(x)) \in Nat
      BY FewInHash
    <3> QED
      BY <3>1, <1>5, SameHashRefs DEF HashRefs
  <2>2. node[x].refs \in Int /\ Own(x) \in {0, 1}
    BY OwnIs, NodeFields DEF DepsShape
  <2>3. CASE x = step
    <3>1. Own(x) = 0
      BY <1>1, <2>3 DEF Own
    <3>2. Own(x)' = 1
      <4>1. HasNode(x)' /\ nodeLife'[x] = "new"
        BY <1>2, <2>3, SameSteps
      <4> QED
        BY <4>1 DEF Own, Gone
    <3> QED
      BY <3>1, <3>2, <2>1, <2>3, <1>1, <1>2, <1>3
  <2>4. CASE x # step
    <3>1. node'[x] = node[x] /\ nodeLife'[x] = nodeLife[x]
      BY <1>2, <2>4
    <3>2. Own(x)' = Own(x)
      BY <3>1, SameSteps DEF Own, Gone
    <3> QED
      BY <3>1, <3>2, <2>1, <2>2
  <2> QED
    BY <2>3, <2>4
<1> QED
  BY <1>4, <1>6, RefsFrom

LEMMA RefsUpdateHash == ASSUME DepsShape, HashGood, RefsInv, UpdateHash PROVE RefsInv'
<1>1. /\ at = "link" /\ at' = "deps" /\ step \in Steps
      /\ UNCHANGED <<graph, step, nodeLife, left>>
  BY HashUpdated DEF HashGood
<1>2. PICK i \in Filtered(step) \cap todo :
           /\ VarOf(step, i) \in Variables
           /\ hash' = [hash EXCEPT ![VarOf(step, i)] = EntryAfter(i)]
           /\ \A x \in Steps : /\ node'[x].succ = node[x].succ
                               /\ node'[x].refs = node[x].refs + Cardinality(Held(EntryAfter(i), x))
                                                      - Cardinality(Held(hash[VarOf(step, i)], x))
  BY HashUpdated DEF HashGood
<1>3. PICK v \in Variables : v = VarOf(step, i)
  BY <1>2
<1>4. PICK n : n = EntryAfter(i)
  OBVIOUS
<1>5. SameLinks
  BY <1>1, <1>2, ListedKept DEF SameLinks
<1>6. ~Emptying /\ ~Emptying'
  <2>1. ~Emptying
    BY <1>1, NobodyEmpties DEF Creating, Entering, Preparing
  <2> QED
    BY <2>1, <1>1, SameSteps DEF Emptying
<1>7. \A x \in Steps : IsTask(x) => node'[x].refs = node[x].refs + (Own(x)' - Own(x)) + (HashRefs(x)' - HashRefs(x))
  <2> SUFFICES ASSUME NEW x \in Steps
               PROVE  node'[x].refs = node[x].refs + (Own(x)' - Own(x)) + (HashRefs(x)' - HashRefs(x))
    OBVIOUS
  <2>1. HashRefs(x) = Cardinality(InHash(x)) /\ HashRefs(x)' = Cardinality(InHash(x)')
    BY <1>6 DEF HashRefs
  <2>2. HashRefs(x)' = HashRefs(x) + Cardinality(Held(n, x)) - Cardinality(Held(hash[v], x))
    <3>1. hash \in [Variables -> EntryType] /\ hash' = [hash EXCEPT ![v] = n]
      BY <1>2, <1>3, <1>4 DEF HashGood, HashInv
    <3>2. Cardinality(InHash(x)') = Cardinality(InHash(x)) + Cardinality(Held(n, x)) - Cardinality(Held(hash[v], x))
      BY <3>1, InHashAfter
    <3> QED
      BY <2>1, <3>2
  <2>3. node[x].refs \in Int /\ Own(x) \in {0, 1} /\ HashRefs(x) \in Nat
        /\ Cardinality(Held(n, x)) \in Nat /\ Cardinality(Held(hash[v], x)) \in Nat
    <3>1. node[x].refs \in Int
      BY NodeFields DEF DepsShape
    <3> QED
      BY <2>1, <3>1, OwnIs, FewHeld, FewInHash
  <2>4. Own(x)' = Own(x)
    BY <1>1, SameSteps DEF Own, Gone
  <2>5. node'[x].refs = node[x].refs + Cardinality(Held(n, x)) - Cardinality(Held(hash[v], x))
    BY <1>2, <1>3, <1>4
  <2> QED
    BY <2>2, <2>3, <2>4, <2>5
<1> QED
  BY <1>1, <1>5, <1>7, RefsFrom

(* The hash lets go of the nodes: once, before it is emptied.                *)
LEMMA RefsFreed ==
    ASSUME DepsShape, RefsInv, UNCHANGED <<graph, left>>, SameLinks, FreeEntries, ~Emptying,
           Emptying' \/ HashIsEmpty', \A x \in Steps : Own(x)' = Own(x)
    PROVE  RefsInv'
<1>1. \A x \in Steps : IsTask(x) => node'[x].refs = node[x].refs + (Own(x)' - Own(x)) + (HashRefs(x)' - HashRefs(x))
  <2> SUFFICES ASSUME NEW x \in Steps
               PROVE  node'[x].refs = node[x].refs + (Own(x)' - Own(x)) + (HashRefs(x)' - HashRefs(x))
    OBVIOUS
  <2>1. HashRefs(x) = Cardinality(InHash(x)) /\ Cardinality(InHash(x)) \in Nat
    BY FewInHash DEF HashRefs
  <2>2. HashRefs(x)' = 0
    <3>1. CASE Emptying'
      BY <3>1 DEF HashRefs
    <3>2. CASE HashIsEmpty'
      <4>1. \A v \in Variables : Held(hash'[v], x) = {}
        BY <3>2 DEF HashIsEmpty, Held, LastOut
      <4>2. \A e \in Variables \X {"out", "ins", "mtxs"} : e[2] \notin Held(hash'[e[1]], x)
        BY <4>1
      <4>3. InHash(x)' = {}
        BY <4>2 DEF InHash
      <4> QED
        BY <4>3, FS_EmptySet DEF HashRefs
    <3> QED
      BY <3>1, <3>2
  <2>3. node[x].refs \in Int /\ Own(x) \in {0, 1}
    BY OwnIs, NodeFields DEF DepsShape
  <2>4. node'[x].refs = node[x].refs - Cardinality(InHash(x))
    BY FreedEntries
  <2> QED
    BY <2>1, <2>2, <2>3, <2>4
<1> QED
  BY <1>1, RefsFrom

(* The buckets are emptied when the references are gone.                     *)
LEMMA RefsEmptied ==
    ASSUME DepsShape, RefsInv, UNCHANGED <<graph, left, node>>, SameLinks, Emptying,
           HashIsEmpty', \A x \in Steps : Own(x)' = Own(x)
    PROVE  RefsInv'
<1>1. \A x \in Steps : IsTask(x) => node'[x].refs = node[x].refs + (Own(x)' - Own(x)) + (HashRefs(x)' - HashRefs(x))
  <2> SUFFICES ASSUME NEW x \in Steps
               PROVE  node'[x].refs = node[x].refs + (Own(x)' - Own(x)) + (HashRefs(x)' - HashRefs(x))
    OBVIOUS
  <2>1. HashRefs(x) = 0
    BY DEF HashRefs
  <2>2. HashRefs(x)' = 0
    <4>1. \A v \in Variables : Held(hash'[v], x) = {}
      BY DEF HashIsEmpty, Held, LastOut
    <4>2. \A e \in Variables \X {"out", "ins", "mtxs"} : e[2] \notin Held(hash'[e[1]], x)
      BY <4>1
    <4>3. InHash(x)' = {}
      BY <4>2 DEF InHash
    <4> QED
      BY <4>3, FS_EmptySet DEF HashRefs
  <2>3. node[x].refs \in Int /\ Own(x) \in {0, 1}
    BY OwnIs, NodeFields DEF DepsShape
  <2> QED
    BY <2>1, <2>2, <2>3
<1> QED
  BY <1>1, RefsFrom

LEMMA RefsEnding == ASSUME DepsShape, RefsInv, CleanInv, Ending PROVE RefsInv'
<1>1. UNCHANGED <<graph, nodeLife, left>> /\ (UNCHANGED node \/ FreeEntries)
  BY EndingSteps
<1>2. \A x \in Steps : node'[x].succ = node[x].succ
  BY <1>1, FreedEntries
<1>3. SameLinks
  BY <1>1, <1>2, ListedKept DEF SameLinks
<1>4. \A x \in Steps : Own(x)' = Own(x)
  BY <1>1, SameSteps DEF Own, Gone
<1>5. CASE EndExplicit
  <2>1. ~Emptying /\ FreeEntries /\ HashIsEmpty'
    BY <1>5, NobodyEmpties, HashEmptied DEF EndExplicit, Creating
  <2> QED
    BY <2>1, <1>1, <1>3, <1>4, RefsFreed
<1>6. CASE EndImplicit \/ LookForChildren \/ (ParentCleans /\ ~complete)
  <2>1. UNCHANGED <<hash, node>> /\ at # "empty" /\ at' # "empty"
    BY <1>6 DEF EndImplicit, LookForChildren, ParentCleans, Clean, MarkTaken
  <2>2. Emptying' <=> Emptying
    BY <2>1, <1>1, SameSteps DEF Emptying
  <2> QED
    BY <2>1, <2>2, <1>1, <1>2, RefsStay
<1>7. CASE ParentCleans /\ complete
  <2>1. ~Emptying /\ FreeEntries /\ Emptying'
    BY <1>7 DEF CleanInv, ParentCleans, Clean, MarkTaken, Emptying
  <2> QED
    BY <2>1, <1>1, <1>3, <1>4, RefsFreed
<1>8. CASE ParentEmpties
  <2>1. Emptying /\ UNCHANGED node /\ HashIsEmpty'
    BY <1>8, HashEmptied DEF ParentEmpties, Emptying
  <2> QED
    BY <2>1, <1>1, <1>3, <1>4, RefsEmptied
<1> QED
  BY <1>5, <1>6, <1>7, <1>8 DEF Ending

LEMMA RefsFreeing == ASSUME DepsShape, RefsInv, CleanInv, NEW x \in Steps, Freeing(x) PROVE RefsInv'
<1>1. /\ UNCHANGED <<graph, creator, left>> /\ (UNCHANGED node \/ FreeEntries)
      /\ nodeLife[x] \in {"freeing", "cleaning", "emptying"}
  BY FreeingDoes
<1>2. PICK a \in {"cleaning", "emptying", "freed"} : nodeLife' = [nodeLife EXCEPT ![x] = a]
  BY FreeingDoes
<1>3. nodeLife'[x] = a /\ \A y \in Steps : y # x => nodeLife'[y] = nodeLife[y]
  BY <1>2, ShapeAt
<1>4. \A y \in Steps : node'[y].succ = node[y].succ
  BY <1>1, FreedEntries
<1>5. SameLinks
  <2> SUFFICES ASSUME NEW p \in Steps PROVE Listed(p)' = Listed(p)
    BY <1>4 DEF SameLinks
  <2>1. nodeLife'[p] \in Released <=> nodeLife[p] \in Released
    BY <1>1, <1>3 DEF Released
  <2> QED
    BY <2>1, <1>1, <1>4, ListedKept
<1>6. \A y \in Steps : Own(y)' = Own(y)
  <2> SUFFICES ASSUME NEW y \in Steps PROVE Own(y)' = Own(y)
    OBVIOUS
  <2>1. nodeLife'[y] \in {"none"} \cup Gone <=> nodeLife[y] \in {"none"} \cup Gone
    BY <1>1, <1>3 DEF Gone
  <2> QED
    BY <1>1, <2>1, SameSteps DEF Own, Gone
<1>7. at' = at /\ Steps' = Steps
  BY <1>1, ParentStays
<1>8. CASE DropTask(x) \/ (TaskCleans(x) /\ ~complete)
  <2>1. UNCHANGED <<hash, node>> /\ nodeLife[x] # "emptying"
    BY <1>8 DEF DropTask, TaskCleans, Clean, MarkTaken
  <2>2. a # "emptying"
    BY <1>8, <1>3, ShapeAt DEF DropTask, TaskCleans, MarkTaken, Becomes
  <2>3. Emptying' <=> Emptying
    BY <2>1, <2>2, <1>3, <1>7 DEF Emptying
  <2>4. \A y \in Steps : /\ nodeLife'[y] \in Released <=> nodeLife[y] \in Released
                         /\ nodeLife'[y] \in {"none"} \cup Gone <=> nodeLife[y] \in {"none"} \cup Gone
    BY <1>1, <1>3 DEF Released, Gone
  <2> QED
    BY <2>1, <2>3, <2>4, <1>1, <1>4, RefsStay
<1>9. CASE TaskCleans(x) /\ complete
  <2>1. ~Emptying /\ FreeEntries
    BY <1>9 DEF CleanInv, TaskCleans, Clean, MarkTaken
  <2>2. a = "emptying"
    BY <1>9, <1>3, ShapeAt DEF TaskCleans, MarkTaken, Becomes
  <2>3. Emptying'
    BY <2>2, <1>3, <1>7 DEF Emptying
  <2> QED
    BY <2>1, <2>3, <1>1, <1>5, <1>6, RefsFreed
<1>10. CASE TaskEmpties(x)
  <2>1. Emptying /\ UNCHANGED node /\ HashIsEmpty'
    BY <1>10, HashEmptied DEF TaskEmpties, Emptying
  <2> QED
    BY <2>1, <1>1, <1>5, <1>6, RefsEmptied
<1> QED
  BY <1>8, <1>9, <1>10 DEF Freeing

LEMMA LinksAfterLink ==
    ASSUME DepsShape, LinkInv, Link, NEW p \in Steps, p < step, node[p].task,
           \A x \in Steps : node'[x].succ = IF x = p THEN Append(node[x].succ, step) ELSE node[x].succ
    PROVE  LET e == <<p, Len(node[p].succ) + 1>> IN
           /\ \A y \in Steps : y # step => LinksTo(y)' = LinksTo(y)
           /\ \A y \in Steps : y = step => LinksTo(y)' = LinksTo(y) \cup {e} /\ e \notin LinksTo(y)
<1>1. UNCHANGED <<graph, nodeLife, left, step>> /\ Steps' = Steps /\ step \in Steps
  BY Linked1, SameSteps DEF running
<1>2. nodeLife[p] \notin Released /\ p \in Nat /\ p # step /\ node[p].succ \in Seq(Nat) /\ Len(node[p].succ) \in Nat
  BY <1>1, ShapeAt, NodeFields DEF MarkAt, DepsShape
<1>n. PICK n \in Nat : n = Len(node[p].succ)
  BY <1>2
<1>3. Listed(p) = n /\ Listed(p)' = n + 1
  <2>1. node'[p].succ = Append(node[p].succ, step) /\ Len(Append(node[p].succ, step)) = n + 1
    <3>1. node'[p].succ = Append(node[p].succ, step)
      OBVIOUS
    <3>2. Len(Append(node[p].succ, step)) = Len(node[p].succ) + 1
      BY <1>2
    <3> QED
      BY <3>1, <3>2, <1>n
  <2>2. nodeLife'[p] \notin Released' /\ nodeLife'[p] = nodeLife[p]
    BY <1>1, <1>2 DEF Released
  <2> QED
    BY <2>1, <2>2, <1>2, <1>n DEF Listed, Released
<1>4. \A q \in Steps : q # p => Listed(q)' = Listed(q) /\ node'[q].succ = node[q].succ
  <2> SUFFICES ASSUME NEW q \in Steps, q # p PROVE Listed(q)' = Listed(q) /\ node'[q].succ = node[q].succ
    OBVIOUS
  <2>1. node'[q].succ = node[q].succ
    OBVIOUS
  <2> QED
    BY <2>1, <1>1, ListedKept
<1>5. \A i : i \in 1..(n + 1) <=> i \in 1..n \/ i = n + 1
  OBVIOUS
<1>6. /\ \A i \in 1..n : node'[p].succ[i] = node[p].succ[i]
      /\ node'[p].succ[n + 1] = step
  <2>1. node'[p].succ = Append(node[p].succ, step)
    OBVIOUS
  <2> QED
    BY <2>1, <1>2, <1>n
<1>7. ASSUME NEW y \in Steps, y # step PROVE LinksTo(y)' = LinksTo(y)
  <2>2. PICK S : S = LinksTo(y)
    OBVIOUS
  <2>1. \A q \in Steps : \A i : (i \in 1..Listed(q)' /\ node'[q].succ[i] = y) <=> <<q, i>> \in S
    <3>1. ASSUME NEW q \in Steps, NEW i
          PROVE  (i \in 1..Listed(q)' /\ node'[q].succ[i] = y) <=> (i \in 1..Listed(q) /\ node[q].succ[i] = y)
      <4>1. CASE q # p
        BY <4>1, <1>4
      <4>2. CASE q = p
        BY <4>2, <1>3, <1>5, <1>6, <1>7
      <4> QED
        BY <4>1, <4>2
    <3>2. \A q \in Steps : \A i : (i \in 1..Listed(q) /\ node[q].succ[i] = y) <=> <<q, i>> \in LinksTo(y)
      BY LinksWere
    <3> QED
      BY <3>1, <3>2, <2>2
  <2>3. \A e \in S : \E q \in Steps : \E i : e = <<q, i>>
    BY <2>2, LinksWere
  <2>4. LinksTo(y)' = S
    BY <1>1, <2>1, <2>3, LinksAre
  <2> QED
    BY <2>2, <2>4
<1>8. ASSUME NEW y \in Steps, y = step
      PROVE  LinksTo(y)' = LinksTo(y) \cup {<<p, n + 1>>} /\ <<p, n + 1>> \notin LinksTo(y)
  <2>2. PICK S : S = LinksTo(y) \cup {<<p, n + 1>>}
    OBVIOUS
  <2>1. \A q \in Steps : \A i : (i \in 1..Listed(q)' /\ node'[q].succ[i] = y) <=> <<q, i>> \in S
    <3>1. ASSUME NEW q \in Steps, NEW i
          PROVE  (i \in 1..Listed(q)' /\ node'[q].succ[i] = y) <=>
                     (i \in 1..Listed(q) /\ node[q].succ[i] = y) \/ (q = p /\ i = n + 1)
      <4>1. CASE q # p
        BY <4>1, <1>4
      <4>2. CASE q = p
        BY <4>2, <1>3, <1>5, <1>6, <1>8
      <4> QED
        BY <4>1, <4>2
    <3>2. \A q \in Steps : \A i : (i \in 1..Listed(q) /\ node[q].succ[i] = y) <=> <<q, i>> \in LinksTo(y)
      BY LinksWere
    <3>3. \A q, i : <<q, i>> \in S <=> <<q, i>> \in LinksTo(y) \/ (q = p /\ i = n + 1)
      BY <2>2
    <3> QED
      BY <3>1, <3>2, <3>3
  <2>3. \A e \in S : \E q \in Steps : \E i : e = <<q, i>>
    BY <2>2, LinksWere
  <2>4. <<p, n + 1>> \notin LinksTo(y)
    BY <1>3, LinksWere
  <2>5. LinksTo(y)' = S
    BY <1>1, <2>1, <2>3, LinksAre
  <2> QED
    BY <2>2, <2>4, <2>5
<1> QED
  BY <1>7, <1>8, <1>n

LEMMA RefsLink == ASSUME DepsShape, HashGood, RefsInv, Link PROVE RefsInv'
<1>1. /\ at = "link" /\ step \in Steps
      /\ UNCHANGED <<graph, step, at, nodeLife, left, hash>>
  BY Linked1 DEF running, HashGood
<1>2. PICK p \in link : /\ p \in Steps /\ p < step
                        /\ \/ ~node[p].task /\ UNCHANGED node
                           \/ /\ node[p].task
                              /\ \A x \in Steps :
                                    /\ node'[x].succ = IF x = p THEN Append(node[x].succ, step)
                                                       ELSE node[x].succ
                                    /\ node'[x].refs = IF x = step THEN node[x].refs + 1 ELSE node[x].refs
  BY Linked1 DEF HashGood
<1>s. Steps' = Steps /\ (\A x : IsTask(x)' = IsTask(x) /\ HasNode(x)' = HasNode(x)) /\ (Emptying' <=> Emptying)
  BY <1>1, SameSteps DEF Emptying
<1>3. CASE UNCHANGED node
  BY <1>1, <1>s, <1>3, RefsStay
<1>4. CASE ~UNCHANGED node
  <2>1. /\ node[p].task
        /\ \A x \in Steps : node'[x].succ = IF x = p THEN Append(node[x].succ, step) ELSE node[x].succ
        /\ \A x \in Steps : node'[x].refs = IF x = step THEN node[x].refs + 1 ELSE node[x].refs
    BY <1>2, <1>4
  <2>2. PICK e : /\ \A y \in Steps : y # step => LinksTo(y)' = LinksTo(y)
                 /\ \A y \in Steps : y = step => LinksTo(y)' = LinksTo(y) \cup {e} /\ e \notin LinksTo(y)
    BY <2>1, <1>2, LinksAfterLink DEF HashGood
  <2> SUFFICES ASSUME NEW x \in Steps
               PROVE  /\ IsFiniteSet(LinksTo(x)')
                      /\ IsTask(x) => node'[x].refs = Own(x)' + References(x)'
    BY <1>s DEF RefsInv
  <2>3. /\ IsFiniteSet(LinksTo(x)) /\ Cardinality(LinksTo(x)) \in Nat
        /\ IsTask(x) => node[x].refs = Own(x) + (HashRefs(x) + Cardinality(LinksTo(x)))
    BY FS_CardinalityType DEF RefsInv, References, HashRefs
  <2>4. References(x)' = HashRefs(x)' + Cardinality(LinksTo(x)')
    BY DEF References, HashRefs
  <2>5. HashRefs(x)' = HashRefs(x) /\ HashRefs(x) \in Nat
    <3>1. Cardinality(InHash(x)) \in Nat
      BY FewInHash
    <3>2. HashRefs(x) \in Nat
      BY <3>1 DEF HashRefs
    <3> QED
      BY <3>2, <1>1, <1>s, SameHashRefs
  <2>6. Own(x)' = Own(x) /\ Own(x) \in {0, 1}
    BY <1>1, <1>s DEF Own, Gone
  <2>7. CASE x # step
    <3>1. LinksTo(x)' = LinksTo(x) /\ node'[x].refs = node[x].refs
      BY <2>1, <2>2, <2>7
    <3> QED
      BY <3>1, <2>3, <2>4, <2>5, <2>6
  <2>8. CASE x = step
    <3>1. LinksTo(x)' = LinksTo(x) \cup {e} /\ e \notin LinksTo(x)
      BY <2>2, <2>8
    <3>2. node'[x].refs = node[x].refs + 1
      BY <2>1, <2>8
    <3>3. IsFiniteSet(LinksTo(x) \cup {e}) /\ Cardinality(LinksTo(x) \cup {e}) = Cardinality(LinksTo(x)) + 1
      BY <2>3, <3>1, OneMore
    <3> QED
      BY <3>1, <3>2, <3>3, <2>3, <2>4, <2>5, <2>6
  <2> QED
    BY <2>7, <2>8
<1> QED
  BY <1>3, <1>4


(* A reference to a successor is given up.                                   *)
LEMMA LinksAfterForget ==
    ASSUME DepsShape, NEW x \in Steps, ForgetSuccessor(x)
    PROVE  LET e == <<x, left[x]>> IN
           /\ \A y \in Steps : y # Successor(x) => LinksTo(y)' = LinksTo(y)
           /\ \A y \in Steps : y = Successor(x) => LinksTo(y)' = LinksTo(y) \ {e} /\ e \in LinksTo(y)
<1>1. /\ graph' = graph
      /\ nodeLife[x] = "forgetting" /\ nodeLife'[x] = "notifying" /\ left'[x] = left[x] - 1 /\ left[x] > 0
      /\ \A y \in Steps : y # x => nodeLife'[y] = nodeLife[y] /\ left'[y] = left[y]
      /\ \A y \in Steps : node'[y].succ = node[y].succ
  BY ForgetSuccessorDoes, ShapeAt, LeftIn DEF DepsShape, NodeTypes
<1>2. Steps' = Steps
  BY <1>1, SameSteps
<1>n. PICK n \in Nat : n = left[x] /\ n > 0 /\ Successor(x) = node[x].succ[n]
  BY <1>1, LeftIn DEF Successor
<1>3. Listed(x) = n /\ Listed(x)' = n - 1
  BY <1>1, <1>n DEF Listed, Released
<1>4. \A q \in Steps : q # x => Listed(q)' = Listed(q)
  BY <1>1, ListedKept
<1>5. \A i : i \in 1..n <=> i \in 1..(n - 1) \/ i = n
  BY <1>n
<1>6. \A i : i = n => i \notin 1..(n - 1)
  OBVIOUS
<1>7. ASSUME NEW y \in Steps, y # Successor(x) PROVE LinksTo(y)' = LinksTo(y)
  <2>2. PICK S : S = LinksTo(y)
    OBVIOUS
  <2>1. \A q \in Steps : \A i : (i \in 1..Listed(q)' /\ node'[q].succ[i] = y) <=> <<q, i>> \in S
    <3>1. ASSUME NEW q \in Steps, NEW i
          PROVE  (i \in 1..Listed(q)' /\ node'[q].succ[i] = y) <=> (i \in 1..Listed(q) /\ node[q].succ[i] = y)
      <4>1. CASE q # x
        BY <4>1, <1>4, <1>1
      <4>2. CASE q = x
        BY <4>2, <1>1, <1>n, <1>3, <1>5, <1>7
      <4> QED
        BY <4>1, <4>2
    <3>2. \A q \in Steps : \A i : (i \in 1..Listed(q) /\ node[q].succ[i] = y) <=> <<q, i>> \in LinksTo(y)
      BY LinksWere
    <3> QED
      BY <3>1, <3>2, <2>2
  <2>3. \A e \in S : \E q \in Steps : \E i : e = <<q, i>>
    BY <2>2, LinksWere
  <2>4. LinksTo(y)' = S
    BY <1>2, <2>1, <2>3, LinksAre
  <2> QED
    BY <2>2, <2>4
<1>8. ASSUME NEW y \in Steps, y = Successor(x)
      PROVE  LinksTo(y)' = LinksTo(y) \ {<<x, n>>} /\ <<x, n>> \in LinksTo(y)
  <2>2. PICK S : S = LinksTo(y) \ {<<x, n>>}
    OBVIOUS
  <2>1. \A q \in Steps : \A i : (i \in 1..Listed(q)' /\ node'[q].succ[i] = y) <=> <<q, i>> \in S
    <3>1. ASSUME NEW q \in Steps, NEW i
          PROVE  (i \in 1..Listed(q)' /\ node'[q].succ[i] = y) <=>
                     (i \in 1..Listed(q) /\ node[q].succ[i] = y) /\ ~(q = x /\ i = n)
      <4>1. CASE q # x
        BY <4>1, <1>4, <1>1
      <4>2. CASE q = x
        BY <4>2, <1>1, <1>3, <1>5, <1>6
      <4> QED
        BY <4>1, <4>2
    <3>2. \A q \in Steps : \A i : (i \in 1..Listed(q) /\ node[q].succ[i] = y) <=> <<q, i>> \in LinksTo(y)
      BY LinksWere
    <3>3. \A q, i : <<q, i>> \in S <=> <<q, i>> \in LinksTo(y) /\ ~(q = x /\ i = n)
      BY <2>2
    <3> QED
      BY <3>1, <3>2, <3>3
  <2>3. \A e \in S : \E q \in Steps : \E i : e = <<q, i>>
    BY <2>2, LinksWere
  <2>4. <<x, n>> \in LinksTo(y)
    BY <1>3, <1>n, <1>5, <1>8, LinksWere
  <2>5. LinksTo(y)' = S
    BY <1>2, <2>1, <2>3, LinksAre
  <2> QED
    BY <2>2, <2>4, <2>5
<1> QED
  BY <1>7, <1>8, <1>n

LEMMA RefsForgetSuccessor == ASSUME DepsShape, RefsInv, NEW x \in Steps, ForgetSuccessor(x) PROVE RefsInv'
<1>1. PICK s \in Steps : s = Successor(x)
  BY LeftIn, ForgetSuccessorDoes
<1>2. /\ UNCHANGED <<graph, creator, hash>>
      /\ nodeLife[x] = "forgetting" /\ nodeLife' = [nodeLife EXCEPT ![x] = "notifying"]
      /\ \A y \in Steps : /\ y # s => node'[y] = node[y]
      /\ node'[s].refs = node[s].refs - 1
  BY <1>1, ForgetSuccessorDoes
<1>3. nodeLife'[x] = "notifying" /\ \A y \in Steps : y # x => nodeLife'[y] = nodeLife[y]
  BY <1>2, ShapeAt
<1>s. Steps' = Steps /\ (\A y : IsTask(y)' = IsTask(y) /\ HasNode(y)' = HasNode(y)) /\ at' = at
  BY <1>2, SameSteps, ParentStays
<1>e. Emptying' <=> Emptying
  BY <1>2, <1>3, <1>s DEF Emptying
<1>4. PICK e : /\ \A y \in Steps : y # s => LinksTo(y)' = LinksTo(y)
               /\ LinksTo(s)' = LinksTo(s) \ {e} /\ e \in LinksTo(s)
  BY <1>1, LinksAfterForget
<1> SUFFICES ASSUME NEW y \in Steps
             PROVE  /\ IsFiniteSet(LinksTo(y)')
                    /\ IsTask(y) => node'[y].refs = Own(y)' + References(y)'
  BY <1>s DEF RefsInv
<1>5. /\ IsFiniteSet(LinksTo(y)) /\ Cardinality(LinksTo(y)) \in Nat
      /\ IsTask(y) => node[y].refs = Own(y) + (HashRefs(y) + Cardinality(LinksTo(y)))
  BY FS_CardinalityType DEF RefsInv, References, HashRefs
<1>6. References(y)' = HashRefs(y)' + Cardinality(LinksTo(y)')
  BY DEF References, HashRefs
<1>7. HashRefs(y)' = HashRefs(y) /\ HashRefs(y) \in Nat
  <2>1. Cardinality(InHash(y)) \in Nat
    BY FewInHash
  <2>2. HashRefs(y) \in Nat
    BY <2>1 DEF HashRefs
  <2> QED
    BY <2>2, <1>2, <1>e, SameHashRefs
<1>8. Own(y)' = Own(y) /\ Own(y) \in {0, 1}
  <2>1. nodeLife'[y] \in {"none"} \cup Gone <=> nodeLife[y] \in {"none"} \cup Gone
    BY <1>2, <1>3 DEF Gone
  <2> QED
    BY <2>1, <1>s DEF Own, Gone
<1>9. CASE y # s
  <2>1. LinksTo(y)' = LinksTo(y) /\ node'[y].refs = node[y].refs
    BY <1>2, <1>4, <1>9
  <2> QED
    BY <2>1, <1>5, <1>6, <1>7, <1>8
<1>10. CASE y = s
  <2>1. LinksTo(y)' = LinksTo(y) \ {e} /\ e \in LinksTo(y) /\ node'[y].refs = node[y].refs - 1
    BY <1>2, <1>4, <1>10
  <2>2. IsFiniteSet(LinksTo(y) \ {e}) /\ Cardinality(LinksTo(y) \ {e}) = Cardinality(LinksTo(y)) - 1
    BY <2>1, <1>5, OneLess
  <2> QED
    BY <2>1, <2>2, <1>5, <1>6, <1>7, <1>8
<1> QED
  BY <1>9, <1>10

LEMMA RefsForgetOwnNode == ASSUME DepsShape, RefsInv, NEW x \in Steps, ForgetOwnNode(x) PROVE RefsInv'
<1>1. /\ UNCHANGED <<graph, creator, left, hash>>
      /\ nodeLife[x] = "notifying" /\ nodeLife' = [nodeLife EXCEPT ![x] = "freeing"]
      /\ \A y \in Steps : node'[y].succ = node[y].succ /\ (y # x => node'[y] = node[y])
      /\ node'[x].refs = node[x].refs - 1
  BY ForgetOwnNodeDoes
<1>2. nodeLife'[x] = "freeing" /\ \A y \in Steps : y # x => nodeLife'[y] = nodeLife[y]
  BY <1>1, ShapeAt
<1>s. Steps' = Steps /\ (\A y : IsTask(y)' = IsTask(y) /\ HasNode(y)' = HasNode(y)) /\ at' = at
  BY <1>1, SameSteps, ParentStays
<1>e. Emptying' <=> Emptying
  BY <1>1, <1>2, <1>s DEF Emptying
<1>3. SameLinks
  <2> SUFFICES ASSUME NEW p \in Steps PROVE Listed(p)' = Listed(p)
    BY <1>1 DEF SameLinks
  <2>1. nodeLife'[p] \in Released <=> nodeLife[p] \in Released
    BY <1>1, <1>2 DEF Released
  <2> QED
    BY <2>1, <1>1, ListedKept
<1>4. \A y \in Steps : IsTask(y) => node'[y].refs = node[y].refs + (Own(y)' - Own(y)) + (HashRefs(y)' - HashRefs(y))
  <2> SUFFICES ASSUME NEW y \in Steps
               PROVE  node'[y].refs = node[y].refs + (Own(y)' - Own(y)) + (HashRefs(y)' - HashRefs(y))
    OBVIOUS
  <2>1. HashRefs(y)' = HashRefs(y) /\ HashRefs(y) \in Nat
    <3>1. Cardinality(InHash(y)) \in Nat
      BY FewInHash
    <3> QED
      BY <3>1, <1>1, <1>e, SameHashRefs DEF HashRefs
  <2>2. node[y].refs \in Int /\ Own(y) \in {0, 1}
    BY OwnIs, NodeFields DEF DepsShape
  <2>3. CASE y = x
    <3>1. HasNode(x)
      BY <1>1, ShapeAt DEF LifeAt, Notifying
    <3>2. Own(x) = 1
      BY <3>1, <1>1 DEF Own, Gone
    <3>3. Own(x)' = 0
      BY <1>2 DEF Own, Gone
    <3> QED
      BY <3>2, <3>3, <2>1, <2>2, <2>3, <1>1
  <2>4. CASE y # x
    <3>1. node'[y] = node[y] /\ Own(y)' = Own(y)
      BY <1>1, <1>2, <1>s, <2>4 DEF Own, Gone
    <3> QED
      BY <3>1, <2>1, <2>2
  <2> QED
    BY <2>3, <2>4
<1> QED
  BY <1>1, <1>3, <1>4, RefsFrom

LEMMA RefsParent == ASSUME DepsShape, HashGood, RefsInv, CleanInv, Parent PROVE RefsInv'
<1>s. nodeLife \in [Steps -> Lives]
  BY ShapeAt
<1>e. /\ graph' = graph /\ nodeLife' = nodeLife /\ at # "empty" /\ at' # "empty" => (Emptying' <=> Emptying)
  BY SameSteps DEF Emptying
<1>1. CASE CreatePlain
  <2>1. /\ UNCHANGED <<graph, hash, left, node>> /\ nodeLife' = [nodeLife EXCEPT ![step] = "queued"]
        /\ step \in Steps /\ nodeLife[step] = "none" /\ ~HasNode(step) /\ at' = "step" /\ at = "step"
    BY <1>1, ShapeAt DEF CreatePlain, Advance, HasNode, LifeAt, Entered, Entering, Preparing
  <2>2. nodeLife'[step] = "queued" /\ \A y \in Steps : y # step => nodeLife'[y] = nodeLife[y]
    BY <2>1, <1>s
  <2>3. Emptying' <=> Emptying
    BY <2>1, <2>2, SameSteps DEF Emptying
  <2>4. \A x \in Steps : /\ nodeLife'[x] \in Released <=> nodeLife[x] \in Released
                         /\ HasNode(x) => (nodeLife'[x] \in {"none"} \cup Gone <=> nodeLife[x] \in {"none"} \cup Gone)
    BY <2>1, <2>2 DEF Released
  <2> QED
    BY <2>1, <2>3, <2>4, RefsStay
<1>2. CASE CreateWithDeps
  BY <1>2, RefsEnter DEF CreateWithDeps, HasNode
<1>3. CASE WaitDeps /\ tracked
  BY <1>3, RefsEnter DEF WaitDeps, running
<1>4. CASE (WaitDeps /\ ~tracked) \/ NextDep \/ EndWait
  <2>1. UNCHANGED <<graph, hash, left, node, nodeLife>> /\ at # "empty" /\ at' # "empty"
    BY <1>4 DEF WaitDeps, NextDep, EndWait, running, Advance
  <2> QED
    BY <2>1, <1>e, RefsStay
<1>5. CASE Link
  BY <1>5, RefsLink
<1>6. CASE UpdateHash
  BY <1>6, RefsUpdateHash
<1>7. CASE Submit
  <2>1. /\ UNCHANGED <<graph, hash, left>> /\ at = "deps" /\ at' # "empty" /\ step \in Steps
        /\ \A x \in Steps : node'[x].refs = node[x].refs /\ node'[x].succ = node[x].succ
    BY <1>7, Submitting
  <2>2. \A x \in Steps : \/ nodeLife'[x] = nodeLife[x]
                         \/ nodeLife[x] = "new" /\ nodeLife'[x] \in {"blocked", "queued"}
    <3>1. CASE IsTask(step)
      <4>1. nodeLife[step] = "new"
        BY <3>1, <2>1, ShapeAt DEF LifeAt, Preparing
      <4>2. \E a \in {"blocked", "queued"} : nodeLife' = [nodeLife EXCEPT ![step] = a]
        BY <1>7, <3>1, Submitting
      <4> QED
        BY <4>1, <4>2, <1>s
    <3>2. CASE ~IsTask(step)
      BY <1>7, <3>2, Submitting
    <3> QED
      BY <3>1, <3>2
  <2>3. Emptying' <=> Emptying
    BY <2>1, <2>2, SameSteps DEF Emptying
  <2>4. \A x \in Steps : /\ nodeLife'[x] \in Released <=> nodeLife[x] \in Released
                         /\ nodeLife'[x] \in {"none"} \cup Gone <=> nodeLife[x] \in {"none"} \cup Gone
    BY <2>2 DEF Released, Gone
  <2> QED
    BY <2>1, <2>3, <2>4, RefsStay
<1>8. CASE Ending
  BY <1>8, RefsEnding
<1> QED
  BY <1>1, <1>2, <1>3, <1>4, <1>5, <1>6, <1>7, <1>8 DEF Parent, Ending

LEMMA RefsTask == ASSUME DepsShape, QueueInv, RefsInv, CleanInv, NEW x \in Steps, Task(x) PROVE RefsInv'
<1>s. nodeLife \in [Steps -> Lives] /\ left \in [Steps -> Nat] /\ graph' = graph /\ at' = at /\ Steps' = Steps
  BY ShapeAt, TaskKeeps, ParentStays DEF DepsShape, NodeTypes
<1>1. CASE Quiet(x)
  <2>1. PICK a \in Unreleased \cup {"freeing"} :
           /\ UNCHANGED <<graph, hash, left, node>>
           /\ nodeLife' = [nodeLife EXCEPT ![x] = a] /\ nodeLife[x] \in Unreleased \ {"releasing"}
           /\ a = "freeing" => ~HasNode(x)
    BY <1>1, QuietMoves
  <2>2. nodeLife'[x] = a /\ \A y \in Steps : y # x => nodeLife'[y] = nodeLife[y]
    BY <2>1, <1>s
  <2>3. Emptying' <=> Emptying
    BY <2>1, <2>2, <1>s DEF Emptying, Unreleased
  <2>4. CASE a # "freeing"
    <3>1. \A y \in Steps : /\ nodeLife'[y] \in Released <=> nodeLife[y] \in Released
                           /\ nodeLife'[y] \in {"none"} \cup Gone <=> nodeLife[y] \in {"none"} \cup Gone
      BY <2>1, <2>2, <2>4 DEF Released, Gone, Unreleased
    <3> QED
      BY <2>1, <2>3, <3>1, RefsStay
  <2>5. CASE a = "freeing"
    <3>1. node[x].succ = <<>> /\ Len(node[x].succ) = 0 /\ left[x] = 0
      <4>1. node[x].succ = <<>>
        BY <2>5, <2>1, ShapeAt DEF SuccAt
      <4>2. left[x] \in Nat /\ left[x] <= Len(node[x].succ)
        BY ShapeAt, NodeFields DEF LeftAt, DepsShape
      <4> QED
        BY <4>1, <4>2
    <3>2. SameLinks
      <4> SUFFICES ASSUME NEW p \in Steps PROVE Listed(p)' = Listed(p)
        BY <2>1 DEF SameLinks
      <4>1. CASE p = x
        BY <4>1, <2>1, <2>2, <3>1 DEF Listed, Released
      <4>2. CASE p # x
        BY <4>2, <2>1, <2>2, ListedKept
      <4> QED
        BY <4>1, <4>2
    <3>3. \A y \in Steps : Own(y)' = Own(y)
      <4> SUFFICES ASSUME NEW y \in Steps PROVE Own(y)' = Own(y)
        OBVIOUS
      <4>1. CASE y = x
        BY <4>1, <2>1, <2>5, SameSteps DEF Own
      <4>2. CASE y # x
        BY <4>2, <2>1, <2>2, SameSteps DEF Own, Gone
      <4> QED
        BY <4>1, <4>2
    <3>4. \A y \in Steps : IsTask(y) => node'[y].refs = node[y].refs + (Own(y)' - Own(y)) + (HashRefs(y)' - HashRefs(y))
      <4> SUFFICES ASSUME NEW y \in Steps
                   PROVE  node'[y].refs = node[y].refs + (Own(y)' - Own(y)) + (HashRefs(y)' - HashRefs(y))
        OBVIOUS
      <4>1. HashRefs(y)' = HashRefs(y) /\ HashRefs(y) \in Nat
        <5>1. Cardinality(InHash(y)) \in Nat
          BY FewInHash
        <5> QED
          BY <5>1, <2>1, <2>3, SameHashRefs DEF HashRefs
      <4>2. node[y].refs \in Int /\ Own(y) \in {0, 1}
        BY OwnIs, NodeFields DEF DepsShape
      <4> QED
        BY <4>1, <4>2, <3>3, <2>1
    <3> QED
      BY <2>1, <3>2, <3>4, RefsFrom
  <2> QED
    BY <2>4, <2>5
<1>2. CASE MarkFinished(x)
  <2>1. /\ UNCHANGED <<graph, creator, hash>>
        /\ nodeLife[x] = "releasing" /\ nodeLife' = [nodeLife EXCEPT ![x] = "notifying"]
        /\ left' = [left EXCEPT ![x] = Len(node[x].succ)]
        /\ \A y \in Steps : node'[y].succ = node[y].succ /\ node'[y].refs = node[y].refs
    BY <1>2, MarkFinishedDoes
  <2>2. /\ nodeLife'[x] = "notifying" /\ left'[x] = Len(node[x].succ)
        /\ \A y \in Steps : y # x => nodeLife'[y] = nodeLife[y] /\ left'[y] = left[y]
    BY <2>1, <1>s
  <2>3. Emptying' <=> Emptying
    BY <2>1, <2>2, <1>s DEF Emptying
  <2>4. SameLinks
    <3> SUFFICES ASSUME NEW p \in Steps PROVE Listed(p)' = Listed(p)
      BY <2>1 DEF SameLinks
    <3>1. CASE p = x
      BY <3>1, <2>1, <2>2 DEF Listed, Released
    <3>2. CASE p # x
      BY <3>2, <2>1, <2>2, ListedKept
    <3> QED
      BY <3>1, <3>2
  <2>5. \A y \in Steps : Own(y)' = Own(y)
    BY <2>1, <2>2, SameSteps DEF Own, Gone
  <2>6. \A y \in Steps : IsTask(y) => node'[y].refs = node[y].refs + (Own(y)' - Own(y)) + (HashRefs(y)' - HashRefs(y))
    <3> SUFFICES ASSUME NEW y \in Steps
                 PROVE  node'[y].refs = node[y].refs + (Own(y)' - Own(y)) + (HashRefs(y)' - HashRefs(y))
      OBVIOUS
    <3>1. HashRefs(y)' = HashRefs(y) /\ HashRefs(y) \in Nat
      <4>1. Cardinality(InHash(y)) \in Nat
        BY FewInHash
      <4> QED
        BY <4>1, <2>1, <2>3, SameHashRefs DEF HashRefs
    <3>2. node[y].refs \in Int /\ Own(y) \in {0, 1}
      BY OwnIs, NodeFields DEF DepsShape
    <3> QED
      BY <3>1, <3>2, <2>1, <2>5
  <2> QED
    BY <2>1, <2>4, <2>6, RefsFrom
<1>3. CASE Notify(x)
  <2>1. /\ UNCHANGED <<graph, hash, left>> /\ nodeLife[x] = "notifying"
        /\ \A y \in Steps : node'[y].succ = node[y].succ /\ node'[y].refs = node[y].refs
        /\ \E a \in {"queueing", "forgetting"} : nodeLife' = [nodeLife EXCEPT ![x] = a]
    BY <1>3, NotifyDoes
  <2>2. nodeLife'[x] \in {"queueing", "forgetting"} /\ \A y \in Steps : y # x => nodeLife'[y] = nodeLife[y]
    BY <2>1, <1>s
  <2>3. Emptying' <=> Emptying
    BY <2>1, <2>2, <1>s DEF Emptying
  <2>4. \A y \in Steps : /\ nodeLife'[y] \in Released <=> nodeLife[y] \in Released
                         /\ nodeLife'[y] \in {"none"} \cup Gone <=> nodeLife[y] \in {"none"} \cup Gone
    BY <2>1, <2>2 DEF Released, Gone
  <2> QED
    BY <2>1, <2>3, <2>4, RefsStay
<1>4. CASE QueueSuccessor(x)
  <2>1. PICK s \in Steps :
           /\ UNCHANGED <<graph, hash, left, node>> /\ nodeLife[x] = "queueing"
           /\ nodeLife'[x] = "forgetting"
           /\ \A y \in Steps \ {x, s} : nodeLife'[y] = nodeLife[y]
           /\ IsTask(s) => nodeLife[s] = "blocked" /\ nodeLife'[s] = "queued"
           /\ ~IsTask(s) => nodeLife'[s] = nodeLife[s]
    BY <1>4, QueueSuccessorDoes
  <2>2. \A y \in Steps : \/ nodeLife'[y] = nodeLife[y]
                         \/ nodeLife[y] = "queueing" /\ nodeLife'[y] = "forgetting"
                         \/ nodeLife[y] = "blocked" /\ nodeLife'[y] = "queued"
    BY <2>1
  <2>3. Emptying' <=> Emptying
    BY <2>1, <2>2, <1>s DEF Emptying
  <2>4. \A y \in Steps : /\ nodeLife'[y] \in Released <=> nodeLife[y] \in Released
                         /\ nodeLife'[y] \in {"none"} \cup Gone <=> nodeLife[y] \in {"none"} \cup Gone
    BY <2>2 DEF Released, Gone
  <2> QED
    BY <2>1, <2>3, <2>4, RefsStay
<1>5. CASE ForgetSuccessor(x)
  BY <1>5, RefsForgetSuccessor
<1>6. CASE ForgetOwnNode(x)
  BY <1>6, RefsForgetOwnNode
<1>7. CASE Freeing(x)
  BY <1>7, RefsFreeing
<1> QED
  BY <1>1, <1>2, <1>3, <1>4, <1>5, <1>6, <1>7 DEF Task, Quiet, Freeing

-----------------------------------------------------------------------------
(* The whole invariant: it holds at first ...                                *)

DepsInv == DepsShape /\ HashGood /\ DepCounts /\ Order /\ LockInv /\ CleanInv /\ RefsInv

LEMMA AtFirst ==
    ASSUME DepsInit
    PROVE  /\ graph \in Graphs /\ Steps \subseteq Nat /\ 1 \in 1..(Len(graph.does) + 1)
           /\ \A x \in Steps : /\ node[x] = NoNode /\ nodeLife[x] = "none" /\ left[x] = 0
                               /\ ~Entered(x) /\ ~Submitted(x) /\ ~Ready(x) /\ node[x].succ = <<>>
                               /\ 1 <= x
           /\ HashIsEmpty /\ ~Entering /\ ~Preparing /\ ~Emptying /\ Creating
           /\ \A x : Owes(x) = {} /\ LinksTo(x) = {}
           /\ \A x, v, k : x \in Steps => ~Seen(x, v, k)
<1>1. graph \in Graphs /\ Len(graph.does) \in Nat /\ Steps = 1..Len(graph.does) /\ Steps \subseteq Nat
  BY GraphSteps DEF DepsInit
<1>2. /\ step = 1 /\ at = "step" /\ todo = {} /\ link = {} /\ found = 0
      /\ \A x \in Steps : node[x] = NoNode /\ nodeLife[x] = "none" /\ left[x] = 0
  BY DEF DepsInit
<1>3. ~Entering /\ ~Preparing /\ ~Emptying /\ Creating
  BY <1>2 DEF Entering, Preparing, Emptying, Creating
<1>4. \A x \in Steps : node[x].succ = <<>> /\ Len(node[x].succ) = 0
  BY <1>2 DEF NoNode
<1>5. \A x \in Steps : ~Entered(x) /\ ~Submitted(x) /\ ~Ready(x) /\ 1 <= x
  BY <1>1, <1>2, <1>3 DEF Entered, Submitted, Ready
<1>6. HashIsEmpty
  <2>1. \A v \in Variables : hash[v] = EmptyEntry
    BY DEF DepsInit
  <2> QED
    BY <2>1 DEF HashIsEmpty, EmptyEntry, LastOut
<1>7. \A p \in Steps : Listed(p) = 0 /\ ToNotify(p) = 0
  BY <1>2, <1>4 DEF Listed, ToNotify, Released
<1>8. ASSUME NEW x PROVE Owes(x) = {} /\ LinksTo(x) = {}
  <2>1. Owes(x) = {}
    BY <1>7, OwesMembers
  <2>2. LinksTo(x) = {}
    <3>1. ASSUME NEW e \in LinksTo(x) PROVE FALSE
      <4>1. PICK p \in Steps : \E i : e = <<p, i>>
        BY <3>1, LinksWere
      <4>2. PICK i : e = <<p, i>>
        BY <4>1
      <4>3. i \in 1..Listed(p)
        BY <3>1, <4>2, LinksWere
      <4> QED
        BY <4>3, <1>7
    <3> QED
      BY <3>1
  <2> QED
    BY <2>1, <2>2
<1>9. ASSUME NEW x \in Steps, NEW v, NEW k PROVE ~Seen(x, v, k)
  BY <1>1, <1>2, <1>3, <1>5 DEF Seen, Treated
<1> QED
  BY <1>1, <1>2, <1>3, <1>4, <1>5, <1>6, <1>8, <1>9

LEMMA InvAtFirst == DepsInit => DepsInv
<1> SUFFICES ASSUME DepsInit PROVE DepsInv
  OBVIOUS
<1>1. /\ step = 1 /\ at = "step" /\ todo = {} /\ link = {} /\ found = 0 /\ tracked = FALSE /\ complete = FALSE
      /\ pending = 0
      /\ node = [x \in Steps |-> NoNode] /\ nodeLife = [x \in Steps |-> "none"] /\ left = [x \in Steps |-> 0]
      /\ hash = [v \in Variables |-> EmptyEntry] /\ held = [x \in Steps |-> {}] /\ mtx = [v \in Variables |-> 0]
  BY DEF DepsInit
<1>2. DepsShape
  <2>1. ParentPlaces
    BY <1>1, AtFirst DEF ParentPlaces
  <2>2. LifeInv
    BY <1>1, AtFirst DEF LifeInv, LifeAt, Lives, Notifying
  <2>3. NodeTypes
    <3>1. NoNode \in NodeType
      BY DEF NoNode, NodeType
    <3> QED
      BY <1>1, <3>1 DEF NodeTypes
  <2>4. NodeInv
    <3>1. \A x \in Steps : MarkAt(x)
      BY AtFirst DEF MarkAt, NoNode
    <3>2. \A x \in Steps : LeftAt(x)
      BY AtFirst DEF LeftAt, NoNode
    <3>3. \A x \in Steps : SuccAt(x)
      BY AtFirst DEF SuccAt
    <3> QED
      BY <3>1, <3>2, <3>3, AtFirst DEF NodeInv
  <2> QED
    BY <2>1, <2>2, <2>3, <2>4 DEF DepsShape
<1>3. HashGood
  <2>1. HashInv
    <3>1. EmptyEntry \in EntryType
      BY DEF EmptyEntry, EntryType
    <3>2. \A v \in Variables : GoodEntry(hash[v], v)
      BY AtFirst, EmptyIsGood DEF HashIsEmpty
    <3> QED
      BY <1>1, <3>1, <3>2 DEF HashInv
  <2>2. TrackedInv
    BY <1>1, AtFirst DEF TrackedInv
  <2>3. LinkInv
    BY <1>1 DEF LinkInv
  <2> QED
    BY <2>1, <2>2, <2>3 DEF HashGood
<1>4. DepCounts
  <2>1. CountsInv
    BY AtFirst, FS_EmptySet DEF CountsInv
  <2>2. QueueInv
    BY AtFirst DEF QueueInv
  <2>3. ReadyInv
    BY AtFirst DEF ReadyInv
  <2> QED
    BY <2>1, <2>2, <2>3 DEF DepCounts
<1>5. Order
  <2>1. HashCovers
    BY AtFirst DEF HashCovers
  <2>2. LinkCovers
    BY AtFirst DEF LinkCovers
  <2>3. Covered
    BY AtFirst DEF Covered
  <2> QED
    BY <2>1, <2>2, <2>3 DEF Order
<1>6. LockInv
  <2>1. \A x \in Steps : held[x] = {} /\ nodeLife[x] # "runs"
    BY <1>1
  <2> QED
    BY <1>1, <2>1, AtFirst DEF LockInv
<1>7. CleanInv
  <2>1. Uncounted = {}
    BY AtFirst DEF Uncounted
  <2>2. Cardinality({}) = 0
    BY FS_EmptySet
  <2> QED
    BY <1>1, <2>1, <2>2, AtFirst DEF CleanInv
<1>8. RefsInv
  <2>1. \A x \in Steps : Cardinality(InHash(x)) = 0
    BY AtFirst, NoneInHash
  <2>2. \A x \in Steps : IsFiniteSet(LinksTo(x)) /\ Cardinality(LinksTo(x)) = 0
    <3>1. \A x : LinksTo(x) = {}
      BY AtFirst
    <3> QED
      BY <3>1, FS_EmptySet
  <2>3. \A x \in Steps : References(x) = 0
    <3>1. ~Emptying
      BY AtFirst
    <3> QED
      BY <2>1, <2>2, <3>1 DEF References
  <2>4. \A x \in Steps : Own(x) = 0 /\ node[x].refs = 0
    BY AtFirst DEF Own, NoNode
  <2> QED
    BY <2>2, <2>3, <2>4 DEF RefsInv
<1> QED
  BY <1>2, <1>3, <1>4, <1>5, <1>6, <1>7, <1>8 DEF DepsInv

(* ... it is not disturbed by a step that changes nothing ...                *)
LEMMA InvStays ==
    ASSUME DepsInv, UNCHANGED depsVars
    PROVE  DepsInv'
<1>1. /\ UNCHANGED <<graph, step, at, todo, link, found, hash, tracked, node>>
      /\ UNCHANGED <<nodeLife, held, mtx, left, pending, complete>>
  BY DEF depsVars, creator, running
<1>2. Steps' = Steps /\ \A x : IsTask(x)' = IsTask(x) /\ HasNode(x)' = HasNode(x) /\ Filtered(x)' = Filtered(x)
  BY <1>1, SameProgram
<1>3. /\ Preparing' = Preparing /\ Entering' = Entering /\ Creating' = Creating /\ Emptying' = Emptying
      /\ \A v : Treated(v)' = Treated(v) /\ Linking(v)' = Linking(v)
      /\ \A x : Entered(x)' = Entered(x) /\ Submitted(x)' = Submitted(x) /\ Ready(x)' = Ready(x)
      /\ \A x, v, k : Seen(x, v, k)' = Seen(x, v, k)
  <2>1. Preparing' = Preparing /\ Entering' = Entering /\ Creating' = Creating /\ Emptying' = Emptying
    BY <1>1, <1>2 DEF Preparing, Entering, Creating, Emptying
  <2>2. \A x : Entered(x)' = Entered(x) /\ Submitted(x)' = Submitted(x) /\ Ready(x)' = Ready(x)
    BY <1>1, <1>2, <2>1 DEF Entered, Submitted, Ready
  <2>3. \A v : Treated(v)' = Treated(v) /\ Linking(v)' = Linking(v)
    BY <1>1, SameProgram, <2>1 DEF Treated, Linking, Least
  <2>4. \A x, v, k : Seen(x, v, k)' = Seen(x, v, k)
    BY <1>1, SameProgram, <2>3 DEF Seen
  <2> QED
    BY <2>1, <2>2, <2>3, <2>4
<1>4. /\ \A p : Listed(p)' = Listed(p) /\ ToNotify(p)' = ToNotify(p) /\ BodyIsOver(p)' = BodyIsOver(p)
      /\ SameLists /\ SameLinks /\ StayOver
  BY <1>1 DEF Listed, ToNotify, BodyIsOver, SameLists, SameLinks, StayOver
<1>5. DepsShape'
  <2>1. ParentPlaces'
    BY <1>1, <1>2, <1>3, SameProgram DEF DepsInv, DepsShape, ParentPlaces
  <2> QED
    BY <2>1, <1>1, <1>3, ShapeStays, ShapeAt DEF DepsInv, DepsShape, NodeTypes
<1>6. HashGood'
  <2>1. HashInv'
    BY <1>1, <1>3, HashKept DEF DepsInv, HashGood
  <2>2. TrackedInv'
    <3>1. HashIsEmpty' = HashIsEmpty
      BY <1>1 DEF HashIsEmpty, LastOut
    <3> QED
      BY <1>1, <1>2, <3>1 DEF DepsInv, HashGood, TrackedInv
  <2>3. LinkInv'
    BY <1>1, <1>2 DEF DepsInv, HashGood, LinkInv
  <2> QED
    BY <2>1, <2>2, <2>3 DEF HashGood
<1>7. DepCounts'
  <2>1. CountsInv'
    BY <1>1, <1>2, <1>3, <1>4, DepCountsKept DEF DepsInv, DepCounts
  <2>2. QueueInv'
    <3>1. \A p : Successor(p)' = Successor(p)
      BY <1>1 DEF Successor
    <3> QED
      BY <1>1, <1>2, <1>3, <3>1 DEF DepsInv, DepCounts, QueueInv
  <2>3. ReadyInv'
    BY <1>2, <1>3, <1>4, OwesSame DEF DepsInv, DepCounts, ReadyInv
  <2> QED
    BY <2>1, <2>2, <2>3 DEF DepCounts
<1>8. Order'
  <2>c. \A u, x : u \in Steps /\ x \in Steps => (Cov(u, x) => Cov(u, x)')
    BY <1>1, <1>4, CovKept
  <2>1. HashCovers'
    <3>1. CASE Creating
      <4>1. \A u, v : Waited(u, v)' <=> Waited(u, v)
        BY <1>1, <1>2, <1>3, SameProgram DEF Waited
      <4> QED
        BY <1>1, <1>3, <1>4, <3>1, <4>1, HashCoversKept DEF DepsInv, Order
    <3>2. CASE ~Creating
      BY <1>3, <3>2 DEF HashCovers
    <3> QED
      BY <3>1, <3>2
  <2>2. LinkCovers'
    <3>1. CASE Preparing
      <4>1. step \in Steps
        BY <3>1 DEF DepsInv, DepsShape, ParentPlaces, Entering
      <4>2. UNCHANGED creator
        BY <1>1 DEF creator
      <4> QED
        BY <1>1, <2>c, <4>1, <4>2, LinkCoversKept DEF DepsInv, Order
    <3>2. CASE ~Preparing
      BY <1>3, <3>2 DEF LinkCovers
    <3> QED
      BY <3>1, <3>2
  <2>3. Covered'
    BY <1>1, <1>3, <2>c, CoveredKept DEF DepsInv, Order
  <2> QED
    BY <2>1, <2>2, <2>3 DEF Order
<1>9. LockInv'
  BY <1>1, <1>3, LockKept DEF DepsInv
<1>10. CleanInv'
  <2>1. Uncounted' = Uncounted
    BY <1>1, <1>2, SameCounted
  <2>2. HashIsEmpty' = HashIsEmpty
    BY <1>1 DEF HashIsEmpty, LastOut
  <2> QED
    BY <1>1, <1>2, <1>3, <2>1, <2>2 DEF DepsInv, CleanInv
<1>11. RefsInv'
  BY <1>1, <1>3, RefsStay DEF DepsInv
<1> QED
  BY <1>5, <1>6, <1>7, <1>8, <1>9, <1>10, <1>11 DEF DepsInv

(* ... nor by any step of the parent or of a task.                           *)
LEMMA InvParent == ASSUME DepsInv, Parent PROVE DepsInv'
<1>1. CASE CreatePlain
  BY <1>1, ShapeCreatePlain, HashGoodCreatePlain, CountsCreatePlain, OrderCreatePlain,
     LockParent, CleanParent, RefsParent DEF DepsInv, HashGood, DepCounts
<1>2. CASE CreateWithDeps
  BY <1>2, ShapeCreateWithDeps, HashGoodCreateWithDeps, CountsCreateWithDeps, OrderCreateWithDeps,
     LockParent, CleanParent, RefsParent DEF DepsInv
<1>3. CASE WaitDeps
  BY <1>3, ShapeWaitDeps, HashGoodWaitDeps, CountsWaitDeps, OrderWaitDeps,
     LockParent, CleanParent, RefsParent DEF DepsInv
<1>4. CASE NextDep
  BY <1>4, ShapeNextDep, HashGoodNextDep, CountsNextDep, OrderNextDep,
     LockParent, CleanParent, RefsParent DEF DepsInv
<1>5. CASE Link
  BY <1>5, ShapeLink, HashGoodLink, CountsLink, OrderLink,
     LockParent, CleanParent, RefsParent DEF DepsInv, HashGood
<1>6. CASE UpdateHash
  BY <1>6, ShapeUpdateHash, HashGoodUpdateHash, CountsUpdateHash, OrderUpdateHash,
     LockParent, CleanParent, RefsParent DEF DepsInv, HashGood
<1>7. CASE Submit
  BY <1>7, ShapeSubmit, HashGoodSubmit, CountsSubmit, OrderSubmit,
     LockParent, CleanParent, RefsParent DEF DepsInv
<1>8. CASE EndWait
  BY <1>8, ShapeEndWait, HashGoodEndWait, CountsEndWait, OrderEndWait,
     LockParent, CleanParent, RefsParent DEF DepsInv
<1>9. CASE Ending
  BY <1>9, ShapeEnding, HashGoodEnding, CountsEnding, OrderEnding,
     LockParent, CleanParent, RefsParent DEF DepsInv
<1> QED
  BY <1>1, <1>2, <1>3, <1>4, <1>5, <1>6, <1>7, <1>8, <1>9 DEF Parent, Ending

LEMMA InvTask == ASSUME DepsInv, NEW x \in Steps, Task(x) PROVE DepsInv'
<1>1. DepsShape /\ HashGood /\ DepCounts /\ Order /\ LockInv /\ CleanInv /\ RefsInv /\ QueueInv
  BY DEF DepsInv, DepCounts
<1>2. DepsShape' /\ DepCounts' /\ Order'
  <2>1. CASE Quiet(x)
    BY <1>1, <2>1, ShapeQuiet, CountsQuiet, OrderQuiet
  <2>2. CASE MarkFinished(x)
    BY <1>1, <2>2, ShapeMarkFinished, CountsMarkFinished, OrderMarkFinished
  <2>3. CASE Notify(x)
    BY <1>1, <2>3, ShapeNotify, CountsNotify, OrderNotify
  <2>4. CASE QueueSuccessor(x)
    BY <1>1, <2>4, ShapeQueueSuccessor, CountsQueueSuccessor, OrderQueueSuccessor
  <2>5. CASE ForgetSuccessor(x)
    BY <1>1, <2>5, ShapeForgetSuccessor, CountsForgetSuccessor, OrderForgetSuccessor
  <2>6. CASE ForgetOwnNode(x)
    BY <1>1, <2>6, ShapeForgetOwnNode, CountsForgetOwnNode, OrderForgetOwnNode
  <2>7. CASE Freeing(x)
    BY <1>1, <2>7, ShapeFreeing, CountsFreeing, OrderFreeing
  <2> QED
    BY <2>1, <2>2, <2>3, <2>4, <2>5, <2>6, <2>7 DEF Task, Quiet, Freeing
<1>3. HashGood'
  BY <1>1, HashGoodTask
<1>4. LockInv'
  BY <1>1, LockTask
<1>5. CleanInv'
  BY <1>1, <1>2, CleanTask
<1>6. RefsInv'
  BY <1>1, RefsTask
<1> QED
  BY <1>2, <1>3, <1>4, <1>5, <1>6 DEF DepsInv

LEMMA InvNext == DepsInv /\ [DepsNext]_depsVars => DepsInv'
<1> SUFFICES ASSUME DepsInv, [DepsNext]_depsVars PROVE DepsInv'
  OBVIOUS
<1>1. CASE Parent
  BY <1>1, InvParent
<1>2. CASE \E x \in Steps : Task(x)
  BY <1>2, InvTask
<1>3. CASE UNCHANGED depsVars
  BY <1>3, InvStays
<1> QED
  BY <1>1, <1>2, <1>3 DEF DepsNext

(* The nodes keep their form, the hash names only steps of the program that  *)
(* name the variable, a task's count of predecessors is the number of the    *)
(* notifications it has yet to get, every earlier step that it depends on is *)
(* over or reaches it through one of these, and references, locks and        *)
(* children are counted right: whatever the program, the variables and the   *)
(* limit on locks, for as many tasks as it creates.                          *)
THEOREM DepsInvHolds == DepsSpec => []DepsInv
BY InvAtFirst, InvNext, PTL DEF DepsSpec

-----------------------------------------------------------------------------
(* What follows from it.                                                     *)

LEMMA BegunIsReady ==
    ASSUME DepsShape, NEW x \in Steps, HasBegun(x)
    PROVE  Ready(x) /\ Submitted(x)
<1>1. LifeAt(x) /\ Steps \subseteq Nat /\ step \in Nat
  BY ShapeAt
<1>2. CASE IsTask(x)
  BY <1>1, <1>2, OverIsReady DEF HasBegun, Ready, LifeAt, Entered, Submitted, Entering
<1>3. CASE ~IsTask(x)
  BY <1>1, <1>3 DEF HasBegun, Ready, Submitted
<1> QED
  BY <1>2, <1>3

LEMMA RunsWithLocks ==
    ASSUME DepsShape, LockInv, NEW x \in Steps, IsTask(x), nodeLife[x] = "runs",
           NEW v \in Variables, Names(x, v, "mtx")
    PROVE  mtx[v] = x
<1>1. LifeAt(x) /\ x < step
  <2>1. LifeAt(x)
    BY ShapeAt
  <2>2. Submitted(x)
    BY BegunIsReady DEF HasBegun
  <2>3. at = "wait" => ~IsTask(step)
    BY DEF DepsShape, ParentPlaces
  <2> QED
    BY <2>1, <2>2, <2>3 DEF Submitted
<1>2. Seen(x, v, "mtx")
  BY <1>1 DEF Seen
<1> QED
  BY <1>2 DEF LockInv

LEMMA InvOrders == DepsInv => DependencesHold
<1> SUFFICES ASSUME DepsInv, NEW x \in Steps, HasBegun(x), NEW u \in 1..(x - 1), IsTask(u)
             PROVE  /\ Ordered(u, x) => BodyIsOver(u)
                    /\ (IsTask(x) /\ nodeLife[u] = "runs") =>
                           ~\E v \in Variables : Names(u, v, "mtx") /\ Names(x, v, "mtx")
  BY DEF DependencesHold
<1>1. DepsShape /\ ReadyInv /\ Covered /\ LockInv
  BY DEF DepsInv, DepCounts, Order
<1>2. u \in Steps /\ u < x /\ u # x
  BY <1>1, ShapeAt
<1>3. Ready(x) /\ Submitted(x)
  BY <1>1, BegunIsReady
<1>4. ASSUME Ordered(u, x) PROVE BodyIsOver(u)
  <2>1. Cov(u, x)
    BY <1>1, <1>2, <1>3, <1>4 DEF Covered, Follows
  <2> QED
    BY <1>1, <1>2, <1>3, <2>1, NobodyOwes
<1>5. ASSUME IsTask(x), nodeLife[u] = "runs", NEW v \in Variables, Names(u, v, "mtx"), Names(x, v, "mtx")
      PROVE  FALSE
  <2>1. mtx[v] = u
    BY <1>1, <1>2, <1>5, RunsWithLocks
  <2>2. mtx[v] = x
    BY <1>1, <1>5, RunsWithLocks DEF HasBegun
  <2> QED
    BY <2>1, <2>2, <1>2
<1> QED
  BY <1>4, <1>5

(* A task runs, and a wait ends, only when the earlier tasks that it depends *)
(* on have run, and tasks with a mutexinoutset variable in common run one    *)
(* after the other: for every program, with its tasks ending while the       *)
(* parent links new ones to them (__kmp_process_deps, __kmp_release_deps,    *)
(* __kmp_task_is_allowed).                                                   *)
THEOREM DependencesAreKept == DepsSpec => []DependencesHold
BY DepsInvHolds, InvOrders, PTL

LEMMA InvCounts == DepsInv => NodesLiveWhileUsed
<1> SUFFICES ASSUME DepsInv PROVE NodesLiveWhileUsed
  OBVIOUS
<1>1. DepsShape /\ HashGood /\ CleanInv /\ RefsInv
  BY DEF DepsInv
<1>2. ASSUME NEW x \in Steps, IsTask(x)
      PROVE  /\ node[x].refs >= References(x)
             /\ ~Emptying /\ HashIsEmpty /\ LinksTo(x) = {} /\ nodeLife[x] = "freed" => node[x].refs = 0
  <2>1. node[x].refs = Own(x) + References(x) /\ IsFiniteSet(LinksTo(x))
    BY <1>1, <1>2 DEF RefsInv
  <2>2. Own(x) \in {0, 1} /\ (nodeLife[x] = "freed" => Own(x) = 0)
    BY DEF Own, Gone
  <2>3. Cardinality(InHash(x)) \in Nat /\ Cardinality(LinksTo(x)) \in Nat
    BY <1>1, <2>1, FewInHash, FS_CardinalityType
  <2>4. References(x) \in Nat
    BY <2>3 DEF References
  <2>5. ASSUME ~Emptying, HashIsEmpty, LinksTo(x) = {} PROVE References(x) = 0
    <3>1. Cardinality(InHash(x)) = 0 /\ Cardinality({}) = 0
      BY <2>5, NoneInHash, FS_EmptySet
    <3> QED
      BY <2>5, <3>1 DEF References
  <2> QED
    BY <2>1, <2>2, <2>4, <2>5
<1>3. ASSUME at = "end", \A x \in Steps : IsTask(x) => nodeLife[x] = "freed"
      PROVE  ~Emptying /\ HashIsEmpty /\ \A x : LinksTo(x) = {}
  <2>1. \A x \in Steps : IsTask(x) \/ nodeLife[x] = "none"
    BY <1>1, ShapeAt DEF LifeAt
  <2>2. ~Emptying /\ ~Creating
    <3>1. \A x \in Steps : nodeLife[x] # "emptying"
      BY <1>3, <2>1
    <3> QED
      BY <1>3, <3>1 DEF Emptying, Creating, Entering, Preparing
  <2>3. ~complete
    BY <1>1, <1>3 DEF CleanInv
  <2>4. HashIsEmpty
    BY <1>1, <2>2, <2>3 DEF CleanInv
  <2>5. \A u \in Steps : Listed(u) = 0
    <3> SUFFICES ASSUME NEW u \in Steps PROVE Listed(u) = 0
      OBVIOUS
    <3>1. CASE IsTask(u)
      <4>1. nodeLife[u] = "freed" /\ LeftAt(u)
        BY <1>1, <1>3, <3>1, ShapeAt
      <4> QED
        BY <4>1 DEF LeftAt, Listed, Gone, Released
    <3>2. CASE ~IsTask(u)
      <4>1. SuccAt(u) /\ nodeLife[u] = "none"
        BY <1>1, <2>1, <3>2, ShapeAt
      <4>2. node[u].succ = <<>>
        BY <4>1, <3>2 DEF SuccAt
      <4> QED
        BY <4>1, <4>2 DEF Listed, Released
    <3> QED
      BY <3>1, <3>2
  <2>6. ASSUME NEW x PROVE LinksTo(x) = {}
    <3>1. ASSUME NEW e \in LinksTo(x) PROVE FALSE
      <4>1. PICK p \in Steps : \E i : e = <<p, i>>
        BY <3>1, LinksWere
      <4>2. PICK i : e = <<p, i>>
        BY <4>1
      <4>3. i \in 1..Listed(p)
        BY <3>1, <4>2, LinksWere
      <4> QED
        BY <4>3, <2>5
    <3> QED
      BY <3>1
  <2> QED
    BY <2>2, <2>4, <2>6
<1> QED
  BY <1>2, <1>3 DEF NodesLiveWhileUsed

(* The node of a task has at least the references that the hash and the      *)
(* lists still hold to it, so that it is not freed under them, and none when *)
(* the parent and its tasks are gone: the hash of an implicit task is        *)
(* cleaned exactly once, whoever comes last (__kmp_node_deref,               *)
(* __kmp_finish_implicit_task, __kmp_free_task_and_ancestors).               *)
THEOREM ReferencesAreCounted == DepsSpec => []NodesLiveWhileUsed
BY DepsInvHolds, InvCounts, PTL
================================================================================
