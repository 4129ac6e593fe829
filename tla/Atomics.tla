------------------------------- MODULE Atomics -------------------------------
(***************************************************************************)
(* The atomic routines of kmp_atomic.cpp on one location, for a 64-bit x86 *)
(* build (KMP_ARCH_X86 is 0 there).  A routine is a form (update, capture, *)
(* read, ...) of an operation for a type.  Its table entry says how it     *)
(* gets its atomicity: by fetch-and-add, by exchange, by a loop around     *)
(* compare-and-swap, or by one of the atomic locks, and whether the GNU    *)
(* compatible mode replaces that by the lock that GOMP_atomic_start takes. *)
(* Every load, store, exchange and lock operation is a step.               *)
(***************************************************************************)
EXTENDS Integers, FiniteSets

CONSTANTS
    Thread,
    Programs,       \* the type, the mode and the forms that a program uses
    Operands,
    Size,           \* bound: values are counted modulo Size
    MaxCalls        \* bound: calls of the program

VARIABLES
    program,        \* the program, with __kmp_atomic_mode
    mem,            \* the location
    holder,         \* the thread that holds each atomic lock; locks nobody took are free
    op,             \* the routine each thread is in, and its local variables
    calls

vars == <<program, mem, holder, op, calls>>

Fixed == {"fixed1", "fixed2", "fixed4", "fixed8"}
Real == {"float4", "float8"}
Wide == {"float10", "float16", "cmplx4", "cmplx8", "cmplx10", "cmplx16"}
Locks == {"0", "8c", "10r", "16r", "16c", "20c", "32c"}
LockOf == [type \in Wide |->
             CASE type = "cmplx4"  -> "8c"  [] type = "float10" -> "10r" [] type = "float16" -> "16r"
               [] type = "cmplx8"  -> "16c" [] type = "cmplx10" -> "20c" [] type = "cmplx16" -> "32c"]
Idle == [at |-> "idle"]

Init == /\ program \in Programs /\ mem = 1 /\ calls = 0
        /\ holder = [l \in Locks |-> {}]
        /\ op = [t \in Thread |-> Idle]

-----------------------------------------------------------------------------
(* The tables of routines.                                                  *)

Entry(how, lock, gomp) == [how |-> how, lock |-> lock, gomp |-> gomp]
FetchAdd == Entry("fetch", "0", FALSE)
Exchange == Entry("exchange", "0", FALSE)
CmpXchg == Entry("cmpxchg", "0", FALSE)
Critical(type) == Entry("critical", LockOf[type], TRUE)

(* Plain updates.                                                           *)
UpdateFixed(type, o) ==
    IF type \in {"fixed4", "fixed8"} /\ o \in {"add", "sub"} THEN FetchAdd ELSE CmpXchg
UpdateLogical(type) == CmpXchg
UpdateMinMax(type) == IF type = "float16" THEN Critical(type) ELSE CmpXchg
UpdateEqv(type) == CmpXchg
UpdateWide(type) ==
    IF type = "cmplx4" THEN Entry("cmpxchg", "0", TRUE) ELSE Critical(type)
Update(type, o) == CASE o \in {"max", "min"} -> UpdateMinMax(type)
                     [] o = "andl" -> UpdateLogical(type)
                     [] o = "eqv" -> UpdateEqv(type)
                     [] type \in Wide -> UpdateWide(type)
                     [] OTHER -> UpdateFixed(type, o)

(* x = expr op x, and right operands of another type.                       *)
Reversed(type) == CmpXchg
ReversedWide(type) == Critical(type)
Mixed(type) == IF type = "float10" THEN Critical(type) ELSE CmpXchg
MixedComplex(type) == CmpXchg

Read(type) == CASE type \in Fixed -> FetchAdd
                [] type \in Real -> CmpXchg
                [] OTHER -> Critical(type)
Write(type) == IF type \in Wide THEN Critical(type) ELSE Exchange
Swap(type) == IF type \in Wide THEN Critical(type) ELSE Exchange

(* Updates that return the old or the new value.                            *)
CaptureFixed(type, o) ==
    IF type \in {"fixed4", "fixed8"} /\ o \in {"add", "sub"} THEN FetchAdd ELSE CmpXchg
CaptureLogical(type) == CmpXchg
CaptureMinMax(type) == IF type = "float16" THEN Critical(type) ELSE CmpXchg
CaptureEqv(type) == CmpXchg
CaptureWide(type) == Critical(type)
Capture(type, o) == CASE o \in {"max", "min"} -> CaptureMinMax(type)
                      [] o = "andl" -> CaptureLogical(type)
                      [] o = "eqv" -> CaptureEqv(type)
                      [] type \in Wide -> CaptureWide(type)
                      [] OTHER -> CaptureFixed(type, o)
CaptureReversed(type) == IF type \in Wide THEN Critical(type) ELSE CmpXchg
CaptureMixed(type) == IF type = "float10" THEN Critical(type) ELSE CmpXchg
CaptureReversedMixed(type) == IF type = "float10" THEN Critical(type) ELSE CmpXchg

(* The generic routines, by the size of the type, take the update as a      *)
(* function.                                                                *)
GenericSmall(type) == CmpXchg
GenericLarge(type) ==
    IF type = "float16" THEN Entry("critical", "16c", TRUE) ELSE Critical(type)

(* A region between GOMP_atomic_start and GOMP_atomic_end.                  *)
Region == Entry("critical", "0", TRUE)

Small(type) == type \notin Wide \/ type = "cmplx4"
RoutineOf(type, form, o) ==
    CASE form = "update"   -> Update(type, o)
      [] form = "reversed" -> IF type \in Wide THEN ReversedWide(type) ELSE Reversed(type)
      [] form = "mixed"    -> IF type = "cmplx4" THEN MixedComplex(type) ELSE Mixed(type)
      [] form = "read"     -> Read(type)
      [] form = "write"    -> Write(type)
      [] form = "swap"     -> Swap(type)
      [] form \in {"capture", "captureMinMax"} -> Capture(type, o)
      [] form = "captureReversed" -> CaptureReversed(type)
      [] form = "captureMixed"    -> CaptureMixed(type)
      [] form = "captureReversedMixed" -> CaptureReversedMixed(type)
      [] form = "generic"  -> IF Small(type) THEN GenericSmall(type) ELSE GenericLarge(type)
      [] form = "region"   -> Region

(* The operations that a form has for a type.                               *)
OperationsOf(type, form) ==
    CASE form \in {"read", "write", "swap"} -> {form}
      [] form \in {"reversed", "captureReversed", "captureReversedMixed"} -> {"rsub"}
      [] form \in {"mixed", "captureMixed", "generic", "region"} -> {"add", "mul"}
      [] form = "captureMinMax" -> {"max", "min"}
      [] OTHER -> {"add", "mul"} \cup (IF type \in Fixed THEN {"andl", "eqv"} ELSE {})
                  \cup (IF form = "update" /\ type \in Fixed \cup Real \cup {"float16"}
                        THEN {"max", "min"} ELSE {})

(* Mutant: the GNU compatible mode keeps the lock of the type.              *)
MethodOwnLock(t) ==
    LET r == RoutineOf(program.type, op[t].form, op[t].o) IN
    IF r.gomp /\ program.mode = 2 THEN Entry("critical", r.lock, TRUE) ELSE r

(* In the GNU compatible mode a flagged routine takes the common lock.      *)
Method(t) ==
    LET r == RoutineOf(program.type, op[t].form, op[t].o) IN
    IF r.gomp /\ program.mode = 2 THEN Region ELSE r

-----------------------------------------------------------------------------
(* Values.                                                                  *)
Lower(a, b) == IF a < b THEN a ELSE b
Apply(o, x, r) ==
    (CASE o = "add"  -> x + r
       [] o = "sub"  -> x + Size - r
       [] o = "rsub" -> r + Size - x
       [] o = "mul"  -> x * r
       [] o = "max"  -> x + r - Lower(x, r)
       [] o = "min"  -> Lower(x, r)
       [] o = "andl" -> IF x # 0 /\ r # 0 THEN 1 ELSE 0
       [] o = "eqv"  -> IF x = r THEN 1 ELSE 0
       [] o = "read" -> x
       [] o \in {"write", "swap"} -> r) % Size

MinMax(t) == op[t].o \in {"max", "min"}
Needed(t, x) == Apply(op[t].o, x, op[t].rhs) # x
New(t, x) == Apply(op[t].o, x, op[t].rhs)
Result(t, x) == CASE op[t].capture = "none" -> 0
                  [] op[t].capture = "old"  -> x
                  [] op[t].capture = "new"  -> New(t, x)

MoveTo(t, where) == op' = [op EXCEPT ![t].at = where]
EndWith(t, result) == op' = [op EXCEPT ![t].at = "done", ![t].result = result]

Captures(form) == CASE form \in {"update", "reversed", "mixed", "write", "generic", "region"} -> {"none"}
                    [] form \in {"read", "swap"} -> {"old"}
                    [] OTHER -> {"old", "new"}

-----------------------------------------------------------------------------
(* The program calls a routine.                                             *)
BeginCall(t) ==
    /\ op[t].at = "idle" /\ calls < MaxCalls /\ calls' = calls + 1
    /\ \E f \in program.forms, r \in Operands :
         \E o \in OperationsOf(program.type, f), c \in Captures(f) :
           op' = [op EXCEPT ![t] =
             [at |-> IF o \in {"max", "min"} THEN "look" ELSE "enter", form |-> f, o |-> o,
              rhs |-> IF f = "read" THEN 0 ELSE r, capture |-> c, old |-> 0, result |-> 0]]
    /\ UNCHANGED <<program, mem, holder>>

(* Minimum and maximum look first, without any lock, whether there is       *)
(* anything to do; a capture that has nothing to do reads once more.        *)
Look(t) ==
    /\ op[t].at = "look"
    /\ IF Needed(t, mem) THEN MoveTo(t, "enter")
       ELSE IF op[t].capture = "none" THEN EndWith(t, 0) ELSE MoveTo(t, "reread")
    /\ UNCHANGED <<program, mem, holder, calls>>

Reread(t) ==
    /\ op[t].at = "reread" /\ EndWith(t, mem)
    /\ UNCHANGED <<program, mem, holder, calls>>

FetchAndAdd(t) ==
    /\ op[t].at = "enter" /\ Method(t).how = "fetch"
    /\ mem' = New(t, mem) /\ EndWith(t, Result(t, mem))
    /\ UNCHANGED <<program, holder, calls>>

ExchangeWord(t) ==
    /\ op[t].at = "enter" /\ Method(t).how = "exchange"
    /\ mem' = New(t, mem) /\ EndWith(t, Result(t, mem))
    /\ UNCHANGED <<program, holder, calls>>

(* The loop of a minimum or maximum ends when the value just loaded leaves  *)
(* nothing to do.                                                           *)
Load(t) ==
    /\ op[t].at = "enter" /\ Method(t).how = "cmpxchg"
    /\ IF MinMax(t) /\ ~Needed(t, mem)
         THEN EndWith(t, CASE op[t].capture = "none" -> 0
                        [] op[t].capture = "old"  -> mem
                        [] op[t].capture = "new"  -> op[t].rhs)
         ELSE op' = [op EXCEPT ![t].at = "swap", ![t].old = mem]
    /\ UNCHANGED <<program, mem, holder, calls>>

(* A read takes what it finds in any case; otherwise a failure reads again. *)
CompareAndSwap(t) ==
    /\ op[t].at = "swap"
    /\ IF op[t].o = "read" \/ mem = op[t].old
         THEN mem' = New(t, mem) /\ EndWith(t, Result(t, mem))
         ELSE MoveTo(t, "enter") /\ UNCHANGED mem
    /\ UNCHANGED <<program, holder, calls>>

Acquire(t) ==
    /\ op[t].at = "enter" /\ Method(t).how = "critical"
    /\ holder[Method(t).lock] = {} /\ holder' = [holder EXCEPT ![Method(t).lock] = {t}]
    /\ MoveTo(t, "locked")
    /\ UNCHANGED <<program, mem, calls>>

LoadLocked(t) ==
    /\ op[t].at = "locked"
    /\ op' = [op EXCEPT ![t].at = "store", ![t].old = mem]
    /\ UNCHANGED <<program, mem, holder, calls>>

StoreLocked(t) ==
    /\ op[t].at = "store"
    /\ mem' = New(t, op[t].old)
    /\ op' = [op EXCEPT ![t].at = "release", ![t].result = Result(t, op[t].old)]
    /\ UNCHANGED <<program, holder, calls>>

Release(t) ==
    /\ op[t].at = "release" /\ MoveTo(t, "done")
    /\ holder' = [holder EXCEPT ![Method(t).lock] = @ \ {t}]
    /\ UNCHANGED <<program, mem, calls>>

EndCall(t) ==
    /\ op[t].at = "done" /\ op' = [op EXCEPT ![t] = Idle]
    /\ UNCHANGED <<program, mem, holder, calls>>

-----------------------------------------------------------------------------
Step(t) ==
    \/ Look(t) \/ Reread(t) \/ FetchAndAdd(t) \/ ExchangeWord(t) \/ Load(t) \/ CompareAndSwap(t)
    \/ LoadLocked(t) \/ StoreLocked(t) \/ Release(t) \/ EndCall(t)

Next == \E t \in Thread : BeginCall(t) \/ Step(t) \/ Acquire(t)

(* The atomic locks are queuing locks, which are fair.                      *)
Fairness == \A t \in Thread : WF_vars(Step(t)) /\ SF_vars(Acquire(t))

Spec == Init /\ [][Next]_vars /\ Fairness

(* The call as the program sees it.  It has taken effect when the location  *)
(* was written, and if nothing was to be written when that was seen.        *)
CallSeen(t) ==
    CASE op[t].at = "idle" -> Idle
      [] op[t].at \in {"release", "done"} -> [at |-> "done", result |-> op[t].result]
      [] OTHER -> [at |-> "called", op |-> op[t].o, rhs |-> op[t].rhs, capture |-> op[t].capture]

Constructs == INSTANCE AtomicSpec WITH
    x <- mem, call <- [t \in Thread |-> CallSeen(t)],
    Operations <- {"add", "sub", "rsub", "mul", "max", "min", "andl", "eqv", "read", "write", "swap"},
    Operands <- Operands \cup {0}

(* Whatever routines the program mixes on the location, each takes effect   *)
(* at one moment between its call and its return, captures what it found or *)
(* left at that moment, and returns.                                        *)
ImplementsAtomic == Constructs!Spec
=============================================================================
