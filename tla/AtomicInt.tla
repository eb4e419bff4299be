------------------------------ MODULE AtomicInt ------------------------------
(***************************************************************************)
(* pctk::AtomicInt shared by several threads: every method of the class    *)
(* that touches m_value is an action, with the memory order its back end   *)
(* passes.  The operators of the class are these methods: operator int is  *)
(* load(), operator= is storeRelease(), == and != are loadAcquire() twice, *)
(* and ++, --, +=, -=, |=, &=, ^= are the fetchAnd*Ordered methods.        *)
(*                                                                         *)
(* The plain writes (Writes) are what the threads want to hand over        *)
(* through the integer.  log and acq are history variables: what the names *)
(* of the methods called so far promise about that hand-over.              *)
(***************************************************************************)
EXTENDS AtomicMemory

CONSTANTS
    Backend,                                   \* the back end compiled in
    Half,                                      \* int is -Half .. Half - 1
    Args,                                      \* arguments the threads pass
    MaxStores,                                 \* bound on the length of mo
    BitOr(_, _), BitAnd(_, _), BitXor(_, _)    \* the language's |, & and ^

IntRange == (-Half)..(Half - 1)

ASSUME BackendAssumption == Backend \in Backends
ASSUME HalfAssumption == Half \in Nat \ {0}
ASSUME ArgsAssumption == Args \subseteq IntRange
ASSUME BitsAssumption ==
    \A x, y \in IntRange :
        {BitOr(x, y), BitAnd(x, y), BitXor(x, y)} \subseteq IntRange

VARIABLES
    log,    \* log[i]: who stored mo[i] and how (see Logged)
    acq     \* acq[t]: the elements of mo read by t through a method named
            \* Acquire or Ordered

vars == <<mo, seen, hb, log, acq>>

(* Mutant: mathematical integers.                                          *)
Unbounded(x) == x

(* The value of an int expression: std::atomic arithmetic wraps around.    *)
Wrap(x) == ((x + Half) % (2 * Half)) - Half

Stored == [had : SUBSET Writes, named : BOOLEAN, rmw : BOOLEAN]

TypeOK ==
    /\ MemTypeOK(IntRange)
    /\ log \in Seq(Stored)
    /\ Len(log) = Len(mo)
    /\ acq \in [Threads -> SUBSET (1..Len(mo))]

Init ==
    /\ MemInit(0)
    /\ log = << [had |-> {}, named |-> FALSE, rmw |-> FALSE] >>
    /\ acq = [t \in Threads |-> {}]

CanStore == Len(mo) <= MaxStores

(* The store t makes in this step: what happened before it, whether its    *)
(* method is named Release or Ordered, whether it is a read-modify-write.  *)
Logged(t, named, rmw) ==
    log' = Append(log, [had |-> hb'[t], named |-> named, rmw |-> rmw])

Observed(t, named, i) ==
    acq' = IF named THEN [acq EXCEPT ![t] = @ \cup {i}] ELSE acq

-----------------------------------------------------------------------------
(* A write to ordinary memory, made by the thread before or between calls. *)
Write(t) ==
    \E w \in Writes :
        /\ \A u \in Threads : w \notin hb[u]
        /\ PlainWrite(t, w)
        /\ UNCHANGED <<log, acq>>

Load(t) ==
    \E i \in 1..Len(mo) :
        /\ AtomicRead(t, i, PlainOrder(Backend).load)
        /\ UNCHANGED <<log, acq>>

LoadAcquire(t) ==
    \E i \in 1..Len(mo) :
        /\ AtomicRead(t, i, PlainOrder(Backend).loadAcquire)
        /\ Observed(t, TRUE, i)
        /\ UNCHANGED log

(* AtomicInt(const AtomicInt &): the new object is still private to t.     *)
CopyConstruct(t) ==
    \E i \in 1..Len(mo) :
        /\ AtomicRead(t, i, PlainOrder(Backend).copyLoad)
        /\ UNCHANGED <<log, acq>>

Store(t, value) ==
    /\ CanStore
    /\ AtomicWrite(t, value, PlainOrder(Backend).store)
    /\ Logged(t, FALSE, FALSE)
    /\ UNCHANGED acq

StoreRelease(t, value) ==
    /\ CanStore
    /\ AtomicWrite(t, value, PlainOrder(Backend).storeRelease)
    /\ Logged(t, TRUE, FALSE)
    /\ UNCHANGED acq

-----------------------------------------------------------------------------
(* testAndSet{Relaxed,Acquire,Release,Ordered}: a strong compare-exchange. *)
TestAndSet(t, suffix, expected, desired) ==
    /\ CanStore
    /\ Newest.val = expected
    /\ AtomicUpdate(t, desired, TestAndSetOrder(Backend)[suffix].success)
    /\ Logged(t, suffix \in NamedRelease, TRUE)
    /\ Observed(t, suffix \in NamedAcquire, Len(mo))

TestAndSetFails(t, suffix, expected) ==
    \E i \in 1..Len(mo) :
        /\ mo[i].val # expected
        /\ AtomicRead(t, i, TestAndSetOrder(Backend)[suffix].failure)
        /\ Observed(t, suffix \in NamedAcquire, i)
        /\ UNCHANGED log

(* The fetchAnd* methods replace the newest value by a function of it.     *)
FetchAndUpdate(t, suffix, value) ==
    /\ CanStore
    /\ AtomicUpdate(t, value, FetchOrder(Backend)[suffix])
    /\ Logged(t, suffix \in NamedRelease, TRUE)
    /\ Observed(t, suffix \in NamedAcquire, Len(mo))

FetchAndStore(t, suffix, desired) == FetchAndUpdate(t, suffix, desired)
FetchAndAdd(t, suffix, arg) == FetchAndUpdate(t, suffix, Wrap(Newest.val + arg))
FetchAndSub(t, suffix, arg) == FetchAndUpdate(t, suffix, Wrap(Newest.val - arg))
FetchAndOr(t, suffix, arg) == FetchAndUpdate(t, suffix, BitOr(Newest.val, arg))
FetchAndAnd(t, suffix, arg) == FetchAndUpdate(t, suffix, BitAnd(Newest.val, arg))
FetchAndXor(t, suffix, arg) == FetchAndUpdate(t, suffix, BitXor(Newest.val, arg))

(* ref() and deref(); what they return matters in RefCount.                *)
Ref(t) ==
    /\ CanStore
    /\ AtomicUpdate(t, Wrap(Newest.val + 1), PlainOrder(Backend).ref)
    /\ Logged(t, FALSE, TRUE)
    /\ UNCHANGED acq

Deref(t) ==
    /\ CanStore
    /\ AtomicUpdate(t, Wrap(Newest.val - 1), PlainOrder(Backend).deref)
    /\ Logged(t, FALSE, TRUE)
    /\ UNCHANGED acq

-----------------------------------------------------------------------------
ThreadStep(t) ==
    \/ Write(t)
    \/ Load(t)
    \/ LoadAcquire(t)
    \/ CopyConstruct(t)
    \/ Ref(t)
    \/ Deref(t)
    \/ \E value \in Args : Store(t, value) \/ StoreRelease(t, value)
    \/ \E suffix \in Suffixes, arg \in Args :
          \/ \E desired \in Args : TestAndSet(t, suffix, arg, desired)
          \/ TestAndSetFails(t, suffix, arg)
          \/ FetchAndStore(t, suffix, arg)
          \/ FetchAndAdd(t, suffix, arg)
          \/ FetchAndSub(t, suffix, arg)
          \/ FetchAndOr(t, suffix, arg)
          \/ FetchAndAnd(t, suffix, arg)
          \/ FetchAndXor(t, suffix, arg)

Next == \E t \in Threads : ThreadStep(t)

Spec == Init /\ [][Next]_vars

-----------------------------------------------------------------------------
(* The names of the methods keep their word.  If mo[i] was stored by a     *)
(* method named Release or Ordered, only read-modify-writes separate it    *)
(* from mo[j], and a method named Acquire or Ordered (a failed testAndSet  *)
(* included) read mo[j], then everything that happened before the store    *)
(* happened before whatever the reader does next: it may read the          *)
(* writer's plain data.                                                    *)
ReleaseSequence(i, j) == \A k \in (i + 1)..j : log[k].rmw

AcquireSeesRelease ==
    \A t \in Threads : \A j \in acq[t] : \A i \in 1..j :
        log[i].named /\ ReleaseSequence(i, j) => log[i].had \subseteq hb[t]
=============================================================================
