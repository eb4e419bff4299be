-------------------------- MODULE AtomicIntProofs --------------------------
(***************************************************************************)
(* Proofs about AtomicInt, for any threads, values and back end: the       *)
(* memory orders the back ends pass keep what the methods' names promise.  *)
(***************************************************************************)
EXTENDS AtomicInt, SequenceTheorems, TLAPS

(* AcquireSeesRelease made inductive: a release sequence carries what its  *)
(* head released.                                                          *)
ChainCarries ==
    \A j \in 1..Len(mo) : \A i \in 1..j :
        log[i].named /\ ReleaseSequence(i, j) => log[i].had \subseteq mo[j].pub

IInv == TypeOK /\ ChainCarries /\ AcquireSeesRelease

Messages == [val : IntRange, pub : SUBSET Writes]

-----------------------------------------------------------------------------
(* The tables of orders keep the promises of the names.                    *)
LEMMA OrdersKeepNames ==
    /\ Acquires(PlainOrder(Backend).loadAcquire)
    /\ Releases(PlainOrder(Backend).storeRelease)
    /\ \A s \in NamedAcquire :
          /\ Acquires(FetchOrder(Backend)[s])
          /\ Acquires(TestAndSetOrder(Backend)[s].success)
          /\ Acquires(TestAndSetOrder(Backend)[s].failure)
    /\ \A s \in NamedRelease :
          /\ Releases(FetchOrder(Backend)[s])
          /\ Releases(TestAndSetOrder(Backend)[s].success)
  BY DEF NamedAcquire, NamedRelease, Acquires, Releases, PlainOrder, FetchOrder,
         TestAndSetOrder, Cxx11PlainOrder, C11PlainOrder, Cxx11FetchOrder, C11FetchOrder,
         Cxx11TestAndSetOrder, C11TestAndSetOrder

LEMMA WrapInRange ==
    ASSUME NEW x \in Int
    PROVE  Wrap(x) \in IntRange
  <1>1. Half \in Nat /\ Half > 0
    BY HalfAssumption
  <1>2. (x + Half) % (2 * Half) \in 0..(2 * Half - 1)
    BY <1>1
  <1> QED
    BY <1>1, <1>2 DEF Wrap, IntRange

LEMMA NewestTyped ==
    ASSUME TypeOK
    PROVE  Newest \in Messages
  <1>1. mo \in Seq(Messages) /\ Len(mo) \in 1..Len(mo)
    BY DEF TypeOK, MemTypeOK, Messages
  <1> QED
    BY <1>1, ElementOfSeq DEF Newest

-----------------------------------------------------------------------------
(* A step that only reads: the thread knows more, and what a method named  *)
(* Acquire or Ordered read is known to it.                                 *)
LEMMA ReadStep ==
    ASSUME IInv,
           NEW t \in Threads, NEW i \in 1..Len(mo), NEW order, NEW named \in BOOLEAN,
           AtomicRead(t, i, order), Observed(t, named, i), UNCHANGED log,
           named => Acquires(order)
    PROVE  IInv'
  <1> USE DEF IInv
  <1>1. mo[i] \in Messages
    <2>1. mo \in Seq(Messages)
      BY DEF TypeOK, MemTypeOK, Messages
    <2> QED
      BY <2>1, ElementOfSeq
  <1>2. /\ mo' = mo /\ log' = log
        /\ hb \in [Threads -> SUBSET Writes]
        /\ acq \in [Threads -> SUBSET (1..Len(mo))]
        /\ Len(mo) \in Nat
    BY DEF AtomicRead, TypeOK, MemTypeOK
  <1>3. /\ hb' = [hb EXCEPT ![t] = IF Acquires(order) THEN @ \cup mo[i].pub ELSE @]
        /\ acq' = IF named THEN [acq EXCEPT ![t] = @ \cup {i}] ELSE acq
    BY DEF AtomicRead, Observed
  <1>4. hb' \in [Threads -> SUBSET Writes] /\ \A u \in Threads : hb[u] \subseteq hb'[u]
    BY <1>1, <1>2, <1>3 DEF Messages
  <1>5. TypeOK'
    <2>1. seen' \in [Threads -> 1..Len(mo)]
      BY DEF AtomicRead, TypeOK, MemTypeOK
    <2>2. acq' \in [Threads -> SUBSET (1..Len(mo))]
      BY <1>2, <1>3
    <2> QED
      BY <1>2, <1>4, <2>1, <2>2 DEF TypeOK, MemTypeOK
  <1>6. ChainCarries'
    BY <1>2 DEF ChainCarries, ReleaseSequence
  <1>7. AcquireSeesRelease'
    <2> SUFFICES ASSUME NEW u \in Threads, NEW j \in acq'[u], NEW k \in 1..j,
                        log[k].named, ReleaseSequence(k, j)
                 PROVE  log[k].had \subseteq hb'[u]
      BY <1>2 DEF AcquireSeesRelease, ReleaseSequence
    <2>1. CASE j \in acq[u]
      BY <1>4, <2>1 DEF AcquireSeesRelease
    <2>2. CASE j \notin acq[u]
      <3>1. named /\ u = t /\ j = i
        BY <1>2, <1>3, <2>2
      <3>2. log[k].had \subseteq mo[i].pub
        BY <3>1 DEF ChainCarries
      <3>3. mo[i].pub \subseteq hb'[t]
        BY <1>2, <1>3, <3>1
      <3> QED
        BY <3>1, <3>2, <3>3
    <2> QED
      BY <2>1, <2>2
  <1> QED
    BY <1>5, <1>6, <1>7

(* A step that stores: a store named Release or Ordered publishes what     *)
(* happened before it, and a read-modify-write what the store before it    *)
(* published.                                                              *)
LEMMA StoreStep ==
    ASSUME IInv,
           NEW m \in Messages, NEW l \in Stored,
           mo' = Append(mo, m), log' = Append(log, l),
           l.named => l.had \subseteq m.pub,
           l.rmw => Newest.pub \subseteq m.pub,
           seen' \in [Threads -> 1..(Len(mo) + 1)],
           hb' \in [Threads -> SUBSET Writes],
           \A u \in Threads : hb[u] \subseteq hb'[u],
           acq' \in [Threads -> SUBSET (1..Len(mo))],
           \A u \in Threads : \A j \in acq'[u] :
              j \in acq[u] \/ (j = Len(mo) /\ Newest.pub \subseteq hb'[u])
    PROVE  IInv'
  <1> USE DEF IInv
  <1>1. /\ mo \in Seq(Messages) /\ log \in Seq(Stored)
        /\ Len(mo) \in Nat /\ Len(mo) > 0 /\ Len(log) = Len(mo)
    BY DEF TypeOK, MemTypeOK, Messages
  <1>2. /\ mo' \in Seq(Messages) /\ Len(mo') = Len(mo) + 1
        /\ \A k \in 1..Len(mo) : mo'[k] = mo[k]
        /\ mo'[Len(mo) + 1] = m
    BY <1>1, AppendProperties
  <1>3. /\ log' \in Seq(Stored) /\ Len(log') = Len(mo) + 1
        /\ \A k \in 1..Len(mo) : log'[k] = log[k]
        /\ log'[Len(mo) + 1] = l
    BY <1>1, AppendProperties
  <1>4. TypeOK'
    <2>1. acq' \in [Threads -> SUBSET (1..Len(mo'))]
      BY <1>1, <1>2
    <2> QED
      BY <1>1, <1>2, <1>3, <2>1 DEF TypeOK, MemTypeOK, Messages
  <1>5. \A j \in 1..Len(mo) : \A i \in 1..j :
            /\ log'[i] = log[i]
            /\ ReleaseSequence(i, j)' <=> ReleaseSequence(i, j)
    BY <1>1, <1>3 DEF ReleaseSequence
  <1>6. ChainCarries'
    <2> SUFFICES ASSUME NEW j \in 1..(Len(mo) + 1), NEW i \in 1..j,
                        log'[i].named, ReleaseSequence(i, j)'
                 PROVE  log'[i].had \subseteq mo'[j].pub
      BY <1>2 DEF ChainCarries
    <2>1. CASE j <= Len(mo)
      <3>1. j \in 1..Len(mo)
        BY <1>1, <2>1
      <3>2. log[i].named /\ ReleaseSequence(i, j) /\ log'[i] = log[i] /\ mo'[j] = mo[j]
        BY <1>2, <1>5, <3>1
      <3> QED
        BY <3>1, <3>2 DEF ChainCarries
    <2>2. CASE j = Len(mo) + 1 /\ i = j
      BY <1>2, <1>3, <2>2
    <2>3. CASE j = Len(mo) + 1 /\ i # j
      <3>1. /\ i \in 1..Len(mo)
            /\ Len(mo) \in 1..Len(mo)
            /\ j \in (i + 1)..j
        BY <1>1, <2>3
      <3>2. l.rmw
        BY <1>3, <2>3, <3>1 DEF ReleaseSequence
      <3>3. \A k \in (i + 1)..Len(mo) : log'[k].rmw
        BY <1>1, <2>3 DEF ReleaseSequence
      <3>4. log[i].named /\ ReleaseSequence(i, Len(mo)) /\ log'[i] = log[i]
        BY <1>1, <1>3, <3>1, <3>3 DEF ReleaseSequence
      <3>5. log[i].had \subseteq Newest.pub
        BY <3>1, <3>4 DEF ChainCarries, Newest
      <3> QED
        BY <1>2, <2>3, <3>2, <3>4, <3>5
    <2> QED
      BY <1>1, <2>1, <2>2, <2>3
  <1>7. AcquireSeesRelease'
    <2> SUFFICES ASSUME NEW u \in Threads, NEW j \in acq'[u], NEW i \in 1..j,
                        log'[i].named, ReleaseSequence(i, j)'
                 PROVE  log'[i].had \subseteq hb'[u]
      BY DEF AcquireSeesRelease
    <2>1. j \in 1..Len(mo)
      OBVIOUS
    <2>2. log[i].named /\ ReleaseSequence(i, j) /\ log'[i] = log[i]
      BY <1>5, <2>1
    <2>3. CASE j \in acq[u]
      BY <2>2, <2>3 DEF AcquireSeesRelease
    <2>4. CASE j = Len(mo) /\ Newest.pub \subseteq hb'[u]
      <3>1. log[i].had \subseteq mo[j].pub
        BY <2>1, <2>2 DEF ChainCarries
      <3> QED
        BY <2>2, <2>4, <3>1 DEF Newest
    <2> QED
      BY <2>3, <2>4
  <1> QED
    BY <1>4, <1>6, <1>7

-----------------------------------------------------------------------------
(* The three kinds of store of AtomicMemory are such steps.                *)
LEMMA PlainStoreStep ==
    ASSUME IInv, NEW t \in Threads, NEW value \in IntRange, NEW order,
           NEW named \in BOOLEAN,
           AtomicWrite(t, value, order), Logged(t, named, FALSE), UNCHANGED acq,
           named => Releases(order)
    PROVE  IInv'
  <1>1. /\ hb' = hb /\ hb \in [Threads -> SUBSET Writes]
        /\ seen \in [Threads -> 1..Len(mo)] /\ Len(mo) \in Nat
        /\ acq' = acq /\ acq \in [Threads -> SUBSET (1..Len(mo))]
    BY DEF IInv, TypeOK, MemTypeOK, AtomicWrite
  <1> DEFINE m == [val |-> value, pub |-> IF Releases(order) THEN hb[t] ELSE {}]
             l == [had |-> hb[t], named |-> named, rmw |-> FALSE]
  <1>2. m \in Messages /\ l \in Stored
    BY <1>1 DEF Messages, Stored
  <1>3. mo' = Append(mo, m) /\ log' = Append(log, l)
    BY <1>1 DEF AtomicWrite, Logged
  <1>4. (l.named => l.had \subseteq m.pub) /\ ~l.rmw
    OBVIOUS
  <1>5. seen' \in [Threads -> 1..(Len(mo) + 1)]
    BY <1>1 DEF AtomicWrite
  <1> HIDE DEF m, l
  <1> QED
    BY <1>1, <1>2, <1>3, <1>4, <1>5, StoreStep

LEMMA UpdateStep ==
    ASSUME IInv, NEW t \in Threads, NEW value \in IntRange, NEW order,
           NEW acquires \in BOOLEAN, NEW releases \in BOOLEAN,
           AtomicUpdate(t, value, order), Logged(t, releases, TRUE),
           Observed(t, acquires, Len(mo)),
           acquires => Acquires(order), releases => Releases(order)
    PROVE  IInv'
  <1>1. /\ hb \in [Threads -> SUBSET Writes]
        /\ seen \in [Threads -> 1..Len(mo)] /\ Len(mo) \in Nat /\ Len(mo) > 0
        /\ acq \in [Threads -> SUBSET (1..Len(mo))]
        /\ Newest.pub \subseteq Writes
    BY NewestTyped DEF IInv, TypeOK, MemTypeOK, Messages
  <1> DEFINE known == IF Acquires(order) THEN hb[t] \cup Newest.pub ELSE hb[t]
             m == [val |-> value,
                   pub |-> Newest.pub \cup (IF Releases(order) THEN known ELSE {})]
             l == [had |-> known, named |-> releases, rmw |-> TRUE]
  <1>2. m \in Messages /\ l \in Stored
    BY <1>1 DEF Messages, Stored
  <1>3. hb' = [hb EXCEPT ![t] = known] /\ hb'[t] = known
    BY <1>1 DEF AtomicUpdate
  <1>4. mo' = Append(mo, m) /\ log' = Append(log, l)
    BY <1>3 DEF AtomicUpdate, Logged
  <1>5. (l.named => l.had \subseteq m.pub) /\ Newest.pub \subseteq m.pub
    OBVIOUS
  <1>6. seen' \in [Threads -> 1..(Len(mo) + 1)]
    BY <1>1 DEF AtomicUpdate
  <1>7. /\ hb' \in [Threads -> SUBSET Writes]
        /\ \A u \in Threads : hb[u] \subseteq hb'[u]
    BY <1>1, <1>3
  <1>8. /\ acq' \in [Threads -> SUBSET (1..Len(mo))]
        /\ \A u \in Threads : \A j \in acq'[u] :
              j \in acq[u] \/ (j = Len(mo) /\ Newest.pub \subseteq hb'[u])
    BY <1>1, <1>3 DEF Observed
  <1> HIDE DEF m, l
  <1> QED
    BY <1>2, <1>4, <1>5, <1>6, <1>7, <1>8, StoreStep

-----------------------------------------------------------------------------
LEMMA InitIInv ==
    ASSUME Init
    PROVE  IInv
  <1>1. /\ mo = << [val |-> 0, pub |-> {}] >>
        /\ seen = [t \in Threads |-> 1] /\ hb = [t \in Threads |-> {}]
        /\ log = << [had |-> {}, named |-> FALSE, rmw |-> FALSE] >>
        /\ acq = [t \in Threads |-> {}]
    BY DEF Init, MemInit
  <1>2. 0 \in IntRange
    BY HalfAssumption DEF IntRange
  <1>3. TypeOK
    BY <1>1, <1>2 DEF TypeOK, MemTypeOK, Stored
  <1>4. ChainCarries
    BY <1>1 DEF ChainCarries
  <1>5. AcquireSeesRelease
    BY <1>1 DEF AcquireSeesRelease
  <1> QED
    BY <1>3, <1>4, <1>5 DEF IInv

LEMMA WriteStep ==
    ASSUME IInv, NEW t \in Threads, Write(t)
    PROVE  IInv'
  <1>1. /\ mo' = mo /\ seen' = seen /\ log' = log /\ acq' = acq
        /\ hb \in [Threads -> SUBSET Writes]
        /\ hb' \in [Threads -> SUBSET Writes]
        /\ \A u \in Threads : hb[u] \subseteq hb'[u]
    BY DEF Write, PlainWrite, IInv, TypeOK, MemTypeOK
  <1>2. TypeOK'
    BY <1>1 DEF IInv, TypeOK, MemTypeOK
  <1>3. ChainCarries'
    BY <1>1 DEF IInv, ChainCarries, ReleaseSequence
  <1>4. AcquireSeesRelease'
    <2> SUFFICES ASSUME NEW u \in Threads, NEW j \in acq[u], NEW i \in 1..j,
                        log[i].named, ReleaseSequence(i, j)
                 PROVE  log[i].had \subseteq hb'[u]
      BY <1>1 DEF AcquireSeesRelease, ReleaseSequence
    <2>1. log[i].had \subseteq hb[u]
      BY DEF IInv, AcquireSeesRelease
    <2> QED
      BY <1>1, <2>1
  <1> QED
    BY <1>2, <1>3, <1>4 DEF IInv

LEMMA LoadSteps ==
    ASSUME IInv, NEW t \in Threads,
           Load(t) \/ LoadAcquire(t) \/ CopyConstruct(t)
    PROVE  IInv'
  <1>1. CASE Load(t)
    <2>1. PICK i \in 1..Len(mo) : AtomicRead(t, i, PlainOrder(Backend).load)
                                  /\ UNCHANGED <<log, acq>>
      BY <1>1 DEF Load
    <2> QED
      BY <2>1, ReadStep DEF Observed
  <1>2. CASE CopyConstruct(t)
    <2>1. PICK i \in 1..Len(mo) : AtomicRead(t, i, PlainOrder(Backend).copyLoad)
                                  /\ UNCHANGED <<log, acq>>
      BY <1>2 DEF CopyConstruct
    <2> QED
      BY <2>1, ReadStep DEF Observed
  <1>3. CASE LoadAcquire(t)
    <2>1. PICK i \in 1..Len(mo) : AtomicRead(t, i, PlainOrder(Backend).loadAcquire)
                                  /\ Observed(t, TRUE, i) /\ UNCHANGED log
      BY <1>3 DEF LoadAcquire
    <2> QED
      BY <2>1, ReadStep, OrdersKeepNames
  <1> QED
    BY <1>1, <1>2, <1>3

LEMMA StoreSteps ==
    ASSUME IInv, NEW t \in Threads, NEW value \in Args,
           Store(t, value) \/ StoreRelease(t, value)
    PROVE  IInv'
  <1>1. value \in IntRange
    BY ArgsAssumption
  <1>2. CASE Store(t, value)
    BY <1>1, <1>2, PlainStoreStep DEF Store
  <1>3. CASE StoreRelease(t, value)
    BY <1>1, <1>3, PlainStoreStep, OrdersKeepNames DEF StoreRelease
  <1> QED
    BY <1>2, <1>3

LEMMA FetchAndUpdateStep ==
    ASSUME IInv, NEW t \in Threads, NEW suffix \in Suffixes, NEW value \in IntRange,
           FetchAndUpdate(t, suffix, value)
    PROVE  IInv'
  <1> DEFINE order == FetchOrder(Backend)[suffix]
             acquires == suffix \in NamedAcquire
             releases == suffix \in NamedRelease
  <1>1. acquires \in BOOLEAN /\ releases \in BOOLEAN
    OBVIOUS
  <1>2. (acquires => Acquires(order)) /\ (releases => Releases(order))
    BY OrdersKeepNames
  <1>3. /\ AtomicUpdate(t, value, order) /\ Logged(t, releases, TRUE)
        /\ Observed(t, acquires, Len(mo))
    BY DEF FetchAndUpdate
  <1> HIDE DEF order, acquires, releases
  <1> QED
    BY <1>1, <1>2, <1>3, UpdateStep

LEMMA TestAndSetStep ==
    ASSUME IInv, NEW t \in Threads, NEW suffix \in Suffixes,
           NEW expected \in Args, NEW desired \in Args,
           TestAndSet(t, suffix, expected, desired)
    PROVE  IInv'
  <1>1. desired \in IntRange
    BY ArgsAssumption
  <1> DEFINE order == TestAndSetOrder(Backend)[suffix].success
             acquires == suffix \in NamedAcquire
             releases == suffix \in NamedRelease
  <1>2. acquires \in BOOLEAN /\ releases \in BOOLEAN
    OBVIOUS
  <1>3. (acquires => Acquires(order)) /\ (releases => Releases(order))
    BY OrdersKeepNames
  <1>4. /\ AtomicUpdate(t, desired, order) /\ Logged(t, releases, TRUE)
        /\ Observed(t, acquires, Len(mo))
    BY DEF TestAndSet
  <1> HIDE DEF order, acquires, releases
  <1> QED
    BY <1>1, <1>2, <1>3, <1>4, UpdateStep

LEMMA TestAndSetFailsStep ==
    ASSUME IInv, NEW t \in Threads, NEW suffix \in Suffixes, NEW expected \in Args,
           TestAndSetFails(t, suffix, expected)
    PROVE  IInv'
  <1>1. PICK i \in 1..Len(mo) :
           /\ AtomicRead(t, i, TestAndSetOrder(Backend)[suffix].failure)
           /\ Observed(t, suffix \in NamedAcquire, i)
           /\ UNCHANGED log
    BY DEF TestAndSetFails
  <1> DEFINE order == TestAndSetOrder(Backend)[suffix].failure
             named == suffix \in NamedAcquire
  <1>2. named \in BOOLEAN /\ (named => Acquires(order))
    BY OrdersKeepNames
  <1>3. AtomicRead(t, i, order) /\ Observed(t, named, i) /\ UNCHANGED log
    BY <1>1
  <1> HIDE DEF order, named
  <1> QED
    BY <1>2, <1>3, ReadStep

LEMMA CountSteps ==
    ASSUME IInv, NEW t \in Threads, Ref(t) \/ Deref(t)
    PROVE  IInv'
  <1>1. Newest.val \in Int /\ Newest.val + 1 \in Int /\ Newest.val - 1 \in Int
    BY NewestTyped, HalfAssumption DEF IInv, Messages, IntRange
  <1>2. Wrap(Newest.val + 1) \in IntRange /\ Wrap(Newest.val - 1) \in IntRange
    BY <1>1, WrapInRange
  <1>3. Observed(t, FALSE, Len(mo)) <=> UNCHANGED acq
    BY DEF Observed
  <1>4. CASE Ref(t)
    BY <1>2, <1>3, <1>4, UpdateStep DEF Ref
  <1>5. CASE Deref(t)
    BY <1>2, <1>3, <1>5, UpdateStep DEF Deref
  <1> QED
    BY <1>4, <1>5

(* What the fetchAnd* methods store is an int.                             *)
LEMMA Fetched ==
    ASSUME IInv, NEW arg \in Args
    PROVE  /\ arg \in IntRange
           /\ Wrap(Newest.val + arg) \in IntRange
           /\ Wrap(Newest.val - arg) \in IntRange
           /\ BitOr(Newest.val, arg) \in IntRange
           /\ BitAnd(Newest.val, arg) \in IntRange
           /\ BitXor(Newest.val, arg) \in IntRange
  <1>1. Newest.val \in IntRange /\ arg \in IntRange
    BY NewestTyped, ArgsAssumption DEF IInv, Messages
  <1>2. Newest.val + arg \in Int /\ Newest.val - arg \in Int
    BY <1>1, HalfAssumption DEF IntRange
  <1>3. Wrap(Newest.val + arg) \in IntRange /\ Wrap(Newest.val - arg) \in IntRange
    BY <1>2, WrapInRange
  <1> QED
    BY <1>1, <1>3, BitsAssumption

LEMMA StepIInv ==
    ASSUME IInv, [Next]_vars
    PROVE  IInv'
  <1>1. CASE UNCHANGED vars
    BY <1>1 DEF vars, IInv, TypeOK, MemTypeOK, ChainCarries, AcquireSeesRelease,
                ReleaseSequence
  <1>2. CASE Next
    <2>1. PICK t \in Threads : ThreadStep(t)
      BY <1>2 DEF Next
    <2>2. CASE Write(t)
      BY <2>2, WriteStep
    <2>3. CASE Load(t) \/ LoadAcquire(t) \/ CopyConstruct(t)
      BY <2>3, LoadSteps
    <2>4. CASE Ref(t) \/ Deref(t)
      BY <2>4, CountSteps
    <2>5. CASE \E value \in Args : Store(t, value) \/ StoreRelease(t, value)
      BY <2>5, StoreSteps
    <2>6. ASSUME NEW suffix \in Suffixes, NEW arg \in Args,
                 \/ \E desired \in Args : TestAndSet(t, suffix, arg, desired)
                 \/ TestAndSetFails(t, suffix, arg)
          PROVE  IInv'
      BY <2>6, TestAndSetStep, TestAndSetFailsStep
    <2>7. ASSUME NEW suffix \in Suffixes, NEW arg \in Args,
                 \/ FetchAndStore(t, suffix, arg)
                 \/ FetchAndAdd(t, suffix, arg)
                 \/ FetchAndSub(t, suffix, arg)
                 \/ FetchAndOr(t, suffix, arg)
                 \/ FetchAndAnd(t, suffix, arg)
                 \/ FetchAndXor(t, suffix, arg)
          PROVE  IInv'
      BY <2>7, Fetched, FetchAndUpdateStep
         DEF FetchAndStore, FetchAndAdd, FetchAndSub, FetchAndOr, FetchAndAnd, FetchAndXor
    <2> QED
      BY <2>1, <2>2, <2>3, <2>4, <2>5, <2>6, <2>7 DEF ThreadStep
  <1> QED
    BY <1>1, <1>2

-----------------------------------------------------------------------------
(* For any threads, any int width, either back end and every order of      *)
(* calls, what a release sequence has to carry it carries.                 *)
THEOREM Invariance == Spec => []IInv
  BY InitIInv, StepIInv, PTL DEF Spec

(* The words of the model keep their types, whatever the threads call.     *)
THEOREM TypeCorrect == Spec => []TypeOK
  <1>1. IInv => TypeOK
    BY DEF IInv
  <1> QED
    BY <1>1, Invariance, PTL

(* A thread that reads, through a method of pctk::AtomicInt named Acquire  *)
(* or Ordered, a value that a method named Release or Ordered stored (or a *)
(* read-modify-write of it) may read what the storing thread wrote before. *)
THEOREM NamesKeepTheirWord == Spec => []AcquireSeesRelease
  <1>1. IInv => AcquireSeesRelease
    BY DEF IInv
  <1> QED
    BY <1>1, Invariance, PTL
=============================================================================
