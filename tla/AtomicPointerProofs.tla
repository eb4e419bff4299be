------------------------ MODULE AtomicPointerProofs ------------------------
(***************************************************************************)
(* Proofs about AtomicPointer, for any threads and any address space: used *)
(* as SoleUpdater says, no call is lost and every call is atomic, the      *)
(* load-then-store fetchAndAdd* and fetchAndSub* included.                 *)
(***************************************************************************)
EXTENDS AtomicPointer, TLAPS

(* Only the adders are ever between the halves of a call.                  *)
MidCallOfAdders == \A t \in Threads : pc[t] # "idle" => t \in Adders

IInv == TypeOK /\ NoLostUpdate /\ WindowUndisturbed /\ MidCallOfAdders

(* The remainder of an integer is an address.                              *)
LEMMA Remainder ==
    ASSUME NEW x \in Int
    PROVE  x % Modulus \in Addresses
  BY ModulusAssumption DEF Addresses

LEMMA InitIInv == Init => IInv
  <1> SUFFICES ASSUME Init PROVE IInv
    OBVIOUS
  <1>1. 0 \in Addresses
    BY ModulusAssumption DEF Addresses
  <1> QED
    BY <1>1 DEF Init, IInv, TypeOK, NoLostUpdate, WindowUndisturbed, MidCallOfAdders

(* Under the discipline a writer is between the halves of a call only if   *)
(* nobody is: the one thread that changes the pointer is the writer.       *)
LEMMA WriterAlone ==
    ASSUME SoleUpdater, MidCallOfAdders, NEW t \in Writers, pc[t] = "idle"
    PROVE  \A u \in Threads : pc[u] = "idle"
  BY ThreadsAssumption DEF SoleUpdater, MidCallOfAdders

LEMMA AdderAlone ==
    ASSUME SoleUpdater, MidCallOfAdders, NEW t \in Adders
    PROVE  \A u \in Threads : u # t => pc[u] = "idle"
  BY ThreadsAssumption DEF SoleUpdater, MidCallOfAdders

LEMMA StepIInv ==
    ASSUME SoleUpdater, IInv, [Next]_vars
    PROVE  IInv'
  <1> USE DEF IInv
  <1>1. ASSUME NEW t \in Threads, Load(t) PROVE IInv'
    BY <1>1 DEF Load, Returns, TypeOK, NoLostUpdate, WindowUndisturbed, MidCallOfAdders
  <1>2. ASSUME NEW t \in Writers, NEW p \in Addresses, Store(t, p) PROVE IInv'
    <2>1. \A u \in Threads : pc[u] = "idle"
      BY <1>2, WriterAlone DEF Store
    <2> QED
      BY <1>2, <2>1
         DEF Store, Returns, TypeOK, NoLostUpdate, WindowUndisturbed, MidCallOfAdders
  <1>3. ASSUME NEW t \in Writers, NEW p \in Addresses, FetchAndStore(t, p) PROVE IInv'
    <2>1. \A u \in Threads : pc[u] = "idle"
      BY <1>3, WriterAlone DEF FetchAndStore
    <2> QED
      BY <1>3, <2>1
         DEF FetchAndStore, Returns, TypeOK, NoLostUpdate, WindowUndisturbed, MidCallOfAdders
  <1>4. ASSUME NEW t \in Writers, NEW p \in Addresses, NEW q \in Addresses, TestAndSet(t, p, q)
        PROVE  IInv'
    <2>1. \A u \in Threads : pc[u] = "idle"
      BY <1>4, WriterAlone DEF TestAndSet
    <2> QED
      BY <1>4, <2>1
         DEF TestAndSet, Returns, TypeOK, NoLostUpdate, WindowUndisturbed, MidCallOfAdders
  <1>5. ASSUME NEW t \in Adders, NEW p \in Addresses,
               FetchAndAddLoad(t, p) \/ FetchAndSubLoad(t, p)
        PROVE  IInv'
    BY <1>5, ThreadsAssumption
       DEF FetchAndAddLoad, FetchAndSubLoad, TypeOK, NoLostUpdate, WindowUndisturbed,
           MidCallOfAdders
  <1>6. ASSUME NEW t \in Adders, FetchAndAddStore(t) PROVE IInv'
    <2>1. \A u \in Threads : u # t => pc[u] = "idle"
      BY AdderAlone
    <2>2. /\ m_value = expected[t] /\ ledger = m_value
          /\ expected[t] \in Int /\ arg[t] \in Int
      BY <1>6, ThreadsAssumption
         DEF FetchAndAddStore, NoLostUpdate, WindowUndisturbed, TypeOK, Addresses
    <2>3. (expected[t] + arg[t]) % Modulus \in Addresses
      BY <2>2, Remainder
    <2> QED
      BY <1>6, <2>1, <2>2, <2>3, ThreadsAssumption
         DEF FetchAndAddStore, Returns, TypeOK, NoLostUpdate, WindowUndisturbed,
             MidCallOfAdders
  <1>7. ASSUME NEW t \in Adders, FetchAndSubStore(t) PROVE IInv'
    <2>1. \A u \in Threads : u # t => pc[u] = "idle"
      BY AdderAlone
    <2>2. /\ m_value = expected[t] /\ ledger = m_value
          /\ expected[t] \in Int /\ arg[t] \in Int
      BY <1>7, ThreadsAssumption
         DEF FetchAndSubStore, NoLostUpdate, WindowUndisturbed, TypeOK, Addresses
    <2>3. (expected[t] - arg[t]) % Modulus \in Addresses
      BY <2>2, Remainder
    <2> QED
      BY <1>7, <2>1, <2>2, <2>3, ThreadsAssumption
         DEF FetchAndSubStore, Returns, TypeOK, NoLostUpdate, WindowUndisturbed,
             MidCallOfAdders
  <1>8. CASE UNCHANGED vars
    BY <1>8 DEF vars, TypeOK, NoLostUpdate, WindowUndisturbed, MidCallOfAdders
  <1> QED
    BY <1>1, <1>2, <1>3, <1>4, <1>5, <1>6, <1>7, <1>8 DEF Next

(* The inductive invariant of a pointer used as SoleUpdater says.          *)
THEOREM Invariance ==
    ASSUME SoleUpdater
    PROVE  Spec => []IInv
  <1>1. IInv /\ [Next]_vars => IInv'
    BY StepIInv
  <1> QED
    BY <1>1, InitIInv, PTL DEF Spec

(* The values of the variables stay in their types: the two-step calls     *)
(* wrap around the address space and not out of it.                        *)
THEOREM TypeCorrect ==
    ASSUME SoleUpdater
    PROVE  Spec => []TypeOK
  BY Invariance, PTL DEF IInv

(* No completed call is lost.                                              *)
THEOREM NothingLost ==
    ASSUME SoleUpdater
    PROVE  Spec => []NoLostUpdate
  BY Invariance, PTL DEF IInv

(* Every step of the pointer is a step of the atomic register or leaves it *)
(* alone: the two-step calls take effect at their store.                   *)
LEMMA StepRefines ==
    ASSUME IInv, [Next]_vars
    PROVE  [Register!Next]_<<m_value, done>>
  <1> USE DEF IInv, Addresses, Register!Addresses, Returns, Register!Completes
  <1>1. ASSUME NEW t \in Threads, Load(t) PROVE Register!Next
    BY <1>1 DEF Load, Register!Load, Register!Next
  <1>2. ASSUME NEW t \in Writers, NEW p \in Addresses, Store(t, p) PROVE Register!Next
    BY <1>2, ThreadsAssumption DEF Store, Register!Store, Register!Next
  <1>3. ASSUME NEW t \in Writers, NEW p \in Addresses, FetchAndStore(t, p)
        PROVE  Register!Next
    BY <1>3, ThreadsAssumption DEF FetchAndStore, Register!Exchange, Register!Next
  <1>4. ASSUME NEW t \in Writers, NEW p \in Addresses, NEW q \in Addresses, TestAndSet(t, p, q)
        PROVE  Register!Next
    BY <1>4, ThreadsAssumption DEF TestAndSet, Register!CompareExchange, Register!Next
  <1>5. ASSUME NEW t \in Adders, NEW p \in Addresses,
               FetchAndAddLoad(t, p) \/ FetchAndSubLoad(t, p)
        PROVE  UNCHANGED <<m_value, done>>
    BY <1>5 DEF FetchAndAddLoad, FetchAndSubLoad
  <1>6. ASSUME NEW t \in Adders, FetchAndAddStore(t) PROVE Register!Next
    <2>1. t \in Threads /\ expected[t] = m_value /\ arg[t] \in Addresses
      BY <1>6, ThreadsAssumption DEF FetchAndAddStore, WindowUndisturbed, TypeOK
    <2>2. Register!Add(t, arg[t])
      BY <1>6, <2>1 DEF FetchAndAddStore, Register!Add
    <2> QED
      BY <2>1, <2>2 DEF Register!Next
  <1>7. ASSUME NEW t \in Adders, FetchAndSubStore(t) PROVE Register!Next
    <2>1. t \in Threads /\ expected[t] = m_value /\ arg[t] \in Addresses
      BY <1>7, ThreadsAssumption DEF FetchAndSubStore, WindowUndisturbed, TypeOK
    <2>2. Register!Subtract(t, arg[t])
      BY <1>7, <2>1 DEF FetchAndSubStore, Register!Subtract
    <2> QED
      BY <2>1, <2>2 DEF Register!Next
  <1>8. CASE UNCHANGED vars
    BY <1>8 DEF vars
  <1> QED
    BY <1>1, <1>2, <1>3, <1>4, <1>5, <1>6, <1>7, <1>8 DEF Next

(* The pointer implements the atomic register.                             *)
THEOREM ImplementsRegister ==
    ASSUME SoleUpdater
    PROVE  Spec => IsAtomic
  <1>1. Init => Register!Init
    BY DEF Init, Register!Init, NoCall, Addresses, Register!Addresses
  <1>2. IInv /\ [Next]_vars => [Register!Next]_<<m_value, done>>
    BY StepRefines
  <1>3. Spec => []IInv
    BY Invariance
  <1> QED
    BY <1>1, <1>2, <1>3, PTL DEF Spec, IsAtomic, Register!Spec
=============================================================================
