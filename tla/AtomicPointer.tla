--------------------------- MODULE AtomicPointer ---------------------------
(***************************************************************************)
(* pctk::AtomicPointer<T> shared by several threads, at the level of       *)
(* values: its typed methods forward to AtomicPointerBase, whose back ends *)
(* make load, store, testAndSet* and fetchAndStore* one access to m_value, *)
(* but fetchAndAdd* and fetchAndSub* a load followed by a store.  Accesses *)
(* to one atomic object are totally ordered whatever their memory order,   *)
(* so the threads interleave between accesses.                             *)
(*                                                                         *)
(* Pointers and offsets are taken modulo Modulus, the size of the address  *)
(* space.  done and ledger are history variables.                          *)
(***************************************************************************)
EXTENDS Integers, Sequences

CONSTANTS
    Threads,      \* the threads that share the pointer; all of them load it
    Writers,      \* those that store, test-and-set or exchange it
    Adders,       \* those that call fetchAndAdd* or fetchAndSub*
    Modulus       \* size of the address space

ASSUME ThreadsAssumption == Writers \subseteq Threads /\ Adders \subseteq Threads
ASSUME ModulusAssumption == Modulus \in Nat \ {0}

VARIABLES
    m_value,      \* AtomicPointerBasePrivate::m_value
    pc,           \* pc[t]: where thread t is
    expected,     \* the local variable of fetchAndAdd* and fetchAndSub*
    arg,          \* their argument
    done,         \* the last call each thread completed
    ledger        \* where the completed calls should have left the pointer

vars == <<m_value, pc, expected, arg, done, ledger>>

Addresses == 0..(Modulus - 1)

NoCall == [op |-> "none", args |-> <<>>, ret |-> 0, ok |-> TRUE]

TypeOK ==
    /\ m_value \in Addresses
    /\ pc \in [Threads -> {"idle", "adding", "subtracting"}]
    /\ expected \in [Threads -> Addresses]
    /\ arg \in [Threads -> Addresses]
    /\ DOMAIN done = Threads
    /\ ledger \in Addresses

(* The object is constructed with some pointer before it is shared.        *)
Init ==
    /\ m_value \in Addresses
    /\ pc = [t \in Threads |-> "idle"]
    /\ expected = [t \in Threads |-> 0]
    /\ arg = [t \in Threads |-> 0]
    /\ done = [t \in Threads |-> NoCall]
    /\ ledger = m_value

Returns(t, op, args, ret, ok) ==
    done' = [done EXCEPT ![t] = [op |-> op, args |-> args, ret |-> ret, ok |-> ok]]

-----------------------------------------------------------------------------
(* load() and loadAcquire().                                               *)
Load(t) ==
    /\ pc[t] = "idle"
    /\ Returns(t, "load", <<>>, m_value, TRUE)
    /\ UNCHANGED <<m_value, pc, expected, arg, ledger>>

(* store() and storeRelease(); also assignment from a T pointer, and the   *)
(* last step of assignment from another AtomicPointer, whose value was     *)
(* loaded before.                                                          *)
Store(t, desired) ==
    /\ pc[t] = "idle"
    /\ m_value' = desired
    /\ ledger' = desired
    /\ Returns(t, "store", <<desired>>, 0, TRUE)
    /\ UNCHANGED <<pc, expected, arg>>

(* testAndSet{Relaxed,Acquire,Release,Ordered}.                            *)
TestAndSet(t, old, desired) ==
    /\ pc[t] = "idle"
    /\ m_value' = IF m_value = old THEN desired ELSE m_value
    /\ ledger' = IF m_value = old THEN desired ELSE ledger
    /\ Returns(t, "testAndSet", <<old, desired>>, 0, m_value = old)
    /\ UNCHANGED <<pc, expected, arg>>

(* fetchAndStore{Relaxed,Acquire,Release,Ordered}.                         *)
FetchAndStore(t, desired) ==
    /\ pc[t] = "idle"
    /\ m_value' = desired
    /\ ledger' = desired
    /\ Returns(t, "fetchAndStore", <<desired>>, m_value, TRUE)
    /\ UNCHANGED <<pc, expected, arg>>

(* fetchAndAdd*: expected = m_value.load() ...                             *)
FetchAndAddLoad(t, offset) ==
    /\ pc[t] = "idle"
    /\ pc' = [pc EXCEPT ![t] = "adding"]
    /\ expected' = [expected EXCEPT ![t] = m_value]
    /\ arg' = [arg EXCEPT ![t] = offset]
    /\ UNCHANGED <<m_value, done, ledger>>

(* Mutant: the new value is returned.                                      *)
AddAndFetchStore(t) ==
    /\ pc[t] = "adding"
    /\ pc' = [pc EXCEPT ![t] = "idle"]
    /\ m_value' = (expected[t] + arg[t]) % Modulus
    /\ ledger' = (ledger + arg[t]) % Modulus
    /\ Returns(t, "fetchAndAdd", <<arg[t]>>, (expected[t] + arg[t]) % Modulus, TRUE)
    /\ UNCHANGED <<expected, arg>>

(* ... then m_value.store(expected + arg); return expected.                *)
FetchAndAddStore(t) ==
    /\ pc[t] = "adding"
    /\ pc' = [pc EXCEPT ![t] = "idle"]
    /\ m_value' = (expected[t] + arg[t]) % Modulus
    /\ ledger' = (ledger + arg[t]) % Modulus
    /\ Returns(t, "fetchAndAdd", <<arg[t]>>, expected[t], TRUE)
    /\ UNCHANGED <<expected, arg>>

(* fetchAndSub* likewise.                                                  *)
FetchAndSubLoad(t, offset) ==
    /\ pc[t] = "idle"
    /\ pc' = [pc EXCEPT ![t] = "subtracting"]
    /\ expected' = [expected EXCEPT ![t] = m_value]
    /\ arg' = [arg EXCEPT ![t] = offset]
    /\ UNCHANGED <<m_value, done, ledger>>

(* Mutants: the argument is added; the difference leaves the addresses.    *)
FetchAndSubAdds(t) ==
    /\ pc[t] = "subtracting"
    /\ pc' = [pc EXCEPT ![t] = "idle"]
    /\ m_value' = (expected[t] + arg[t]) % Modulus
    /\ ledger' = (ledger - arg[t]) % Modulus
    /\ Returns(t, "fetchAndSub", <<arg[t]>>, expected[t], TRUE)
    /\ UNCHANGED <<expected, arg>>

FetchAndSubUnderflows(t) ==
    /\ pc[t] = "subtracting"
    /\ pc' = [pc EXCEPT ![t] = "idle"]
    /\ m_value' = expected[t] - arg[t]
    /\ ledger' = expected[t] - arg[t]
    /\ Returns(t, "fetchAndSub", <<arg[t]>>, expected[t], TRUE)
    /\ UNCHANGED <<expected, arg>>

FetchAndSubStore(t) ==
    /\ pc[t] = "subtracting"
    /\ pc' = [pc EXCEPT ![t] = "idle"]
    /\ m_value' = (expected[t] - arg[t]) % Modulus
    /\ ledger' = (ledger - arg[t]) % Modulus
    /\ Returns(t, "fetchAndSub", <<arg[t]>>, expected[t], TRUE)
    /\ UNCHANGED <<expected, arg>>

-----------------------------------------------------------------------------
Next ==
    \/ \E t \in Threads : Load(t)
    \/ \E t \in Writers, p \in Addresses : Store(t, p) \/ FetchAndStore(t, p)
    \/ \E t \in Writers, p, q \in Addresses : TestAndSet(t, p, q)
    \/ \E t \in Adders, p \in Addresses : FetchAndAddLoad(t, p) \/ FetchAndSubLoad(t, p)
    \/ \E t \in Adders : FetchAndAddStore(t) \/ FetchAndSubStore(t)

Spec == Init /\ [][Next]_vars

-----------------------------------------------------------------------------
(* How the pointer can be shared safely: if any thread adds or subtracts,  *)
(* it is the only one that changes the pointer.                            *)
SoleUpdater ==
    Adders # {} => \E t \in Threads : Adders \subseteq {t} /\ Writers \subseteq {t}

(* No completed call is lost: the pointer is where the calls leave it.  An *)
(* addition of v and one of -v cancel, as the tests of the class say.      *)
NoLostUpdate == m_value = ledger

(* Between the two halves of a fetchAndAdd or fetchAndSub nobody changed   *)
(* the pointer: the value about to be returned is still the current one.   *)
WindowUndisturbed == \A t \in Threads : pc[t] # "idle" => m_value = expected[t]

(* Every call, the two-step ones included, behaves as one indivisible step *)
(* on an atomic register.                                                  *)
Register == INSTANCE AtomicRegister WITH value <- m_value

IsAtomic == Register!Spec
=============================================================================
