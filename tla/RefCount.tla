------------------------------ MODULE RefCount ------------------------------
(***************************************************************************)
(* The protocol ref() and deref() of pctk::AtomicInt exist for: an object  *)
(* shared by threads that count their references to it in an AtomicInt     *)
(* constructed with 1, and the thread whose deref() returns false destroys *)
(* it.  The memory orders are those of the back ends; the threads are the  *)
(* callers of the library.                                                 *)
(***************************************************************************)
EXTENDS AtomicMemory, FiniteSets

CONSTANTS
    Backend,      \* the back end compiled in
    Half,         \* int is -Half .. Half - 1
    Refs,         \* the references that may exist
    NoThread,     \* nobody
    MaxStores     \* bound on the length of mo at which ref() is still called

ASSUME BackendAssumption == Backend \in Backends
ASSUME NoThreadAssumption == NoThread \notin Threads
ASSUME HalfAssumption == Half \in Nat \ {0}

(* The int can count the references: callers do not hold 2^31 of them.     *)
ASSUME RefsAssumption == IsFiniteSet(Refs) /\ Cardinality(Refs) < Half

VARIABLES
    holder,       \* holder[r]: the thread that owns reference r, if any
    used,         \* plain writes made to the object
    destroyer,    \* the thread whose deref() returned false, if it has not
                  \* destroyed the object yet
    freed         \* whether the object has been destroyed

vars == <<mo, seen, hb, holder, used, destroyer, freed>>

IntRange == (-Half)..(Half - 1)
(* Mutant: the unsigned remainder, not moved back to the signed range.     *)
UnsignedWrap(x) == (x + Half) % (2 * Half)

Wrap(x) == ((x + Half) % (2 * Half)) - Half

Held == {r \in Refs : holder[r] # NoThread}
Holds(t) == \E r \in Refs : holder[r] = t

TypeOK ==
    /\ MemTypeOK(IntRange)
    /\ holder \in [Refs -> Threads \cup {NoThread}]
    /\ used \subseteq Writes
    /\ destroyer \in Threads \cup {NoThread}
    /\ freed \in BOOLEAN

(* The creator constructs the count with 1 and owns the only reference.    *)
Init ==
    /\ MemInit(1)
    /\ \E t \in Threads, r \in Refs :
          holder = [x \in Refs |-> IF x = r THEN t ELSE NoThread]
    /\ used = {}
    /\ destroyer = NoThread
    /\ freed = FALSE

-----------------------------------------------------------------------------
(* Mutants: the new count is compared where the old one is meant, and the  *)
(* other way round.                                                        *)
ComparesTooEarly(old) == old - 1 # 1
ComparesTooLate(old) == old # 0

(* deref(): fetch_sub(1) # 1, that is, whether references remain.          *)
DerefResult(old) == old # 1

(* Mutant: a copy that does not call ref().                                *)
CopyUncounted(t, r) ==
    /\ Holds(t)
    /\ holder[r] = NoThread
    /\ Len(mo) <= MaxStores
    /\ holder' = [holder EXCEPT ![r] = t]
    /\ UNCHANGED <<mo, seen, hb, used, destroyer, freed>>

(* An owner copies its reference: ref().                                   *)
Copy(t, r) ==
    /\ Holds(t)
    /\ holder[r] = NoThread
    /\ Len(mo) <= MaxStores
    /\ AtomicUpdate(t, Wrap(Newest.val + 1), PlainOrder(Backend).ref)
    /\ holder' = [holder EXCEPT ![r] = t]
    /\ UNCHANGED <<used, destroyer, freed>>

(* An owner hands a reference to another thread, by a means that orders    *)
(* the two threads (starting it, a mutex).                                 *)
Give(t, u, r) ==
    /\ holder[r] = t
    /\ holder' = [holder EXCEPT ![r] = u]
    /\ hb' = [hb EXCEPT ![u] = @ \cup hb[t]]
    /\ seen' = [seen EXCEPT ![u] = IF @ < seen[t] THEN seen[t] ELSE @]
    /\ UNCHANGED <<mo, used, destroyer, freed>>

(* An owner writes to the object.                                          *)
Use(t, w) ==
    /\ Holds(t)
    /\ w \notin used
    /\ PlainWrite(t, w)
    /\ used' = used \cup {w}
    /\ UNCHANGED <<holder, destroyer, freed>>

(* An owner gives up a reference: deref().                                 *)
Drop(t, r) ==
    /\ holder[r] = t
    /\ AtomicUpdate(t, Wrap(Newest.val - 1), PlainOrder(Backend).deref)
    /\ holder' = [holder EXCEPT ![r] = NoThread]
    /\ destroyer' = IF DerefResult(Newest.val) THEN destroyer ELSE t
    /\ UNCHANGED <<used, freed>>

(* The thread that was told it held the last reference deletes the object. *)
Destroy(t) ==
    /\ destroyer = t
    /\ freed' = TRUE
    /\ destroyer' = NoThread
    /\ UNCHANGED <<mo, seen, hb, holder, used>>

Next ==
    \E t \in Threads :
        \/ \E r \in Refs : Copy(t, r) \/ Drop(t, r)
        \/ \E u \in Threads \ {t}, r \in Refs : Give(t, u, r)
        \/ \E w \in Writes : Use(t, w)
        \/ Destroy(t)

Fairness == \A t \in Threads : WF_vars(Destroy(t))

Spec == Init /\ [][Next]_vars

FairSpec == Spec /\ Fairness

-----------------------------------------------------------------------------
(* The count is the number of references.                                  *)
CountIsHeld == Newest.val = Cardinality(Held)

(* Once a deref() has returned false nobody owns a reference, so nobody    *)
(* touches the object again and nobody else destroys it.                   *)
NoUseAfterFree == destroyer # NoThread \/ freed => Held = {}

(* The object is destroyed once: no thread is told to destroy an object    *)
(* that has been destroyed.                                                *)
DestroyedOnce == ~(freed /\ destroyer # NoThread)

(* Whatever any thread wrote to the object happens before its destruction. *)
DestroyerSeesUses == destroyer # NoThread => used \subseteq hb[destroyer]

(* When the last reference is gone the object is destroyed: some deref()   *)
(* did return false.                                                       *)
EventuallyDestroyed == (Held = {}) ~> freed

(* DestroyerSeesUses made inductive: a write is known to an owner or has   *)
(* been released into the count by one that is no longer an owner.         *)
UsesAccountedFor ==
    \A w \in used :
        \/ w \in Newest.pub
        \/ \E t \in Threads : Holds(t) /\ w \in hb[t]

IInv ==
    /\ TypeOK
    /\ CountIsHeld
    /\ NoUseAfterFree
    /\ DestroyedOnce
    /\ DestroyerSeesUses
    /\ UsesAccountedFor
=============================================================================
