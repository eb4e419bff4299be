--------------------------- MODULE RefCountProofs ---------------------------
(***************************************************************************)
(* Proofs about RefCount, for any threads, references and back end: the    *)
(* object is destroyed at most once, after the last reference is gone, and *)
(* after everything any thread wrote to it.                                *)
(***************************************************************************)
EXTENDS RefCount, FiniteSetTheorems, SequenceTheorems, TLAPS

(* Adding 1 to or taking 1 from a count that stays within the references   *)
(* does not wrap around.                                                   *)
LEMMA WrapExact ==
    ASSUME NEW x \in Int, -Half <= x, x < Half
    PROVE  Wrap(x) = x
  <1>1. Half \in Nat /\ Half > 0
    BY HalfAssumption
  <1>2. x + Half \in 0..(2 * Half - 1)
    BY <1>1
  <1>3. (x + Half) % (2 * Half) = x + Half
    BY <1>1, <1>2
  <1> QED
    BY <1>1, <1>3 DEF Wrap

(* The references held form a finite set the int can count.                *)
LEMMA HeldFinite ==
    /\ IsFiniteSet(Held)
    /\ Cardinality(Held) \in Nat
    /\ Cardinality(Held) < Half
  <1>1. IsFiniteSet(Refs) /\ Held \in SUBSET Refs
    BY RefsAssumption DEF Held
  <1>2. IsFiniteSet(Held) /\ Cardinality(Held) <= Cardinality(Refs)
    BY <1>1, FS_Subset
  <1>3. Cardinality(Held) \in Nat /\ Cardinality(Refs) \in Nat
    BY <1>1, <1>2, FS_CardinalityType
  <1> QED
    BY <1>2, <1>3, RefsAssumption, HalfAssumption

(* The orders of ref() and deref() in both back ends.                      *)
LEMMA CountOrders ==
    /\ PlainOrder(Backend).ref = "acq_rel"
    /\ PlainOrder(Backend).deref = "acq_rel"
  BY DEF PlainOrder, Cxx11PlainOrder, C11PlainOrder

(* A read-modify-write with acq_rel leaves its value as the newest, knows  *)
(* all that was released before and releases all its thread knows.         *)
LEMMA UpdateEffect ==
    ASSUME NEW Values, MemTypeOK(Values), NEW t \in Threads, NEW v \in Values,
           AtomicUpdate(t, v, "acq_rel")
    PROVE  /\ MemTypeOK(Values)'
           /\ Newest'.val = v
           /\ Newest'.pub = Newest.pub \cup hb[t]
           /\ hb' = [hb EXCEPT ![t] = hb[t] \cup Newest.pub]
  <1> DEFINE known == hb[t] \cup Newest.pub
             msg == [val |-> v, pub |-> Newest.pub \cup known]
  <1>1. /\ mo' = Append(mo, msg)
        /\ seen' = [seen EXCEPT ![t] = Len(mo) + 1]
        /\ hb' = [hb EXCEPT ![t] = known]
    BY DEF AtomicUpdate, Acquires, Releases
  <1>2. /\ mo \in Seq([val : Values, pub : SUBSET Writes])
        /\ Len(mo) \in Nat /\ Len(mo) > 0
        /\ seen \in [Threads -> 1..Len(mo)]
        /\ hb \in [Threads -> SUBSET Writes]
    BY DEF MemTypeOK
  <1>3. Newest \in [val : Values, pub : SUBSET Writes]
    <2> DEFINE Messages == [val : Values, pub : SUBSET Writes]
    <2>1. mo \in Seq(Messages) /\ Len(mo) \in 1..Len(mo)
      BY <1>2
    <2> HIDE DEF Messages
    <2>2. mo[Len(mo)] \in Messages
      BY <2>1, ElementOfSeq
    <2> QED
      BY <2>2 DEF Messages, Newest
  <1>4. msg \in [val : Values, pub : SUBSET Writes]
    BY <1>2, <1>3
  <1>5. /\ mo' \in Seq([val : Values, pub : SUBSET Writes])
        /\ Len(mo') = Len(mo) + 1
        /\ mo'[Len(mo')] = msg
    BY <1>1, <1>2, <1>4
  <1>6. seen' \in [Threads -> 1..Len(mo')]
    BY <1>1, <1>2, <1>5
  <1>7. hb' \in [Threads -> SUBSET Writes]
    BY <1>1, <1>2, <1>3
  <1>8. MemTypeOK(Values)'
    BY <1>2, <1>5, <1>6, <1>7 DEF MemTypeOK
  <1>9. Newest' = msg
    BY <1>5 DEF Newest
  <1> QED
    BY <1>1, <1>8, <1>9

-----------------------------------------------------------------------------
(* The initial state: one thread owns the only reference.                  *)
LEMMA InitIInv == Init => IInv
  <1> SUFFICES ASSUME Init PROVE IInv
    OBVIOUS
  <1>1. PICK t \in Threads, r \in Refs :
            holder = [x \in Refs |-> IF x = r THEN t ELSE NoThread]
    BY DEF Init
  <1>2. Held = {r}
    BY <1>1, NoThreadAssumption DEF Held
  <1>3. Cardinality(Held) = 1
    BY <1>2, FS_Singleton
  <1>4. Half \in Nat /\ 1 < Half
    BY <1>3, HeldFinite, HalfAssumption
  <1>5. MemTypeOK(IntRange)
    BY <1>4 DEF Init, MemInit, MemTypeOK, IntRange
  <1>6. TypeOK
    BY <1>1, <1>5 DEF Init, TypeOK
  <1>7. Newest.val = 1
    BY DEF Init, MemInit, Newest
  <1> QED
    BY <1>3, <1>6, <1>7
       DEF Init, IInv, CountIsHeld, NoUseAfterFree, DestroyedOnce,
           DestroyerSeesUses, UsesAccountedFor

(* ref(): the owner's count goes up with its references.                   *)
LEMMA CopyIInv ==
    ASSUME IInv, NEW t \in Threads, NEW r \in Refs, Copy(t, r)
    PROVE  IInv'
  <1> USE DEF IInv
  <1>1. /\ Holds(t) /\ holder[r] = NoThread
        /\ holder' = [holder EXCEPT ![r] = t]
        /\ UNCHANGED <<used, destroyer, freed>>
    BY DEF Copy
  <1>2. Held' = Held \cup {r} /\ r \notin Held
    BY <1>1, NoThreadAssumption DEF Held, TypeOK
  <1>3. /\ Cardinality(Held') = Cardinality(Held) + 1
        /\ Cardinality(Held') < Half
    <2>1. Held' \in SUBSET Refs /\ IsFiniteSet(Refs)
      BY <1>2, RefsAssumption DEF Held
    <2>2. Cardinality(Held') <= Cardinality(Refs)
      BY <2>1, FS_Subset
    <2>3. Cardinality(Held') = Cardinality(Held) + 1
      BY <1>2, HeldFinite, FS_AddElement
    <2>4. Cardinality(Refs) \in Nat
      BY <2>1, FS_CardinalityType
    <2> QED
      BY <2>2, <2>3, <2>4, HeldFinite, RefsAssumption, HalfAssumption
  <1>4. Wrap(Newest.val + 1) = Cardinality(Held')
    BY <1>3, HeldFinite, WrapExact, HalfAssumption DEF CountIsHeld
  <1>5. Cardinality(Held') \in IntRange
    BY <1>3, HeldFinite, HalfAssumption DEF IntRange
  <1>6. AtomicUpdate(t, Cardinality(Held'), "acq_rel")
    BY <1>4, CountOrders DEF Copy
  <1>7. /\ MemTypeOK(IntRange)'
        /\ Newest'.val = Cardinality(Held')
        /\ Newest'.pub = Newest.pub \cup hb[t]
        /\ hb' = [hb EXCEPT ![t] = hb[t] \cup Newest.pub]
    BY <1>5, <1>6, UpdateEffect DEF TypeOK
  <1>8. Held # {}
    BY <1>1, NoThreadAssumption DEF Holds, Held
  <1>9. destroyer = NoThread /\ ~freed
    BY <1>8 DEF NoUseAfterFree, TypeOK
  <1>10. TypeOK'
    BY <1>1, <1>7 DEF TypeOK
  <1>11. UsesAccountedFor'
    BY <1>1, <1>7, NoThreadAssumption DEF UsesAccountedFor, Holds, TypeOK, MemTypeOK
  <1> QED
    BY <1>1, <1>7, <1>9, <1>10, <1>11
       DEF CountIsHeld, NoUseAfterFree, DestroyedOnce, DestroyerSeesUses

(* A hand-over: the receiver knows all that the giver knows.               *)
LEMMA GiveIInv ==
    ASSUME IInv, NEW t \in Threads, NEW u \in Threads \ {t}, NEW r \in Refs,
           Give(t, u, r)
    PROVE  IInv'
  <1> USE DEF IInv
  <1>1. /\ holder[r] = t
        /\ holder' = [holder EXCEPT ![r] = u]
        /\ hb' = [hb EXCEPT ![u] = @ \cup hb[t]]
        /\ seen' = [seen EXCEPT ![u] = IF @ < seen[t] THEN seen[t] ELSE @]
        /\ UNCHANGED <<mo, used, destroyer, freed>>
    BY DEF Give
  <1>2. Held' = Held /\ Newest' = Newest
    BY <1>1, NoThreadAssumption DEF Held, Newest, TypeOK
  <1>3. TypeOK'
    BY <1>1 DEF TypeOK, MemTypeOK
  <1>4. Held # {}
    BY <1>1, NoThreadAssumption DEF Held
  <1>5. destroyer = NoThread /\ ~freed
    BY <1>4 DEF NoUseAfterFree, TypeOK
  <1>6. UsesAccountedFor'
    <2> SUFFICES ASSUME NEW w \in used, w \notin Newest.pub
                 PROVE  \E x \in Threads : Holds(x)' /\ w \in hb'[x]
      BY <1>1, <1>2 DEF UsesAccountedFor
    <2>1. PICK x \in Threads : Holds(x) /\ w \in hb[x]
      BY DEF UsesAccountedFor
    <2>2. Holds(u)' /\ hb'[u] = hb[u] \cup hb[t]
      BY <1>1 DEF Holds, TypeOK, MemTypeOK
    <2>3. CASE x \in {t, u}
      BY <2>1, <2>2, <2>3
    <2>4. CASE x \notin {t, u}
      <3>1. hb'[x] = hb[x]
        BY <1>1, <2>4 DEF TypeOK, MemTypeOK
      <3>2. Holds(x)'
        BY <1>1, <2>1, <2>4 DEF Holds, TypeOK
      <3> QED
        BY <2>1, <3>1, <3>2
    <2> QED
      BY <2>3, <2>4
  <1> QED
    BY <1>1, <1>2, <1>3, <1>5, <1>6
       DEF CountIsHeld, NoUseAfterFree, DestroyedOnce, DestroyerSeesUses

(* A write by an owner is known to that owner.                             *)
LEMMA UseIInv ==
    ASSUME IInv, NEW t \in Threads, NEW w \in Writes, Use(t, w)
    PROVE  IInv'
  <1> USE DEF IInv
  <1>1. /\ Holds(t)
        /\ hb' = [hb EXCEPT ![t] = @ \cup {w}]
        /\ used' = used \cup {w}
        /\ UNCHANGED <<mo, seen, holder, destroyer, freed>>
    BY DEF Use, PlainWrite
  <1>2. Held' = Held /\ Newest' = Newest
    BY <1>1 DEF Held, Newest
  <1>3. TypeOK'
    BY <1>1 DEF TypeOK, MemTypeOK
  <1>4. Held # {}
    BY <1>1, NoThreadAssumption DEF Holds, Held
  <1>5. destroyer = NoThread /\ ~freed
    BY <1>4 DEF NoUseAfterFree, TypeOK
  <1>6. UsesAccountedFor'
    BY <1>1, <1>2 DEF UsesAccountedFor, Holds, TypeOK, MemTypeOK
  <1> QED
    BY <1>1, <1>2, <1>3, <1>5, <1>6
       DEF CountIsHeld, NoUseAfterFree, DestroyedOnce, DestroyerSeesUses

(* deref(): only the last owner is told to destroy, and it then knows      *)
(* everything the other owners released.                                   *)
LEMMA DropIInv ==
    ASSUME IInv, NEW t \in Threads, NEW r \in Refs, Drop(t, r)
    PROVE  IInv'
  <1> USE DEF IInv
  <1>1. /\ holder[r] = t
        /\ holder' = [holder EXCEPT ![r] = NoThread]
        /\ destroyer' = IF Newest.val # 1 THEN destroyer ELSE t
        /\ UNCHANGED <<used, freed>>
    BY DEF Drop, DerefResult
  <1>2. /\ Held' = Held \ {r}
        /\ r \in Held
    BY <1>1, NoThreadAssumption DEF Held, TypeOK
  <1>3. /\ Cardinality(Held') = Cardinality(Held) - 1
        /\ IsFiniteSet(Held')
        /\ Cardinality(Held') \in Nat
    BY <1>2, HeldFinite, FS_RemoveElement, FS_CardinalityType
  <1>4. Wrap(Newest.val - 1) = Cardinality(Held')
    BY <1>3, HeldFinite, WrapExact, HalfAssumption DEF CountIsHeld
  <1>5. Cardinality(Held') \in IntRange
    BY <1>3, HeldFinite, HalfAssumption DEF IntRange
  <1>6. AtomicUpdate(t, Cardinality(Held'), "acq_rel")
    BY <1>4, CountOrders DEF Drop
  <1>7. /\ MemTypeOK(IntRange)'
        /\ Newest'.val = Cardinality(Held')
        /\ Newest'.pub = Newest.pub \cup hb[t]
        /\ hb' = [hb EXCEPT ![t] = hb[t] \cup Newest.pub]
    BY <1>5, <1>6, UpdateEffect DEF TypeOK
  <1>8. destroyer = NoThread /\ ~freed
    BY <1>2 DEF NoUseAfterFree, TypeOK
  <1>9. TypeOK'
    BY <1>1, <1>7 DEF TypeOK
  <1>10. UsesAccountedFor'
    <2> SUFFICES ASSUME NEW w \in used, w \notin Newest.pub, w \notin hb[t]
                 PROVE  \E x \in Threads : Holds(x)' /\ w \in hb'[x]
      BY <1>1, <1>7 DEF UsesAccountedFor
    <2>1. PICK x \in Threads : Holds(x) /\ w \in hb[x]
      BY DEF UsesAccountedFor
    <2>2. x # t /\ hb'[x] = hb[x]
      BY <1>7, <2>1 DEF TypeOK, MemTypeOK
    <2>3. Holds(x)'
      BY <1>1, <2>1, <2>2 DEF Holds, TypeOK
    <2> QED
      BY <2>1, <2>2, <2>3
  <1>11. destroyer' # NoThread => Newest.val = 1 /\ destroyer' = t
    BY <1>1, <1>8
  <1>12. destroyer' # NoThread => Held' = {}
    BY <1>3, <1>11, FS_EmptySet DEF CountIsHeld
  <1>13. NoUseAfterFree' /\ DestroyedOnce'
    BY <1>1, <1>8, <1>12 DEF NoUseAfterFree, DestroyedOnce
  <1>14. DestroyerSeesUses'
    <2> SUFFICES ASSUME destroyer' # NoThread, NEW w \in used
                 PROVE  w \in hb'[t]
      BY <1>1, <1>11 DEF DestroyerSeesUses
    <2>1. \A x \in Threads : Holds(x) => x = t
      BY <1>1, <1>2, <1>12, NoThreadAssumption DEF Holds, Held
    <2>2. w \in Newest.pub \/ w \in hb[t]
      BY <2>1 DEF UsesAccountedFor
    <2> QED
      BY <1>7, <2>2 DEF TypeOK, MemTypeOK
  <1> QED
    BY <1>7, <1>9, <1>10, <1>13, <1>14 DEF CountIsHeld

(* Destruction ends the role of the destroyer.                             *)
LEMMA DestroyIInv ==
    ASSUME IInv, NEW t \in Threads, Destroy(t)
    PROVE  IInv'
  <1> USE DEF IInv
  <1>1. /\ destroyer = t /\ destroyer' = NoThread /\ freed' = TRUE
        /\ UNCHANGED <<mo, seen, hb, holder, used>>
    BY DEF Destroy
  <1>2. Held' = Held /\ Newest' = Newest /\ Held = {}
    BY <1>1, NoThreadAssumption DEF Held, Newest, NoUseAfterFree
  <1>3. TypeOK' /\ UsesAccountedFor'
    BY <1>1, <1>2 DEF TypeOK, MemTypeOK, UsesAccountedFor, Holds
  <1> QED
    BY <1>1, <1>2, <1>3
       DEF CountIsHeld, NoUseAfterFree, DestroyedOnce, DestroyerSeesUses

LEMMA StutterIInv ==
    ASSUME IInv, UNCHANGED vars
    PROVE  IInv'
  BY DEF vars, IInv, TypeOK, MemTypeOK, CountIsHeld, NoUseAfterFree, DestroyedOnce,
         DestroyerSeesUses, UsesAccountedFor, Newest, Held, Holds

-----------------------------------------------------------------------------
(* The inductive invariant: the count is the number of references, and     *)
(* every write to the object is known to an owner or released in the       *)
(* count.                                                                  *)
THEOREM Invariance == Spec => []IInv
  <1>1. Init => IInv
    BY InitIInv
  <1>2. IInv /\ [Next]_vars => IInv'
    <2> SUFFICES ASSUME IInv, [Next]_vars PROVE IInv'
      OBVIOUS
    <2>1. CASE UNCHANGED vars
      BY <2>1, StutterIInv
    <2>2. ASSUME NEW t \in Threads, NEW r \in Refs, Copy(t, r) PROVE IInv'
      BY <2>2, CopyIInv
    <2>3. ASSUME NEW t \in Threads, NEW r \in Refs, Drop(t, r) PROVE IInv'
      BY <2>3, DropIInv
    <2>4. ASSUME NEW t \in Threads, NEW u \in Threads \ {t}, NEW r \in Refs,
                 Give(t, u, r)
          PROVE  IInv'
      BY <2>4, GiveIInv
    <2>5. ASSUME NEW t \in Threads, NEW w \in Writes, Use(t, w) PROVE IInv'
      BY <2>5, UseIInv
    <2>6. ASSUME NEW t \in Threads, Destroy(t) PROVE IInv'
      BY <2>6, DestroyIInv
    <2> QED
      BY <2>1, <2>2, <2>3, <2>4, <2>5, <2>6 DEF Next
  <1> QED
    BY <1>1, <1>2, PTL DEF Spec

(* The values of the variables stay in their types.                        *)
THEOREM TypeCorrect == Spec => []TypeOK
  BY Invariance, PTL DEF IInv

(* The int is the number of references, in every reachable state.          *)
THEOREM CountCorrect == Spec => []CountIsHeld
  BY Invariance, PTL DEF IInv

(* Nobody owns a reference once a deref() has returned false: no thread    *)
(* uses the object after that.                                             *)
THEOREM DestroyedUnowned == Spec => []NoUseAfterFree
  BY Invariance, PTL DEF IInv

(* A deref() returns false to one caller at most, so the object is         *)
(* destroyed once.                                                         *)
THEOREM DestroyedByOne == Spec => []DestroyedOnce
  BY Invariance, PTL DEF IInv

(* The orders the back ends pass to fetch_add and fetch_sub suffice: what  *)
(* any owner wrote happens before the destruction.                         *)
THEOREM DestroyedInOrder == Spec => []DestroyerSeesUses
  BY Invariance, PTL DEF IInv
=============================================================================
