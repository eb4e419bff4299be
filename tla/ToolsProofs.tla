---------------------------- MODULE ToolsProofs ----------------------------
(***************************************************************************)
(* Tags keep their names and Anys keep their values, for any number of     *)
(* variables, names, registered ids and holders.                           *)
(***************************************************************************)
EXTENDS Tools, FiniteSetTheorems, TLAPS

(* A registered id has the name it is registered with, in the map too.     *)
RegisteredNamed == \A i \in Reserved \cap DOMAIN sg_stringFromId : sg_stringFromId[i] = NameOf[i]

TagInv == TagTypeOK /\ RegisteredNamed

(* Which holder is whose.                                                  *)
Owned == \A x \in Anys : content[x] \in Holders => held[content[x]] # Nothing
Unshared == \A x, y \in Anys : content[x] \in Holders /\ content[x] = content[y] => x = y
Unleaked == \A h \in Holders : held[h] # Nothing => \E x \in Anys : content[x] = h

AnyInv ==
    /\ content \in [Anys -> Holders \cup {Null, Unmade}]
    /\ held \in [Holders -> Values \cup {Nothing}]
    /\ ptr \in Holders \cup {Null}
    /\ owner \in Anys \cup {Null}
    /\ owner # Null => ptr \in Holders
    /\ Owned /\ Unshared /\ Unleaked /\ CastPointersLive

IInv == TagInv /\ AnyInv /\ TagsNameThemselves

(* What a holder can hold is told apart by its type.                       *)
LEMMA ValuesDiffer ==
    /\ Nothing.type = "void" /\ AnInt.type = "int"
    /\ \A v : AsTag(v).type = "Tag" /\ AsTag(v).value = v
    /\ Nothing \notin Values
    BY DEF Nothing, AnInt, AsTag, Values

-----------------------------------------------------------------------------
(* The holders: one lemma for each way an Any changes.                     *)
LEMMA HoldKeeps ==
    ASSUME AnyInv, NEW x \in Anys, NEW value \in Values \cup {Nothing}, Hold(x, value)
    PROVE  AnyInv'
<1>1. CASE value = Nothing
    BY <1>1, NullAssumption
    DEF AnyInv, Owned, Unshared, Unleaked, CastPointersLive, Hold, Invalidate
<1>2. CASE value # Nothing
    BY <1>2, NullAssumption
    DEF AnyInv, Owned, Unshared, Unleaked, CastPointersLive, Hold, Invalidate, Free
<1>3. QED
    BY <1>1, <1>2

LEMMA DestroyKeeps ==
    ASSUME AnyInv, NEW x \in Anys, Destroy(x)
    PROVE  AnyInv'
    BY NullAssumption
    DEF AnyInv, Owned, Unshared, Unleaked, CastPointersLive, Destroy, Invalidate, Made

LEMMA SwapKeeps ==
    ASSUME AnyInv, NEW x \in Anys, NEW y \in Anys, swap(x, y)
    PROVE  AnyInv'
    BY NullAssumption
    DEF AnyInv, Owned, Unshared, Unleaked, CastPointersLive, swap, Follow, Made

LEMMA CastKeeps ==
    ASSUME AnyInv, NEW x \in Anys, NEW type, CastPointer(x, type)
    PROVE  AnyInv'
    BY NullAssumption
    DEF AnyInv, Owned, Unshared, Unleaked, CastPointersLive, CastPointer, hasValue, valueOf

LEMMA WriteKeeps ==
    ASSUME AnyInv, NEW value \in Values, WriteThrough(value)
    PROVE  AnyInv'
    BY NullAssumption, ValuesDiffer
    DEF AnyInv, Owned, Unshared, Unleaked, CastPointersLive, WriteThrough

-----------------------------------------------------------------------------
(* The names: what an id stands for does not change once it was given.  A  *)
(* name is put under a number of its own, or again under the id it was     *)
(* registered with.                                                        *)
NamesStay ==
    \A i \in DOMAIN sg_stringFromId :
        i \in DOMAIN sg_stringFromId' /\ sg_stringFromId'[i] = sg_stringFromId[i]

LEMMA NumberStays ==
    ASSUME TagInv, NEW name \in Names, Number(name)
    PROVE  NamesStay
    BY NamesAssumption DEF TagInv, TagTypeOK, RegisteredNamed, Number, NamesStay, Put

LEMMA RegisterStays ==
    ASSUME TagInv, NEW id \in Reserved, registerId(id)
    PROVE  NamesStay
    BY DEF TagInv, TagTypeOK, RegisteredNamed, registerId, NamesStay, Put

LEMMA NumberKeepsMaps ==
    ASSUME TagInv, NEW name \in Names, Number(name)
    PROVE  /\ (sg_firstUnusedId \in Nat)'
           /\ (sg_stringFromId \in [DOMAIN sg_stringFromId -> Names])'
           /\ (DOMAIN sg_stringFromId \subseteq (0..(sg_firstUnusedId - 1)) \cup Reserved)'
           /\ (sg_idFromString \in [DOMAIN sg_idFromString -> Int])'
           /\ (DOMAIN sg_idFromString \subseteq Names)'
           /\ RegisteredNamed'
    BY NamesAssumption DEF TagInv, TagTypeOK, RegisteredNamed, Number, Put

LEMMA FromNameKeeps ==
    ASSUME IInv, NEW t \in Tags, NEW name \in Seq(Tokens), FromName(t, name), UNCHANGED anyVars
    PROVE  IInv'
<1>1. AnyInv' /\ HeldTags' = HeldTags
    BY DEF IInv, AnyInv, Owned, Unshared, Unleaked, CastPointersLive, HeldTags, anyVars
<1>2. CASE /\ SetTag(t, 0, name)
           /\ UNCHANGED <<sg_firstUnusedId, sg_stringFromId, sg_idFromString>>
  <2>1. TagInv'
    BY <1>2 DEF IInv, TagInv, TagTypeOK, RegisteredNamed, SetTag, TagValue
  <2>2. TagsNameThemselves'
    BY <1>1, <1>2
    DEF IInv, TagInv, TagTypeOK, SetTag, TagsNameThemselves, NamesItself, isValid, nameOf, anyVars
  <2>3. QED
    BY <1>1, <2>1, <2>2 DEF IInv
<1>3. CASE ~Known(name) /\ Number(name) /\ SetTag(t, sg_firstUnusedId, name)
  <2>1. name \in Names
    BY <1>3 DEF Known, Names
  <2>2. NamesStay
    BY <1>3, <2>1, NumberStays DEF IInv
  <2>3. TagInv'
    <3>1. tag' \in [Tags -> TagValue]
      BY <1>3 DEF IInv, TagInv, TagTypeOK, SetTag, TagValue
    <3>2. QED
      BY <1>3, <2>1, <3>1, NumberKeepsMaps DEF IInv, TagInv, TagTypeOK
  <2>4. \A u \in Tags : NamesItself(tag[u])'
    <3>1. SUFFICES ASSUME NEW u \in Tags PROVE NamesItself(tag[u])'
      OBVIOUS
    <3>2. CASE u = t
      <4>1. tag'[u] = [id |-> sg_firstUnusedId, given |-> name]
        BY <1>3, <3>2 DEF SetTag, IInv, TagInv, TagTypeOK
      <4>2. QED
        BY <1>3, <4>1 DEF NamesItself, nameOf, Number, Put
    <3>3. CASE u # t
      <4>1. tag'[u] = tag[u]
        BY <1>3, <3>3 DEF SetTag, IInv, TagInv, TagTypeOK
      <4>2. NamesItself(tag[u])
        BY DEF IInv, TagsNameThemselves
      <4>3. QED
        BY <2>2, <4>1, <4>2 DEF NamesStay, NamesItself, nameOf, isValid
    <3>4. QED
      BY <3>2, <3>3
  <2>5. \A h \in HeldTags : NamesItself(held[h].value)'
    <3>1. \A h \in HeldTags : NamesItself(held[h].value) /\ held'[h] = held[h]
      BY DEF IInv, TagsNameThemselves, anyVars
    <3>2. QED
      BY <1>1, <2>2, <3>1 DEF NamesStay, NamesItself, nameOf, isValid
  <2>6. QED
    BY <1>1, <2>3, <2>4, <2>5 DEF IInv, TagsNameThemselves
<1>4. QED
    BY <1>2, <1>3 DEF FromName

LEMMA RegisterKeeps ==
    ASSUME IInv, NEW id \in Reserved, registerId(id), UNCHANGED anyVars
    PROVE  IInv'
<1>1. NamesStay
    BY RegisterStays DEF IInv
<1>2. TagInv'
  <2>1. /\ NameOf[id] \in Names /\ id \in Int
        /\ (sg_firstUnusedId \in Nat)' /\ (tag \in [Tags -> TagValue])'
    BY NamesAssumption DEF IInv, TagInv, TagTypeOK, registerId
  <2>2. /\ (sg_stringFromId \in [DOMAIN sg_stringFromId -> Names])'
        /\ (DOMAIN sg_stringFromId \subseteq (0..(sg_firstUnusedId - 1)) \cup Reserved)'
    BY <2>1 DEF IInv, TagInv, TagTypeOK, registerId, Put
  <2>3. /\ (sg_idFromString \in [DOMAIN sg_idFromString -> Int])'
        /\ (DOMAIN sg_idFromString \subseteq Names)'
    BY <2>1 DEF IInv, TagInv, TagTypeOK, registerId, Put
  <2>4. RegisteredNamed'
    BY DEF IInv, TagInv, RegisteredNamed, registerId, Put
  <2>5. QED
    BY <2>1, <2>2, <2>3, <2>4 DEF TagInv, TagTypeOK
<1>3. AnyInv' /\ HeldTags' = HeldTags
    BY DEF IInv, AnyInv, Owned, Unshared, Unleaked, CastPointersLive, HeldTags, anyVars
<1>4. TagsNameThemselves'
    BY <1>1, <1>3
    DEF IInv, NamesStay, TagsNameThemselves, NamesItself, nameOf, isValid, registerId, anyVars
<1>5. QED
    BY <1>2, <1>3, <1>4 DEF IInv

LEMMA FromIdKeeps ==
    ASSUME IInv, NEW t \in Tags, NEW id \in DOMAIN sg_stringFromId \cup {0}, FromId(t, id),
           UNCHANGED anyVars
    PROVE  IInv'
<1> DEFINE given == IF id = 0 THEN << >> ELSE sg_stringFromId[id]
<1>1. id \in Int /\ given \in Seq(Tokens)
    BY NamesAssumption DEF IInv, TagInv, TagTypeOK, RegisteredNamed, Names
<1>2. tag' = [tag EXCEPT ![t] = [id |-> id, given |-> given]]
    BY DEF FromId, SetTag
<1>3. TagInv'
    BY <1>1, <1>2 DEF IInv, TagInv, TagTypeOK, RegisteredNamed, FromId, TagValue
<1>4. AnyInv' /\ HeldTags' = HeldTags
    BY DEF IInv, AnyInv, Owned, Unshared, Unleaked, CastPointersLive, HeldTags, anyVars
<1>5. TagsNameThemselves'
    BY <1>2, <1>4
    DEF IInv, TagInv, FromId, TagsNameThemselves, NamesItself, nameOf, isValid, anyVars
<1>6. QED
    BY <1>3, <1>4, <1>5 DEF IInv

-----------------------------------------------------------------------------
(* What is put into an Any is a tag that names itself, or no tag.          *)
Named(value) == value.type = "Tag" => NamesItself(value.value)

LEMMA HoldNamed ==
    ASSUME IInv, NEW x \in Anys, NEW value \in Values \cup {Nothing}, Named(value),
           Hold(x, value), UNCHANGED tagVars
    PROVE  IInv'
<1>1. AnyInv'
    BY HoldKeeps DEF IInv
<1>2. \A h \in Holders : held'[h] \in {held[h], value, Nothing}
    BY DEF IInv, AnyInv, Hold, Free
<1>3. TagsNameThemselves'
    BY <1>2, ValuesDiffer
    DEF IInv, Named, TagsNameThemselves, HeldTags, NamesItself, isValid, nameOf, tagVars
<1>4. QED
    BY <1>1, <1>3 DEF IInv, TagInv, TagTypeOK, RegisteredNamed, tagVars

(* What an Any holds can be copied.                                        *)
LEMMA HeldValue ==
    ASSUME IInv, NEW x \in Anys
    PROVE  valueOf(x) \in Values \cup {Nothing} /\ Named(valueOf(x))
    BY ValuesDiffer DEF IInv, AnyInv, valueOf, hasValue, Named, TagsNameThemselves, HeldTags

(* A step that only moves values about, or drops them.                     *)
LEMMA KeptNamed ==
    ASSUME IInv, AnyInv', UNCHANGED tagVars,
           \A h \in Holders : held'[h] \in {held[h], Nothing}
    PROVE  IInv'
<1>1. TagsNameThemselves'
    BY ValuesDiffer
    DEF IInv, TagsNameThemselves, HeldTags, NamesItself, isValid, nameOf, tagVars
<1>2. QED
    BY <1>1 DEF IInv, TagInv, TagTypeOK, RegisteredNamed, tagVars

LEMMA AnyStepKeeps ==
    ASSUME IInv, AnyStep
    PROVE  IInv'
<1> USE DEF AnyStep
<1>1. UNCHANGED tagVars
    OBVIOUS
<1>2. ASSUME NEW x \in Anys, DefaultConstruct(x) \/ reset(x)
      PROVE  IInv'
  <2>1. Nothing \in Values \cup {Nothing} /\ Named(Nothing)
    BY ValuesDiffer DEF Named
  <2>2. QED
    BY <1>1, <1>2, <2>1, HoldNamed DEF DefaultConstruct, reset
<1>3. ASSUME NEW x \in Anys, Destroy(x)
      PROVE  IInv'
    BY <1>1, <1>3, DestroyKeeps, KeptNamed DEF IInv, AnyInv, Destroy
<1>4. ASSUME NEW x \in Anys, NEW y \in Anys, Copy(x, y)
      PROVE  IInv'
  <2>1. valueOf(y) \in Values \cup {Nothing} /\ Named(valueOf(y))
    BY HeldValue
  <2>2. QED
    BY <1>1, <1>4, <2>1, HoldNamed DEF Copy
<1>5. ASSUME NEW x \in Anys, NEW y \in Anys, swap(x, y)
      PROVE  IInv'
    BY <1>1, <1>5, SwapKeeps, KeptNamed DEF IInv, AnyInv, swap
<1>6. ASSUME NEW x \in Anys, NEW type, CastPointer(x, type)
      PROVE  IInv'
    BY <1>1, <1>6, CastKeeps, KeptNamed DEF IInv, AnyInv, CastPointer
<1>7. QED
    BY <1>2, <1>3, <1>4, <1>5, <1>6

LEMMA StoreTagKeeps ==
    ASSUME IInv, NEW x \in Anys, NEW t \in Tags, StoreTag(x, t)
    PROVE  IInv'
<1>1. AsTag(tag[t]) \in Values /\ Named(AsTag(tag[t]))
    BY ValuesDiffer DEF IInv, TagInv, TagTypeOK, TagsNameThemselves, Named, Values
<1>2. QED
    BY <1>1, HoldNamed DEF StoreTag, Assign

LEMMA StoreIntKeeps ==
    ASSUME IInv, NEW x \in Anys, StoreInt(x)
    PROVE  IInv'
<1>1. AnInt \in Values /\ Named(AnInt)
    BY ValuesDiffer DEF Named, Values
<1>2. QED
    BY <1>1, HoldNamed DEF StoreInt, Assign

LEMMA TakeKeeps ==
    ASSUME IInv, NEW x \in Anys, NEW t \in Tags, TakeTag(t, x)
    PROVE  IInv'
<1>1. valueOf(x).value \in TagValue /\ NamesItself(valueOf(x).value)
  <2>1. valueOf(x) \in Values \cup {Nothing} /\ Named(valueOf(x)) /\ valueOf(x).type = "Tag"
    BY HeldValue DEF TakeTag, Castable
  <2>2. QED
    BY <2>1, ValuesDiffer DEF Named, Values
<1>2. AnyInv' /\ HeldTags' = HeldTags
    BY DEF IInv, AnyInv, Owned, Unshared, Unleaked, CastPointersLive, HeldTags, TakeTag, anyVars
<1>3. TagInv'
    BY <1>1 DEF IInv, TagInv, TagTypeOK, RegisteredNamed, TakeTag
<1>4. TagsNameThemselves'
    BY <1>1, <1>2
    DEF IInv, TagInv, TagTypeOK, TagsNameThemselves, NamesItself, isValid, nameOf, TakeTag, anyVars
<1>5. QED
    BY <1>2, <1>3, <1>4 DEF IInv

LEMMA WriteTagKeeps ==
    ASSUME IInv, NEW t \in Tags, WriteTag(t)
    PROVE  IInv'
<1>1. AsTag(tag[t]) \in Values /\ NamesItself(tag[t])
    BY DEF IInv, TagInv, TagTypeOK, TagsNameThemselves, Values
<1>2. AnyInv'
    BY <1>1, WriteKeeps DEF IInv, WriteTag
<1>3. \A h \in Holders : held'[h] \in {held[h], AsTag(tag[t])}
    BY DEF IInv, AnyInv, WriteTag, WriteThrough
<1>4. TagsNameThemselves'
    BY <1>1, <1>3, ValuesDiffer
    DEF IInv, TagsNameThemselves, HeldTags, NamesItself, isValid, nameOf, WriteTag, tagVars
<1>5. QED
    BY <1>2, <1>4 DEF IInv, TagInv, TagTypeOK, RegisteredNamed, WriteTag, tagVars

LEMMA TagStepKeeps ==
    ASSUME IInv, TagNext, UNCHANGED anyVars
    PROVE  IInv'
<1>1. ASSUME NEW t \in Tags, NEW from \in Tags, NEW token \in Tokens,
             WithSuffix(t, from, token) \/ WithPrefix(t, from, token)
      PROVE  IInv'
  <2>1. nameOf(tag[from]) \in Seq(Tokens)
    BY <1>1 DEF WithSuffix, WithPrefix, IInv, TagInv, TagTypeOK, TagsNameThemselves, NamesItself,
                TagValue
  <2>2. /\ Append(nameOf(tag[from]), token) \in Seq(Tokens)
        /\ <<token>> \o nameOf(tag[from]) \in Seq(Tokens)
    BY <2>1
  <2>3. QED
    BY <1>1, <2>2, FromNameKeeps DEF WithSuffix, WithPrefix
<1>2. QED
    BY <1>1, FromNameKeeps, FromIdKeeps, RegisterKeeps, NamesAssumption DEF TagNext

-----------------------------------------------------------------------------
LEMMA Initially == Init => IInv
  BY NullAssumption, ValuesDiffer
  DEF Init, TagInit, AnyInit, IInv, TagInv, TagTypeOK, RegisteredNamed, TagValue, AnyInv, Owned,
      Unshared, Unleaked, CastPointersLive, TagsNameThemselves, NamesItself, isValid, HeldTags

LEMMA Inductive == IInv /\ [Next]_vars => IInv'
<1>1. SUFFICES ASSUME IInv, [Next]_vars PROVE IInv'
    OBVIOUS
<1>2. CASE UNCHANGED vars
  <2>1. TagInv'
    BY <1>1, <1>2 DEF vars, tagVars, IInv, TagInv, TagTypeOK, RegisteredNamed
  <2>2. AnyInv'
    BY <1>1, <1>2
    DEF vars, anyVars, IInv, AnyInv, Owned, Unshared, Unleaked, CastPointersLive
  <2>3. TagsNameThemselves'
    BY <1>1, <1>2
    DEF vars, tagVars, anyVars, IInv, TagsNameThemselves, NamesItself, isValid, nameOf, HeldTags
  <2>4. QED
    BY <2>1, <2>2, <2>3 DEF IInv
<1>3. CASE Next
    BY <1>1, <1>3, TagStepKeeps, AnyStepKeeps, StoreTagKeeps, StoreIntKeeps, TakeKeeps,
       WriteTagKeeps DEF Next
<1>4. QED
    BY <1>1, <1>2, <1>3

(* The ways of the holders and of the names do not depend on how many of   *)
(* them there are: IInv holds in every state of every program.             *)
THEOREM Invariance == Spec => []IInv
    BY Initially, Inductive, PTL DEF Spec

(* The types of the variables, of the maps and the counter of pctkTag.cpp  *)
(* and of the holders of pctkAny.h.                                        *)
THEOREM TypeCorrect == Spec => []TypeOK
<1>1. IInv => TypeOK
    BY ValuesDiffer
    DEF IInv, TagInv, AnyInv, TypeOK, AnyTypeOK, HeldTags, Values
<1>2. QED
    BY <1>1, Invariance, PTL

(* A tag that isValid() has the name it was made with, in a variable or in *)
(* an Any, whatever was numbered or registered since (pctkTag.cpp:91-109). *)
THEOREM TagsKeepNames == Spec => []TagsNameThemselves
<1>1. IInv => TagsNameThemselves
    BY DEF IInv
<1>2. QED
    BY <1>1, Invariance, PTL

(* Nothing leaks, nothing is deleted twice and no two Anys share a holder, *)
(* however they are copied, assigned, swapped and reset (pctkAny.h:45-103).*)
THEOREM OwnersUnique == Spec => []HoldersOwnedOnce
<1>1. ASSUME AnyInv PROVE HoldersOwnedOnce
  <2>1. ASSUME NEW h \in Holders, held[h] # Nothing
        PROVE  Cardinality({x \in Anys : content[x] = h}) = 1
    <3>1. PICK x \in Anys : content[x] = h
      BY <1>1, <2>1 DEF AnyInv, Unleaked
    <3>2. {y \in Anys : content[y] = h} = {x}
      BY <1>1, <3>1 DEF AnyInv, Unshared
    <3>3. QED
      BY <3>2, FS_Singleton
  <2>2. QED
    BY <1>1, <2>1 DEF HoldersOwnedOnce, AnyInv, Owned, hasValue
<1>2. QED
    BY <1>1, Invariance, PTL DEF IInv

(* What any_cast returned for a pointer refers to the value it was asked   *)
(* for until that value is replaced or dies, also after a swap             *)
(* (pctkAny.h:190-200).                                                    *)
THEOREM CastPointersStayLive == Spec => []CastPointersLive
<1>1. IInv => CastPointersLive
    BY DEF IInv, AnyInv
<1>2. QED
    BY <1>1, Invariance, PTL
=============================================================================
