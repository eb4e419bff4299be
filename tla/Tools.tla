------------------------------- MODULE Tools -------------------------------
(***************************************************************************)
(* Tags and Anys in one program: tags are stored in Anys, taken back with  *)
(* any_cast<Tag>, and changed through the pointer any_cast<Tag> returned.  *)
(***************************************************************************)
EXTENDS Tag, Any

vars == <<tagVars, anyVars>>

(* What an Any can hold here: a tag or an int.                             *)
AsTag(value) == [type |-> "Tag", value |-> value]
AnInt == [type |-> "int"]
Values == {AnInt} \cup {AsTag(v) : v \in TagValue}
HeldTags == {h \in Holders : held[h].type = "Tag"}

TypeOK ==
    /\ TagTypeOK
    /\ AnyTypeOK({AnInt} \cup {AsTag(held[h].value) : h \in HeldTags})
    /\ \A h \in HeldTags : held[h].value \in TagValue

Init == TagInit /\ AnyInit

StoreTag(x, t) == Assign(x, AsTag(tag[t])) /\ UNCHANGED tagVars
StoreInt(x) == Assign(x, AnInt) /\ UNCHANGED tagVars

TakeTag(t, x) ==
    /\ Castable(x, "Tag")
    /\ tag' = [tag EXCEPT ![t] = valueOf(x).value]
    /\ UNCHANGED <<sg_firstUnusedId, sg_stringFromId, sg_idFromString, anyVars>>

WriteTag(t) == WriteThrough(AsTag(tag[t])) /\ UNCHANGED tagVars

AnyStep ==
    /\ \E x \in Anys :
          \/ DefaultConstruct(x) \/ reset(x) \/ Destroy(x)
          \/ \E y \in Anys : Copy(x, y) \/ swap(x, y)
          \/ \E type \in {"Tag", "int"} : CastPointer(x, type)
    /\ UNCHANGED tagVars

Next ==
    \/ TagNext /\ UNCHANGED anyVars
    \/ AnyStep
    \/ \E x \in Anys, t \in Tags : StoreTag(x, t) \/ TakeTag(t, x)
    \/ \E x \in Anys : StoreInt(x)
    \/ \E t \in Tags : WriteTag(t)

Spec == Init /\ [][Next]_vars

-----------------------------------------------------------------------------
(* The tags in variables and the tags in Anys still have the names they    *)
(* were made with, as NamesItself says.                                    *)
TagsNameThemselves ==
    /\ \A t \in Tags : NamesItself(tag[t])
    /\ \A h \in HeldTags : NamesItself(held[h].value)
=============================================================================
