-------------------------------- MODULE Tag --------------------------------
(***************************************************************************)
(* pctk::Tag: an int that stands for a name, and the two global maps and   *)
(* the counter behind it.  A name is a sequence of tokens (withSuffix()    *)
(* appends one), << >> the null pointer or the empty string.               *)
(*                                                                         *)
(* A tag is a record: its m_id and, as history, the name it was made with. *)
(* The program keeps to what the class asks of it without checking: name() *)
(* and with*() are called on tags that isValid(), and registerId() gives   *)
(* each id of Reserved one name, out of the counter's reach.               *)
(***************************************************************************)
EXTENDS Integers, Sequences

CONSTANTS
    Tags,           \* the tag variables of the program
    Tokens,         \* what names are made of
    Literals,       \* the names the program makes tags of
    Reserved,       \* the ids it registers
    NameOf,         \* the name it registers each of them with
    MaxLen,         \* bound on the length of a name
    MaxNames        \* bound on the number of names the counter numbers

Names == Seq(Tokens) \ {<< >>}

ASSUME NamesAssumption ==
    /\ Literals \subseteq Seq(Tokens)
    /\ Reserved \subseteq {i \in Int : i < 0}
    /\ NameOf \in [Reserved -> Names]

VARIABLES
    sg_firstUnusedId,
    sg_stringFromId,    \* id -> name
    sg_idFromString,    \* name -> id
    tag                 \* the tag variables

tagVars == <<sg_firstUnusedId, sg_stringFromId, sg_idFromString, tag>>

TagValue == [id : Int, given : Seq(Tokens)]

TagTypeOK ==
    /\ sg_firstUnusedId \in Nat
    /\ sg_stringFromId \in [DOMAIN sg_stringFromId -> Names]
    /\ DOMAIN sg_stringFromId \subseteq (0..(sg_firstUnusedId - 1)) \cup Reserved
    /\ sg_idFromString \in [DOMAIN sg_idFromString -> Int]
    /\ DOMAIN sg_idFromString \subseteq Names
    /\ tag \in [Tags -> TagValue]

TagInit ==
    /\ sg_firstUnusedId = 0
    /\ sg_stringFromId = << >>
    /\ sg_idFromString = << >>
    /\ tag = [t \in Tags |-> [id |-> 0, given |-> << >>]]

isValid(value) == value.id # 0

(* std::map::operator[] and an assignment.                                 *)
Put(map, key, value) ==
    [k \in DOMAIN map \cup {key} |-> IF k = key THEN value ELSE map[k]]

-----------------------------------------------------------------------------
(* theId(): only a name that was never seen is numbered.  Every other call *)
(* returns 0, the id of the invalid tag, and of the first name.            *)
Known(name) == name = << >> \/ name \in DOMAIN sg_idFromString

(* Mutant: the number is not used up.                                      *)
SameNumber(name) ==
    /\ sg_idFromString' = Put(sg_idFromString, name, sg_firstUnusedId)
    /\ sg_stringFromId' = Put(sg_stringFromId, sg_firstUnusedId, name)
    /\ UNCHANGED sg_firstUnusedId

(* Mutant: the number is not told to the map names are found in.           *)
UnnamedNumber(name) ==
    /\ sg_firstUnusedId' = sg_firstUnusedId + 1
    /\ sg_idFromString' = Put(sg_idFromString, name, sg_firstUnusedId)
    /\ UNCHANGED sg_stringFromId

Number(name) ==
    /\ sg_firstUnusedId' = sg_firstUnusedId + 1
    /\ sg_idFromString' = Put(sg_idFromString, name, sg_firstUnusedId)
    /\ sg_stringFromId' = Put(sg_stringFromId, sg_firstUnusedId, name)

SetTag(t, id, given) == tag' = [tag EXCEPT ![t] = [id |-> id, given |-> given]]

(* Tag(name), of a char pointer or a string, fromString(), operator>>.     *)
FromName(t, name) ==
    \/ /\ Known(name)
       /\ SetTag(t, 0, name)
       /\ UNCHANGED <<sg_firstUnusedId, sg_stringFromId, sg_idFromString>>
    \/ /\ ~Known(name)
       /\ sg_firstUnusedId < MaxNames
       /\ Number(name)
       /\ SetTag(t, sg_firstUnusedId, name)

(* Tag() and Tag(int), fromUniqueIdentifier(): an id of this program.      *)
FromId(t, id) ==
    /\ id \in DOMAIN sg_stringFromId \cup {0}
    /\ SetTag(t, id, IF id = 0 THEN << >> ELSE sg_stringFromId[id])
    /\ UNCHANGED <<sg_firstUnusedId, sg_stringFromId, sg_idFromString>>

nameOf(value) == sg_stringFromId[value.id]

WithSuffix(t, from, suffix) ==
    /\ isValid(tag[from])
    /\ Len(nameOf(tag[from])) < MaxLen
    /\ FromName(t, Append(nameOf(tag[from]), suffix))

WithPrefix(t, from, prefix) ==
    /\ isValid(tag[from])
    /\ Len(nameOf(tag[from])) < MaxLen
    /\ FromName(t, <<prefix>> \o nameOf(tag[from]))

(* registerId() neither looks whether the name has an id nor tells the     *)
(* counter: the id it is given wins in both maps.                          *)
registerId(id) ==
    /\ sg_idFromString' = Put(sg_idFromString, NameOf[id], id)
    /\ sg_stringFromId' = Put(sg_stringFromId, id, NameOf[id])
    /\ UNCHANGED <<sg_firstUnusedId, tag>>

TagNext ==
    \/ \E id \in Reserved : registerId(id)
    \/ \E t \in Tags :
          \/ \E name \in Literals : FromName(t, name)
          \/ \E id \in DOMAIN sg_stringFromId \cup {0} : FromId(t, id)
          \/ \E from \in Tags, token \in Tokens :
                WithSuffix(t, from, token) \/ WithPrefix(t, from, token)

-----------------------------------------------------------------------------
(* A tag that says it is valid still has the name it was made with:        *)
(* whatever was numbered or registered since, name() finds that name.      *)
NamesItself(value) ==
    isValid(value) =>
        /\ value.id \in DOMAIN sg_stringFromId
        /\ nameOf(value) = value.given
=============================================================================
