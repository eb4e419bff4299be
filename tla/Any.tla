-------------------------------- MODULE Any --------------------------------
(***************************************************************************)
(* pctk::Any: an object that owns a holder on the heap, or none, and the   *)
(* pointer any_cast hands out into that holder.  A value is a record whose *)
(* type is what typeid() tells apart.                                      *)
(***************************************************************************)
EXTENDS FiniteSets

CONSTANTS
    Anys,       \* the variables of class Any
    Holders,    \* blocks of memory a holder can be in
    Unmade,     \* content of an Any not constructed yet, or destroyed
    Null        \* PCTK_NULLPTR

ASSUME NullAssumption ==
    /\ Null \notin Holders \cup Anys
    /\ Unmade \notin Holders \cup {Null}

Nothing == [type |-> "void"]

VARIABLES
    content,    \* content[x]: m_content
    held,       \* held[h]: the value in the holder, Nothing in free memory
    ptr,        \* what any_cast<T> of an Any pointer returned last
    owner       \* history: the Any whose value that pointer refers to

anyVars == <<content, held, ptr, owner>>

AnyTypeOK(Values) ==
    /\ content \in [Anys -> Holders \cup {Null, Unmade}]
    /\ held \in [Holders -> Values \cup {Nothing}]
    /\ ptr \in Holders \cup {Null}
    /\ owner \in Anys \cup {Null}

AnyInit ==
    /\ content = [x \in Anys |-> Unmade]
    /\ held = [h \in Holders |-> Nothing]
    /\ ptr = Null
    /\ owner = Null

Made(x) == content[x] # Unmade
hasValue(x) == content[x] \in Holders
valueOf(x) == IF hasValue(x) THEN held[content[x]] ELSE Nothing
Free == {h \in Holders : held[h] = Nothing}

(* The value of x dies: a pointer to it may not be used any more.          *)
Invalidate(x) == owner' = IF owner = x THEN Null ELSE owner

(* Mutant: the old holder of x is not deleted.                             *)
HoldLeaking(x, value) ==
    /\ \E h \in Free :
          /\ content' = [content EXCEPT ![x] = h]
          /\ held' = [held EXCEPT ![h] = value]
    /\ Invalidate(x)
    /\ UNCHANGED ptr

(* A new holder is made from value while the old one is still there, which *)
(* is deleted after the swap.  A constructor finds no old one.             *)
Hold(x, value) ==
    /\ IF value = Nothing
       THEN /\ content' = [content EXCEPT ![x] = Null]
            /\ held' = [h \in Holders |-> IF h = content[x] THEN Nothing ELSE held[h]]
       ELSE \E h \in Free :
            /\ content' = [content EXCEPT ![x] = h]
            /\ held' = [g \in Holders |-> IF g = h THEN value
                                          ELSE IF g = content[x] THEN Nothing ELSE held[g]]
    /\ Invalidate(x)
    /\ UNCHANGED ptr

(* Any(), and the copy constructor and operator= of another Any, or x.     *)
DefaultConstruct(x) == ~Made(x) /\ Hold(x, Nothing)
Copy(x, y) == Made(y) /\ Hold(x, valueOf(y))

(* Any(const T &) and operator=(const T &)                                 *)
Assign(x, value) == Hold(x, value)

reset(x) == Made(x) /\ Hold(x, Nothing)

Destroy(x) ==
    /\ Made(x)
    /\ content' = [content EXCEPT ![x] = Unmade]
    /\ held' = [h \in Holders |-> IF h = content[x] THEN Nothing ELSE held[h]]
    /\ Invalidate(x)
    /\ UNCHANGED ptr

(* Values change places, and a pointer follows the value it refers to.     *)
Follow(x, y) == owner' = IF owner = x THEN y ELSE IF owner = y THEN x ELSE owner

(* Mutant: what the holders hold is swapped instead of the holders.        *)
SwapValues(x, y) ==
    /\ hasValue(x) /\ hasValue(y)
    /\ held' = [held EXCEPT ![content[x]] = valueOf(y), ![content[y]] = valueOf(x)]
    /\ Follow(x, y)
    /\ UNCHANGED <<content, ptr>>

swap(x, y) ==
    /\ Made(x) /\ Made(y)
    /\ content' = [content EXCEPT ![x] = content[y], ![y] = content[x]]
    /\ Follow(x, y)
    /\ UNCHANGED <<held, ptr>>

(* any_cast<T> of a pointer: into the holder if the type is T exactly,     *)
(* a null pointer otherwise.                                               *)
CastPointer(x, type) ==
    /\ Made(x)
    /\ IF hasValue(x) /\ valueOf(x).type = type
       THEN ptr' = content[x] /\ owner' = x
       ELSE ptr' = Null /\ owner' = Null
    /\ UNCHANGED <<content, held>>

(* The program writes through the pointer, as long as it refers to a value.*)
WriteThrough(value) ==
    /\ owner # Null
    /\ held[ptr].type = value.type
    /\ held' = [held EXCEPT ![ptr] = value]
    /\ UNCHANGED <<content, ptr, owner>>

(* any_cast<T>(Any &) returns, or throws BadAnyCast.                       *)
Castable(x, type) == hasValue(x) /\ valueOf(x).type = type

-----------------------------------------------------------------------------
(* Every holder on the heap belongs to one Any, and no Any has a holder    *)
(* that is gone: nothing leaks, nothing is deleted twice, and a copy does  *)
(* not share its value with the original.                                  *)
HoldersOwnedOnce ==
    /\ \A x \in Anys : hasValue(x) => held[content[x]] # Nothing
    /\ \A h \in Holders : held[h] # Nothing => Cardinality({x \in Anys : content[x] = h}) = 1

(* A pointer from any_cast stays good until its Any gets another value, is *)
(* reset or dies, also when the value is swapped into another Any.         *)
CastPointersLive ==
    owner # Null => /\ content[owner] = ptr
                    /\ held[ptr] # Nothing
=============================================================================
