----------------------------- MODULE TypeTraits -----------------------------
(***************************************************************************)
(* pctkTypeTraits.h and pctkTypeInfo.h: what kind of type a type is, told  *)
(* by templates that match its form, and how its values may be copied.     *)
(*                                                                         *)
(* A type is the sequence of its declarators, the outermost first, and the *)
(* base they end in: <<"const", "*", "int">> is int *const.  Signed and    *)
(* unsigned types have one name.  A pair is <<"pair", T, U>>, T and U being*)
(* types.  m is what the headers included before defined.                  *)
(***************************************************************************)
EXTENDS Global

(* The partial specialisations that forward to the type without a leading  *)
(* declarator strip all of those in heads.                                 *)
Strip(t, heads) ==
    LET n == CHOOSE i \in 0..(Len(t) - 1) :
                t[i + 1] \notin heads /\ \A j \in 1..i : t[j] \in heads
    IN  SubSeq(t, n + 1, Len(t))

RemoveCV(t) == Strip(t, {"const", "volatile"})
Base(t, names) == Len(t) = 1 /\ t[1] \in names

TypeIsVoid(t) == Base(t, {"void"})

(* char16_t and char32_t are types of their own where the feature is there.*)
TypeIsIntegral(m, t) ==
    LET unicode == IF value(m, Feature("UNICODE_STRINGS")) = 1 THEN {"char16_t", "char32_t"} ELSE {} IN
    Base(RemoveCV(t), {"bool", "char", "signed char", "wchar_t", "short", "int", "long",
                       "long long"} \cup unicode)

TypeIsFloatingPoint(t) == Base(RemoveCV(t), {"float", "double", "long double"})
TypeIsPointer(t) == Head(RemoveCV(t)) = "*"
TypeIsReference(t) == Head(t) = "&"

(* A type has pointers to members.                                         *)
TypeIsClassOrUnion(t) == Head(RemoveCV(t)) \in {"class", "union", "pair"}

(* TypeIsEnum is a test for what is convertible to int: a reference to T.  *)
HasTypeIsEnum(m) ==
    ~defined(m, {"_MSC_VER"}) /\ (defined(m, {"__GNUC__"}) => m["__GNUC__"] > 3)

TypeIsConvertibleToInt(t) ==
    LET T == RemoveCV(IF TypeIsReference(t) THEN Tail(t) ELSE t) IN
    Len(T) = 1 /\ ~Base(T, {"void", "enum class", "class", "union", "function", "member pointer"})

(* Mutant: references are tried like any other type.                       *)
TypeIsEnumOfReference(m, t) ==
    LET T == RemoveCV(t) IN
    /\ ~(TypeIsVoid(T) \/ TypeIsIntegral(m, T) \/ TypeIsFloatingPoint(T) \/ TypeIsClassOrUnion(T))
    /\ TypeIsConvertibleToInt(T)

TypeIsEnum(m, t) ==
    LET T == RemoveCV(t) IN
    /\ ~(\/ TypeIsVoid(T) \/ TypeIsIntegral(m, T) \/ TypeIsFloatingPoint(T)
         \/ TypeIsReference(T) \/ TypeIsClassOrUnion(T))
    /\ TypeIsConvertibleToInt(T)

(* PCTK_IS_ENUM: the compiler's own test, where there is one.              *)
HasIsEnum(m) ==
    \/ Is(m, "GNU") /\ GnucCheckVersion(m, 4, 3)
    \/ Is(m, "MSVC") /\ value(m, "_MSC_FULL_VER") >= 140050215
    \/ Is(m, "CLANG") /\ defined(m, {"is_enum"})

IsEnum(m, t) ==
    IF HasIsEnum(m) THEN Base(RemoveCV(t), {"enum", "enum class"}) ELSE TypeIsEnum(m, t)

TypeIsPod(m, t) ==
    \/ TypeIsIntegral(m, t) \/ TypeIsFloatingPoint(t) \/ TypeIsPointer(t)
    \/ HasTypeIsEnum(m) /\ TypeIsEnum(m, t)

(* What is trivial past the declarators in heads; a pair is if both of its *)
(* members are.  Pairs within pairs, which the templates follow to any     *)
(* depth, are left out.                                                    *)
Trivial(m, t, heads) ==
    LET T == Strip(t, heads) IN
    IF Head(T) = "pair" THEN \A i \in {2, 3} : TypeIsPod(m, Strip(T[i], heads)) ELSE TypeIsPod(m, T)

(* TypeHasTrivialConstructor, and Copy and Destructor.                     *)
TypeHasTrivial(m, t) == Trivial(m, t, {"const", "[]"})

(* TypeHasTrivialAssign, which a const type does not have of a pair.       *)
TypeHasTrivialAssign(m, t) == Trivial(m, t, {"[]"})

(* The static assertions are C++11's and say that char is a signed type.   *)
CharIsSigned(m) ==
    IF value(m, Feature("STATIC_ASSERT")) = 1 /\ ~defined(m, {"__CHAR_UNSIGNED__"}) THEN m
    ELSE Define(m, {Error})

TypeTraitsLines(m) == CharIsSigned(pctkGlobal(m))

pctkTypeTraits(m) == Header("_PCTKTYPETRAITS_H", m, TypeTraitsLines)

-----------------------------------------------------------------------------
(* The type a typedef stands for, of the library's or of the system's.     *)
Typedef(m, name) ==
    LET of(n) == IF n \in DOMAIN m THEN m[n] ELSE n IN of(of(name))

(* The types TypeInfo has a specialisation for, as they are written; the   *)
(* unsigned ones of them are ushort, uint, unsigned long and pctk_uint64_t.*)
Primitives(m) ==
    {"bool", "char", "signed char", "short", "int", "long", "pctk_int64_t", "float", "double"}
    \cup IF defined(m, {"PCTK_OS_DARWIN"}) THEN {} ELSE {"long double"}

Named(m, names) == names \subseteq DOMAIN m

(* PCTK_DECL_TYPEINFO, of PCTK_TYPEINFO_PRIMITIVE, MOVABLE and RELOCATABLE.*)
DeclaredInfo(flags) ==
    [isComplex |-> "PRIMITIVE" \notin flags, isStatic |-> flags \cap {"MOVABLE", "PRIMITIVE"} = {},
     isRelocatable |-> flags # {}]

TypeInfo(m, t) ==
    IF Len(t) = 1 /\ t[1] \in {Typedef(m, p) : p \in Primitives(m)}
    THEN DeclaredInfo({"PRIMITIVE"})
    ELSE IF TypeIsVoid(t) THEN [isComplex |-> FALSE, isStatic |-> FALSE, isRelocatable |-> FALSE]
    ELSE IF Head(t) = "*" THEN [isComplex |-> FALSE, isStatic |-> FALSE, isRelocatable |-> TRUE]
    ELSE [isComplex |-> TRUE, isStatic |-> TRUE, isRelocatable |-> IsEnum(m, t)]

TypeInfoMerger(infos) ==
    [isComplex |-> \E i \in infos : i.isComplex, isStatic |-> \E i \in infos : i.isStatic,
     isRelocatable |-> \A i \in infos : i.isRelocatable]

(* A name that is no type, or a type that is specialised twice, is an error*)
SpecialisedTwice(m) ==
    \E p, q \in Primitives(m) : p # q /\ Typedef(m, p) = Typedef(m, q)

PrimitiveInfos(m) ==
    IF Named(m, {"ushort", "uint"}) /\ ~SpecialisedTwice(m) THEN m ELSE Define(m, {Error})

TypeInfoLines(m) == UnlessFailed(pctkTypeTraits(m), PrimitiveInfos)

pctkTypeInfo(m) == Header("_PCTKTYPEINFO_H", m, TypeInfoLines)

(* The constructors of Flag need the names of the unsigned types too.      *)
FlagNames(m) ==
    IF Is(m, "MSVC") THEN {}
    ELSE {"uint", "ushort"} \cup IF defined(m, {"__LP64__"}) THEN {} ELSE {"ulong"}

FlagClass(m) == IF Named(m, FlagNames(m)) THEN m ELSE Define(m, {Error})

FlagsLines(m) == UnlessFailed(pctkTypeInfo(m), FlagClass)

pctkFlags(m) == Header("_PCTKFLAGS_H", m, FlagsLines)
=============================================================================
