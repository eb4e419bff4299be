------------------------------- MODULE Headers -------------------------------
(***************************************************************************)
(* A translation unit that includes headers of the core library, in the    *)
(* order its author likes, compiled for some target; and the next version  *)
(* of the compiler, which compiles the same source again.                  *)
(*                                                                         *)
(* A target is a record: the macros the compiler predefines, its types (see*)
(* Types), in data, the languages it understands (see Macros), and the     *)
(* arithmetic types it has besides those of C++98, in types.               *)
(***************************************************************************)
EXTENDS TypeTraits, Processor, Functions

CONSTANTS
    Targets,    \* the targets
    Upgrades,   \* pairs of targets: a compiler, and it or a later version with a later standard
    Longest,    \* how many headers are included
    Limit       \* overflow is looked at in unsigned types of Limit values

ASSUME LimitAssumption == Limit \in Nat \ {0}
ASSUME UpgradesAssumption == Upgrades \subseteq Targets \X Targets
ASSUME LongestAssumption == Longest \in Nat

VARIABLES
    target,     \* the target compiled for
    includes,   \* the headers included
    m           \* the macros and the typedef names defined, and their values

vars == <<target, includes, m>>

HeaderNames == {"System", "Processor", "Compiler", "Macros", "Types", "Global", "TypeTraits", "Flags"}

Preprocess(h, defs) ==
    CASE h = "System" -> pctkSystem(defs)
      [] h = "Processor" -> pctkProcessor(defs)
      [] h = "Compiler" -> pctkCompiler(defs)
      [] h = "Macros" -> pctkMacros(defs)
      [] h = "Types" -> pctkTypes(defs)
      [] h = "Global" -> pctkGlobal(defs)
      [] h = "TypeTraits" -> pctkTypeTraits(defs)
      [] h = "Flags" -> pctkFlags(defs)

Predefined(t) == DefineAs(DefineAs(t.macros, t.data.name), pctkCoreConfig(t.data))

Compiled(t, hs) ==
    LET after[n \in 0..Len(hs)] ==
            IF n = 0 THEN Predefined(t) ELSE Preprocess(hs[n], after[n - 1])
    IN  after[Len(hs)]

Included(h) == h \in Range(includes)
Seen(guard) == defined(m, {guard}) /\ ~Fails(m)

Init ==
    /\ target \in Targets
    /\ includes = << >>
    /\ m = Predefined(target)

Include(h) ==
    /\ ~Fails(m)
    /\ Len(includes) < Longest
    /\ ~Included(h)
    /\ includes' = Append(includes, h)
    /\ m' = Preprocess(h, m)
    /\ UNCHANGED target

Upgrade ==
    /\ \E t \in {u[2] : u \in {v \in Upgrades : v[1] = target}} :
          target' = t /\ m' = Compiled(t, includes)
    /\ UNCHANGED includes

Next == (\E h \in HeaderNames : Include(h)) \/ Upgrade

Spec == Init /\ [][Next]_vars

-----------------------------------------------------------------------------
(* Features are 0 or 1 and the ones other headers test are defined, as soon*)
(* as the compiler is known (pctkCompiler.h).                              *)
Tested == {"NULLPTR", "CONSTEXPR", "EXPLICIT_OVERRIDES", "NOEXCEPT", "DEFAULT_MEMBERS", "ALIGNAS",
           "DELETE_MEMBERS", "RVALUE_REFS", "ALIGNOF", "UNICODE_STRINGS", "INITIALIZER_LISTS"}

TypeOK ==
    /\ target \in Targets
    /\ Len(includes) \in 0..Longest /\ IsInjective(includes)
    /\ Range(includes) \subseteq HeaderNames
    /\ Seen("_PCTKCOMPILER_H") => \A f \in Tested : Feature(f) \in DOMAIN m /\ m[Feature(f)] \in {0, 1}

(* Headers include what they need: whatever order a source includes them   *)
(* in, it sees the same macros, except PCTK_POINTER_SIZE, which needs      *)
(* pctkProcessor.h before it and nothing includes that (pctkTypes.h:228).  *)
IfIncluded(hs, h, defs) == IF h \in hs THEN Preprocess(h, defs) ELSE defs

InOrder(t, hs) ==
    LET In(h, defs) == IfIncluded(hs, h, defs) IN
    In("Flags", In("TypeTraits", In("Global", In("Types",
    In("Macros", In("Compiler", In("System", In("Processor", Predefined(t)))))))))

IncludeOrderFree ==
    ~Fails(m) =>
        undef(m, {"PCTK_POINTER_SIZE"})
            = undef(InOrder(target, Range(includes)), {"PCTK_POINTER_SIZE"})

(* The types have the widths their names promise, and a format reads what  *)
(* it is for: int64_t and size_t by their types, the others by their width *)
(* (pctkTypes.h, and the tests of configure.cmake it relies on).  So does  *)
(* the modifier each format begins with, except PCTK_INT32_MODIFIER, which *)
(* reads a short where int has the 4 bytes (pctkTypes.h:259).              *)
(* PCTK_POINTER_SIZE is right where the compiler tells the size; where it  *)
(* does not it is 4 unless pctkProcessor.h was included before, and wrong  *)
(* with 64-bit Visual C++ (pctkTypes.h:228-236): that is excepted.         *)
SizeOf(t) == LET type == Typedef(m, t) IN IF type = "char" THEN 1 ELSE target.data.size[type]
Reads(modifier) == [h |-> "short", l |-> "long", ll |-> "long long"][modifier]
Read(format) == IF m[format] = "" THEN "int" ELSE Reads(m[format])

WidthsFit ==
    LET size == target.data.size IN
    Seen("_PCTKTYPES_H") =>
        /\ SizeOf("pctk_int16_t") = 2 /\ SizeOf("pctk_int32_t") = 4 /\ SizeOf("pctk_int64_t") = 8
        /\ SizeOf("pctk_intptr_t") = size["pointer"]
        /\ Read("PCTK_INT64_FORMAT") = Typedef(m, "pctk_int64_t")
        /\ Read("PCTK_SIZE_FORMAT") = Typedef(m, "size_t")
        /\ Read("PCTK_INT16_FORMAT") = "short" /\ size[Read("PCTK_INT32_FORMAT")] = 4
        /\ size["int"] = 4 => Read("PCTK_INT32_MODIFIER") = "short"
        /\ size[Read("PCTK_INTPTR_FORMAT")] = size["pointer"]
        /\ defined(m, {"__SIZEOF_POINTER__", "__LP64__"}) => m["PCTK_POINTER_SIZE"] = size["pointer"]

(* What a macro expands to is in a language the compiler understands; the  *)
(* static assertions, which C++98 lacks, aside (pctkMacros.h:156).         *)
Cxx98Lacks == {"PCTK_STATIC_ASSERT", "PCTK_STATIC_ASSERT_X"}

SpellingsUnderstood ==
    Seen("_PCTKMACROS_H_") =>
        LET spelled == Spellings(m)
            macros == IF m[Feature("STATIC_ASSERT")] = 1 THEN DOMAIN spelled
                      ELSE DOMAIN spelled \ Cxx98Lacks
        IN  \A x \in macros : spelled[x] \in target.understood \cup {"plain"}

(* A compiler's next version, or a later standard, keeps every feature the *)
(* version before had; that templates cannot be friends is the lack of one.*)
FeatureSet(defs) ==
    {f \in Defaulted \ {"NO_TEMPLATE_FRIENDS"} : value(defs, Feature(f)) = 1}

UpgradeKeepsFeatures ==
    [][~Fails(m) /\ ~Fails(m') => FeatureSet(m) \subseteq FeatureSet(m')]_vars

(* An unsigned addition or multiplication that is not the compiler's own   *)
(* says that it overflowed if and only if it did (pctkTypes.h:399-418 and  *)
(* 429-438, under the heading "Overflow-checked unsigned integer           *)
(* arithmetic", 368).  The signed ones (419-428) are not exact: where the  *)
(* result fits, a product is never said to overflow, but a sum is whenever *)
(* what was added is negative; where it does not fit, nothing is promised. *)
OverflowChecksExact ==
    Seen("_PCTKTYPES_H") /\ m["PCTK_HAS_BUILTIN_OVERFLOW_CHECKS"] = 0 =>
        /\ \A a, b \in 0..(Limit - 1) :
              /\ UintAdd(a, b, Limit).overflow <=> a + b >= Limit
              /\ UintMul(a, b, Limit).overflow <=> a * b >= Limit
        /\ \A a, b \in -Limit..(Limit - 1) :
              /\ FitsIn(a + b, Limit) => IntAdd(a, b, Limit) = {b < 0}
              /\ FitsIn(a * b, Limit) => IntMul(a, b, Limit) = {FALSE}

-----------------------------------------------------------------------------
(* Types to judge, and what they are by their form alone.                  *)
Kinds ==
    [integral |-> {"bool", "char", "signed char", "wchar_t", "short", "int", "long", "long long",
                   "char16_t", "char32_t"},
     floating |-> {"float", "double", "long double"}, enum |-> {"enum"},
     class |-> {"class", "union"}, void |-> {"void"}, other |-> {"function", "member pointer"}]

Bases(types) ==
    {"bool", "char", "wchar_t", "int", "long", "long long", "double", "long double", "enum",
     "class", "union", "void", "function", "member pointer"} \cup types

Arithmetic == {"int", "char", "double", "enum", "class"}

TypeFamily(types) ==
    {cv \o <<b>> : cv \in {<< >>, <<"const">>, <<"volatile">>, <<"const", "volatile">>},
                   b \in Bases(types) \ {"function", "void"}}
    \cup {<<"void">>, <<"function">>}
    \cup {p \o <<b>> : p \in {<<"*">>, <<"const", "*">>, <<"*", "const">>, <<"&">>, <<"&", "const">>,
                              <<"[]">>, <<"[]", "[]">>, <<"&", "*">>, <<"*", "*">>}, b \in Arithmetic}

Kind(t) ==
    LET T == RemoveCV(t) IN
    CASE Head(T) = "*" -> "pointer"
      [] Head(T) = "&" -> "reference"
      [] Head(T) = "[]" -> "other"
      [] OTHER -> CHOOSE k \in DOMAIN Kinds : Head(T) \in Kinds[k]

Judged(t) ==
    {k \in {"void", "integral", "floating", "pointer", "reference", "enum", "class"} :
        CASE k = "void" -> TypeIsVoid(t)
          [] k = "integral" -> TypeIsIntegral(m, t)
          [] k = "floating" -> TypeIsFloatingPoint(t)
          [] k = "pointer" -> TypeIsPointer(t)
          [] k = "reference" -> TypeIsReference(t)
          [] k = "enum" -> IF HasTypeIsEnum(m) THEN TypeIsEnum(m, t) ELSE IsEnum(m, t)
          [] k = "class" -> TypeIsClassOrUnion(t)}

(* What is copied by its bytes: scalars, pairs and arrays of them, and what*)
(* is made of types with a TypeInfo that says so.                          *)
Scalar == {"integral", "floating", "pointer", "enum"}

CopiedRight(types) ==
    /\ \A t \in types :
          /\ TypeIsPod(m, t) => Kind(t) \in Scalar
          /\ TypeHasTrivialAssign(m, t) => TypeHasTrivial(m, t)
          /\ TypeHasTrivial(m, t) => Kind(Strip(t, {"const", "volatile", "[]"})) \in Scalar
    /\ \A t, u \in {v \in types : Len(v) = 1} :
          (\/ TypeHasTrivial(m, <<"pair", t, u>>)
           \/ TypeInfoMerger({TypeInfo(m, t), TypeInfo(m, u)}).isRelocatable)
             => {Kind(t), Kind(u)} \subseteq Scalar

(* Each type is judged to be what it is and nothing else (pctkTypeTraits.h *)
(* 361-376), and only scalars are copied as if they were bytes.            *)
TypesClassifiedOnce ==
    Seen("_PCTKTYPETRAITS_H") =>
        /\ \A t \in TypeFamily(target.types) : Judged(t) = {Kind(t)} \ {"other"}
        /\ Seen("_PCTKTYPEINFO_H") => CopiedRight(TypeFamily(target.types))

(* The list of primitive types names no type twice, so that pctkFlags.h can*)
(* be compiled, as tests/tools/tst_flags.cpp does (pctkTypeInfo.h:244).    *)
PrimitivesDiffer == Included("Flags") => ~SpecialisedTwice(m)
=============================================================================
