------------------------------- MODULE Types --------------------------------
(***************************************************************************)
(* pctkTypes.h: the integer types of the library and the formats to print  *)
(* them with, chosen by the sizes and the types the configuration found.   *)
(*                                                                         *)
(* What the compiler's types are is a record: their sizes in bytes, in     *)
(* size, and the type each of the standard names stands for, in name; a    *)
(* name its headers lack is missing there.  Signed and unsigned types have *)
(* the same sizes, and one name here.                                      *)
(***************************************************************************)
EXTENDS Macros

(* The definitions configure.cmake writes to pctkCoreConfig.h: sizes, and  *)
(* what small programs that mix up two types compile with.                 *)
TypeTests(data) ==
    LET has(name) == Flag(name \in DOMAIN data.name) IN
    [PCTK_HAS_INT8_T |-> has("int8_t"), PCTK_HAS_INT16_T |-> has("int16_t"),
     PCTK_HAS_INT32_T |-> has("int32_t"), PCTK_HAS_INT64_T |-> has("int64_t"),
     PCTK_HAS_SSIZE_T |-> has("ssize_t"), PCTK_HAS_PTRDIFF_T |-> has("ptrdiff_t")]

SizeTests(data) ==
    [PCTK_SHORT_SIZE |-> data.size["short"], PCTK_INT_SIZE |-> data.size["int"],
     PCTK_LONG_SIZE |-> data.size["long"], PCTK_LONG_LONG_SIZE |-> data.size["long long"],
     PCTK_VOIDP_SIZE |-> data.size["pointer"], PCTK_SIZE_T_SIZE |-> data.size[data.name["size_t"]]]

IsType(data, name, type) == Flag(name \in DOMAIN data.name /\ data.name[name] = type)

MixTests(data) ==
    [PCTK_INT64_IS_LONG_TYPE |-> IsType(data, "int64_t", "long"),
     PCTK_INT64_IS_LONG_LONG_TYPE |-> IsType(data, "int64_t", "long long"),
     PCTK_SIZET_IS_SHORT_TYPE |-> IsType(data, "size_t", "short"),
     PCTK_SIZET_IS_INT_TYPE |-> IsType(data, "size_t", "int"),
     PCTK_SIZET_IS_LONG_TYPE |-> IsType(data, "size_t", "long"),
     PCTK_SIZET_IS_LONG_LONG_TYPE |-> IsType(data, "size_t", "long long")]

pctkCoreConfig(data) == DefineAs(DefineAs(TypeTests(data), SizeTests(data)), MixTests(data))

-----------------------------------------------------------------------------
(* The types: a name of the standard's if it is there, C's otherwise.      *)
Sizes(m) == [int |-> value(m, "PCTK_INT_SIZE"), long |-> value(m, "PCTK_LONG_SIZE"),
             longlong |-> value(m, "PCTK_LONG_LONG_SIZE"), voidp |-> value(m, "PCTK_VOIDP_SIZE")]

IntTypes(m) ==
    LET Std(macro, name, type) == IF value(m, macro) = 1 THEN name ELSE type IN
    [pctk_int8_t |-> Std("PCTK_HAS_INT8_T", "int8_t", "char"),
     pctk_int16_t |-> Std("PCTK_HAS_INT16_T", "int16_t", "short"),
     pctk_int32_t |-> Std("PCTK_HAS_INT32_T", "int32_t", "int"),
     pctk_int64_t |-> Std("PCTK_HAS_INT64_T", "int64_t", "long long")]

(* The first of int, long and long long that has the size of a pointer.    *)
PointerLike(m) ==
    LET size == Sizes(m) IN
    IF size.voidp = size.int THEN "int"
    ELSE IF size.voidp = size.long THEN "long"
    ELSE IF size.voidp = size.longlong THEN "long long"
    ELSE Error

PtrTypes(m) ==
    [x \in {"pctk_ptrdiff_t", "pctk_intptr_t"} |->
        IF value(m, "PCTK_HAS_PTRDIFF_T") = 1 THEN "ptrdiff_t" ELSE PointerLike(m)]

OtherTypes == [pctk_size_t |-> "size_t", pctk_longlong_t |-> "pctk_int64_t"]

Typedefs(m) == DefineAs(DefineAs(IntTypes(m), PtrTypes(m)), OtherTypes)

PointerSize(m) ==
    IF defined(m, {"__SIZEOF_POINTER__"}) THEN value(m, "__SIZEOF_POINTER__")
    ELSE IF defined(m, {"__LP64__", "_LP64"}) THEN 8
    ELSE IF defined(m, {"PCTK_PROCESSOR_WORDSIZE"}) THEN value(m, "PCTK_PROCESSOR_WORDSIZE")
    ELSE 4

-----------------------------------------------------------------------------
(* The formats.  A length modifier stands for the type printf() reads, and *)
(* for the macro that is this modifier alone; that of int32, which is not  *)
(* the one its format has, is apart.                                       *)
Int16Format(m) ==
    IF value(m, "PCTK_SHORT_SIZE") = 2 THEN "h"
    ELSE IF Sizes(m).int = 2 THEN ""
    ELSE Error

Int32Format(m) ==
    IF value(m, "PCTK_SHORT_SIZE") = 4 THEN "h"
    ELSE IF Sizes(m).int = 4 THEN ""
    ELSE IF Sizes(m).long = 4 THEN "l"
    ELSE Error

Int32Modifier(m) ==
    IF value(m, "PCTK_SHORT_SIZE") = 4 \/ Sizes(m).int = 4 THEN "h"
    ELSE IF Sizes(m).long = 4 THEN "l"
    ELSE Error

(* Mutant: the sizes alone choose between long and long long.              *)
Int64FormatBySize(m) ==
    IF Sizes(m).int = 8 THEN ""
    ELSE IF Sizes(m).long = 8 THEN "l"
    ELSE IF Sizes(m).longlong = 8 THEN "ll"
    ELSE Error

Int64Format(m) ==
    LET differ == Sizes(m).long # Sizes(m).longlong IN
    IF Sizes(m).int = 8 THEN ""
    ELSE IF Sizes(m).long = 8 /\ (differ \/ value(m, "PCTK_INT64_IS_LONG_TYPE") = 1) THEN "l"
    ELSE IF Sizes(m).longlong = 8 /\ (differ \/ value(m, "PCTK_INT64_IS_LONG_LONG_TYPE") = 1) THEN "ll"
    ELSE Error

(* Nothing defines PCTK_SIZET_SIZE: the last two branches are never taken. *)
SizeFormat(m) ==
    IF value(m, "PCTK_SIZET_IS_SHORT_TYPE") = 1 THEN "h"
    ELSE IF value(m, "PCTK_SIZET_IS_INT_TYPE") = 1 THEN ""
    ELSE IF value(m, "PCTK_SIZET_IS_LONG_TYPE") = 1 THEN "l"
    ELSE IF value(m, "PCTK_SIZET_IS_LONG_LONG_TYPE") = 1 THEN "ll"
    ELSE IF value(m, "PCTK_SIZET_SIZE") = 8 THEN "l"
    ELSE IF value(m, "PCTK_SIZET_SIZE") = 4 THEN ""
    ELSE Error

IntptrFormat(m) ==
    LET modifier == [int |-> "", long |-> "l"] IN
    IF PointerLike(m) \in DOMAIN modifier THEN modifier[PointerLike(m)]
    ELSE IF PointerLike(m) = Error THEN Error ELSE "ll"

Formats(m) ==
    [PCTK_INT16_FORMAT |-> Int16Format(m), PCTK_INT32_FORMAT |-> Int32Format(m),
     PCTK_INT32_MODIFIER |-> Int32Modifier(m), PCTK_INT64_FORMAT |-> Int64Format(m),
     PCTK_SIZE_FORMAT |-> SizeFormat(m), PCTK_INTPTR_FORMAT |-> IntptrFormat(m)]

-----------------------------------------------------------------------------
(* Overflow-checked arithmetic: the compiler's, or the functions below.    *)
BuiltinOverflowChecks(m) ==
    /\ ~defined(m, {"PCTK_TEST_OVERFLOW_FALLBACK"})
    /\ \/ value(m, "__GNUC__") >= 5 /\ ~defined(m, {"__INTEL_COMPILER"})
       \/ Has(m, "builtin", "__builtin_add_overflow")

(* pctk__uint_add_overflow() and those for uint64 and size_t: what goes to *)
(* dest, of limit values, and what is returned.                            *)
UintAdd(a, b, limit) ==
    LET dest == (a + b) % limit IN [dest |-> dest, overflow |-> dest < a]

(* Mutant: the result is compared with what was not added to.              *)
UintMulUnguarded(a, b, limit) ==
    LET dest == (a * b) % limit IN [dest |-> dest, overflow |-> a # 0 /\ dest < b]

UintMul(a, b, limit) ==
    LET dest == (a * b) % limit IN
    [dest |-> dest, overflow |-> a # 0 /\ dest \div a # b]

(* pctk__int64_add_overflow() and pctk__int64_mul_overflow(), for numbers  *)
(* from -half on and below half: what may be returned, which is anything   *)
(* once the result does not fit (undefined behaviour).                     *)
FitsIn(n, half) == n \in -half..(half - 1)

(* C's division truncates, \div rounds down.                               *)
Magnitude(n) == IF n < 0 THEN -n ELSE n
Quotient(n, d) ==
    LET q == Magnitude(n) \div Magnitude(d) IN IF n < 0 <=> d < 0 THEN q ELSE -q

IntAdd(a, b, half) == IF FitsIn(a + b, half) THEN {a + b < a} ELSE BOOLEAN
IntMul(a, b, half) == IF FitsIn(a * b, half) THEN {a # 0 /\ Quotient(a * b, a) # b} ELSE BOOLEAN

(* What no branch of an #if covers is an #error.                           *)
Refused(f) == {Error} \cap {f[x] : x \in DOMAIN f}

TypeTestLines(m) ==
    Define(DefineAs(DefineAs(DefineAs(m, [PCTK_POINTER_SIZE |-> PointerSize(m),
                                          PCTK_HAS_BUILTIN_OVERFLOW_CHECKS |-> Flag(BuiltinOverflowChecks(m))]),
                             Formats(m)), Typedefs(m)),
           Refused(Formats(m)) \cup Refused(PtrTypes(m)))

TypesLines(m) == UnlessFailed(pctkMacros(m), TypeTestLines)

pctkTypes(m) == Header("_PCTKTYPES_H", m, TypesLines)
=============================================================================
