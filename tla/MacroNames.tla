----------------------------- MODULE MacroNames -----------------------------
(***************************************************************************)
(* The names the headers define and the names they test, and what is       *)
(* assumed of the targets.  That a header tests no name it has not         *)
(* included the header of, and that no name is defined by two headers, is  *)
(* what makes the order of inclusion free.  Whether two names differ is a  *)
(* question of their letters, and what a target is like one of its list:   *)
(* TLC answers both, for the assumptions below are about constants only.   *)
(***************************************************************************)
EXTENDS Headers

GuardOf ==
    [System |-> "_PCTKSYSTEM_H_", Compiler |-> "_PCTKCOMPILER_H", Macros |-> "_PCTKMACROS_H_",
     Types |-> "_PCTKTYPES_H", Limits |-> "_PCTKLIMITS_H_", Global |-> "_PCTKGLOBAL_H",
     TypeTraits |-> "_PCTKTYPETRAITS_H", TypeInfo |-> "_PCTKTYPEINFO_H", Flags |-> "_PCTKFLAGS_H",
     Processor |-> "_PCTKPROCESSOR_H_"]

GuardNames == {GuardOf[h] : h \in DOMAIN GuardOf}

(* What a header defines, its guard and #error aside.                      *)
SystemMacros ==
    {"PCTK_OS_APPLE", "PCTK_OS_DARWIN", "PCTK_OS_BSD4", "PCTK_OS_DARWIN64", "PCTK_OS_DARWIN32",
     "PCTK_OS_MACOS", "PCTK_PLATFORM_UIKIT", "PCTK_OS_WATCHOS", "PCTK_OS_TVOS", "PCTK_OS_IOS",
     "PCTK_OS_WINCE", "PCTK_OS_WIN32", "PCTK_OS_WINPHONE", "PCTK_OS_WINRT", "PCTK_OS_WEBOS",
     "PCTK_OS_ANDROID", "PCTK_OS_LINUX", "PCTK_OS_CYGWIN", "PCTK_OS_WIN64", "PCTK_OS_UNIX",
     "PCTK_OS_WINDOWS", "PCTK_OS_WIN", "PCTK_NO_DATA_RELOCATION", "PCTK_OS_MAC", "PCTK_OS_MAC32",
     "PCTK_OS_MAC64", "PCTK_OS_MACX", "PCTK_OS_OSX", "PCTK_LINUXBASE"}
    \cup {"PCTK_OS_" \o n : n \in UNION {OtherSystems[i][2] : i \in DOMAIN OtherSystems}}
    \cup MinimumNames \cup VersionNames

CompilerMacros ==
    {"PCTK_CC_" \o n : n \in {"GNU", "MSVC", "INTEL"}}
    \cup {"PCTK_CC_CLANG", "PCTK_CC_BOR", "PCTK_CC_MINGW", "PCTK_CC_MSVC_NET",
          "PCTK_CC_EMSCRIPTEN", "PCTK_CC_STDC_90", "PCTK_CC_STDC_99", "PCTK_CC_STDC_11",
          "PCTK_CC_STDCXX_VERSION", "PCTK_CC_STDCXX_98", "PCTK_CC_STDCXX_11", "PCTK_CC_STDCXX_14",
          "PCTK_CC_STDCXX_17", "PCTK_CC_STDCXX_20"}

(* The features of C++14 have no default.                                  *)
FeatureNames ==
    Defaulted \cup {"LAMBDA_CAPTURES", "RETURN_TYPE_DEDUCTION", "GENERIC_LAMBDA",
                    "RELAXED_CONSTEXPR_FUNCTIONS", "VARIABLE_TEMPLATES", "VLA",
                    "DEFAULT_DELETE_MEMBERS", "_DEFAULT_DELETE_MEMBERS"}

FeatureMacros == {Feature(f) : f \in FeatureNames}

SpellingNames ==
    {"NULLPTR", "CONSTEXPR", "RELAXED_CONSTEXPR", "OVERRIDE", "FINAL", "NOEXCEPT",
     "NOEXCEPT_EXPR", "NOTHROW", "EPCTK_DEFAULT", "EPCTK_DEFAULT_FUNC", "EPCTK_DELETE",
     "EPCTK_DELETE_FUNC", "ALIGN", "DISABLE_MOVE", "ALIGNOF", "STATIC_ASSERT", "STATIC_ASSERT_X",
     "DIR_SEPARATOR", "SEARCHPATH_SEPARATOR", "NEWLINE", "LIB_PREFIX", "LIB_EXT", "STMT_END",
     "STRFUNC", "LIKELY", "UNLIKELY", "TYPEOF", "C_ALIGNOF", "C_STATIC_ASSERT",
     "C_STATIC_ASSERT_X", "DECL_EXPORT", "DECL_IMPORT", "DECL_HIDDEN", "EXTERN_VAR",
     "FORCE_INLINE", "ALWAYS_INLINE", "NO_INLINE", "EXTENSION", "ATTR_ALIGNED", "ATTR_PURE",
     "ATTR_MALLOC", "ATTR_NULL_TERMINATED", "ATTR_ALLOC_SIZE", "ATTR_ALLOC_SIZE2", "ATTR_PRINTF",
     "ATTR_SCANF", "ATTR_STRFTIME", "ATTR_FORMAT", "ATTR_CONST", "ATTR_UNUSED",
     "ATTR_NO_INSTRUMENT", "ATTR_FALLTHROUGH", "ATTR_MAY_ALIAS", "ATTR_WARN_UNUSED_RESULT",
     "ATTR_NORETURN", "ATTR_NORETURN_FUNCPTR", "ATTR_DEPRECATED", "ATTR_DEPRECATED_X", "PRAGMA",
     "WARNING_PUSH", "WARNING_POP", "WARNING_DISABLE_DEPRECATED", "IGNORE_DEPRECATIONS",
     "WARNING_DISABLE_FLOAT_COMPARE", "WARNING_DISABLE_INVALID_OFFSETOF", "ATTR_DEPRECATED_FOR",
     "BEGIN_IGNORE_DEPRECATIONS", "END_IGNORE_DEPRECATIONS", "ANALYZER_NORETURN",
     "DECL_CONSTRUCTOR", "DECL_DESTRUCTOR"}

SpellingMacros == {"PCTK_" \o n : n \in SpellingNames} \cup {"UTK_C_ALIGNOF"}

TypeMacros ==
    {"PCTK_HAS_BUILTIN_OVERFLOW_CHECKS", "PCTK_INT16_FORMAT", "PCTK_INT32_FORMAT",
     "PCTK_INT32_MODIFIER", "PCTK_INT64_FORMAT", "PCTK_SIZE_FORMAT", "PCTK_INTPTR_FORMAT", "pctk_int8_t",
     "pctk_int16_t", "pctk_int32_t", "pctk_int64_t", "pctk_ptrdiff_t", "pctk_intptr_t",
     "pctk_size_t", "pctk_longlong_t"}

LimitMacros == {LimitName(n) : n \in DOMAIN SystemLimits}

ProcessorNames ==
    {"ARM", "ARM_32", "ARM_64", "ARM_THUMB", "X86", "X86_32", "X86_64", "IA64", "MIPS", "MIPS_I",
     "MIPS_II", "MIPS_III", "MIPS_IV", "MIPS_V", "MIPS_32", "MIPS_64", "POWER", "POWER_32",
     "POWER_64", "RISCV", "RISCV_32", "RISCV_64", "S390", "S390_X", "SH", "SH_4A", "SPARC",
     "SPARC_V9", "SPARC_64", "WASM"}
    \cup {"ARM_V" \o ToString(v) : v \in 4..8} \cup {"X86_" \o bits : bits \in {"32", "64"}}

ProcessorMacros ==
    {Macro(n) : n \in ProcessorNames} \cup {"PCTK_PROCESSOR_BYTE_ORDER", "PCTK_PROCESSOR_WORDSIZE"}

(* The definitions of pctkCoreConfig.h.                                    *)
ConfigMacros ==
    {"PCTK_HAS_INT8_T", "PCTK_HAS_INT16_T", "PCTK_HAS_INT32_T", "PCTK_HAS_INT64_T",
     "PCTK_HAS_SSIZE_T", "PCTK_HAS_PTRDIFF_T", "PCTK_SHORT_SIZE", "PCTK_INT_SIZE",
     "PCTK_LONG_SIZE", "PCTK_LONG_LONG_SIZE", "PCTK_VOIDP_SIZE", "PCTK_SIZE_T_SIZE",
     "PCTK_INT64_IS_LONG_TYPE", "PCTK_INT64_IS_LONG_LONG_TYPE", "PCTK_SIZET_IS_SHORT_TYPE",
     "PCTK_SIZET_IS_INT_TYPE", "PCTK_SIZET_IS_LONG_TYPE", "PCTK_SIZET_IS_LONG_LONG_TYPE"}

(* What each header tests: macros of the compiler and of the system, and   *)
(* what the headers before it defined.                                     *)
SystemReads ==
    {"TARGET_OS_MAC", "TARGET_OS_IPHONE", "TARGET_OS_WATCH", "TARGET_OS_TV", "__LP64__",
     "WINAPI_FAMILY", "WINAPI_FAMILY_PC_APP", "WINAPI_FAMILY_PHONE_APP", "SAG_COM", "WIN64",
     "_WIN64", "__WIN64__", "WIN32", "_WIN32", "__WIN32__", "__NT__", "WINCE", "_WIN32_WCE",
     "__APPLE__", "__GNUC__", "__xlC__", "__xlc__", "__WEBOS__", "__ANDROID__", "ANDROID",
     "__CYGWIN__", "__LSB_VERSION__"}
    \cup {"WINAPI_FAMILY_" \o n : n \in {"DESKTOP_APP", "PHONE_APP", "PC_APP", "APP"}}
    \cup SystemMacros
    \cup UNION {OtherSystems[i][1] : i \in DOMAIN OtherSystems}

CompilerReads ==
    {"__apple_build_version__", "__clang_major__", "__clang_minor__", "__BORLANDC__",
     "__TURBOC__", "__MINGW32__", "_MSC_VER", "_MSC_FULL_VER", "_MSVC_LANG", "__EMSCRIPTEN__",
     "__GNUC__", "__GNUC_MINOR__", "__GNUC_PATCHLEVEL__", "__INTEL_COMPILER",
     "__INTEL_COMPILER_UPDATE", "__INTEL_CXX11_MODE__", "_CHAR16T", "_WIN32", "__clang__",
     "__cplusplus", "__STDC_VERSION__", "__STRICT_ANSI__", "__GXX_EXPERIMENTAL_CXX0X__",
     "__FreeBSD__", "<threads.h>", "<atomic>", "c_static_assert", "c_thread_local"}
    \cup {"PCTK_CC_" \o n : n \in {"GNU", "MSVC", "CLANG", "INTEL", "MINGW"}}
    \cup {"cxx_" \o pair[1] : pair \in Cxx11Names \cup Cxx14Names}
    \cup {"cxx_" \o n : n \in {"atomic", "constexpr", "thread_local", "decltype_auto",
                               "return_type_deduction", "binary_literals"}}
    \cup FeatureMacros

MacrosReads ==
    {"__xlC__", "__SUNPRO_CC", "__SUNPRO_C", "__OPTIMIZE__", "PCTK_COMPILER_STATIC_ASSERT",
     "PCTK_SHARED", "PCTK_OS_WIN32", "PCTK_OS_WIN", "PCTK_OS_DARWIN", "__APPLE__",
     "__GI_SCANNER__", "__ICC", "__clang_analyzer__", "__COVERITY__",
     "attribute_analyzer_noreturn", "__noinline__", "__pure__", "__malloc__", "__sentinel__",
     "__alloc_size__", "__format__", "__format_arg__", "__const__", "__unused__",
     "__no_instrument_function__", "fallthrough", "may_alias", "warn_unused_result",
     "__noreturn__", "__deprecated__"}
    \cup {"__has_" \o what : what \in {"attribute", "feature", "extension", "builtin"}}

TypesReads ==
    {"__SIZEOF_POINTER__", "__LP64__", "_LP64", "PCTK_SIZET_SIZE", "PCTK_TEST_OVERFLOW_FALLBACK",
     "__builtin_add_overflow"}
    \cup ConfigMacros

(* Names that are types: those of C++, and those of the system's headers.  *)
BaseTypes == {"bool", "char", "signed char", "short", "int", "long", "long long", "float", "double",
              "long double"}
StandardNames == {"int16_t", "int32_t", "int64_t", "size_t", "ptrdiff_t"}
TypeNames == BaseTypes \cup StandardNames \cup {"pctk_int64_t", "ushort", "uint", "ulong"}

OtherReads ==
    DOMAIN SystemLimits \cup TypeNames
    \cup {"PCTK_BUILD_CORE_LIB", "PCTK_DECL_EXPORT", "PCTK_DECL_IMPORT", "__CHAR_UNSIGNED__"}

ReadNames == SystemReads \cup CompilerReads \cup MacrosReads \cup TypesReads \cup OtherReads

ArmReads ==
    {"__ARM_ARCH", "__TARGET_ARCH_ARM", "_M_ARM", "__ARM64_ARCH_8__", "__aarch64__", "__ARMv8__",
     "__ARMv8_A__", "_M_ARM64", "_ARM_ARCH_7", "__CORE_CORTEXA__", "__ARM_ARCH_5TEJ__",
     "__ARM_ARCH_5TE__", "__ARM_ARCH_4T__", "__ARM64__", "__thumb__", "__ARMEL__", "__ARMEB__"}

X86Reads ==
    {"_M_IX86", "__i686__", "__athlon__", "__SSE__", "__pentiumpro__", "__i586__", "__k6__",
     "__pentium__", "__i486__", "__80486__"}

MipsReads ==
    {"__mips", "_MIPS_ARCH_MIPS1", "_MIPS_ARCH_MIPS2", "_MIPS_ARCH_MIPS3", "_MIPS_ARCH_MIPS4",
     "_MIPS_ARCH_MIPS5", "_MIPS_ARCH_MIPS32", "__mips32", "_MIPS_ARCH_MIPS64", "__mips64",
     "__MIPSEL__", "__MIPSEB__"}

FamilyReads ==
    {"__i386", "__i386__", "_M_IX86", "__x86_64", "__x86_64__", "__amd64", "_M_X64", "__ia64",
     "__ia64__", "_M_IA64", "__mips", "__mips__", "_M_MRX000", "__ppc64__", "__powerpc64__",
     "__64BIT__", "__riscv", "__riscv_xlen", "__s390__", "__s390x__", "__sh__", "__sh4a__",
     "__sparc__", "__sparc_v9__", "__sparc64__", "__EMSCRIPTEN__"}

OrderReads ==
    {"__ORDER_BIG_ENDIAN__", "__ORDER_LITTLE_ENDIAN__", "__BYTE_ORDER__", "__BIG_ENDIAN__",
     "_big_endian__", "_BIG_ENDIAN", "__LITTLE_ENDIAN__", "_little_endian__", "_LITTLE_ENDIAN"}

SizeReads == {"__SIZEOF_POINTER__", "__LP64__", "_LP64"}

ProcessorReads ==
    ArmReads \cup X86Reads \cup MipsReads \cup FamilyReads \cup OrderReads \cup SizeReads
    \cup ArmMacros \cup PowerMacros
    \cup {"__ARM_ARCH_6" \o v \o "__" : v \in {"", "J", "T2", "Z", "K", "ZK", "M"}}
    \cup {"__ARM_ARCH_7" \o v \o "__" : v \in {"", "A", "R", "M", "S"}}

(* Every macro has one header that defines it.                             *)
Definitions ==
    <<GuardNames, SystemMacros, CompilerMacros, FeatureMacros, SpellingMacros, TypeMacros,
      LimitMacros, {"PCTK_CORE_API"}, ProcessorMacros, ConfigMacros, {"PCTK_POINTER_SIZE"}, {Error},
      TypeNames \ {"pctk_int64_t"}>>

ASSUME DefinedOnce ==
    \A i, j \in DOMAIN Definitions : i # j => Definitions[i] \cap Definitions[j] = {}

(* What a header tests is no guard, nor a macro it does not see whatever   *)
(* the order: those of pctkProcessor.h, and the size that depends on them. *)
ASSUME TestsInOrder ==
    /\ ReadNames \cap (GuardNames \cup ProcessorMacros \cup {"PCTK_POINTER_SIZE", Error}) = {}
    /\ ProcessorReads \cap UNION {Definitions[i] : i \in DOMAIN Definitions} = {}

(* Two features have two macros, and a compiler that is told is known.     *)
ASSUME FeaturesDiffer == \A f, g \in FeatureNames : Feature(f) = Feature(g) => f = g

ASSUME CompilersNamed ==
    \A pair \in {<<"GNU", "PCTK_CC_GNU">>, <<"MSVC", "PCTK_CC_MSVC">>,
                 <<"CLANG", "PCTK_CC_CLANG">>, <<"INTEL", "PCTK_CC_INTEL">>,
                 <<"MINGW", "PCTK_CC_MINGW">>} :
        "PCTK_CC_" \o pair[1] = pair[2]

(* A target is not the middle of a translation unit, and its types are C's.*)
ASSUME TargetsBare ==
    \A t \in Targets :
        /\ DOMAIN Predefined(t) \cap (GuardNames \cup CompilerMacros \cup FeatureMacros \cup {Error}) = {}
        /\ DOMAIN Predefined(t) \cap BaseTypes = {}
        /\ \A n \in DOMAIN Predefined(t) \cap TypeNames : Predefined(t)[n] \in BaseTypes

(* What pctkTypes.h takes for granted of any compiler: the sizes of C's    *)
(* types, that the standard's names are of the types they say, and that a  *)
(* compiler that tells the size of a pointer tells the truth.              *)
IntegerTypes == {"short", "int", "long", "long long"}

Means(data, n, bytes) ==
    n \in DOMAIN data.name => data.name[n] \in IntegerTypes /\ data.size[data.name[n]] = bytes

StandardTypes(data) ==
    /\ data.size["short"] = 2 /\ data.size["int"] = 4 /\ data.size["long long"] = 8
    /\ Means(data, "int16_t", 2) /\ Means(data, "int32_t", 4) /\ Means(data, "int64_t", 8)
    /\ Means(data, "ptrdiff_t", data.size["pointer"])
    /\ "size_t" \in DOMAIN data.name /\ data.name["size_t"] \in IntegerTypes

TellsPointerSize(defs, bytes) ==
    /\ "__SIZEOF_POINTER__" \in DOMAIN defs => defs["__SIZEOF_POINTER__"] = bytes
    /\ defined(defs, {"__LP64__", "_LP64"}) => bytes = 8

ASSUME TargetsAssumption ==
    \A t \in Targets :
        StandardTypes(t.data) /\ TellsPointerSize(Predefined(t), t.data.size["pointer"])

(* What is a later version of a compiler, or a later standard: the numbers *)
(* it tells do not become less, and it lacks nothing that it had.          *)
Vendors == {"__GNUC__", "_MSC_VER", "__clang__", "__INTEL_COMPILER", "__apple_build_version__"}

Numbers ==
    {"__GNUC__", "__GNUC_MINOR__", "__GNUC_PATCHLEVEL__", "__clang_major__", "__clang_minor__",
     "__INTEL_COMPILER", "__INTEL_COMPILER_UPDATE"}

Grown == {"_MSC_VER", "_MSC_FULL_VER", "__apple_build_version__", "__cplusplus", "__STDC_VERSION__"}

Abilities ==
    {"__STDC_VERSION__", "<threads.h>", "<atomic>", "c_static_assert", "c_thread_local"}
    \cup {"cxx_" \o pair[1] : pair \in Cxx11Names \cup Cxx14Names}
    \cup {"cxx_" \o n : n \in {"atomic", "constexpr", "thread_local", "decltype_auto",
                               "return_type_deduction", "binary_literals"}}

Obstacles == {"_WIN32", "__FreeBSD__", "_CHAR16T"}
Modes == {"__STRICT_ANSI__", "__GXX_EXPERIMENTAL_CXX0X__", "__INTEL_CXX11_MODE__"}

LaterModes(u, v) ==
    LET cxx11 == value(v, "__cplusplus") >= 201103 IN
    /\ defined(u, {"__GXX_EXPERIMENTAL_CXX0X__"}) => defined(v, {"__GXX_EXPERIMENTAL_CXX0X__"}) \/ cxx11
    /\ defined(u, {"__INTEL_CXX11_MODE__"}) => defined(v, {"__INTEL_CXX11_MODE__"}) \/ cxx11
    /\ defined(v, {"__STRICT_ANSI__"}) =>
           defined(u, {"__STRICT_ANSI__"}) \/ cxx11 \/ value(v, "__STDC_VERSION__") >= 199901
    /\ defined(v, {"__STDC_VERSION__"}) => ~cxx11 /\ ~defined(v, {"__INTEL_CXX11_MODE__"})

(* One number before another, or the same and the smaller number after it  *)
(* no greater.                                                             *)
Precedes(number, next, small, nextSmall) ==
    number < next \/ (number = next /\ small <= nextSmall)

Later(u, v) ==
    /\ \A x \in Vendors : x \in DOMAIN u <=> x \in DOMAIN v
    /\ \A x \in Numbers \cup Grown : value(u, x) \in Nat /\ value(v, x) \in Nat
    /\ \A x \in Grown : value(u, x) <= value(v, x)
    /\ Precedes(100 * value(u, "__GNUC__") + value(u, "__GNUC_MINOR__"),
                100 * value(v, "__GNUC__") + value(v, "__GNUC_MINOR__"),
                value(u, "__GNUC_PATCHLEVEL__"), value(v, "__GNUC_PATCHLEVEL__"))
    /\ Precedes(value(u, "__INTEL_COMPILER"), value(v, "__INTEL_COMPILER"),
                value(u, "__INTEL_COMPILER_UPDATE"), value(v, "__INTEL_COMPILER_UPDATE"))
    /\ 100 * value(u, "__clang_major__") + value(u, "__clang_minor__")
          <= 100 * value(v, "__clang_major__") + value(v, "__clang_minor__")
    /\ Abilities \cap DOMAIN u \subseteq DOMAIN v
    /\ Obstacles \cap DOMAIN v \subseteq DOMAIN u
    /\ LaterModes(u, v)

ASSUME UpgradesAreLater == \A u \in Upgrades : Later(Predefined(u[1]), Predefined(u[2]))

(* What tells a later compiler is the compiler's own.                      *)
LaterNames == Vendors \cup Numbers \cup Grown \cup Abilities \cup Obstacles \cup Modes

ASSUME LaterNamesForeign == LaterNames \cap UNION {Definitions[i] : i \in DOMAIN Definitions} = {}

(* What a compiler understands, told by what it predefines: Visual C++ says*)
(* so, and whatever else does not understands GNU's extensions and _Pragma,*)
(* which those it names understand besides.  C has no __cplusplus and C++  *)
(* no __STDC_VERSION__; Intel's compiler for Windows is not looked at.     *)
GnuNames ==
    {"__GNUC__", "__clang__", "__xlC__", "__SUNPRO_CC", "__SUNPRO_C", "__ICC", "__COVERITY__"}
    \cup {"__has_" \o what : what \in {"attribute", "feature"}}

WindowsNames ==
    {"WIN32", "_WIN32", "__WIN32__", "__NT__", "WIN64", "_WIN64", "__WIN64__", "__MINGW32__"}

Speaks11(u) ==
    \/ value(u, "__cplusplus") >= 201103 \/ value(u, "_MSC_VER") >= 1600
    \/ defined(u, {"__GXX_EXPERIMENTAL_CXX0X__", "__INTEL_CXX11_MODE__"})

Speaks(u) ==
    Given({<<defined(u, {"_MSC_VER"}), {"msvc", "declspec"}>>,
           <<defined(u, GnuNames) \/ ~defined(u, {"_MSC_VER"}), {"gnu", "c99"}>>,
           <<defined(u, WindowsNames), {"declspec"}>>, <<Speaks11(u), {"cxx11"}>>})

ASSUME TargetsSpeak ==
    \A t \in Targets :
        LET u == Predefined(t) IN
        /\ Speaks(u) \subseteq t.understood
        /\ ~({"__cplusplus", "__STDC_VERSION__"} \subseteq DOMAIN u)
        /\ ~({"__INTEL_COMPILER", "_MSC_VER"} \subseteq DOMAIN u)
        /\ \A x \in Numbers \cup Grown : value(u, x) \in Nat

(* What the spellings depend on is the compiler's own, but for the names   *)
(* pctkSystem.h and pctkCompiler.h give the system and the compiler.       *)
SpokenNames ==
    GnuNames \cup WindowsNames
    \cup {"_MSC_VER", "__INTEL_COMPILER", "__cplusplus", "__STDC_VERSION__"}

ASSUME SpokenNamesForeign == SpokenNames \cap UNION {Definitions[i] : i \in DOMAIN Definitions} = {}

ASSUME SpellingsNamed ==
    \A pair \in {<<"PRAGMA", "PCTK_PRAGMA">>, <<"ATTR_DEPRECATED", "PCTK_ATTR_DEPRECATED">>,
                 <<"STATIC_ASSERT", "PCTK_STATIC_ASSERT">>, <<"STATIC_ASSERT_X", "PCTK_STATIC_ASSERT_X">>} :
        "PCTK_" \o pair[1] = pair[2]

ASSUME SystemsNamed ==
    /\ "PCTK_OS_WIN32" \notin {"PCTK_OS_" \o n : n \in UNION {OtherSystems[i][2] : i \in DOMAIN OtherSystems}}
    /\ "PCTK_OS_WIN32" \notin MinimumNames \cup VersionNames
    /\ \A t \in Targets : "PCTK_OS_WIN32" \notin DOMAIN Predefined(t)

(* A compiler of C++ whose char16_t and char32_t are types of their own    *)
(* tells so by its version, or by what it has.                             *)
TellsUnicode(u) ==
    LET intel == value(u, "__INTEL_COMPILER") IN
    \/ value(u, "_MSC_VER") >= 1900
    \/ /\ defined(u, {"__INTEL_COMPILER"}) /\ ~defined(u, {"_MSC_VER"})
       /\ value(u, "__cplusplus") >= 201103 \/ defined(u, {"__INTEL_CXX11_MODE__"})
       /\ intel >= 1400 \/ (intel >= 1210 /\ ~defined(u, {"_CHAR16T"}))
    \/ /\ defined(u, {"__clang__"}) /\ ~defined(u, {"__INTEL_COMPILER", "_MSC_VER"})
       /\ Cxx11(u) /\ defined(u, {"cxx_" \o "unicode_literals"})
    \/ /\ defined(u, {"__GNUC__"}) /\ ~defined(u, {"__INTEL_COMPILER", "__clang__"})
       /\ Cxx11(u) /\ 100 * value(u, "__GNUC__") + value(u, "__GNUC_MINOR__") >= 404

ASSUME TypesTold ==
    \A t \in Targets :
        /\ t.types \subseteq {"char16_t", "char32_t"}
        /\ t.types # {} /\ defined(Predefined(t), {"__cplusplus"}) => TellsUnicode(Predefined(t))
=============================================================================
