------------------------------- MODULE Macros -------------------------------
(***************************************************************************)
(* pctkMacros.h: macros that are spelled in one way for one compiler and in*)
(* another for the next.  The value of such a macro is the language its    *)
(* expansion is written in, which the compiler must understand:            *)
(*    "gnu"      __attribute__, __typeof__, __builtin_x, __extension__     *)
(*    "msvc"     __pragma, __forceinline, __alignof, __declspec(noreturn)  *)
(*    "declspec" __declspec(dllexport) and (dllimport)                     *)
(*    "cxx11", "c11"   what the standard of that year added                *)
(*    "c99"      the operator _Pragma and __func__                         *)
(*    "undefined"      a macro that is not there                           *)
(*    "plain"    C and C++ of any year, or nothing at all                  *)
(* A macro that is the same for every compiler is left out.                *)
(***************************************************************************)
EXTENDS Compiler

As(names, language) == [x \in {"PCTK_" \o n : n \in names} |-> language]
Join(f, g) == DefineAs(f, g)
If(condition, language) == IF condition THEN language ELSE "plain"

Cpp98(m) == defined(m, {"__cplusplus"})
C11(m) == value(m, "__STDC_VERSION__") >= 201112
Msvc(m, version) == defined(m, {"_MSC_VER"}) /\ m["_MSC_VER"] >= version

GnucCheckVersion(m, major, minor) ==
    \/ value(m, "__GNUC__") > major
    \/ value(m, "__GNUC__") = major /\ value(m, "__GNUC_MINOR__") >= minor

(* PCTK_CC_HAS_x(y), 0 for a compiler without __has_x.                     *)
Has(m, what, name) == defined(m, {"__has_" \o what}) /\ defined(m, {name})
HasAttribute(m, name) == Has(m, "attribute", name)

(* The compilers that have __alignof__ and __typeof__ but are not GNU's.   *)
XlcOrSun(m) == value(m, "__xlC__") >= 1536 \/ value(m, "__SUNPRO_CC") >= 1424

(* Keywords of C++11, by the feature that tells they are there.            *)
Keywords(m) ==
    LET Has11(feature) == value(m, Feature(feature)) = 1
        names == [NULLPTR |-> {"NULLPTR"}, CONSTEXPR |-> {"CONSTEXPR", "RELAXED_CONSTEXPR"},
                  EXPLICIT_OVERRIDES |-> {"OVERRIDE", "FINAL"},
                  NOEXCEPT |-> {"NOEXCEPT", "NOEXCEPT_EXPR", "NOTHROW"},
                  DEFAULT_MEMBERS |-> {"EPCTK_DEFAULT", "EPCTK_DEFAULT_FUNC"},
                  DELETE_MEMBERS |-> {"EPCTK_DELETE", "EPCTK_DELETE_FUNC"},
                  ALIGNAS |-> {"ALIGN"}, RVALUE_REFS |-> {"DISABLE_MOVE"}]
        given == UNION {names[f] : f \in {g \in DOMAIN names : Has11(g)}}
        all == UNION {names[f] : f \in DOMAIN names}
    IN  Join(As(all, "plain"), As(given, "cxx11"))

AlignOf(m) ==
    IF value(m, Feature("ALIGNOF")) = 1 THEN As({"ALIGNOF"}, "cxx11")
    ELSE IF C11(m) THEN As({"ALIGNOF"}, "c11")
    ELSE IF defined(m, {"_MSC_VER"}) THEN As({"ALIGNOF"}, "msvc")
    ELSE IF ~defined(m, {"__GNUC__"}) THEN As({"ALIGNOF"}, "gnu")
    ELSE IF XlcOrSun(m) THEN [x \in {"UTK_C_ALIGNOF"} |-> "gnu"]
    ELSE As({"ALIGNOF"}, "plain")

StaticAssert(m) ==
    As({"STATIC_ASSERT", "STATIC_ASSERT_X"},
       IF Cpp98(m) THEN "cxx11" ELSE If(defined(m, {"PCTK_COMPILER_STATIC_ASSERT"}), "c11"))

(* The separators of paths, the names of libraries and the end of a line.  *)
Platform(m) ==
    LET win32 == defined(m, {"PCTK_OS_WIN32"})
        win == defined(m, {"PCTK_OS_WIN"}) IN
    Join(Join(As({"DIR_SEPARATOR"}, IF win32 THEN "\\" ELSE "/"),
              As({"SEARCHPATH_SEPARATOR"}, IF win32 THEN ";" ELSE ":")),
         Join(As({"NEWLINE"}, IF win32 THEN "\r\n" ELSE "\n"),
              Join(As({"LIB_PREFIX"}, IF win THEN "" ELSE "lib"),
                   As({"LIB_EXT"}, IF win THEN ".dll"
                                   ELSE IF defined(m, {"PCTK_OS_DARWIN"}) THEN ".dylib"
                                   ELSE ".so"))))

(* PCTK_STMT_END, PCTK_STRFUNC, PCTK_LIKELY, PCTK_BEGIN_EXTERN             *)
Statements(m) ==
    LET strfunc == IF value(m, "__STDC_VERSION__") >= 199901 THEN "c99"
                   ELSE IF defined(m, {"__GNUC__"}) THEN "gnu"
                   ELSE If(Msvc(m, 1301), "msvc")
        optimized == Version(m, "GNU") >= 200 /\ defined(m, {"__OPTIMIZE__"})
    IN  Join(Join(As({"STMT_END"}, If(Msvc(m, 1500), "msvc")), As({"STRFUNC"}, strfunc)),
             As({"LIKELY", "UNLIKELY"}, If(optimized, "gnu")))

TypeOf(m) ==
    As({"TYPEOF"}, If(GnucCheckVersion(m, 4, 8) \/ defined(m, {"__clang__"}) \/ XlcOrSun(m), "gnu"))

CAlignOf(m) ==
    As({"C_ALIGNOF"}, IF C11(m) THEN "c11"
                      ELSE IF defined(m, {"_MSC_VER"}) THEN "msvc"
                      ELSE If(defined(m, {"__GNUC__"}) \/ XlcOrSun(m), "gnu"))

CStaticAssert(m) ==
    LET told == Has(m, "feature", "c_static_assert") \/ Has(m, "extension", "c_static_assert") IN
    IF defined(m, {"__GI_SCANNER__"}) THEN << >>
    ELSE As({"C_STATIC_ASSERT", "C_STATIC_ASSERT_X"},
            If(defined(m, {"__STDC_VERSION__"}) /\ (C11(m) \/ told), "c11"))

(* The visibility of symbols, and of variables of a DLL.                   *)
Visibility(m) ==
    LET windows == Is(m, "MINGW") \/ Is(m, "MSVC") IN
    Join(As({"DECL_EXPORT", "DECL_IMPORT"},
            IF windows THEN "declspec" ELSE If(Version(m, "GNU") > 400 \/ Is(m, "CLANG"), "gnu")),
         As({"DECL_HIDDEN"},
            If(~windows /\ (Version(m, "GNU") > 400 \/ Is(m, "CLANG")), "gnu")))

ExternVar(m) ==
    As({"EXTERN_VAR"}, If(defined(m, {"PCTK_OS_WIN32"}) /\ defined(m, {"PCTK_SHARED"}), "declspec"))

Inline(m) ==
    LET inline == {"FORCE_INLINE", "ALWAYS_INLINE"} IN
    IF Is(m, "MSVC") THEN As(inline \cup {"NO_INLINE"}, "msvc")
    ELSE IF Is(m, "GNU") /\ HasAttribute(m, "__noinline__")
         THEN As(inline \cup {"NO_INLINE"}, "gnu")
    ELSE IF Is(m, "CLANG") THEN Join(As(inline, "gnu"), As({"NO_INLINE"}, "plain"))
    ELSE As(inline \cup {"NO_INLINE"}, "plain")

Extension(m) == As({"EXTENSION"}, If(GnucCheckVersion(m, 2, 8), "gnu"))
Aligned(m) == As({"ATTR_ALIGNED"}, If(Is(m, "GNU"), "gnu"))

(* The attributes that are there if __has_attribute says so.               *)
FunctionAttributes(m) ==
    LET attribute == [ATTR_PURE |-> "__pure__", ATTR_MALLOC |-> "__malloc__",
                      ATTR_NULL_TERMINATED |-> "__sentinel__", ATTR_ALLOC_SIZE |-> "__alloc_size__",
                      ATTR_ALLOC_SIZE2 |-> "__alloc_size__"]
    IN  [x \in {"PCTK_" \o a : a \in DOMAIN attribute} |->
            If(\E a \in DOMAIN attribute : x = "PCTK_" \o a /\ HasAttribute(m, attribute[a]), "gnu")]

FormatAttributes(m) ==
    Join(As({"ATTR_PRINTF", "ATTR_SCANF", "ATTR_STRFTIME"}, If(HasAttribute(m, "__format__"), "gnu")),
         As({"ATTR_FORMAT"}, If(HasAttribute(m, "__format_arg__"), "gnu")))

OtherAttributes(m) ==
    LET Told(name, attribute) == As({name}, If(HasAttribute(m, attribute), "gnu")) IN
    Join(Join(Told("ATTR_CONST", "__const__"), Told("ATTR_UNUSED", "__unused__")),
         Join(Told("ATTR_NO_INSTRUMENT", "__no_instrument_function__"),
              Told("ATTR_FALLTHROUGH", "fallthrough")))

TypeAttributes(m) ==
    Join(As({"ATTR_MAY_ALIAS"}, If(HasAttribute(m, "may_alias"), "gnu")),
         As({"ATTR_WARN_UNUSED_RESULT"}, If(HasAttribute(m, "warn_unused_result"), "gnu")))

(* Mutant: the test for C++11 is one for C++.                              *)
NoReturnInCxx(m) ==
    As({"ATTR_NORETURN", "ATTR_NORETURN_FUNCPTR"},
       IF HasAttribute(m, "__noreturn__") THEN "gnu"
       ELSE IF Msvc(m, 1200) THEN "msvc"
       ELSE If(Cpp98(m), "cxx11"))

NoReturn(m) ==
    LET c11 == C11(m) IN
    Join(As({"ATTR_NORETURN"}, If(c11, "c11")),
    Join(As({"ATTR_NORETURN_FUNCPTR"}, "plain"),
    IF HasAttribute(m, "__noreturn__") THEN As({"ATTR_NORETURN", "ATTR_NORETURN_FUNCPTR"}, "gnu")
    ELSE IF Msvc(m, 1200) THEN As({"ATTR_NORETURN", "ATTR_NORETURN_FUNCPTR"}, "msvc")
    ELSE IF value(m, "__cplusplus") >= 201103
         THEN As({"ATTR_NORETURN", "ATTR_NORETURN_FUNCPTR"}, "cxx11")
    ELSE << >>))

Deprecated(m) ==
    As({"ATTR_DEPRECATED", "ATTR_DEPRECATED_X"},
       IF \/ GnucCheckVersion(m, 3, 1) \/ defined(m, {"__clang__"})
          \/ HasAttribute(m, "__deprecated__") THEN "gnu"
       ELSE IF Msvc(m, 1300) THEN "msvc"
       ELSE If(Version(m, "INTEL") >= 1300 /\ ~defined(m, {"__APPLE__"}), "gnu"))

(* _Pragma, or __pragma, which Intel's compiler for Windows is left without*)
Pragma(m) ==
    IF Is(m, "INTEL") /\ Is(m, "MSVC") THEN << >>
    ELSE As({"PRAGMA"}, IF defined(m, {"_MSC_VER"}) THEN "msvc" ELSE "c99")

(* Warnings are turned off with PCTK_PRAGMA.                               *)
Warnings(m) ==
    LET pragma == IF Pragma(m) = << >> THEN "undefined" ELSE Pragma(m)["PCTK_PRAGMA"]
        known == Is(m, "INTEL") \/ Is(m, "MSVC") \/ Is(m, "CLANG") \/ Version(m, "GNU") >= 406
        floats == known /\ (Is(m, "INTEL") \/ ~Is(m, "MSVC"))
    IN  Join(As({"WARNING_PUSH", "WARNING_POP", "WARNING_DISABLE_DEPRECATED",
                 "IGNORE_DEPRECATIONS"}, If(known, pragma)),
        Join(As({"WARNING_DISABLE_FLOAT_COMPARE"}, If(floats, pragma)),
             IF ~known THEN << >>
             ELSE As({"WARNING_DISABLE_INVALID_OFFSETOF"},
                     If(~Is(m, "INTEL") /\ ~Is(m, "MSVC"), pragma))))

DeprecatedFor(m) ==
    As({"ATTR_DEPRECATED_FOR"},
       IF GnucCheckVersion(m, 4, 5) \/ defined(m, {"__clang__"}) THEN "gnu"
       ELSE Deprecated(m)["PCTK_ATTR_DEPRECATED"])

IgnoreDeprecations(m) ==
    As({"BEGIN_IGNORE_DEPRECATIONS", "END_IGNORE_DEPRECATIONS"},
       IF defined(m, {"__ICC"}) \/ GnucCheckVersion(m, 4, 6) THEN "c99"
       ELSE IF Msvc(m, 1500) /\ ~defined(m, {"__clang__"}) THEN "msvc"
       ELSE If(defined(m, {"__clang__"}), "c99"))

Analyzer(m) ==
    As({"ANALYZER_NORETURN"},
       If(\/ Has(m, "feature", "attribute_analyzer_noreturn") /\ defined(m, {"__clang_analyzer__"})
          \/ defined(m, {"__COVERITY__"}), "gnu"))

Constructors(m) ==
    IF GnucCheckVersion(m, 2, 7) THEN As({"DECL_CONSTRUCTOR", "DECL_DESTRUCTOR"}, "gnu")
    ELSE IF defined(m, {"_MSC_VER"}) THEN As({"DECL_CONSTRUCTOR", "DECL_DESTRUCTOR"}, "msvc")
    ELSE IF defined(m, {"__SUNPRO_C"}) THEN As({"DECL_CONSTRUCTOR", "DECL_DESTRUCTOR"}, "c99")
    ELSE << >>

Spellings(m) ==
    LET J(f, g) == Join(f, g) IN
    J(J(J(J(Keywords(m), AlignOf(m)), J(StaticAssert(m), Statements(m))),
        J(J(TypeOf(m), CAlignOf(m)), J(CStaticAssert(m), Visibility(m)))),
      J(J(J(J(ExternVar(m), Inline(m)), J(Extension(m), Aligned(m))),
          J(J(FunctionAttributes(m), FormatAttributes(m)), J(OtherAttributes(m), TypeAttributes(m)))),
        J(J(J(NoReturn(m), Deprecated(m)), J(Pragma(m), Warnings(m))),
          J(J(DeprecatedFor(m), IgnoreDeprecations(m)), J(Analyzer(m), Constructors(m))))))

(* In C the header's namespace and templates are no code.                  *)
MacroTests(m) ==
    IF ~Cpp98(m) THEN Define(m, {Error})
    ELSE DefineAs(DefineAs(m, Platform(m)), Spellings(m))

(* Mutant: the compiler's header is left to the includer.                  *)
MacrosLinesOfSystem(m) == MacroTests(pctkSystem(m))

MacrosLines(m) == MacroTests(pctkCompiler(m))

pctkMacros(m) == Header("_PCTKMACROS_H_", m, MacrosLines)
=============================================================================
