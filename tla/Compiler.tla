------------------------------ MODULE Compiler ------------------------------
(***************************************************************************)
(* pctkCompiler.h: which compiler it is, which standards it follows, and   *)
(* a macro PCTK_CC_FEATURE_x for every feature, 1 where it has the feature *)
(* and 0 where it has not.                                                 *)
(***************************************************************************)
EXTENDS System

Feature(name) == "PCTK_CC_FEATURE_" \o name
Version(m, name) == value(m, "PCTK_CC_" \o name)
Is(m, name) == defined(m, {"PCTK_CC_" \o name})

(* Clang's version from the build number Apple gives it.                   *)
AppleClang ==
    {<<8020041, 309>>, <<8000038, 308>>, <<7000053, 306>>, <<6000051, 305>>, <<5030038, 304>>,
     <<5000275, 303>>, <<4250024, 302>>, <<3180045, 301>>, <<2111001, 300>>}

ClangVersion(m) ==
    IF ~defined(m, {"__apple_build_version__"})
    THEN [x \in {"PCTK_CC_CLANG"} |-> 100 * value(m, "__clang_major__") + value(m, "__clang_minor__")]
    ELSE LET reached == {row[2] : row \in {r \in AppleClang : m["__apple_build_version__"] >= r[1]}} IN
         IF reached = {} THEN [x \in {Error} |-> 1]
         ELSE [x \in {"PCTK_CC_CLANG"} |-> CHOOSE v \in reached : \A w \in reached : v >= w]

Borland(m) ==
    {"PCTK_CC_BOR"} \cup IF value(m, "__BORLANDC__") < 1282 THEN {Error} ELSE {}

Compilers(m) ==
    LET Named(macro, name, number) ==
            IF defined(m, {macro}) THEN [x \in {"PCTK_CC_" \o name} |-> number] ELSE << >>
        plain == Given({<<defined(m, {"__MINGW32__"}), {"PCTK_CC_MINGW"}>>,
                        <<defined(m, {"_MSC_VER"}), {"PCTK_CC_MSVC_NET"}>>,
                        <<defined(m, {"__BORLANDC__", "__TURBOC__"}), Borland(m)>>,
                        <<defined(m, {"__EMSCRIPTEN__"}), {"PCTK_CC_EMSCRIPTEN"}>>})
        gnu == Named("__GNUC__", "GNU", 100 * value(m, "__GNUC__") + value(m, "__GNUC_MINOR__"))
        msvc == Named("_MSC_VER", "MSVC", value(m, "_MSC_VER"))
        intel == Named("__INTEL_COMPILER", "INTEL", value(m, "__INTEL_COMPILER"))
        clang == IF defined(m, {"__clang__"}) THEN ClangVersion(m) ELSE << >>
    IN  Define(DefineAs(DefineAs(DefineAs(DefineAs(m, gnu), msvc), clang), intel), plain)

(* The standards of C and C++ that are followed.                           *)
StdcxxVersion(m) ==
    IF defined(m, {"_MSVC_LANG"}) /\ ~defined(m, {"__clang__"})
    THEN IF value(m, "_MSC_VER") = 1900 THEN 201103 ELSE m["_MSVC_LANG"]
    ELSE value(m, "__cplusplus")

Flag(condition) == IF condition THEN 1 ELSE 0

Standards(m) ==
    LET c(year) == IF year = 1990 THEN 1
                   ELSE Flag(value(m, "__STDC_VERSION__") >= IF year = 1999 THEN 199901 ELSE 201112)
        cxx(version) == Flag(StdcxxVersion(m) >= version)
    IN  [PCTK_CC_STDC_90 |-> c(1990), PCTK_CC_STDC_99 |-> c(1999), PCTK_CC_STDC_11 |-> c(2011),
         PCTK_CC_STDCXX_VERSION |-> StdcxxVersion(m),
         PCTK_CC_STDCXX_98 |-> cxx(199711), PCTK_CC_STDCXX_11 |-> cxx(201103),
         PCTK_CC_STDCXX_14 |-> cxx(201402), PCTK_CC_STDCXX_17 |-> cxx(201703),
         PCTK_CC_STDCXX_20 |-> cxx(202000)]

-----------------------------------------------------------------------------
(* The features of each compiler, by the version that brought them.        *)
NotStrict(m) ==
    \/ ~defined(m, {"__STRICT_ANSI__"}) \/ defined(m, {"__GXX_EXPERIMENTAL_CXX0X__"})
    \/ value(m, "__cplusplus") >= 201103 \/ value(m, "__STDC_VERSION__") >= 199901

Cxx11(m) == defined(m, {"__GXX_EXPERIMENTAL_CXX0X__"}) \/ value(m, "__cplusplus") >= 201103

HasThreads(m) == defined(m, {"<threads.h>"})

(* What the versions up to this one brought.                               *)
Since(table, version) == UNION {row[2] : row \in {r \in table : version >= r[1]}}

GnuCxx11 ==
    {<<403, {"DECLTYPE", "RVALUE_REFS", "STATIC_ASSERT"}>>,
     <<404, {"AUTO_FUNCTION", "AUTO_TYPE", "EXTERN_TEMPLATES", "UNIFORM_INIT", "UNICODE_STRINGS",
             "VARIADIC_TEMPLATES"}>>,
     <<405, {"EXPLICIT_CONVERSIONS", "INITIALIZER_LISTS", "LAMBDA", "RAW_STRINGS", "CLASS_ENUM"}>>,
     <<406, {"DEFAULT_MEMBERS", "DELETE_MEMBERS", "NULLPTR", "UNRESTRICTED_UNIONS", "RANGE_FOR"}>>,
     <<407, {"ATOMICS", "NOEXCEPT", "NONSTATIC_MEMBER_INIT", "DELEGATING_CONSTRUCTORS",
             "EXPLICIT_OVERRIDES", "TEMPLATE_ALIAS", "UDL"}>>,
     <<408, {"ATTRIBUTES", "ALIGNAS", "ALIGNOF", "INHERITING_CONSTRUCTORS", "THREAD_LOCAL"}>>,
     <<409, {"REF_QUALIFIERS"}>>, <<500, {"CONSTEXPR"}>>}

GnuFeatures(m) ==
    LET version == Version(m, "GNU")
        c11 == value(m, "__STDC_VERSION__") > 199901
        patched == version >= 408 /\ value(m, "__GNUC_PATCHLEVEL__") >= 1
    IN  {"RESTRICTED_VLA", "THREADSAFE_STATICS"} \cup
        Since({<<403, {"BINARY_LITERALS"}>>}, version) \cup
        Given({<<NotStrict(m), {"VARIADIC_MACROS"}>>,
               <<value(m, "__cplusplus") > 201103 /\ version >= 409,
                 {"LAMBDA_CAPTURES", "RETURN_TYPE_DEDUCTION"}>>,
               <<c11 /\ version >= 407, {"STATIC_ASSERT"}>>,
               <<c11 /\ version >= 409 /\ HasThreads(m), {"THREAD_LOCAL"}>>}) \cup
        IF ~Cxx11(m) THEN {}
        ELSE Since(GnuCxx11, version) \cup Given({<<patched, {"REF_QUALIFIERS"}>>})

(* Mutant: the first feature test of VC10 is for that version only.        *)
MsvcFeaturesExactly(m) ==
    LET since(v) == Version(m, "MSVC") >= v IN
    Given({<<since(1400), {"VARIADIC_MACROS"}>>,
           <<Version(m, "MSVC") = 1600, {"AUTO_FUNCTION", "AUTO_TYPE", "DECLTYPE"}>>})

MsvcBrought ==
    {<<1400, {"VARIADIC_MACROS"}>>,
     <<1600, {"AUTO_FUNCTION", "AUTO_TYPE", "DECLTYPE", "EXTERN_TEMPLATES", "LAMBDA", "NULLPTR",
              "RVALUE_REFS", "STATIC_ASSERT"}>>,
     <<1700, {"EXPLICIT_OVERRIDES", "CLASS_ENUM", "ATOMICS"}>>,
     <<1800, {"DELETE_MEMBERS", "DELEGATING_CONSTRUCTORS", "EXPLICIT_CONVERSIONS",
              "NONSTATIC_MEMBER_INIT", "RAW_STRINGS", "TEMPLATE_ALIAS", "VARIADIC_TEMPLATES",
              "INITIALIZER_LISTS"}>>,
     <<1900, {"DEFAULT_MEMBERS", "ALIGNAS", "ALIGNOF", "INHERITING_CONSTRUCTORS", "NOEXCEPT",
              "RANGE_FOR", "REF_QUALIFIERS", "THREAD_LOCAL", "UDL", "UNICODE_STRINGS",
              "UNRESTRICTED_UNIONS"}>>,
     <<1910, {"CONSTEXPR"}>>}

MsvcFeatures(m) ==
    Since(MsvcBrought, Version(m, "MSVC"))
    \cup Since({<<190023419, {"ATTRIBUTES", "THREADSAFE_STATICS", "UNIFORM_INIT"}>>},
               value(m, "_MSC_FULL_VER"))
    \cup IF Version(m, "MSVC") < 1600 THEN {"NO_TEMPLATE_FRIENDS"} ELSE {}

(* What __has_feature() tells: the name clang gives it, and the features.  *)
Cxx11Names ==
    {<<"alignas", {"ALIGNAS", "ALIGNOF"}>>, <<"attributes", {"ATTRIBUTES"}>>,
     <<"auto_type", {"AUTO_FUNCTION", "AUTO_TYPE"}>>, <<"strong_enums", {"CLASS_ENUM"}>>,
     <<"decltype", {"DECLTYPE"}>>, <<"defaulted_functions", {"DEFAULT_MEMBERS"}>>,
     <<"deleted_functions", {"DELETE_MEMBERS"}>>,
     <<"delegating_constructors", {"DELEGATING_CONSTRUCTORS"}>>,
     <<"explicit_conversions", {"EXPLICIT_CONVERSIONS"}>>,
     <<"override_control", {"EXPLICIT_OVERRIDES"}>>,
     <<"inheriting_constructors", {"INHERITING_CONSTRUCTORS"}>>,
     <<"generalized_initializers", {"INITIALIZER_LISTS", "UNIFORM_INIT"}>>,
     <<"lambdas", {"LAMBDA"}>>, <<"noexcept", {"NOEXCEPT"}>>,
     <<"nonstatic_member_init", {"NONSTATIC_MEMBER_INIT"}>>, <<"nullptr", {"NULLPTR"}>>,
     <<"range_for", {"RANGE_FOR"}>>, <<"raw_string_literals", {"RAW_STRINGS"}>>,
     <<"reference_qualified_functions", {"REF_QUALIFIERS"}>>,
     <<"rvalue_references", {"RVALUE_REFS"}>>, <<"static_assert", {"STATIC_ASSERT"}>>,
     <<"alias_templates", {"TEMPLATE_ALIAS"}>>, <<"user_literals", {"UDL"}>>,
     <<"unicode_literals", {"UNICODE_STRINGS"}>>,
     <<"unrestricted_unions", {"UNRESTRICTED_UNIONS"}>>,
     <<"variadic_templates", {"VARIADIC_TEMPLATES"}>>}

Cxx14Names ==
    {<<"binary_literals", {"BINARY_LITERALS"}>>, <<"generic_lambda", {"GENERIC_LAMBDA"}>>,
     <<"init_capture", {"LAMBDA_CAPTURES"}>>,
     <<"relaxed_constexpr", {"RELAXED_CONSTEXPR_FUNCTIONS"}>>,
     <<"variable_templates", {"VARIABLE_TEMPLATES"}>>, <<"runtime_array", {"VLA"}>>}

ClangFeatures(m) ==
    LET has(name) == defined(m, {"cxx_" \o name})
        Told(names) == UNION {pair[2] : pair \in {p \in names : has(p[1])}}
        since209 == Version(m, "CLANG") >= 209
        freebsd == defined(m, {"__FreeBSD__"})
        cxx11 == Told(Cxx11Names) \cup
            Given({<<has("atomic") /\ defined(m, {"<atomic>"}), {"ATOMICS"}>>,
                   <<has("constexpr") /\ Version(m, "CLANG") > 302, {"CONSTEXPR"}>>,
                   <<has("thread_local") /\ ~freebsd, {"THREAD_LOCAL"}>>,
                   <<since209, {"EXTERN_TEMPLATES"}>>})
        cxx14 == Told(Cxx14Names) \cup
            Given({<<has("decltype_auto") /\ has("return_type_deduction"),
                     {"RETURN_TYPE_DEDUCTION"}>>})
        c == Given({<<defined(m, {"c_static_assert"}), {"STATIC_ASSERT"}>>,
                    <<defined(m, {"c_thread_local"}) /\ HasThreads(m) /\ ~freebsd,
                      {"THREAD_LOCAL"}>>})
    IN  {"RESTRICTED_VLA", "THREADSAFE_STATICS"} \cup
        Given({<<has("binary_literals"), {"BINARY_LITERALS"}>>,
               <<since209 /\ NotStrict(m), {"VARIADIC_MACROS"}>>,
               <<Cxx11(m), cxx11>>,
               <<value(m, "__cplusplus") > 201103, cxx14>>,
               <<defined(m, {"__STDC_VERSION__"}), c>>})

IntelCxx11 ==
    {<<1200, {"AUTO_TYPE", "CLASS_ENUM", "DECLTYPE", "DEFAULT_MEMBERS", "DELETE_MEMBERS",
              "EXTERN_TEMPLATES", "LAMBDA", "RVALUE_REFS", "STATIC_ASSERT"}>>,
     <<1210, {"ATTRIBUTES", "AUTO_FUNCTION", "NULLPTR", "TEMPLATE_ALIAS", "VARIADIC_TEMPLATES"}>>,
     <<1300, {"ATOMICS", "INITIALIZER_LISTS", "UNIFORM_INIT", "NOEXCEPT"}>>,
     <<1400, {"DELEGATING_CONSTRUCTORS", "EXPLICIT_CONVERSIONS", "EXPLICIT_OVERRIDES",
              "NONSTATIC_MEMBER_INIT", "RANGE_FOR", "RAW_STRINGS", "REF_QUALIFIERS",
              "UNICODE_STRINGS", "UNRESTRICTED_UNIONS"}>>,
     <<1500, {"ALIGNAS", "ALIGNOF", "INHERITING_CONSTRUCTORS", "THREAD_LOCAL", "UDL"}>>}

IntelFeatures(m) ==
    LET version == Version(m, "INTEL")
        cxx11 == value(m, "__cplusplus") >= 201103 \/ defined(m, {"__INTEL_CXX11_MODE__"})
        c11 == ~cxx11 /\ value(m, "__STDC_VERSION__") > 199901
        update == 100 * version + value(m, "__INTEL_COMPILER_UPDATE")
    IN  {"RESTRICTED_VLA", "VARIADIC_MACROS", "THREADSAFE_STATICS"} \cup
        Given({<<version < 1200, {"NO_TEMPLATE_FRIENDS"}>>,
               <<version >= 1310 /\ ~defined(m, {"_WIN32"}), {"BINARY_LITERALS"}>>,
               <<c11, {"STATIC_ASSERT"}>>, <<c11 /\ HasThreads(m), {"THREAD_LOCAL"}>>}) \cup
        IF ~cxx11 THEN {}
        ELSE Since(IntelCxx11, version) \cup
             Given({<<version >= 1210 /\ ~defined(m, {"_CHAR16T"}), {"UNICODE_STRINGS"}>>,
                    <<version >= 1500 /\ update >= 150001, {"CONSTEXPR"}>>})

(* Mutant: only the features that are also keywords get a default.         *)
DefaultedKeywords ==
    {"ALIGNAS", "ALIGNOF", "AUTO_TYPE", "CONSTEXPR", "DECLTYPE", "NOEXCEPT", "NULLPTR", "STATIC_ASSERT"}

(* The features that are 0 where nothing above made them 1.                *)
Defaulted ==
    {"RESTRICTED_VLA", "THREADSAFE_STATICS", "NO_TEMPLATE_FRIENDS", "BINARY_LITERALS", "AUTO_TYPE",
     "DECLTYPE", "ALIGNAS", "ALIGNOF", "ATOMICS", "ATTRIBUTES", "AUTO_FUNCTION", "CLASS_ENUM",
     "DEFAULT_MEMBERS", "DELETE_MEMBERS", "DELEGATING_CONSTRUCTORS", "EXPLICIT_CONVERSIONS",
     "EXPLICIT_OVERRIDES", "EXTERN_TEMPLATES", "INHERITING_CONSTRUCTORS", "INITIALIZER_LISTS",
     "LAMBDA", "NONSTATIC_MEMBER_INIT", "NOEXCEPT", "NULLPTR", "CONSTEXPR", "RANGE_FOR",
     "RAW_STRINGS", "REF_QUALIFIERS", "RVALUE_REFS", "STATIC_ASSERT", "TEMPLATE_ALIAS",
     "THREAD_LOCAL", "UDL", "UNICODE_STRINGS", "UNIFORM_INIT", "UNRESTRICTED_UNIONS",
     "VARIADIC_MACROS", "VARIADIC_TEMPLATES"}

(* The name 1 is given to has two underscores that the name of 0 has not.  *)
DefaultDelete(features) ==
    IF {"DEFAULT_MEMBERS", "DELETE_MEMBERS"} \subseteq features
    THEN [x \in {Feature("_DEFAULT_DELETE_MEMBERS")} |-> 1]
    ELSE [x \in {Feature("DEFAULT_DELETE_MEMBERS")} |-> 0]

Features(m) ==
    LET gnu == Is(m, "GNU") /\ ~Is(m, "INTEL") /\ ~Is(m, "CLANG")
        clang == Is(m, "CLANG") /\ ~Is(m, "INTEL") /\ ~Is(m, "MSVC")
        intel == Is(m, "INTEL") /\ ~Is(m, "MSVC")
    IN  Given({<<gnu, GnuFeatures(m)>>, <<Is(m, "MSVC"), MsvcFeatures(m)>>,
               <<clang, ClangFeatures(m)>>, <<intel, IntelFeatures(m)>>})

FeatureTests(m, features) ==
    DefineMissing(DefineAs(Define(m, {Feature(f) : f \in features}), DefaultDelete(features)),
                  [x \in {Feature(f) : f \in Defaulted} |-> 0])

CompilerTests(m) == FeatureTests(m, Features(m))
StandardTests(m) == CompilerTests(DefineAs(m, Standards(m)))
CompilerLines(m) == StandardTests(Compilers(pctkSystem(m)))

pctkCompiler(m) == Header("_PCTKCOMPILER_H", m, CompilerLines)
=============================================================================
