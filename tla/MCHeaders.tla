------------------------------ MODULE MCHeaders ------------------------------
(***************************************************************************)
(* Targets as their compilers describe them: what they predefine, and the  *)
(* types of their systems.                                                 *)
(***************************************************************************)
EXTENDS MacroNames

All(names) == [x \in names |-> 1]
With(f, g) == DefineAs(f, g)

(* Types: the sizes of long and of a pointer, and those of the names.      *)
Data(long, pointer, int64, size, ptrdiff, others) ==
    [size |-> [short |-> 2, int |-> 4, long |-> long, pointer |-> pointer] @@ ("long long" :> 8),
     name |-> [int8_t |-> "char", int16_t |-> "short", int32_t |-> "int", int64_t |-> int64,
               size_t |-> size, ptrdiff_t |-> ptrdiff] @@ others]

Ushort == [ushort |-> "short", uint |-> "int"]
Glibc == Ushort @@ [ulong |-> "long", ssize_t |-> "long"]
LP64 == Data(8, 8, "long", "long", "long", Glibc)
ILP32 == Data(4, 4, "long long", "int", "int", [Glibc EXCEPT !.ssize_t = "int"])
S390 == Data(4, 4, "long long", "long", "int", Glibc)
Wasm32 == Data(4, 4, "long long", "long", "long", Glibc)
Mac64 == Data(8, 8, "long long", "long", "long", Ushort @@ [ssize_t |-> "long"])
Watch == Data(4, 4, "long long", "long", "int", Ushort @@ [ssize_t |-> "long"])
Win64Types == Data(4, 8, "long long", "long long", "long long", << >>)
Win32Types == Data(4, 4, "long long", "int", "int", << >>)
MinGW == Data(4, 8, "long long", "long long", "long long", [ssize_t |-> "long long"])
(* Visual C++ 2008 has no stdint.h.                                        *)
Win32Old == [Win32Types EXCEPT !.name = [size_t |-> "int", ptrdiff_t |-> "int"]]

Char16(cxx) == IF cxx >= 201103 THEN {"char16_t", "char32_t"} ELSE {}
Since11(cxx) == IF cxx >= 201103 THEN {"cxx11"} ELSE {}

(* Processors.                                                             *)
X64 == All({"__x86_64__", "__amd64", "__SSE__"})
I386 == All({"__i386__", "__i686__"})
Arm64 == With(All({"__aarch64__", "__CHAR_UNSIGNED__"}), [__ARM_ARCH |-> 8])
AppleArm64 == With(All({"__aarch64__", "__ARM64_ARCH_8__"}), [__ARM_ARCH |-> 8])
Arm7 == With(All({"__arm__", "__ARMEL__", "__CHAR_UNSIGNED__", "__thumb__"}), [__ARM_ARCH |-> 7])
MipsBig == All({"__mips__", "__MIPSEB__", "_MIPS_ARCH_MIPS32"}) @@ [__mips |-> 32]
Ppc64 == All({"__powerpc64__", "__powerpc__", "__CHAR_UNSIGNED__", "__LITTLE_ENDIAN__"})
RiscV == With(All({"__riscv", "__CHAR_UNSIGNED__"}), [__riscv_xlen |-> 64])
S390x == All({"__s390__", "__s390x__", "__CHAR_UNSIGNED__"})
Sparc64 == All({"__sparc__", "__sparc64__"})
Sh4 == All({"__sh__", "__sh4a__"})

(* GNU C++: version 405 is 4.5.                                            *)
Attributes == {"__pure__", "__malloc__", "__sentinel__", "__alloc_size__", "__format__",
               "__format_arg__", "__const__", "__unused__", "__no_instrument_function__",
               "may_alias", "warn_unused_result", "__noinline__", "__noreturn__", "__deprecated__"}

GnuSince(version) ==
    (IF version >= 403 THEN [__SIZEOF_POINTER__ |-> 8] ELSE << >>)
    @@ (IF version >= 406 THEN [__BYTE_ORDER__ |-> 1234, __ORDER_LITTLE_ENDIAN__ |-> 1234,
                                __ORDER_BIG_ENDIAN__ |-> 4321] ELSE << >>)
    @@ (IF version >= 500 THEN All({"__has_attribute", "__has_include", "<atomic>"} \cup Attributes)
        ELSE << >>)
    @@ (IF version >= 700 THEN All({"fallthrough"}) ELSE << >>)
    @@ (IF version >= 1000 THEN All({"__has_builtin", "__builtin_add_overflow"}) ELSE << >>)

Gnu(version, cxx, system, processor, data) ==
    [macros |-> [__GNUC__ |-> version \div 100, __GNUC_MINOR__ |-> version % 100, __cplusplus |-> cxx]
                @@ processor @@ system
                @@ (IF data.size["long"] = 8 THEN All({"__LP64__", "_LP64", "__OPTIMIZE__"}) ELSE << >>)
                @@ (IF version >= 403 THEN [__SIZEOF_POINTER__ |-> data.size["pointer"]] ELSE << >>)
                @@ GnuSince(version),
     data |-> data,
     understood |-> {"gnu", "c99"} \cup Since11(cxx),
     types |-> IF version >= 404 THEN Char16(cxx) ELSE {}]

Declspec(t) == [t EXCEPT !.understood = @ \cup {"declspec"}]

(* Clang, of major and minor version or of Apple's build.                  *)
CxxFeatures(cxx) ==
    IF cxx < 201103 THEN {}
    ELSE {"cxx_" \o pair[1] : pair \in Cxx11Names}
         \cup {"cxx_atomic", "cxx_constexpr", "cxx_thread_local", "<atomic>"}
         \cup (IF cxx < 201402 THEN {"cxx_binary_literals"}
               ELSE {"cxx_" \o pair[1] : pair \in Cxx14Names \ {<<"runtime_array", {"VLA"}>>}}
                    \cup {"cxx_decltype_auto", "cxx_return_type_deduction"})

ClangMacros(cxx, numbers) ==
    numbers @@ All({"__clang__", "__has_attribute", "__has_feature", "__has_extension", "__has_builtin",
                    "__builtin_add_overflow", "is_enum", "fallthrough", "c_static_assert",
                    "__has_include"} \cup Attributes \cup CxxFeatures(cxx))

Clang(numbers, cxx, system, processor, data) ==
    LET gnu == Gnu(402, cxx, system, processor, data)
        order == [__BYTE_ORDER__ |-> 1234, __ORDER_LITTLE_ENDIAN__ |-> 1234,
                  __ORDER_BIG_ENDIAN__ |-> 4321, __SIZEOF_POINTER__ |-> data.size["pointer"]]
    IN  [gnu EXCEPT !.macros = ClangMacros(cxx, numbers) @@ order @@ @, !.types = Char16(cxx)]

Llvm(major, minor) == [__clang_major__ |-> major, __clang_minor__ |-> minor]
Apple(build) == [__apple_build_version__ |-> build, __clang_major__ |-> 9, __clang_minor__ |-> 0]

(* Visual C++.                                                             *)
Vc(version, full, lang, processor, data) ==
    [macros |-> [_MSC_VER |-> version, _MSC_FULL_VER |-> full, _WIN32 |-> 1, __cplusplus |-> 199711]
                @@ (IF lang = 0 THEN << >> ELSE [_MSVC_LANG |-> lang]) @@ processor,
     data |-> data,
     understood |-> {"msvc", "declspec"} \cup (IF version >= 1600 THEN {"cxx11"} ELSE {}),
     types |-> IF version >= 1900 THEN {"char16_t", "char32_t"} ELSE {}]

ClangCl(cxx) ==
    LET msvc == Vc(1920, 192027508, cxx, All({"_WIN64", "_M_X64"}), Win64Types) IN
    [msvc EXCEPT !.macros = [__cplusplus |-> cxx, __SIZEOF_POINTER__ |-> 8] @@ ClangMacros(cxx, Llvm(10, 0)) @@ @,
                 !.understood = @ \cup {"gnu", "c99"}]

(* The systems' macros.                                                    *)
Linux == All({"__linux__", "__gnu_linux__"})
Shared == All({"PCTK_SHARED", "PCTK_BUILD_CORE_LIB"})
Darwin == All({"__APPLE__", "__MACH__", "TARGET_OS_MAC"})
MacOS == Darwin @@ [__MAC_OS_X_VERSION_MIN_REQUIRED |-> 1050]
Phone == Darwin @@ All({"TARGET_OS_IPHONE"})
WatchOS == Phone @@ All({"TARGET_OS_WATCH"})
TVOS == Phone @@ All({"TARGET_OS_TV"})
BigEndianOrder == [__BYTE_ORDER__ |-> 4321]

Gcc33 == Gnu(303, 1, Linux, I386, ILP32)
Gcc45 == Gnu(405, 1, Linux, X64, LP64)
Gcc45Cxx0x ==
    [Gnu(405, 1, Linux @@ All({"__GXX_EXPERIMENTAL_CXX0X__"}), X64, LP64)
        EXCEPT !.understood = @ \cup {"cxx11"}, !.types = {"char16_t", "char32_t"}]
Gcc48 == Gnu(408, 201103, Linux, I386, ILP32)
Gcc49 == Gnu(409, 201103, Linux @@ All({"__STRICT_ANSI__"}), I386, ILP32)
Gcc9 == Gnu(903, 201402, Linux @@ Shared, I386, ILP32)
Gcc12 == Gnu(1202, 201703, Linux, X64, LP64)
Gcc4Strict == Gnu(408, 199711, Linux @@ All({"__STRICT_ANSI__"}), X64, LP64)
Vc9 == Vc(1500, 150030729, 0, All({"_M_X64", "_WIN64"}), Win64Types)
Vc9x86 == Vc(1500, 150030729, 0, [_M_IX86 |-> 600], Win32Old)
Vc10 == Vc(1600, 160040219, 0, [_M_IX86 |-> 600], Win32Types)
Vc11 == Vc(1700, 170050727, 0, [_M_IX86 |-> 600], Win32Types)
Vc12 == Vc(1800, 180021005, 0, [_M_IX86 |-> 600], Win32Types)
Vc14 == Vc(1900, 190023026, 0, [_M_IX86 |-> 600], Win32Types)
Vc15 == Vc(1910, 191025017, 201402, [_M_IX86 |-> 600], Win32Types)
Clang3 == Clang(Llvm(3, 4), 201103, Linux, X64, LP64)
Clang10 == Clang(Llvm(10, 0), 201402, Linux, X64, LP64)

(* C, a system that is none of those known, and other compilers.           *)
C2011 == [Gcc9 EXCEPT !.macros = undef(@, {"__cplusplus"}) @@ [__STDC_VERSION__ |-> 201112] @@ All({"<threads.h>"})]
BareMetal == Gnu(903, 201402, << >>, Arm7, ILP32)
Intel == [Gcc49 EXCEPT !.macros = [__INTEL_COMPILER |-> 1700, __INTEL_COMPILER_UPDATE |-> 4, __ICC |-> 1700] @@ @]
SunPro == [macros |-> [__SUNPRO_CC |-> 20784, __cplusplus |-> 199711, __sun |-> 1, __sparc |-> 1],
           data |-> ILP32, understood |-> {"gnu", "c99"}, types |-> {}]
Xlc == [macros |-> [__xlC__ |-> 3329, __cplusplus |-> 199711, _AIX |-> 1, _ARCH_PPC |-> 1, __64BIT__ |-> 1,
                    __BIG_ENDIAN__ |-> 1, __LP64__ |-> 1],
        data |-> LP64, understood |-> {"gnu", "c99"}, types |-> {}]

MCTargets == {
    C2011, BareMetal, Intel, SunPro, Xlc,
    Gcc33, Gcc45, Gcc45Cxx0x, Gcc48, Gcc49, Gcc9, Gcc12, Gcc4Strict, Vc9, Vc9x86, Vc10, Vc11, Vc12,
    Vc14, Vc15, Clang3, Clang10,
    Gnu(903, 201402, Linux, X64, Data(4, 4, "long long", "int", "int", Glibc)),
    Gnu(903, 201402, Linux, Arm64, LP64), Gnu(903, 201402, Linux, Arm7, ILP32),
    Gnu(903, 201402, Linux, BigEndianOrder @@ MipsBig, ILP32), Gnu(903, 201402, Linux, Ppc64, LP64),
    Gnu(903, 201402, Linux, RiscV, LP64), Gnu(903, 201402, Linux, BigEndianOrder @@ S390x, LP64),
    Gnu(903, 201402, Linux, BigEndianOrder @@ All({"__s390__", "__CHAR_UNSIGNED__"}), S390),
    Gnu(903, 201402, Linux, BigEndianOrder @@ Sparc64, LP64), Gnu(903, 201103, Linux, Sh4, ILP32),
    Gnu(903, 201402, All({"__QNXNTO__"}), I386, ILP32), Gnu(500, 201103, All({"__HAIKU__"}), I386, ILP32),
    Declspec(Gnu(903, 201402, Shared @@ All({"__MINGW32__", "_WIN32", "_WIN64"}), X64, MinGW)),
    Declspec(Gnu(903, 201402, All({"__CYGWIN__"}), X64, LP64)),
    Clang(Llvm(10, 0), 201402, All({"__FreeBSD__"}), X64, LP64),
    Clang(Llvm(10, 0), 201402, Linux @@ All({"__ANDROID__"}), Arm64, LP64),
    Clang(Llvm(10, 0), 201402, All({"__EMSCRIPTEN__"}), << >>, Wasm32),
    Clang(Apple(8020041), 201402, MacOS, X64, Mac64), Clang(Apple(6000051), 199711, MacOS, X64, Mac64),
    Clang(Apple(8020041), 201402, Phone, AppleArm64, Mac64),
    Clang(Apple(8020041), 201402, WatchOS, AppleArm64, Watch),
    Clang(Apple(8020041), 201402, TVOS, AppleArm64, Mac64),
    Vc(1920, 192027508, 201402, All({"_M_X64", "_WIN64"}), Win64Types),
    Vc(1920, 192027508, 201402, All({"_M_ARM64", "_WIN64"}), Win64Types), ClangCl(201402),
    Vc(1920, 192027508, 201402, [_M_X64 |-> 100, _WIN64 |-> 1, WINAPI_FAMILY |-> 2,
                                   WINAPI_FAMILY_PC_APP |-> 2, WINAPI_FAMILY_DESKTOP_APP |-> 100], Win64Types)}

MCUpgrades ==
    {<<Gcc45, Gcc45Cxx0x>>, <<Gcc48, Gcc49>>, <<Gcc49, Gcc9>>, <<Gcc45, Gcc12>>, <<Gcc45Cxx0x, Gcc12>>,
     <<Gcc4Strict, Gcc12>>, <<Vc9x86, Vc10>>, <<Vc10, Vc11>>, <<Vc11, Vc12>>, <<Vc12, Vc14>>,
     <<Vc14, Vc15>>, <<Clang3, Clang10>>}
=============================================================================
