------------------------------ MODULE System ------------------------------
(***************************************************************************)
(* pctkSystem.h: which operating system the compiler builds for.           *)
(***************************************************************************)
EXTENDS Cpp, TLC

(* Mac and iOS.  The conditions of the #if are those of a compiler of gcc's*)
(* or IBM's family; TargetConditionals.h sets the macros TARGET_OS_x.      *)
AppleSystem(m) ==
    LET is(name) == value(m, name) # 0 IN
    {"PCTK_OS_APPLE"} \cup
    IF ~is("TARGET_OS_MAC") THEN {Error} ELSE
    {"PCTK_OS_DARWIN", "PCTK_OS_BSD4",
     IF defined(m, {"__LP64__"}) THEN "PCTK_OS_DARWIN64" ELSE "PCTK_OS_DARWIN32"}
    \cup IF ~is("TARGET_OS_IPHONE") THEN {"PCTK_OS_MACOS"}
         ELSE IF is("TARGET_OS_WATCH") THEN {"PCTK_PLATFORM_UIKIT", "PCTK_OS_WATCHOS"}
         ELSE IF is("TARGET_OS_TV") THEN {"PCTK_PLATFORM_UIKIT", "PCTK_OS_TVOS"}
         ELSE {"PCTK_PLATFORM_UIKIT", "PCTK_OS_IOS"}

(* The family of a Windows application is a number winapifamily.h gives    *)
(* names to, when it was included before.                                  *)
Family(m, name) == value(m, "WINAPI_FAMILY") = value(m, "WINAPI_FAMILY_" \o name)

Win64(m) ==
    /\ ~defined(m, {"SAG_COM"})
    /\ defined(m, {"WINAPI_FAMILY"}) => Family(m, "DESKTOP_APP")
    /\ defined(m, {"WIN64", "_WIN64", "__WIN64__"})

Win32(m) ==
    /\ ~defined(m, {"SAG_COM"})
    /\ defined(m, {"WIN32", "_WIN32", "__WIN32__", "__NT__"})

Win32System(m) ==
    LET pc == IF defined(m, {"WINAPI_FAMILY_PC_APP"}) THEN "PC_APP" ELSE "APP" IN
    IF defined(m, {"WINCE", "_WIN32_WCE"}) THEN {"PCTK_OS_WINCE"}
    ELSE IF ~defined(m, {"WINAPI_FAMILY"}) THEN {"PCTK_OS_WIN32"}
    ELSE IF defined(m, {"WINAPI_FAMILY_PHONE_APP"}) /\ Family(m, "PHONE_APP")
         THEN {"PCTK_OS_WINPHONE", "PCTK_OS_WINRT"}
    ELSE IF Family(m, pc) THEN {"PCTK_OS_WINRT"}
    ELSE {"PCTK_OS_WIN32"}

(* The systems told by one of a few macros, in the order they are tried,  *)
(* and what each is called: PCTK_OS_x for every x of the second set.       *)
OtherSystems ==
    <<<<{"__sun", "sun"}, {"SOLARIS"}>>,
      <<{"hpux", "__hpux"}, {"HPUX"}>>,
      <<{"__native_client__"}, {"NACL"}>>,
      <<{"__EMSCRIPTEN__"}, {"WASM"}>>,
      <<{"__linux__", "__linux"}, {"LINUX"}>>,
      <<{"__FreeBSD_kernel__"}, {"FREEBSD_KERNEL", "BSD4"}>>,
      <<{"__FreeBSD__", "__DragonFly__"}, {"FREEBSD_KERNEL", "FREEBSD", "BSD4"}>>,
      <<{"__NetBSD__"}, {"NETBSD", "BSD4"}>>,
      <<{"__OpenBSD__"}, {"OPENBSD", "BSD4"}>>,
      <<{"__INTERIX"}, {"INTERIX", "BSD4"}>>,
      <<{"_AIX"}, {"AIX"}>>,
      <<{"__Lynx__"}, {"LYNX"}>>,
      <<{"__GNU__"}, {"HURD"}>>,
      <<{"__QNXNTO__"}, {"QNX"}>>,
      <<{"__INTEGRITY"}, {"INTEGRITY"}>>,
      <<{"__rtems__"}, {"RTEMS"}>>,
      <<{"VXWORKS"}, {"VXWORKS"}>>,
      <<{"__HAIKU__"}, {"HAIKU"}>>,
      <<{"__MACH__"}, {"MACH"}>>>>

OtherSystem(m) ==
    LET told == {i \in DOMAIN OtherSystems : defined(m, OtherSystems[i][1])}
        first == CHOOSE i \in told : \A j \in told : i <= j
    IN  IF told = {} THEN {Error} ELSE {"PCTK_OS_" \o name : name \in OtherSystems[first][2]}

(* The #d efine of the webOS branch is no directive.                       *)
OperatingSystem(m) ==
    IF defined(m, {"__APPLE__"}) /\ defined(m, {"__GNUC__", "__xlC__", "__xlc__"})
    THEN AppleSystem(m)
    ELSE IF defined(m, {"__WEBOS__"}) THEN {"PCTK_OS_WEBOS", Error}
    ELSE IF defined(m, {"__ANDROID__", "ANDROID"}) THEN {"PCTK_OS_ANDROID", "PCTK_OS_LINUX"}
    ELSE IF defined(m, {"__CYGWIN__"}) THEN {"PCTK_OS_CYGWIN"}
    ELSE IF Win64(m) THEN {"PCTK_OS_WIN32", "PCTK_OS_WIN64"}
    ELSE IF Win32(m) THEN Win32System(m)
    ELSE OtherSystem(m)

(* Windows or Unix: whatever is not WIN32 or WIN64 is Unix.                *)
WindowsOrUnix(m) ==
    IF defined(m, {"PCTK_OS_WIN32", "PCTK_OS_WIN64"})
    THEN Define(undef(m, {"PCTK_OS_UNIX"}),
                {"PCTK_OS_WINDOWS", "PCTK_OS_WIN", "PCTK_NO_DATA_RELOCATION"})
    ELSE Define(m, {"PCTK_OS_UNIX"})

(* The names kept for older code.                                          *)
Synonyms(m) ==
    Define(m, Given({<<defined(m, {"PCTK_OS_DARWIN"}), {"PCTK_OS_MAC"}>>,
                     <<defined(m, {"PCTK_OS_DARWIN32"}), {"PCTK_OS_MAC32"}>>,
                     <<defined(m, {"PCTK_OS_DARWIN64"}), {"PCTK_OS_MAC64"}>>,
                     <<defined(m, {"PCTK_OS_MACOS"}), {"PCTK_OS_MACX", "PCTK_OS_OSX"}>>}))

(* Darwin: macOS 10.6 at least is required, and the names of the versions  *)
(* an older SDK lacks are defined, with values the headers never look at.  *)
MinimumNames == {"__MAC_OS_X_VERSION_MIN_REQUIRED", "MAC_OS_X_VERSION_MIN_REQUIRED"}

VersionNames ==
    {"__MAC_10_" \o ToString(v) : v \in 11..16}
    \cup {"MAC_OS_X_VERSION_10_" \o ToString(v) : v \in 11..16}
    \cup {"__IPHONE_10_" \o ToString(v) : v \in 0..3}
    \cup {"__IPHONE_11_0", "__IPHONE_12_0"}

AppleVersions(m) ==
    LET raised == [x \in {r \in MinimumNames : value(m, r) < 1060} |-> 1060]
    IN  IF ~defined(m, {"PCTK_OS_DARWIN"}) THEN m
        ELSE DefineMissing(IF defined(m, {"PCTK_OS_MACOS"}) THEN DefineAs(m, raised) ELSE m,
                           [x \in VersionNames |-> 1])

(* The Linux Standard Base, which has a version since it has the macro.    *)
LinuxBase(m) ==
    IF ~defined(m, {"__LSB_VERSION__"}) THEN m
    ELSE Define(m, IF m["__LSB_VERSION__"] < 40 THEN {Error} ELSE {"PCTK_LINUXBASE"})

SystemLines(m) ==
    LinuxBase(AppleVersions(Synonyms(WindowsOrUnix(Define(m, OperatingSystem(m))))))

pctkSystem(m) == Header("_PCTKSYSTEM_H_", m, SystemLines)
=============================================================================
