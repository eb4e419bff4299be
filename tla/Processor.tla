----------------------------- MODULE Processor -----------------------------
(***************************************************************************)
(* pctkProcessor.h: the family of the processor, its revision or variant,  *)
(* its byte order and the size of its word.  No other header includes it.  *)
(***************************************************************************)
EXTENDS Cpp, TLC

BigEndian(m) == IF defined(m, {"__ORDER_BIG_ENDIAN__"}) THEN m["__ORDER_BIG_ENDIAN__"] ELSE 4321
LittleEndian(m) ==
    IF defined(m, {"__ORDER_LITTLE_ENDIAN__"}) THEN m["__ORDER_LITTLE_ENDIAN__"] ELSE 1234

(* What a branch defines: names without a value, a revision, a byte order  *)
(* and a size where the branch gives them.                                 *)
Macro(name) == "PCTK_PROCESSOR_" \o name
Plain(names) == [x \in {Macro(n) : n \in names} |-> 1]
Revision(name, number) == [x \in {Macro(name)} |-> number]
ByteOrder(order) == [x \in {"PCTK_PROCESSOR_BYTE_ORDER"} |-> order]
WordSize(size) == [x \in {"PCTK_PROCESSOR_WORDSIZE"} |-> size]
None == Plain({})

(* The parts of a branch together; no two of them define one macro.        *)
Both(f, g) == DefineAs(f, g)
When(condition, f) == IF condition THEN f ELSE None

(* The ARM revision: a number the compiler gives, or the name of one.      *)
ArmRevision(m) ==
    LET D(names) == defined(m, names)
        V6 == {"__ARM_ARCH_6" \o v \o "__" : v \in {"", "J", "T2", "Z", "K", "ZK", "M"}}
        V7 == {"__ARM_ARCH_7" \o v \o "__" : v \in {"", "A", "R", "M", "S"}}
    IN  IF value(m, "__ARM_ARCH") > 1 THEN value(m, "__ARM_ARCH")
        ELSE IF value(m, "__TARGET_ARCH_ARM") > 1 THEN value(m, "__TARGET_ARCH_ARM")
        ELSE IF value(m, "_M_ARM") > 1 THEN value(m, "_M_ARM")
        ELSE IF D({"__ARM64_ARCH_8__", "__aarch64__", "__ARMv8__", "__ARMv8_A__", "_M_ARM64"}) THEN 8
        ELSE IF D(V7 \cup {"_ARM_ARCH_7", "__CORE_CORTEXA__"}) THEN 7
        ELSE IF D(V6) THEN 6
        ELSE IF D({"__ARM_ARCH_5TEJ__", "__ARM_ARCH_5TE__"}) THEN 5
        ELSE IF D({"__ARM_ARCH_4T__"}) THEN 4
        ELSE 0

(* A revision has the macros of the revisions it is a superset of.         *)
Arm(m) ==
    LET is64 == defined(m, {"__aarch64__", "__ARM64__", "_M_ARM64"})
        revision == ArmRevision(m)
        supersets == {"ARM_V" \o ToString(v) : v \in {w \in 4..8 : w <= revision}}
        variant == IF is64 THEN {"ARM_64"} ELSE {"ARM_32"}
        thumb == IF defined(m, {"__thumb__"}) THEN {"ARM_THUMB"} ELSE {}
    IN  Both(Both(Plain(variant \cup thumb \cup supersets), Revision("ARM", revision)),
        Both(When(is64, WordSize(8)),
        Both(When(revision < 4, [x \in {Error} |-> 1]),
             IF defined(m, {"__ARMEL__", "_M_ARM64"}) THEN ByteOrder(LittleEndian(m))
             ELSE IF defined(m, {"__ARMEB__"}) THEN ByteOrder(BigEndian(m))
             ELSE None)))

X86Revision(m) ==
    IF defined(m, {"_M_IX86"}) THEN value(m, "_M_IX86") \div 100
    ELSE IF defined(m, {"__i686__", "__athlon__", "__SSE__", "__pentiumpro__"}) THEN 6
    ELSE IF defined(m, {"__i586__", "__k6__", "__pentium__"}) THEN 5
    ELSE IF defined(m, {"__i486__", "__80486__"}) THEN 4
    ELSE 3

X86(m, bits, revision, size) ==
    Both(Both(Plain({"X86_" \o bits}), Revision("X86", revision)),
         Both(ByteOrder(LittleEndian(m)), WordSize(size)))

(* A compiler that gives __mips a number gives the number of the ISA.      *)
Mips(m) ==
    LET isa(n, names) == defined(m, names) \/ value(m, "__mips") >= n
        revisions == Given({
            <<isa(1, {"_MIPS_ARCH_MIPS1"}), {"MIPS_I"}>>,
            <<isa(2, {"_MIPS_ARCH_MIPS2"}), {"MIPS_II"}>>,
            <<isa(3, {"_MIPS_ARCH_MIPS3"}), {"MIPS_III"}>>,
            <<isa(4, {"_MIPS_ARCH_MIPS4"}), {"MIPS_IV"}>>,
            <<isa(5, {"_MIPS_ARCH_MIPS5"}), {"MIPS_V"}>>,
            <<isa(32, {"_MIPS_ARCH_MIPS32", "__mips32"}), {"MIPS_32"}>>})
        is64 == defined(m, {"_MIPS_ARCH_MIPS64", "__mips64"})
    IN  Both(Both(Plain({"MIPS"} \cup revisions \cup (IF is64 THEN {"MIPS_64"} ELSE {})),
                  When(is64, WordSize(8))),
             IF defined(m, {"__MIPSEL__"}) THEN ByteOrder(LittleEndian(m))
             ELSE IF defined(m, {"__MIPSEB__"}) THEN ByteOrder(BigEndian(m))
             ELSE None)

Power(m) ==
    IF defined(m, {"__ppc64__", "__powerpc64__", "__64BIT__"})
    THEN Both(Plain({"POWER", "POWER_64"}), WordSize(8))
    ELSE Plain({"POWER", "POWER_32"})

(* The branches of the #if, in its order.                                  *)
ArmMacros == {"__arm__", "__TARGET_ARCH_ARM", "_M_ARM", "_M_ARM64", "__aarch64__", "__ARM64__"}
PowerMacros == {"__ppc__", "__ppc", "__powerpc__", "_ARCH_COM", "_ARCH_PWR", "_ARCH_PPC",
                "_M_MPPC", "_M_PPC"}

ProcessorFamily(m) ==
    LET D(names) == defined(m, names)
        Variant(name, macro, variant) ==
            Plain({name} \cup IF D({macro}) THEN {variant} ELSE {})
        little == ByteOrder(LittleEndian(m))
        big == ByteOrder(BigEndian(m))
    IN  IF D(ArmMacros) THEN Arm(m)
        ELSE IF D({"__i386", "__i386__", "_M_IX86"}) THEN X86(m, "32", X86Revision(m), 4)
        ELSE IF D({"__x86_64", "__x86_64__", "__amd64", "_M_X64"}) THEN X86(m, "64", 6, 8)
        ELSE IF D({"__ia64", "__ia64__", "_M_IA64"}) THEN Both(Plain({"IA64"}), WordSize(8))
        ELSE IF D({"__mips", "__mips__", "_M_MRX000"}) THEN Mips(m)
        ELSE IF D(PowerMacros) THEN Power(m)
        ELSE IF D({"__riscv"})
        THEN Both(Plain({"RISCV", IF value(m, "__riscv_xlen") = 64 THEN "RISCV_64" ELSE "RISCV_32"}),
                  little)
        ELSE IF D({"__s390__"}) THEN Both(Variant("S390", "__s390x__", "S390_X"), big)
        ELSE IF D({"__sh__"}) THEN Variant("SH", "__sh4a__", "SH_4A")
        ELSE IF D({"__sparc__"})
        THEN Both(Both(Variant("SPARC", "__sparc_v9__", "SPARC_V9"),
                       Variant("SPARC", "__sparc64__", "SPARC_64")), big)
        ELSE IF D({"__EMSCRIPTEN__"}) THEN Both(Plain({"WASM"}), Both(little, WordSize(8)))
        ELSE None

(* The byte order of a bi-endian processor, and of an unknown one.         *)
DetectByteOrder(m) ==
    DefineAs(m,
        IF defined(m, {"PCTK_PROCESSOR_BYTE_ORDER"}) THEN None
        ELSE IF defined(m, {"__BYTE_ORDER__"}) /\ m["__BYTE_ORDER__"] \in {BigEndian(m), LittleEndian(m)}
        THEN ByteOrder(value(m, "__BYTE_ORDER__"))
        ELSE IF defined(m, {"__BIG_ENDIAN__", "_big_endian__", "_BIG_ENDIAN"}) THEN ByteOrder(BigEndian(m))
        ELSE IF defined(m, {"__LITTLE_ENDIAN__", "_little_endian__", "_LITTLE_ENDIAN"})
        THEN ByteOrder(LittleEndian(m))
        ELSE [x \in {Error} |-> 1])

DetectWordSize(m) ==
    DefineAs(m, IF defined(m, {"PCTK_PROCESSOR_WORDSIZE"}) THEN None
                ELSE IF defined(m, {"__SIZEOF_POINTER__"}) THEN WordSize(value(m, "__SIZEOF_POINTER__"))
                ELSE IF defined(m, {"__LP64__", "_LP64"}) THEN WordSize(8)
                ELSE WordSize(4))

ProcessorLines(m) == DetectWordSize(DetectByteOrder(DefineAs(m, ProcessorFamily(m))))

pctkProcessor(m) == Header("_PCTKPROCESSOR_H_", m, ProcessorLines)
=============================================================================
