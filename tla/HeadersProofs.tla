--------------------------- MODULE HeadersProofs ---------------------------
(***************************************************************************)
(* The overflow checks of pctkTypes.h are exact in unsigned types of any   *)
(* width; where the result fits, the signed ones fail where a negative     *)
(* number is added and nowhere else.  The headers say the same of a        *)
(* compiler in whatever order, and however often, a program includes them; *)
(* what they say of its types has the widths the compiler gives them; and  *)
(* what a later version of the compiler, or a later standard, offers       *)
(* includes what the earlier did.                                          *)
(***************************************************************************)
EXTENDS MacroNames, WellFoundedInduction, SequenceTheorems, TLAPS

(* The quotient and the remainder of a division.                           *)
LEMMA DivMod ==
    ASSUME NEW x \in Nat, NEW n \in Nat \ {0}
    PROVE  /\ x \div n \in Nat /\ x % n \in 0..(n - 1)
           /\ x = n * (x \div n) + (x % n)
    OBVIOUS

(* What does not reach n is its own remainder, the rest loses something.   *)
LEMMA Wrapped ==
    ASSUME NEW x \in Nat, NEW n \in Nat \ {0}
    PROVE  /\ x < n => x % n = x
           /\ x >= n => x % n < x
    BY DivMod

LEMMA WrappedOnce ==
    ASSUME NEW x \in Nat, NEW n \in Nat \ {0}, x >= n, x < 2 * n
    PROVE  x % n = x - n
<1>1. /\ x = n * (x \div n) + (x % n)
      /\ x \div n \in Nat /\ x % n \in 0..(n - 1)
    BY DivMod
<1>2. x \div n = 1
  <2>1. x \div n # 0
    BY <1>1
  <2>2. CASE x \div n >= 2
    <3>1. n * (x \div n) >= n * 2
      BY <1>1, <2>2
    <3>2. QED
      BY <1>1, <3>1
  <2>3. QED
    BY <1>1, <2>1, <2>2
<1>3. QED
    BY <1>1, <1>2

(* Dividing by a factor of a product tells the product from what is less.  *)
LEMMA FactorDivides ==
    ASSUME NEW a \in Nat \ {0}, NEW b \in Nat
    PROVE  /\ (a * b) \div a = b
           /\ \A d \in Nat : d < a * b => d \div a # b
<1>1. a * b \in Nat
    OBVIOUS
<1>2. (a * b) \div a = b
    BY <1>1
<1>3. ASSUME NEW d \in Nat, d \div a = b
      PROVE  d >= a * b
    BY <1>1, <1>3, DivMod
<1>4. QED
    BY <1>1, <1>2, <1>3

-----------------------------------------------------------------------------
(* A sum wraps around at most once: it is less than its first term if and  *)
(* only if it wrapped (pctkTypes.h:399-403).                               *)
LEMMA UintAddExact ==
    ASSUME NEW a \in 0..(Limit - 1), NEW b \in 0..(Limit - 1)
    PROVE  UintAdd(a, b, Limit).overflow <=> a + b >= Limit
<1> DEFINE sum == a + b
<1>1. UintAdd(a, b, Limit).overflow <=> sum % Limit < a
    BY Zenon DEF UintAdd
<1>2. /\ Limit \in Nat \ {0} /\ a \in Nat /\ b \in Nat
      /\ sum \in Nat /\ sum = a + b /\ sum < 2 * Limit /\ b < Limit
    BY LimitAssumption
<1> HIDE DEF sum
<1>3. CASE sum < Limit
  <2>1. sum % Limit = sum
    BY <1>2, <1>3, Wrapped
  <2>2. QED
    BY <1>1, <1>2, <1>3, <2>1
<1>4. CASE sum >= Limit
  <2>1. sum % Limit = sum - Limit
    BY <1>2, <1>4, WrappedOnce
  <2>2. QED
    BY <1>1, <1>2, <1>4, <2>1
<1>5. QED
    BY <1>2, <1>3, <1>4

(* Dividing the product by its first term gives back the second one if and *)
(* only if the product did not wrap around (pctkTypes.h:404-408).          *)
LEMMA UintMulExact ==
    ASSUME NEW a \in 0..(Limit - 1), NEW b \in 0..(Limit - 1)
    PROVE  UintMul(a, b, Limit).overflow <=> a * b >= Limit
<1> DEFINE product == a * b
           dest == product % Limit
<1>1. UintMul(a, b, Limit).overflow <=> a # 0 /\ dest \div a # b
    BY Zenon DEF UintMul
<1>2. /\ Limit \in Nat \ {0} /\ a \in Nat /\ b \in Nat
      /\ product \in Nat /\ product = a * b
    BY LimitAssumption
<1> HIDE DEF product
<1>3. CASE a = 0
  <2>1. product = 0
    BY <1>2, <1>3
  <2>2. QED
    BY <1>1, <1>2, <1>3, <2>1
<1>4. CASE a # 0 /\ product < Limit
  <2>1. dest = product
    BY <1>2, <1>4, Wrapped
  <2>2. dest \div a = b
    BY <1>2, <1>4, <2>1, FactorDivides
  <2>3. QED
    BY <1>1, <1>2, <1>4, <2>2
<1>5. CASE a # 0 /\ product >= Limit
  <2>1. dest \in Nat
    BY <1>2, DivMod
  <2>2. dest < product
    BY <1>2, <1>5, Wrapped
  <2>3. dest \div a # b
    BY <1>2, <1>5, <2>1, <2>2, FactorDivides
  <2>4. QED
    BY <1>1, <1>2, <1>5, <2>3
<1>6. QED
    BY <1>2, <1>3, <1>4, <1>5

(* A signed sum that fits is less than its first term if and only if the   *)
(* second is negative (pctkTypes.h:419-423).                               *)
LEMMA IntAddAnswers ==
    ASSUME NEW a \in -Limit..(Limit - 1), NEW b \in -Limit..(Limit - 1), FitsIn(a + b, Limit)
    PROVE  IntAdd(a, b, Limit) = {b < 0}
<1>1. IntAdd(a, b, Limit) = {a + b < a}
    BY Zenon DEF IntAdd
<1>2. (a + b < a) = (b < 0)
    BY LimitAssumption, SMT
<1>3. QED
    BY <1>1, <1>2, Zenon

(* Without the signs a product is the product of its factors, and its sign *)
(* is that of the second factor if the first is positive.                  *)
LEMMA SignedProduct ==
    ASSUME NEW a \in Int \ {0}, NEW b \in Int
    PROVE  /\ Magnitude(a) \in Nat \ {0} /\ Magnitude(b) \in Nat
           /\ Magnitude(a * b) = Magnitude(a) * Magnitude(b)
           /\ b # 0 => (a * b < 0 <=> ~(a < 0 <=> b < 0))
<1> DEFINE s == Magnitude(a)
           t == Magnitude(b)
<1>1. /\ s \in Nat \ {0} /\ t \in Nat
      /\ a < 0 => a = -s
      /\ ~(a < 0) => a = s
      /\ b < 0 => b = -t
      /\ ~(b < 0) => b = t
      /\ b # 0 => t # 0
    BY DEF Magnitude
<1> HIDE DEF s, t
<1>2. s * t \in Nat /\ (t # 0 => s * t > 0)
    BY <1>1
<1>3. /\ (a < 0 <=> b < 0) => a * b = s * t
      /\ ~(a < 0 <=> b < 0) => a * b = -(s * t)
  <2>1. CASE a < 0 /\ b < 0
    BY <1>1, <2>1
  <2>2. CASE a < 0 /\ ~(b < 0)
    BY <1>1, <2>2
  <2>3. CASE ~(a < 0) /\ b < 0
    BY <1>1, <2>3
  <2>4. CASE ~(a < 0) /\ ~(b < 0)
    BY <1>1, <2>4
  <2>5. QED
    BY <2>1, <2>2, <2>3, <2>4
<1> DEFINE p == a * b
           q == s * t
<1>4. /\ p \in Int /\ q \in Nat /\ (t # 0 => q > 0)
      /\ (a < 0 <=> b < 0) => p = q
      /\ ~(a < 0 <=> b < 0) => p = -q
    BY <1>2, <1>3
<1> HIDE DEF p, q
<1>5. Magnitude(p) = q
    BY <1>4 DEF Magnitude
<1>6. b # 0 => (p < 0 <=> ~(a < 0 <=> b < 0))
    BY <1>1, <1>4
<1>7. QED
    BY <1>1, <1>5, <1>6 DEF p, q, s, t

(* Dividing a signed product that fits by its first term gives back the    *)
(* second one (pctkTypes.h:424-428).                                       *)
LEMMA IntMulAnswers ==
    ASSUME NEW a \in -Limit..(Limit - 1), NEW b \in -Limit..(Limit - 1), FitsIn(a * b, Limit)
    PROVE  IntMul(a, b, Limit) = {FALSE}
<1>1. a \in Int /\ b \in Int
    BY LimitAssumption
<1>2. ASSUME a # 0
      PROVE  Quotient(a * b, a) = b
  <2> DEFINE p == a * b
             q == Magnitude(p) \div Magnitude(a)
  <2>1. /\ Magnitude(a) \in Nat \ {0} /\ Magnitude(b) \in Nat
        /\ Magnitude(p) = Magnitude(a) * Magnitude(b)
        /\ b # 0 => (p < 0 <=> ~(a < 0 <=> b < 0))
    BY <1>1, <1>2, SignedProduct
  <2>2. q = Magnitude(b)
    BY <2>1, FactorDivides
  <2>3. Quotient(p, a) = IF p < 0 <=> a < 0 THEN q ELSE -q
    BY Zenon DEF Quotient
  <2> HIDE DEF p, q
  <2>4. Quotient(p, a) = b
    BY <1>1, <2>1, <2>2, <2>3 DEF Magnitude
  <2>5. QED
    BY <2>4 DEF p
<1>3. (a # 0 /\ Quotient(a * b, a) # b) = FALSE
    BY <1>2, Zenon
<1>4. QED
    BY <1>3, Zenon DEF IntMul

(* Whatever was included, for whatever target: an unsigned check that is   *)
(* not the compiler's own says that it overflowed if and only if it did; a *)
(* signed one says so of a result that fits if and only if a negative      *)
(* number was added.                                                       *)
THEOREM OverflowChecksAlwaysExact == Spec => []OverflowChecksExact
<1>1. OverflowChecksExact
    BY UintAddExact, UintMulExact, IntAddAnswers, IntMulAnswers DEF OverflowChecksExact
<1>2. QED
    BY <1>1, PTL
-----------------------------------------------------------------------------
(* The order of inclusion.  Two states of the preprocessor are Alike for a *)
(* header that tests the same names in both: it then defines the same.     *)
LEMMA LeastNatural ==
    ASSUME NEW T, T \subseteq Nat, T # {}
    PROVE  \E least \in T : \A j \in T : least <= j
<1>1. PICK least \in T : \A j \in T : ~ (<<j, least>> \in OpToRel(<, Nat))
    BY NatLessThanWellFounded, WFMin
<1>2. ASSUME NEW j \in T
      PROVE  least <= j
  <2>1. j \in Nat /\ least \in Nat
    OBVIOUS
  <2>2. ~(j < least)
    BY <1>1, <2>1 DEF OpToRel
  <2>3. QED
    BY <2>1, <2>2
<1>3. QED
    BY <1>2

(* Two tables agree about a name, about all of names, about all but names. *)
Same(a, b, x) == (x \in DOMAIN a <=> x \in DOMAIN b) /\ (x \in DOMAIN a => a[x] = b[x])
Agree(a, b, names) == \A x \in names : Same(a, b, x)
AgreeBut(a, b, names) == \A x : x \notin names => Same(a, b, x)

(* Alike: they differ in what no header but pctkProcessor.h tests.         *)
Unseen == GuardNames \cup ProcessorMacros \cup {"PCTK_POINTER_SIZE"}
Alike(a, b) == AgreeBut(a, b, Unseen)

(* b is what lines that define no other names than names make of a.        *)
Extends(a, b, names) == AgreeBut(a, b, names \cup {Error}) /\ (Fails(a) => Fails(b))

LEMMA AgreeTests ==
    ASSUME NEW a, NEW b, NEW names, Agree(a, b, names)
    PROVE  /\ \A S \in SUBSET names : defined(a, S) = defined(b, S)
           /\ \A x \in names : value(a, x) = value(b, x)
<1>1. ASSUME NEW S \in SUBSET names
      PROVE  defined(a, S) = defined(b, S)
    BY <1>1 DEF Agree, Same, defined
<1>2. ASSUME NEW x \in names
      PROVE  value(a, x) = value(b, x)
    BY DEF Agree, Same, value
<1>3. QED
    BY <1>1, <1>2

LEMMA AlikeTests ==
    ASSUME NEW a, NEW b, Alike(a, b)
    PROVE  /\ \A N \in SUBSET ReadNames : Agree(a, b, N)
           /\ \A S \in SUBSET ReadNames : defined(a, S) = defined(b, S)
           /\ \A x \in ReadNames : value(a, x) = value(b, x)
<1>1. \A x \in ReadNames : x \notin Unseen
    BY TestsInOrder DEF Unseen
<1>2. Agree(a, b, ReadNames)
    BY <1>1 DEF Agree, Alike, AgreeBut
<1>3. \A N \in SUBSET ReadNames : Agree(a, b, N)
    BY <1>2 DEF Agree
<1>4. QED
    BY <1>2, <1>3, AgreeTests

LEMMA AlikeLines ==
    ASSUME NEW a, NEW b, Alike(a, b), NEW f
    PROVE  /\ Alike(DefineAs(a, f), DefineAs(b, f)) /\ Alike(Define(a, f), Define(b, f))
           /\ Alike(DefineMissing(a, f), DefineMissing(b, f)) /\ Alike(undef(a, f), undef(b, f))
<1>1. Alike(DefineAs(a, f), DefineAs(b, f))
    BY DEF Alike, AgreeBut, Same, DefineAs
<1>2. Alike(Define(a, f), Define(b, f))
    BY DEF Alike, AgreeBut, Same, DefineAs, Define
<1>3. Alike(DefineMissing(a, f), DefineMissing(b, f))
    BY DEF Alike, AgreeBut, Same, DefineAs, DefineMissing
<1>4. Alike(undef(a, f), undef(b, f))
    BY DEF Alike, AgreeBut, Same, undef
<1>5. QED
    BY <1>1, <1>2, <1>3, <1>4

LEMMA ExtendsLines ==
    ASSUME NEW a, NEW names, NEW f
    PROVE  /\ DOMAIN f \subseteq names \cup {Error} => Extends(a, DefineAs(a, f), names)
           /\ DOMAIN f \subseteq names \cup {Error} => Extends(a, DefineMissing(a, f), names)
           /\ f \subseteq names \cup {Error} => Extends(a, Define(a, f), names)
           /\ f \subseteq names /\ Error \notin f => Extends(a, undef(a, f), names)
<1>1. DOMAIN f \subseteq names \cup {Error} => Extends(a, DefineAs(a, f), names)
    BY DEF Extends, AgreeBut, Same, DefineAs, Fails
<1>2. DOMAIN f \subseteq names \cup {Error} => Extends(a, DefineMissing(a, f), names)
    BY DEF Extends, AgreeBut, Same, DefineAs, DefineMissing, Fails
<1>3. f \subseteq names \cup {Error} => Extends(a, Define(a, f), names)
    BY DEF Extends, AgreeBut, Same, DefineAs, Define, Fails
<1>4. f \subseteq names /\ Error \notin f => Extends(a, undef(a, f), names)
    BY DEF Extends, AgreeBut, Same, undef, Fails
<1>5. QED
    BY <1>1, <1>2, <1>3, <1>4

LEMMA ExtendsTwice ==
    ASSUME NEW a, NEW b, NEW c, NEW names, Extends(a, b, names), Extends(b, c, names)
    PROVE  Extends(a, c, names)
    BY DEF Extends, AgreeBut, Same

LEMMA ExtendsSelf == ASSUME NEW a, NEW names PROVE Extends(a, a, names)
    BY DEF Extends, AgreeBut, Same

LEMMA ExtendsMore ==
    ASSUME NEW a, NEW b, NEW names, NEW more, names \subseteq more, Extends(a, b, names)
    PROVE  Extends(a, b, more)
    BY DEF Extends, AgreeBut, Same
-----------------------------------------------------------------------------
(* pctkSystem.h.                                                           *)
LEMMA SystemReadNames == SystemReads \subseteq ReadNames /\ SystemMacros \subseteq ReadNames
<1>1. SystemReads \subseteq ReadNames
    BY DEF ReadNames
<1>2. SystemMacros \subseteq SystemReads
    BY DEF SystemReads
<1>3. QED
    BY <1>1, <1>2

LEMMA AppleSystemAlike ==
    ASSUME NEW a, NEW b, Alike(a, b)
    PROVE  AppleSystem(a) = AppleSystem(b)
<1>1. {"TARGET_OS_MAC", "TARGET_OS_IPHONE", "TARGET_OS_WATCH", "TARGET_OS_TV", "__LP64__"} \subseteq ReadNames
    BY SystemReadNames DEF SystemReads
<1>2. defined(a, {"__LP64__"}) = defined(b, {"__LP64__"})
    BY <1>1, AlikeTests
<1>3. QED
    BY <1>1, <1>2, AlikeTests, SMT DEF AppleSystem

LEMMA OtherSystemAlike ==
    ASSUME NEW a, NEW b, Alike(a, b)
    PROVE  OtherSystem(a) = OtherSystem(b)
<1>1. \A i \in DOMAIN OtherSystems : OtherSystems[i][1] \subseteq ReadNames
    BY SystemReadNames DEF SystemReads
<1>2. \A i \in DOMAIN OtherSystems :
            defined(a, OtherSystems[i][1]) = defined(b, OtherSystems[i][1])
    BY <1>1, AlikeTests
<1>3. {i \in DOMAIN OtherSystems : defined(a, OtherSystems[i][1])}
        = {i \in DOMAIN OtherSystems : defined(b, OtherSystems[i][1])}
    BY <1>2
<1>4. QED
    BY <1>3, Zenon DEF OtherSystem

LEMMA WindowsAlike ==
    ASSUME NEW a, NEW b, Alike(a, b)
    PROVE  /\ Win32System(a) = Win32System(b)
           /\ Win32(a) <=> Win32(b) 
           /\ Win64(a) <=> Win64(b)
<1> DEFINE names ==
        {"WINAPI_FAMILY", "WINAPI_FAMILY_PC_APP", "WINAPI_FAMILY_PHONE_APP", "WINCE", "_WIN32_WCE",
         "SAG_COM", "WIN64", "_WIN64", "__WIN64__", "WIN32", "_WIN32", "__WIN32__", "__NT__"}
<1>1. names \subseteq ReadNames
    BY SystemReadNames DEF SystemReads
<1>2. Agree(a, b, names)
    BY <1>1, AlikeTests
<1>3. ASSUME NEW n \in {"DESKTOP_APP", "PHONE_APP", "PC_APP", "APP"}
      PROVE  Family(a, n) = Family(b, n)
  <2>1. "WINAPI_FAMILY" \in ReadNames /\ ("WINAPI_FAMILY_" \o n) \in ReadNames
    BY SystemReadNames DEF SystemReads
  <2>2. /\ value(a, "WINAPI_FAMILY") = value(b, "WINAPI_FAMILY")
        /\ value(a, "WINAPI_FAMILY_" \o n) = value(b, "WINAPI_FAMILY_" \o n)
    BY <2>1, AlikeTests
  <2>3. QED
    BY <2>2 DEF Family
<1>4. Win32System(a) = Win32System(b)
    BY <1>2, <1>3, SMT DEF Agree, Same, defined, Win32System
<1>5. Win32(a) <=> Win32(b)
    BY <1>2, <1>3, SMT DEF Agree, Same, defined, Win32
<1>6. Win64(a) <=> Win64(b)
    BY <1>2, <1>3, SMT DEF Agree, Same, defined, Win64
<1>7. QED
    BY <1>4, <1>5, <1>6

LEMMA OperatingSystemAlike ==
    ASSUME NEW a, NEW b, Alike(a, b)
    PROVE  OperatingSystem(a) = OperatingSystem(b)
<1> DEFINE names == {"__APPLE__", "__GNUC__", "__xlC__", "__xlc__", "__WEBOS__", "__ANDROID__",
                     "ANDROID", "__CYGWIN__"}
<1>1. /\ AppleSystem(a) = AppleSystem(b) /\ OtherSystem(a) = OtherSystem(b)
      /\ Win32System(a) = Win32System(b) /\ (Win32(a) <=> Win32(b)) /\ (Win64(a) <=> Win64(b))
    BY AppleSystemAlike, OtherSystemAlike, WindowsAlike
<1>2. names \subseteq ReadNames
    BY SystemReadNames DEF SystemReads
<1>3. Agree(a, b, names)
    BY <1>2, AlikeTests
<1>4. QED
    BY <1>1, <1>3, SMT DEF OperatingSystem, Agree, Same, defined

LEMMA OperatingSystemNames ==
    ASSUME NEW a
    PROVE  OperatingSystem(a) \subseteq SystemMacros \cup {Error}
<1>1. AppleSystem(a) \subseteq SystemMacros \cup {Error}
    BY DEF AppleSystem, SystemMacros
<1>2. Win32System(a) \subseteq SystemMacros \cup {Error}
    BY DEF Win32System, SystemMacros
<1>3. OtherSystem(a) \subseteq SystemMacros \cup {Error}
  <2> DEFINE told == {i \in DOMAIN OtherSystems : defined(a, OtherSystems[i][1])}
             first == CHOOSE i \in told : \A j \in told : i <= j
  <2>1. OtherSystem(a) = IF told = {} THEN {Error}
                         ELSE {"PCTK_OS_" \o n : n \in OtherSystems[first][2]}
    BY DEF OtherSystem
  <2>2. told # {} => first \in DOMAIN OtherSystems
    <3>1. DOMAIN OtherSystems = 1..19
      BY DEF OtherSystems
    <3>2. told # {} => \E i \in told : \A j \in told : i <= j
      BY <3>1, LeastNatural
    <3>3. QED
      BY <3>2
  <2> HIDE DEF told, first
  <2>3. QED
    BY <2>1, <2>2 DEF SystemMacros
<1>4. QED
    BY <1>1, <1>2, <1>3 DEF OperatingSystem, SystemMacros

LEMMA WindowsOrUnixLines ==
    ASSUME NEW a
    PROVE  /\ \A b : Alike(a, b) => Alike(WindowsOrUnix(a), WindowsOrUnix(b))
           /\ Extends(a, WindowsOrUnix(a), SystemMacros)
<1> DEFINE windows == {"PCTK_OS_WIN32", "PCTK_OS_WIN64"}
           names == {"PCTK_OS_WINDOWS", "PCTK_OS_WIN", "PCTK_NO_DATA_RELOCATION"}
           Without(u) == undef(u, {"PCTK_OS_UNIX"})
<1>1. windows \subseteq ReadNames
    BY SystemReadNames DEF SystemMacros
<1>2. names \subseteq SystemMacros /\ {"PCTK_OS_UNIX"} \subseteq SystemMacros
    BY DEF SystemMacros
<1>3. Error \notin {"PCTK_OS_UNIX"}
    BY DEF Error
<1> HIDE DEF windows, names
<1>4. \A u : WindowsOrUnix(u) = IF defined(u, windows) THEN Define(Without(u), names)
                                ELSE Define(u, {"PCTK_OS_UNIX"})
    BY DEF WindowsOrUnix, windows, names
<1>5. ASSUME NEW b, Alike(a, b)
      PROVE  Alike(WindowsOrUnix(a), WindowsOrUnix(b))
  <2>1. defined(a, windows) = defined(b, windows)
    BY <1>1, <1>5, AlikeTests
  <2>2. Alike(Without(a), Without(b)) /\ Alike(Define(a, {"PCTK_OS_UNIX"}), Define(b, {"PCTK_OS_UNIX"}))
    BY <1>5, AlikeLines
  <2>3. Alike(Define(Without(a), names), Define(Without(b), names))
    BY <2>2, AlikeLines
  <2>4. QED
    BY <1>4, <2>1, <2>2, <2>3
<1>6. Extends(a, Without(a), SystemMacros) /\ Extends(a, Define(a, {"PCTK_OS_UNIX"}), SystemMacros)
    BY <1>2, <1>3, ExtendsLines
<1>7. Extends(Without(a), Define(Without(a), names), SystemMacros)
    BY <1>2, ExtendsLines
<1>8. QED
    BY <1>4, <1>5, <1>6, <1>7, ExtendsTwice

LEMMA SynonymsLines ==
    ASSUME NEW a
    PROVE  /\ \A b : Alike(a, b) => Alike(Synonyms(a), Synonyms(b))
           /\ Extends(a, Synonyms(a), SystemMacros)
<1> DEFINE darwin == {"PCTK_OS_DARWIN", "PCTK_OS_DARWIN32", "PCTK_OS_DARWIN64", "PCTK_OS_MACOS"}
           Old(u) == Given({<<defined(u, {"PCTK_OS_DARWIN"}), {"PCTK_OS_MAC"}>>,
                            <<defined(u, {"PCTK_OS_DARWIN32"}), {"PCTK_OS_MAC32"}>>,
                            <<defined(u, {"PCTK_OS_DARWIN64"}), {"PCTK_OS_MAC64"}>>,
                            <<defined(u, {"PCTK_OS_MACOS"}), {"PCTK_OS_MACX", "PCTK_OS_OSX"}>>})
<1>1. darwin \subseteq ReadNames
    BY SystemReadNames DEF SystemMacros
<1>2. \A u : Synonyms(u) = Define(u, Old(u))
    BY DEF Synonyms
<1>3. ASSUME NEW b, Alike(a, b)
      PROVE  Old(a) = Old(b)
  <2>1. Agree(a, b, darwin)
    BY <1>1, <1>3, AlikeTests
  <2>2. QED
    BY <2>1, SMT DEF Agree, Same, defined, Given
<1>4. Old(a) \subseteq SystemMacros
    BY SMT DEF Given, SystemMacros
<1> HIDE DEF Old
<1>5. QED
    BY <1>2, <1>3, <1>4, AlikeLines, ExtendsLines

LEMMA AppleVersionsLines ==
    ASSUME NEW a
    PROVE  /\ \A b : Alike(a, b) => Alike(AppleVersions(a), AppleVersions(b))
           /\ Extends(a, AppleVersions(a), SystemMacros)
<1> DEFINE Raised(u) == [x \in {r \in MinimumNames : value(u, r) < 1060} |-> 1060]
           Minimum(u) == IF defined(u, {"PCTK_OS_MACOS"}) THEN DefineAs(u, Raised(u)) ELSE u
           versions == [x \in VersionNames |-> 1]
<1>1. {"PCTK_OS_DARWIN"} \subseteq ReadNames /\ {"PCTK_OS_MACOS"} \subseteq ReadNames
      /\ MinimumNames \subseteq ReadNames
    BY SystemReadNames DEF SystemMacros
<1>2. DOMAIN Raised(a) \subseteq SystemMacros /\ DOMAIN versions \subseteq SystemMacros
    BY DEF SystemMacros
<1>3. ASSUME NEW b, Alike(a, b)
      PROVE  Raised(a) = Raised(b)
  <2>1. \A x \in MinimumNames : value(a, x) = value(b, x)
    BY <1>1, <1>3, AlikeTests
  <2>2. {r \in MinimumNames : value(a, r) < 1060} = {r \in MinimumNames : value(b, r) < 1060}
    BY <2>1
  <2>3. QED
    BY <2>2
<1> HIDE DEF Raised, versions
<1>4. Extends(a, Minimum(a), SystemMacros)
    BY <1>2, ExtendsLines, ExtendsSelf
<1>5. ASSUME NEW b, Alike(a, b)
      PROVE  Alike(Minimum(a), Minimum(b))
  <2>1. Alike(DefineAs(a, Raised(a)), DefineAs(b, Raised(b)))
    BY <1>3, <1>5, AlikeLines
  <2>2. defined(a, {"PCTK_OS_MACOS"}) = defined(b, {"PCTK_OS_MACOS"})
    BY <1>1, <1>5, AlikeTests
  <2>3. QED
    BY <1>5, <2>1, <2>2
<1> HIDE DEF Minimum
<1>6. \A u : AppleVersions(u) = IF ~defined(u, {"PCTK_OS_DARWIN"}) THEN u
                                ELSE DefineMissing(Minimum(u), versions)
    BY DEF AppleVersions, Minimum, Raised, versions
<1>7. ASSUME NEW b, Alike(a, b)
      PROVE  Alike(AppleVersions(a), AppleVersions(b))
  <2>1. defined(a, {"PCTK_OS_DARWIN"}) = defined(b, {"PCTK_OS_DARWIN"})
    BY <1>1, <1>7, AlikeTests
  <2>2. Alike(DefineMissing(Minimum(a), versions), DefineMissing(Minimum(b), versions))
    BY <1>5, <1>7, AlikeLines
  <2>3. QED
    BY <1>6, <1>7, <2>1, <2>2
<1>8. Extends(Minimum(a), DefineMissing(Minimum(a), versions), SystemMacros)
    BY <1>2, ExtendsLines
<1>9. QED
    BY <1>4, <1>6, <1>7, <1>8, ExtendsTwice, ExtendsSelf

LEMMA LinuxBaseLines ==
    ASSUME NEW a
    PROVE  /\ \A b : Alike(a, b) => Alike(LinuxBase(a), LinuxBase(b))
           /\ Extends(a, LinuxBase(a), SystemMacros)
<1> DEFINE version == {"__LSB_VERSION__"}
           Known(u) == IF u["__LSB_VERSION__"] < 40 THEN {Error} ELSE {"PCTK_LINUXBASE"}
<1>1. version \subseteq ReadNames
    BY SystemReadNames DEF SystemReads
<1>2. \A u : Known(u) \subseteq SystemMacros \cup {Error}
    BY DEF SystemMacros
<1>3. \A u : LinuxBase(u) = IF ~defined(u, version) THEN u ELSE Define(u, Known(u))
    BY DEF LinuxBase
<1>4. ASSUME NEW b, Alike(a, b)
      PROVE  Alike(LinuxBase(a), LinuxBase(b))
  <2>1. Agree(a, b, version)
    BY <1>1, <1>4, AlikeTests
  <2>2. /\ defined(a, version) <=> defined(b, version)
        /\ defined(a, version) => Known(a) = Known(b)
    BY <2>1 DEF Agree, Same, defined
  <2> HIDE DEF Known
  <2>3. QED
    BY <1>3, <1>4, <2>2, AlikeLines
<1> HIDE DEF Known
<1>5. QED
    BY <1>2, <1>3, <1>4, ExtendsLines, ExtendsSelf

LEMMA SystemTests ==
    ASSUME NEW a
    PROVE  /\ \A b : Alike(a, b) => Alike(SystemLines(a), SystemLines(b))
           /\ Extends(a, SystemLines(a), SystemMacros)
<1> DEFINE System(u) == Define(u, OperatingSystem(u))
<1>1. /\ \A b : Alike(a, b) => Alike(System(a), System(b))
      /\ Extends(a, System(a), SystemMacros)
    BY OperatingSystemAlike, OperatingSystemNames, AlikeLines, ExtendsLines
<1> HIDE DEF System
<1>2. \A u : SystemLines(u) = LinuxBase(AppleVersions(Synonyms(WindowsOrUnix(System(u)))))
    BY DEF SystemLines, System
<1>3. ASSUME NEW b, Alike(a, b)
      PROVE  Alike(SystemLines(a), SystemLines(b))
  <2>1. Alike(WindowsOrUnix(System(a)), WindowsOrUnix(System(b)))
    BY <1>1, <1>3, WindowsOrUnixLines
  <2>2. Alike(Synonyms(WindowsOrUnix(System(a))), Synonyms(WindowsOrUnix(System(b))))
    BY <2>1, SynonymsLines
  <2>3. Alike(AppleVersions(Synonyms(WindowsOrUnix(System(a)))),
              AppleVersions(Synonyms(WindowsOrUnix(System(b)))))
    BY <2>2, AppleVersionsLines
  <2>4. QED
    BY <1>2, <2>3, LinuxBaseLines
<1>4. Extends(a, WindowsOrUnix(System(a)), SystemMacros)
    BY <1>1, WindowsOrUnixLines, ExtendsTwice
<1>5. Extends(a, Synonyms(WindowsOrUnix(System(a))), SystemMacros)
    BY <1>4, SynonymsLines, ExtendsTwice
<1>6. Extends(a, AppleVersions(Synonyms(WindowsOrUnix(System(a)))), SystemMacros)
    BY <1>5, AppleVersionsLines, ExtendsTwice
<1>7. Extends(a, SystemLines(a), SystemMacros)
    BY <1>2, <1>6, LinuxBaseLines, ExtendsTwice
<1>8. QED
    BY <1>3, <1>7
-----------------------------------------------------------------------------
(* pctkCompiler.h.                                                         *)
LEMMA CompilerReadNames == CompilerReads \subseteq ReadNames /\ FeatureMacros \subseteq ReadNames
<1>1. CompilerReads \subseteq ReadNames
    BY DEF ReadNames
<1>2. FeatureMacros \subseteq CompilerReads
    BY DEF CompilerReads
<1>3. QED
    BY <1>1, <1>2

LEMMA GivenWithin ==
    ASSUME NEW table, NEW names, \A row \in table : row[2] \subseteq names
    PROVE  Given(table) \subseteq names
    BY DEF Given

LEMMA ClangVersionLines ==
    ASSUME NEW a
    PROVE  /\ \A b : Alike(a, b) => ClangVersion(a) = ClangVersion(b)
           /\ DOMAIN ClangVersion(a) \subseteq CompilerMacros \cup {Error}
<1> DEFINE names == {"__apple_build_version__", "__clang_major__", "__clang_minor__"}
           Reached(u) == {row[2] : row \in {r \in AppleClang : u["__apple_build_version__"] >= r[1]}}
           From(reached) == IF reached = {} THEN [x \in {Error} |-> 1]
                            ELSE [x \in {"PCTK_CC_CLANG"} |->
                                     CHOOSE v \in reached : \A w \in reached : v >= w]
           Plainly(u) == [x \in {"PCTK_CC_CLANG"} |->
                            100 * value(u, "__clang_major__") + value(u, "__clang_minor__")]
           Apple(u) == defined(u, {"__apple_build_version__"})
<1>1. names \subseteq ReadNames
    BY CompilerReadNames DEF CompilerReads
<1>2. \A u : ClangVersion(u) = IF ~Apple(u) THEN Plainly(u) ELSE From(Reached(u))
    BY DEF ClangVersion
<1>3. ASSUME NEW b, Alike(a, b)
      PROVE  ClangVersion(a) = ClangVersion(b)
  <2>1. Agree(a, b, names)
    BY <1>1, <1>3, AlikeTests
  <2>2. Apple(a) = Apple(b) /\ Plainly(a) = Plainly(b)
    BY <2>1, AgreeTests
  <2>3. Apple(a) => a["__apple_build_version__"] = b["__apple_build_version__"]
    BY <2>1 DEF Agree, Same, defined
  <2>4. Apple(a) => Reached(a) = Reached(b)
    BY <2>3
  <2> HIDE DEF From, Reached, Plainly, Apple
  <2>5. QED
    BY <1>2, <2>2, <2>4
<1>4. "PCTK_CC_CLANG" \in CompilerMacros
    BY DEF CompilerMacros
<1>5. QED
    BY <1>2, <1>3, <1>4

LEMMA CompilersLines ==
    ASSUME NEW a
    PROVE  /\ \A b : Alike(a, b) => Alike(Compilers(a), Compilers(b))
           /\ Extends(a, Compilers(a), CompilerMacros)
<1> DEFINE Gnu(u) == IF defined(u, {"__GNUC__"})
                     THEN [x \in {"PCTK_CC_" \o "GNU"} |->
                              100 * value(u, "__GNUC__") + value(u, "__GNUC_MINOR__")]
                     ELSE << >>
           Vc(u) == IF defined(u, {"_MSC_VER"})
                    THEN [x \in {"PCTK_CC_" \o "MSVC"} |-> value(u, "_MSC_VER")] ELSE << >>
           Icc(u) == IF defined(u, {"__INTEL_COMPILER"})
                     THEN [x \in {"PCTK_CC_" \o "INTEL"} |-> value(u, "__INTEL_COMPILER")] ELSE << >>
           Llvm(u) == IF defined(u, {"__clang__"}) THEN ClangVersion(u) ELSE << >>
           Others(u) == Given({<<defined(u, {"__MINGW32__"}), {"PCTK_CC_MINGW"}>>,
                               <<defined(u, {"_MSC_VER"}), {"PCTK_CC_MSVC_NET"}>>,
                               <<defined(u, {"__BORLANDC__", "__TURBOC__"}), Borland(u)>>,
                               <<defined(u, {"__EMSCRIPTEN__"}), {"PCTK_CC_EMSCRIPTEN"}>>})
           names == {"__GNUC__", "__GNUC_MINOR__", "_MSC_VER", "__INTEL_COMPILER", "__clang__",
                     "__MINGW32__", "__BORLANDC__", "__TURBOC__", "__EMSCRIPTEN__"}
<1>1. \A u : Compilers(u) =
        Define(DefineAs(DefineAs(DefineAs(DefineAs(u, Gnu(u)), Vc(u)), Llvm(u)), Icc(u)), Others(u))
    BY DEF Compilers
<1>2. names \subseteq ReadNames
    BY CompilerReadNames DEF CompilerReads
<1>3. ASSUME NEW b, Alike(a, b)
      PROVE  Alike(Compilers(a), Compilers(b))
  <2>1. /\ \A S \in SUBSET names : defined(a, S) = defined(b, S)
        /\ \A x \in names : value(a, x) = value(b, x)
    BY <1>2, <1>3, AlikeTests
  <2>2. Gnu(a) = Gnu(b) /\ Vc(a) = Vc(b) /\ Icc(a) = Icc(b)
    BY <2>1
  <2>3. Llvm(a) = Llvm(b)
    BY <1>3, <2>1, ClangVersionLines
  <2>4. Others(a) = Others(b)
    <3>1. Borland(a) = Borland(b)
      BY <2>1 DEF Borland
    <3>2. QED
      BY <2>1, <3>1
  <2> HIDE DEF Gnu, Vc, Icc, Llvm, Others
  <2>5. Alike(DefineAs(a, Gnu(a)), DefineAs(b, Gnu(b)))
    BY <1>3, <2>2, AlikeLines
  <2>6. Alike(DefineAs(DefineAs(a, Gnu(a)), Vc(a)), DefineAs(DefineAs(b, Gnu(b)), Vc(b)))
    BY <2>2, <2>5, AlikeLines
  <2>7. Alike(DefineAs(DefineAs(DefineAs(a, Gnu(a)), Vc(a)), Llvm(a)),
              DefineAs(DefineAs(DefineAs(b, Gnu(b)), Vc(b)), Llvm(b)))
    BY <2>3, <2>6, AlikeLines
  <2>8. Alike(DefineAs(DefineAs(DefineAs(DefineAs(a, Gnu(a)), Vc(a)), Llvm(a)), Icc(a)),
              DefineAs(DefineAs(DefineAs(DefineAs(b, Gnu(b)), Vc(b)), Llvm(b)), Icc(b)))
    BY <2>2, <2>7, AlikeLines
  <2>9. QED
    BY <1>1, <2>4, <2>8, AlikeLines
<1>4. /\ DOMAIN Gnu(a) \subseteq CompilerMacros \cup {Error}
      /\ DOMAIN Vc(a) \subseteq CompilerMacros \cup {Error}
      /\ DOMAIN Icc(a) \subseteq CompilerMacros \cup {Error}
    BY DEF CompilerMacros
<1>5. DOMAIN Llvm(a) \subseteq CompilerMacros \cup {Error}
    BY ClangVersionLines
<1>6. Others(a) \subseteq CompilerMacros \cup {Error}
  <2>1. Borland(a) \subseteq CompilerMacros \cup {Error}
    BY DEF Borland, CompilerMacros
  <2>2. {"PCTK_CC_MINGW"} \subseteq CompilerMacros /\ {"PCTK_CC_MSVC_NET"} \subseteq CompilerMacros
        /\ {"PCTK_CC_EMSCRIPTEN"} \subseteq CompilerMacros
    BY DEF CompilerMacros
  <2> DEFINE table == {<<defined(a, {"__MINGW32__"}), {"PCTK_CC_MINGW"}>>,
                       <<defined(a, {"_MSC_VER"}), {"PCTK_CC_MSVC_NET"}>>,
                       <<defined(a, {"__BORLANDC__", "__TURBOC__"}), Borland(a)>>,
                       <<defined(a, {"__EMSCRIPTEN__"}), {"PCTK_CC_EMSCRIPTEN"}>>}
  <2>3. \A row \in table : row[2] \subseteq CompilerMacros \cup {Error}
    BY <2>1, <2>2
  <2>4. Others(a) = Given(table)
    OBVIOUS
  <2> HIDE DEF table, Others
  <2>5. Given(table) \subseteq CompilerMacros \cup {Error}
    BY <2>3, GivenWithin, Zenon
  <2>6. QED
    BY <2>4, <2>5, Zenon
<1> HIDE DEF Gnu, Vc, Icc, Llvm, Others
<1>7. Extends(a, DefineAs(a, Gnu(a)), CompilerMacros)
    BY <1>4, ExtendsLines
<1>8. Extends(a, DefineAs(DefineAs(a, Gnu(a)), Vc(a)), CompilerMacros)
    BY <1>4, <1>7, ExtendsLines, ExtendsTwice
<1>9. Extends(a, DefineAs(DefineAs(DefineAs(a, Gnu(a)), Vc(a)), Llvm(a)), CompilerMacros)
    BY <1>5, <1>8, ExtendsLines, ExtendsTwice
<1>10. Extends(a, DefineAs(DefineAs(DefineAs(DefineAs(a, Gnu(a)), Vc(a)), Llvm(a)), Icc(a)),
               CompilerMacros)
    BY <1>4, <1>9, ExtendsLines, ExtendsTwice
<1>11. Extends(a, Compilers(a), CompilerMacros)
    BY <1>1, <1>6, <1>10, ExtendsLines, ExtendsTwice
<1>12. QED
    BY <1>3, <1>11

LEMMA StandardsLines ==
    ASSUME NEW a
    PROVE  /\ \A b : Alike(a, b) => Standards(a) = Standards(b)
           /\ DOMAIN Standards(a) \subseteq CompilerMacros
<1> DEFINE names == {"_MSVC_LANG", "__clang__", "_MSC_VER", "__cplusplus", "__STDC_VERSION__"}
<1>1. names \subseteq ReadNames
    BY CompilerReadNames DEF CompilerReads
<1>2. ASSUME NEW b, Alike(a, b)
      PROVE  Standards(a) = Standards(b)
  <2>1. Agree(a, b, names)
    BY <1>1, <1>2, AlikeTests
  <2>2. StdcxxVersion(a) = StdcxxVersion(b)
    BY <2>1 DEF StdcxxVersion, Agree, Same, defined, value
  <2>3. value(a, "__STDC_VERSION__") = value(b, "__STDC_VERSION__")
    BY <2>1, AgreeTests
  <2>4. QED
    BY <2>2, <2>3 DEF Standards
<1>3. DOMAIN Standards(a) \subseteq CompilerMacros
    BY DEF Standards, CompilerMacros
<1>4. QED
    BY <1>2, <1>3

LEMMA FeatureConditions ==
    ASSUME NEW a, NEW b, Alike(a, b)
    PROVE  /\ \A S \in SUBSET CompilerReads : defined(a, S) = defined(b, S)
           /\ \A x \in CompilerReads : value(a, x) = value(b, x)
           /\ \A n \in {"GNU", "MSVC", "CLANG", "INTEL"} : Version(a, n) = Version(b, n)
           /\ \A n \in {"GNU", "MSVC", "CLANG", "INTEL", "MINGW"} : Is(a, n) = Is(b, n)
           /\ NotStrict(a) = NotStrict(b) /\ Cxx11(a) = Cxx11(b) /\ HasThreads(a) = HasThreads(b)
<1>1. /\ \A S \in SUBSET CompilerReads : defined(a, S) = defined(b, S)
      /\ \A x \in CompilerReads : value(a, x) = value(b, x)
    BY CompilerReadNames, AlikeTests
<1>2. \A n \in {"GNU", "MSVC", "CLANG", "INTEL", "MINGW"} : ("PCTK_CC_" \o n) \in CompilerReads
    BY DEF CompilerReads
<1>3. \A n \in {"GNU", "MSVC", "CLANG", "INTEL"} : Version(a, n) = Version(b, n)
    BY <1>1, <1>2 DEF Version
<1>4. ASSUME NEW n \in {"GNU", "MSVC", "CLANG", "INTEL", "MINGW"}
      PROVE  Is(a, n) = Is(b, n)
  <2>1. {"PCTK_CC_" \o n} \in SUBSET CompilerReads
    BY <1>2
  <2>2. QED
    BY <1>1, <2>1 DEF Is
<1> DEFINE names == {"__STRICT_ANSI__", "__GXX_EXPERIMENTAL_CXX0X__", "__cplusplus",
                     "__STDC_VERSION__", "<threads.h>"}
<1>5. names \subseteq CompilerReads
    BY DEF CompilerReads
<1>6. /\ defined(a, {"__STRICT_ANSI__"}) = defined(b, {"__STRICT_ANSI__"})
      /\ defined(a, {"__GXX_EXPERIMENTAL_CXX0X__"}) = defined(b, {"__GXX_EXPERIMENTAL_CXX0X__"})
      /\ defined(a, {"<threads.h>"}) = defined(b, {"<threads.h>"})
      /\ value(a, "__cplusplus") = value(b, "__cplusplus")
      /\ value(a, "__STDC_VERSION__") = value(b, "__STDC_VERSION__")
    BY <1>1, <1>5
<1>7. NotStrict(a) = NotStrict(b)
    BY <1>6 DEF NotStrict
<1>8. Cxx11(a) = Cxx11(b)
    BY <1>6 DEF Cxx11
<1>9. HasThreads(a) = HasThreads(b)
    BY <1>6 DEF HasThreads
<1>10. QED
    BY <1>1, <1>3, <1>4, <1>7, <1>8, <1>9

LEMMA SinceWithin ==
    ASSUME NEW table, NEW names, \A row \in table : row[2] \subseteq names
    PROVE  \A version : Since(table, version) \subseteq names
    BY DEF Since

LEMMA GnuFeatureNames ==
    ASSUME NEW a
    PROVE  /\ \A b : Alike(a, b) => GnuFeatures(a) = GnuFeatures(b)
           /\ GnuFeatures(a) \subseteq FeatureNames
<1> DEFINE C(u) == {<<NotStrict(u), {"VARIADIC_MACROS"}>>,
                    <<value(u, "__cplusplus") > 201103 /\ Version(u, "GNU") >= 409,
                      {"LAMBDA_CAPTURES", "RETURN_TYPE_DEDUCTION"}>>,
                    <<value(u, "__STDC_VERSION__") > 199901 /\ Version(u, "GNU") >= 407,
                      {"STATIC_ASSERT"}>>,
                    <<value(u, "__STDC_VERSION__") > 199901 /\ Version(u, "GNU") >= 409
                        /\ HasThreads(u), {"THREAD_LOCAL"}>>}
           Patch(u) == {<<Version(u, "GNU") >= 408 /\ value(u, "__GNUC_PATCHLEVEL__") >= 1,
                          {"REF_QUALIFIERS"}>>}
           Always(u) == {"RESTRICTED_VLA", "THREADSAFE_STATICS"}
                        \cup Since({<<403, {"BINARY_LITERALS"}>>}, Version(u, "GNU"))
<1>1. \A u : GnuFeatures(u) =
          Always(u) \cup Given(C(u)) \cup
            IF ~Cxx11(u) THEN {} ELSE Since(GnuCxx11, Version(u, "GNU")) \cup Given(Patch(u))
    BY DEF GnuFeatures
<1>2. ASSUME NEW b, Alike(a, b)
      PROVE  GnuFeatures(a) = GnuFeatures(b)
  <2>1. {"__cplusplus", "__STDC_VERSION__", "__GNUC_PATCHLEVEL__"} \subseteq CompilerReads
    BY DEF CompilerReads
  <2>2. /\ value(a, "__cplusplus") = value(b, "__cplusplus")
        /\ value(a, "__STDC_VERSION__") = value(b, "__STDC_VERSION__")
        /\ value(a, "__GNUC_PATCHLEVEL__") = value(b, "__GNUC_PATCHLEVEL__")
    BY <1>2, <2>1, FeatureConditions
  <2>3. /\ Version(a, "GNU") = Version(b, "GNU") /\ NotStrict(a) = NotStrict(b)
        /\ Cxx11(a) = Cxx11(b) /\ HasThreads(a) = HasThreads(b)
    BY <1>2, FeatureConditions
  <2>4. Always(a) = Always(b) /\ Given(C(a)) = Given(C(b)) /\ Given(Patch(a)) = Given(Patch(b))
    BY <2>2, <2>3
  <2> HIDE DEF Always, C, Patch
  <2>5. QED
    BY <1>1, <2>3, <2>4
<1>3. \A row \in C(a) \cup Patch(a) \cup GnuCxx11 \cup {<<403, {"BINARY_LITERALS"}>>} :
          row[2] \subseteq FeatureNames
    BY DEF GnuCxx11, FeatureNames, Defaulted
<1>4. {"RESTRICTED_VLA", "THREADSAFE_STATICS"} \subseteq FeatureNames
    BY DEF FeatureNames, Defaulted
<1>5. /\ Given(C(a)) \subseteq FeatureNames /\ Given(Patch(a)) \subseteq FeatureNames
    BY <1>3, GivenWithin
<1>6. /\ Since(GnuCxx11, Version(a, "GNU")) \subseteq FeatureNames
      /\ Always(a) \subseteq FeatureNames
    BY <1>3, <1>4, SinceWithin
<1> HIDE DEF Always, C, Patch
<1>7. GnuFeatures(a) \subseteq FeatureNames
    BY <1>1, <1>5, <1>6
<1>8. QED
    BY <1>2, <1>7

LEMMA MsvcFeatureNames ==
    ASSUME NEW a
    PROVE  /\ \A b : Alike(a, b) => MsvcFeatures(a) = MsvcFeatures(b)
           /\ MsvcFeatures(a) \subseteq FeatureNames
<1> DEFINE patch == {<<190023419, {"ATTRIBUTES", "THREADSAFE_STATICS", "UNIFORM_INIT"}>>}
<1>1. ASSUME NEW b, Alike(a, b)
      PROVE  MsvcFeatures(a) = MsvcFeatures(b)
  <2>1. "_MSC_FULL_VER" \in CompilerReads
    BY DEF CompilerReads
  <2>2. /\ Version(a, "MSVC") = Version(b, "MSVC")
        /\ value(a, "_MSC_FULL_VER") = value(b, "_MSC_FULL_VER")
    BY <1>1, <2>1, FeatureConditions
  <2>3. QED
    BY <2>2 DEF MsvcFeatures
<1>2. \A row \in MsvcBrought \cup patch : row[2] \subseteq FeatureNames
    BY DEF MsvcBrought, FeatureNames, Defaulted
<1>3. {"NO_TEMPLATE_FRIENDS"} \subseteq FeatureNames
    BY DEF FeatureNames, Defaulted
<1>4. /\ Since(MsvcBrought, Version(a, "MSVC")) \subseteq FeatureNames
      /\ Since(patch, value(a, "_MSC_FULL_VER")) \subseteq FeatureNames
    BY <1>2, SinceWithin
<1>5. MsvcFeatures(a) \subseteq FeatureNames
    BY <1>3, <1>4 DEF MsvcFeatures
<1>6. QED
    BY <1>1, <1>5

LEMMA ClangFeatureNames ==
    ASSUME NEW a
    PROVE  /\ \A b : Alike(a, b) => ClangFeatures(a) = ClangFeatures(b)
           /\ ClangFeatures(a) \subseteq FeatureNames
<1> DEFINE Knows(u, name) == defined(u, {"cxx_" \o name})
           Told(u, names) == UNION {pair[2] : pair \in {p \in names : Knows(u, p[1])}}
           In11(u) == {<<Knows(u, "atomic") /\ defined(u, {"<atomic>"}), {"ATOMICS"}>>,
                       <<Knows(u, "constexpr") /\ Version(u, "CLANG") > 302, {"CONSTEXPR"}>>,
                       <<Knows(u, "thread_local") /\ ~defined(u, {"__FreeBSD__"}), {"THREAD_LOCAL"}>>,
                       <<Version(u, "CLANG") >= 209, {"EXTERN_TEMPLATES"}>>}
           In14(u) == {<<Knows(u, "decltype_auto") /\ Knows(u, "return_type_deduction"),
                         {"RETURN_TYPE_DEDUCTION"}>>}
           InC(u) == {<<defined(u, {"c_static_assert"}), {"STATIC_ASSERT"}>>,
                      <<defined(u, {"c_thread_local"}) /\ HasThreads(u)
                          /\ ~defined(u, {"__FreeBSD__"}), {"THREAD_LOCAL"}>>}
           Cxx11Told(u) == Told(u, Cxx11Names) \cup Given(In11(u))
           Cxx14Told(u) == Told(u, Cxx14Names) \cup Given(In14(u))
           CTold(u) == Given(InC(u))
           All(u) == {<<Knows(u, "binary_literals"), {"BINARY_LITERALS"}>>,
                      <<Version(u, "CLANG") >= 209 /\ NotStrict(u), {"VARIADIC_MACROS"}>>,
                      <<Cxx11(u), Cxx11Told(u)>>,
                      <<value(u, "__cplusplus") > 201103, Cxx14Told(u)>>,
                      <<defined(u, {"__STDC_VERSION__"}), CTold(u)>>}
<1>1. \A u : ClangFeatures(u) = {"RESTRICTED_VLA", "THREADSAFE_STATICS"} \cup Given(All(u))
    BY DEF ClangFeatures
<1>2. ASSUME NEW b, Alike(a, b)
      PROVE  Given(All(a)) = Given(All(b))
  <2>1. {"<atomic>", "__FreeBSD__", "c_static_assert", "c_thread_local", "__STDC_VERSION__",
         "__cplusplus"} \subseteq CompilerReads
    BY DEF CompilerReads
  <2>2. /\ defined(a, {"<atomic>"}) = defined(b, {"<atomic>"})
        /\ defined(a, {"__FreeBSD__"}) = defined(b, {"__FreeBSD__"})
        /\ defined(a, {"c_static_assert"}) = defined(b, {"c_static_assert"})
        /\ defined(a, {"c_thread_local"}) = defined(b, {"c_thread_local"})
        /\ defined(a, {"__STDC_VERSION__"}) = defined(b, {"__STDC_VERSION__"})
        /\ value(a, "__cplusplus") = value(b, "__cplusplus")
    BY <1>2, <2>1, FeatureConditions
  <2>3. /\ Version(a, "CLANG") = Version(b, "CLANG") /\ NotStrict(a) = NotStrict(b)
        /\ Cxx11(a) = Cxx11(b) /\ HasThreads(a) = HasThreads(b)
    BY <1>2, FeatureConditions
  <2>4. /\ \A p \in Cxx11Names \cup Cxx14Names : {"cxx_" \o p[1]} \subseteq CompilerReads
        /\ \A n \in {"atomic", "constexpr", "thread_local", "decltype_auto", "return_type_deduction",
                     "binary_literals"} : {"cxx_" \o n} \subseteq CompilerReads
    BY DEF CompilerReads
  <2>5. /\ \A p \in Cxx11Names \cup Cxx14Names : Knows(a, p[1]) = Knows(b, p[1])
        /\ \A n \in {"atomic", "constexpr", "thread_local", "decltype_auto", "return_type_deduction",
                     "binary_literals"} : Knows(a, n) = Knows(b, n)
    BY <1>2, <2>4, FeatureConditions
  <2> HIDE DEF Knows
  <2>6. /\ {p \in Cxx11Names : Knows(a, p[1])} = {p \in Cxx11Names : Knows(b, p[1])}
        /\ {p \in Cxx14Names : Knows(a, p[1])} = {p \in Cxx14Names : Knows(b, p[1])}
    BY <2>5
  <2>7. Told(a, Cxx11Names) = Told(b, Cxx11Names) /\ Told(a, Cxx14Names) = Told(b, Cxx14Names)
    BY <2>6
  <2>8. In11(a) = In11(b)
    BY <2>2, <2>3, <2>5
  <2>9. In14(a) = In14(b) /\ InC(a) = InC(b)
    BY <2>2, <2>3, <2>5
  <2> HIDE DEF Told, In11, In14, InC
  <2>10. Cxx11Told(a) = Cxx11Told(b) /\ Cxx14Told(a) = Cxx14Told(b) /\ CTold(a) = CTold(b)
    BY <2>7, <2>8, <2>9
  <2> HIDE DEF Cxx11Told, Cxx14Told, CTold
  <2>11. All(a) = All(b)
    BY <2>2, <2>3, <2>5, <2>10
  <2>12. QED
    BY <2>11
<1>3. /\ \A row \in Cxx11Names : row[2] \subseteq FeatureNames
      /\ \A row \in Cxx14Names : row[2] \subseteq FeatureNames
      /\ \A row \in In11(a) : row[2] \subseteq FeatureNames
      /\ \A row \in In14(a) : row[2] \subseteq FeatureNames
      /\ \A row \in InC(a) : row[2] \subseteq FeatureNames
  <2> HIDE DEF Knows
  <2>1. \A row \in Cxx11Names : row[2] \subseteq FeatureNames
    BY DEF Cxx11Names, FeatureNames, Defaulted
  <2>2. \A row \in Cxx14Names : row[2] \subseteq FeatureNames
    BY DEF Cxx14Names, FeatureNames, Defaulted
  <2>3. /\ \A row \in In11(a) : row[2] \subseteq FeatureNames
        /\ \A row \in In14(a) : row[2] \subseteq FeatureNames
        /\ \A row \in InC(a) : row[2] \subseteq FeatureNames
    BY DEF FeatureNames, Defaulted
  <2>4. QED
    BY <2>1, <2>2, <2>3
<1>4. /\ Given(In11(a)) \subseteq FeatureNames /\ Given(In14(a)) \subseteq FeatureNames
      /\ CTold(a) \subseteq FeatureNames
  <2> HIDE DEF In11, In14, InC
  <2>1. QED
    BY <1>3, GivenWithin
<1>5. Told(a, Cxx11Names) \subseteq FeatureNames /\ Told(a, Cxx14Names) \subseteq FeatureNames
  <2> HIDE DEF Knows
  <2>1. QED
    BY <1>3
<1>6. Cxx11Told(a) \subseteq FeatureNames /\ Cxx14Told(a) \subseteq FeatureNames
  <2> HIDE DEF Told, In11, In14
  <2>1. QED
    BY <1>4, <1>5
<1>7. /\ {"RESTRICTED_VLA", "THREADSAFE_STATICS"} \subseteq FeatureNames
      /\ {"BINARY_LITERALS"} \subseteq FeatureNames /\ {"VARIADIC_MACROS"} \subseteq FeatureNames
    BY DEF FeatureNames, Defaulted
<1> HIDE DEF Knows, Cxx11Told, Cxx14Told, CTold
<1>8. \A row \in All(a) : row[2] \subseteq FeatureNames
    BY <1>4, <1>6, <1>7
<1> HIDE DEF All
<1>9. Given(All(a)) \subseteq FeatureNames
    BY <1>8, GivenWithin
<1>10. QED
    BY <1>1, <1>2, <1>7, <1>9

LEMMA IntelFeatureNames ==
    ASSUME NEW a
    PROVE  /\ \A b : Alike(a, b) => IntelFeatures(a) = IntelFeatures(b)
           /\ IntelFeatures(a) \subseteq FeatureNames
<1> DEFINE In11(u) == value(u, "__cplusplus") >= 201103 \/ defined(u, {"__INTEL_CXX11_MODE__"})
           InC(u) == ~In11(u) /\ value(u, "__STDC_VERSION__") > 199901
           update(u) == 100 * Version(u, "INTEL") + value(u, "__INTEL_COMPILER_UPDATE")
           Plainly(u) == {<<Version(u, "INTEL") < 1200, {"NO_TEMPLATE_FRIENDS"}>>,
                          <<Version(u, "INTEL") >= 1310 /\ ~defined(u, {"_WIN32"}), {"BINARY_LITERALS"}>>,
                          <<InC(u), {"STATIC_ASSERT"}>>, <<InC(u) /\ HasThreads(u), {"THREAD_LOCAL"}>>}
           Updated(u) == {<<Version(u, "INTEL") >= 1210 /\ ~defined(u, {"_CHAR16T"}), {"UNICODE_STRINGS"}>>,
                          <<Version(u, "INTEL") >= 1500 /\ update(u) >= 150001, {"CONSTEXPR"}>>}
           always == {"RESTRICTED_VLA", "VARIADIC_MACROS", "THREADSAFE_STATICS"}
<1>1. \A u : IntelFeatures(u) =
          always \cup Given(Plainly(u)) \cup
            IF ~In11(u) THEN {} ELSE Since(IntelCxx11, Version(u, "INTEL")) \cup Given(Updated(u))
    BY DEF IntelFeatures
<1>2. ASSUME NEW b, Alike(a, b)
      PROVE  IntelFeatures(a) = IntelFeatures(b)
  <2>1. {"__cplusplus", "__STDC_VERSION__", "__INTEL_COMPILER_UPDATE", "__INTEL_CXX11_MODE__",
         "_WIN32", "_CHAR16T"} \subseteq CompilerReads
    BY DEF CompilerReads
  <2>2. /\ value(a, "__cplusplus") = value(b, "__cplusplus")
        /\ value(a, "__STDC_VERSION__") = value(b, "__STDC_VERSION__")
        /\ value(a, "__INTEL_COMPILER_UPDATE") = value(b, "__INTEL_COMPILER_UPDATE")
        /\ defined(a, {"__INTEL_CXX11_MODE__"}) = defined(b, {"__INTEL_CXX11_MODE__"})
        /\ defined(a, {"_WIN32"}) = defined(b, {"_WIN32"})
        /\ defined(a, {"_CHAR16T"}) = defined(b, {"_CHAR16T"})
    BY <1>2, <2>1, FeatureConditions
  <2>3. Version(a, "INTEL") = Version(b, "INTEL") /\ HasThreads(a) = HasThreads(b)
    BY <1>2, FeatureConditions
  <2>4. In11(a) = In11(b) /\ InC(a) = InC(b) /\ update(a) = update(b)
    BY <2>2, <2>3
  <2> HIDE DEF In11, InC, update
  <2>5. Plainly(a) = Plainly(b)
    BY <2>2, <2>3, <2>4
  <2>6. Updated(a) = Updated(b)
    BY <2>2, <2>3, <2>4
  <2> HIDE DEF Plainly, Updated
  <2>7. QED
    BY <1>1, <2>3, <2>4, <2>5, <2>6
<1> HIDE DEF In11, InC, update
<1>3. /\ \A row \in Plainly(a) : row[2] \subseteq FeatureNames
      /\ \A row \in Updated(a) : row[2] \subseteq FeatureNames
    BY DEF FeatureNames, Defaulted
<1>4. \A row \in IntelCxx11 : row[2] \subseteq FeatureNames
    BY DEF IntelCxx11, FeatureNames, Defaulted
<1>5. always \subseteq FeatureNames
    BY DEF FeatureNames, Defaulted
<1> HIDE DEF Plainly, Updated, always
<1>6. /\ Given(Plainly(a)) \subseteq FeatureNames /\ Given(Updated(a)) \subseteq FeatureNames
    BY <1>3, GivenWithin
<1>7. Since(IntelCxx11, Version(a, "INTEL")) \subseteq FeatureNames
    BY <1>4, SinceWithin
<1>8. IntelFeatures(a) \subseteq FeatureNames
    BY <1>1, <1>5, <1>6, <1>7
<1>9. QED
    BY <1>2, <1>8

LEMMA FeaturesNames ==
    ASSUME NEW a
    PROVE  /\ \A b : Alike(a, b) => Features(a) = Features(b)
           /\ Features(a) \subseteq FeatureNames
<1> DEFINE gnu(u) == Is(u, "GNU") /\ ~Is(u, "INTEL") /\ ~Is(u, "CLANG")
           clang(u) == Is(u, "CLANG") /\ ~Is(u, "INTEL") /\ ~Is(u, "MSVC")
           intel(u) == Is(u, "INTEL") /\ ~Is(u, "MSVC")
           table(u) == {<<gnu(u), GnuFeatures(u)>>, <<Is(u, "MSVC"), MsvcFeatures(u)>>,
                        <<clang(u), ClangFeatures(u)>>, <<intel(u), IntelFeatures(u)>>}
<1>1. \A u : Features(u) = Given(table(u))
    BY DEF Features
<1>2. ASSUME NEW b, Alike(a, b)
      PROVE  table(a) = table(b)
  <2>1. \A n \in {"GNU", "MSVC", "CLANG", "INTEL"} : Is(a, n) = Is(b, n)
    BY <1>2, FeatureConditions
  <2>2. Is(a, "MSVC") = Is(b, "MSVC") /\ gnu(a) = gnu(b) /\ clang(a) = clang(b) /\ intel(a) = intel(b)
    BY <2>1
  <2>3. GnuFeatures(a) = GnuFeatures(b) /\ MsvcFeatures(a) = MsvcFeatures(b)
    BY <1>2, GnuFeatureNames, MsvcFeatureNames
  <2>4. ClangFeatures(a) = ClangFeatures(b) /\ IntelFeatures(a) = IntelFeatures(b)
    BY <1>2, ClangFeatureNames, IntelFeatureNames
  <2> HIDE DEF gnu, clang, intel
  <2>5. QED
    BY <2>2, <2>3, <2>4
<1> HIDE DEF gnu, clang, intel
<1>3. \A row \in table(a) : row[2] \subseteq FeatureNames
  <2>1. GnuFeatures(a) \subseteq FeatureNames /\ MsvcFeatures(a) \subseteq FeatureNames
    BY GnuFeatureNames, MsvcFeatureNames
  <2>2. ClangFeatures(a) \subseteq FeatureNames /\ IntelFeatures(a) \subseteq FeatureNames
    BY ClangFeatureNames, IntelFeatureNames
  <2>3. QED
    BY <2>1, <2>2
<1> HIDE DEF table
<1>4. Given(table(a)) \subseteq FeatureNames
    BY <1>3, GivenWithin
<1>5. QED
    BY <1>1, <1>2, <1>4

LEMMA FeatureTestsLines ==
    ASSUME NEW a, NEW features \in SUBSET FeatureNames
    PROVE  /\ \A b : Alike(a, b) => Alike(FeatureTests(a, features), FeatureTests(b, features))
           /\ Extends(a, FeatureTests(a, features), FeatureMacros)
<1> DEFINE brought == {Feature(f) : f \in features}
           both == DefaultDelete(features)
           lacking == [x \in {Feature(f) : f \in Defaulted} |-> 0]
<1>1. \A u : FeatureTests(u, features) = DefineMissing(DefineAs(Define(u, brought), both), lacking)
    BY DEF FeatureTests
<1>2. brought \subseteq FeatureMacros
    BY DEF FeatureMacros
<1>3. DOMAIN both \subseteq FeatureMacros
  <2>1. "DEFAULT_DELETE_MEMBERS" \in FeatureNames /\ "_DEFAULT_DELETE_MEMBERS" \in FeatureNames
    BY DEF FeatureNames
  <2>2. QED
    BY <2>1 DEF DefaultDelete, FeatureMacros
<1>4. DOMAIN lacking \subseteq FeatureMacros
  <2>1. Defaulted \subseteq FeatureNames
    BY DEF FeatureNames
  <2>2. QED
    BY <2>1 DEF FeatureMacros
<1> HIDE DEF brought, both, lacking
<1>5. ASSUME NEW b, Alike(a, b)
      PROVE  Alike(FeatureTests(a, features), FeatureTests(b, features))
  <2>1. Alike(Define(a, brought), Define(b, brought))
    BY <1>5, AlikeLines
  <2>2. Alike(DefineAs(Define(a, brought), both), DefineAs(Define(b, brought), both))
    BY <2>1, AlikeLines
  <2>3. QED
    BY <1>1, <2>2, AlikeLines
<1>6. Extends(a, Define(a, brought), FeatureMacros)
    BY <1>2, ExtendsLines
<1>7. Extends(a, DefineAs(Define(a, brought), both), FeatureMacros)
    BY <1>3, <1>6, ExtendsLines, ExtendsTwice
<1>8. Extends(DefineAs(Define(a, brought), both), FeatureTests(a, features), FeatureMacros)
    BY <1>1, <1>4, ExtendsLines
<1>9. Extends(a, FeatureTests(a, features), FeatureMacros)
    BY <1>7, <1>8, ExtendsTwice
<1>10. QED
    BY <1>5, <1>9

LEMMA CompilerTestLines ==
    ASSUME NEW a
    PROVE  LET Own(u) == StandardTests(Compilers(u)) IN
           /\ \A b : Alike(a, b) => Alike(Own(a), Own(b))
           /\ Extends(a, Own(a), CompilerMacros \cup FeatureMacros)
<1> DEFINE Own(u) == StandardTests(Compilers(u))
           Standard(u) == DefineAs(Compilers(u), Standards(Compilers(u)))
<1>1. \A u : Own(u) = FeatureTests(Standard(u), Features(Standard(u)))
    BY DEF StandardTests, CompilerTests
<1>2. ASSUME NEW b, Alike(a, b)
      PROVE  Alike(Own(a), Own(b))
  <2>1. Alike(Compilers(a), Compilers(b))
    BY <1>2, CompilersLines
  <2>2. Standards(Compilers(a)) = Standards(Compilers(b))
    BY <2>1, StandardsLines
  <2>3. Alike(Standard(a), Standard(b))
    BY <2>1, <2>2, AlikeLines
  <2> HIDE DEF Standard, Own
  <2>4. Features(Standard(a)) = Features(Standard(b))
    BY <2>3, FeaturesNames
  <2>5. Features(Standard(a)) \in SUBSET FeatureNames
    BY FeaturesNames
  <2>6. Alike(FeatureTests(Standard(a), Features(Standard(a))),
              FeatureTests(Standard(b), Features(Standard(a))))
    BY <2>3, <2>5, FeatureTestsLines
  <2>7. QED
    BY <1>1, <2>4, <2>6
<1>3. Extends(a, Compilers(a), CompilerMacros \cup FeatureMacros)
    BY CompilersLines, ExtendsMore
<1>4. Extends(Compilers(a), Standard(a), CompilerMacros \cup FeatureMacros)
    BY StandardsLines, ExtendsLines
<1> HIDE DEF Standard, Own
<1>5. Features(Standard(a)) \in SUBSET FeatureNames
    BY FeaturesNames
<1>6. Extends(Standard(a), Own(a), CompilerMacros \cup FeatureMacros)
    BY <1>1, <1>5, FeatureTestsLines, ExtendsMore
<1>7. Extends(a, Own(a), CompilerMacros \cup FeatureMacros)
    BY <1>3, <1>4, <1>6, ExtendsTwice
<1>8. QED
    BY <1>2, <1>7 DEF Own
-----------------------------------------------------------------------------
(* pctkMacros.h.                                                           *)
LEMMA MacroReadNames == MacrosReads \subseteq ReadNames
    BY DEF ReadNames

LEMMA MacroConditions ==
    ASSUME NEW a, NEW b, Alike(a, b)
    PROVE  /\ Cpp98(a) = Cpp98(b) /\ C11(a) = C11(b) /\ XlcOrSun(a) = XlcOrSun(b)
           /\ \A version : Msvc(a, version) = Msvc(b, version)
           /\ \A major, minor : GnucCheckVersion(a, major, minor) = GnucCheckVersion(b, major, minor)
           /\ \A what \in {"attribute", "feature", "extension", "builtin"} :
                \A name \in ReadNames : Has(a, what, name) = Has(b, what, name)
<1> DEFINE names == {"__cplusplus", "__STDC_VERSION__", "_MSC_VER", "__GNUC__", "__GNUC_MINOR__",
                     "__xlC__", "__SUNPRO_CC"}
<1>1. names \subseteq CompilerReads \cup MacrosReads
    BY DEF CompilerReads, MacrosReads
<1>2. names \subseteq ReadNames
    BY <1>1, CompilerReadNames, MacroReadNames
<1>3. Agree(a, b, names)
    BY <1>2, AlikeTests
<1>4. /\ \A S \in SUBSET names : defined(a, S) = defined(b, S)
      /\ \A x \in names : value(a, x) = value(b, x)
    BY <1>3, AgreeTests
<1>5. /\ defined(a, {"__cplusplus"}) = defined(b, {"__cplusplus"})
      /\ value(a, "__STDC_VERSION__") = value(b, "__STDC_VERSION__")
      /\ value(a, "__GNUC__") = value(b, "__GNUC__")
      /\ value(a, "__GNUC_MINOR__") = value(b, "__GNUC_MINOR__")
      /\ value(a, "__xlC__") = value(b, "__xlC__")
      /\ value(a, "__SUNPRO_CC") = value(b, "__SUNPRO_CC")
    BY <1>4
<1>6. Cpp98(a) = Cpp98(b) /\ C11(a) = C11(b) /\ XlcOrSun(a) = XlcOrSun(b)
    BY <1>5 DEF Cpp98, C11, XlcOrSun
<1>7. \A major, minor : GnucCheckVersion(a, major, minor) = GnucCheckVersion(b, major, minor)
    BY <1>5 DEF GnucCheckVersion
<1>8. \A version : Msvc(a, version) = Msvc(b, version)
    BY <1>3 DEF Msvc, Agree, Same, defined
<1>9. ASSUME NEW what \in {"attribute", "feature", "extension", "builtin"}, NEW name \in ReadNames
      PROVE  Has(a, what, name) = Has(b, what, name)
  <2>1. ("__has_" \o what) \in ReadNames
    BY MacroReadNames DEF MacrosReads
  <2>2. {"__has_" \o what} \in SUBSET ReadNames /\ {name} \in SUBSET ReadNames
    BY <2>1
  <2>3. defined(a, {"__has_" \o what}) = defined(b, {"__has_" \o what})
        /\ defined(a, {name}) = defined(b, {name})
    BY <2>2, AlikeTests
  <2>4. QED
    BY <2>3 DEF Has
<1>10. QED
    BY <1>6, <1>7, <1>8, <1>9

(* What __has_attribute() tells.                                           *)
LEMMA AttributesAlike ==
    ASSUME NEW a, NEW b, Alike(a, b)
    PROVE  \A n \in {"__noinline__", "__pure__", "__malloc__", "__sentinel__", "__alloc_size__",
                     "__format__", "__format_arg__", "__const__", "__unused__",
                     "__no_instrument_function__", "fallthrough", "may_alias", "warn_unused_result",
                     "__noreturn__", "__deprecated__"} : HasAttribute(a, n) = HasAttribute(b, n)
<1> DEFINE names == {"__noinline__", "__pure__", "__malloc__", "__sentinel__", "__alloc_size__",
                     "__format__", "__format_arg__", "__const__", "__unused__",
                     "__no_instrument_function__", "fallthrough", "may_alias", "warn_unused_result",
                     "__noreturn__", "__deprecated__"}
<1>1. names \subseteq ReadNames
    BY MacroReadNames DEF MacrosReads
<1> HIDE DEF names
<1>2. \A n \in names : HasAttribute(a, n) = HasAttribute(b, n)
    BY <1>1, MacroConditions DEF HasAttribute
<1>3. QED
    BY <1>2 DEF names

LEMMA KeywordsAlike ==
    ASSUME NEW a, NEW b, Alike(a, b)
    PROVE  Keywords(a) = Keywords(b) /\ AlignOf(a) = AlignOf(b)
<1> DEFINE features == {"NULLPTR", "CONSTEXPR", "EXPLICIT_OVERRIDES", "NOEXCEPT", "DEFAULT_MEMBERS",
                        "DELETE_MEMBERS", "ALIGNAS", "RVALUE_REFS"}
           names == [NULLPTR |-> {"NULLPTR"}, CONSTEXPR |-> {"CONSTEXPR", "RELAXED_CONSTEXPR"},
                     EXPLICIT_OVERRIDES |-> {"OVERRIDE", "FINAL"},
                     NOEXCEPT |-> {"NOEXCEPT", "NOEXCEPT_EXPR", "NOTHROW"},
                     DEFAULT_MEMBERS |-> {"EPCTK_DEFAULT", "EPCTK_DEFAULT_FUNC"},
                     DELETE_MEMBERS |-> {"EPCTK_DELETE", "EPCTK_DELETE_FUNC"},
                     ALIGNAS |-> {"ALIGN"}, RVALUE_REFS |-> {"DISABLE_MOVE"}]
           Given11(u) == {g \in DOMAIN names : value(u, Feature(g)) = 1}
           all == As(UNION {names[f] : f \in DOMAIN names}, "plain")
<1>1. features \cup {"ALIGNOF"} \subseteq Defaulted
    BY DEF Defaulted
<1>2. \A f \in features \cup {"ALIGNOF"} : Feature(f) \in ReadNames
    BY <1>1, CompilerReadNames DEF FeatureMacros, FeatureNames
<1>3. \A f \in features \cup {"ALIGNOF"} : value(a, Feature(f)) = value(b, Feature(f))
    BY <1>2, AlikeTests
<1>4. DOMAIN names = features
    OBVIOUS
<1>5. Given11(a) = Given11(b)
    BY <1>3, <1>4
<1>6. \A u : Keywords(u) = Join(all, As(UNION {names[f] : f \in Given11(u)}, "cxx11"))
    BY DEF Keywords
<1> HIDE DEF names, Given11, all
<1>7. Keywords(a) = Keywords(b)
    BY <1>5, <1>6
<1>8. {"_MSC_VER", "__GNUC__"} \subseteq ReadNames
    BY CompilerReadNames DEF CompilerReads
<1>9. /\ defined(a, {"_MSC_VER"}) = defined(b, {"_MSC_VER"})
      /\ defined(a, {"__GNUC__"}) = defined(b, {"__GNUC__"})
    BY <1>8, AlikeTests
<1>10. AlignOf(a) = AlignOf(b)
    BY <1>3, <1>9, MacroConditions DEF AlignOf
<1>11. QED
    BY <1>7, <1>10

LEMMA MacroTestsAlike ==
    ASSUME NEW a, NEW b, Alike(a, b)
    PROVE  /\ \A n \in {"__cplusplus", "PCTK_COMPILER_STATIC_ASSERT", "PCTK_OS_WIN32", "PCTK_OS_WIN",
                        "PCTK_OS_DARWIN", "__GNUC__", "__OPTIMIZE__", "__clang__", "_MSC_VER",
                        "__GI_SCANNER__", "__STDC_VERSION__", "PCTK_SHARED", "__APPLE__", "__ICC",
                        "__clang_analyzer__", "__COVERITY__", "__SUNPRO_C"} :
                defined(a, {n}) = defined(b, {n})
           /\ \A n \in {"__STDC_VERSION__", "__cplusplus"} : value(a, n) = value(b, n)
           /\ \A n \in {"GNU", "MSVC", "CLANG", "INTEL"} : Version(a, n) = Version(b, n)
           /\ \A n \in {"GNU", "MSVC", "CLANG", "INTEL", "MINGW"} : Is(a, n) = Is(b, n)
<1> DEFINE tests == {"__cplusplus", "PCTK_COMPILER_STATIC_ASSERT", "PCTK_OS_WIN32", "PCTK_OS_WIN",
                     "PCTK_OS_DARWIN", "__GNUC__", "__OPTIMIZE__", "__clang__", "_MSC_VER",
                     "__GI_SCANNER__", "__STDC_VERSION__", "PCTK_SHARED", "__APPLE__", "__ICC",
                     "__clang_analyzer__", "__COVERITY__", "__SUNPRO_C"}
<1>1. tests \subseteq CompilerReads \cup MacrosReads
    BY DEF CompilerReads, MacrosReads
<1>2. tests \subseteq ReadNames
    BY <1>1, CompilerReadNames, MacroReadNames
<1> HIDE DEF tests
<1>3. /\ \A n \in tests : defined(a, {n}) = defined(b, {n})
      /\ \A n \in tests : value(a, n) = value(b, n)
    BY <1>2, AlikeTests
<1>4. QED
    BY <1>3, FeatureConditions DEF tests

LEMMA PlatformAlike ==
    ASSUME NEW a, NEW b, Alike(a, b)
    PROVE  Platform(a) = Platform(b) /\ StaticAssert(a) = StaticAssert(b)
<1>1. /\ defined(a, {"PCTK_OS_WIN32"}) = defined(b, {"PCTK_OS_WIN32"})
      /\ defined(a, {"PCTK_OS_WIN"}) = defined(b, {"PCTK_OS_WIN"})
      /\ defined(a, {"PCTK_OS_DARWIN"}) = defined(b, {"PCTK_OS_DARWIN"})
      /\ defined(a, {"PCTK_COMPILER_STATIC_ASSERT"}) = defined(b, {"PCTK_COMPILER_STATIC_ASSERT"})
    BY MacroTestsAlike
<1>2. Cpp98(a) = Cpp98(b)
    BY MacroConditions
<1>3. Platform(a) = Platform(b)
    BY <1>1 DEF Platform
<1>4. StaticAssert(a) = StaticAssert(b)
    BY <1>1, <1>2 DEF StaticAssert, If
<1>5. QED
    BY <1>3, <1>4

LEMMA StatementsAlike ==
    ASSUME NEW a, NEW b, Alike(a, b)
    PROVE  /\ Statements(a) = Statements(b) /\ TypeOf(a) = TypeOf(b) /\ CAlignOf(a) = CAlignOf(b)
           /\ CStaticAssert(a) = CStaticAssert(b)
<1>1. /\ value(a, "__STDC_VERSION__") = value(b, "__STDC_VERSION__")
      /\ Version(a, "GNU") = Version(b, "GNU")
      /\ defined(a, {"__GNUC__"}) = defined(b, {"__GNUC__"})
      /\ defined(a, {"__OPTIMIZE__"}) = defined(b, {"__OPTIMIZE__"})
      /\ defined(a, {"__clang__"}) = defined(b, {"__clang__"})
      /\ defined(a, {"_MSC_VER"}) = defined(b, {"_MSC_VER"})
      /\ defined(a, {"__GI_SCANNER__"}) = defined(b, {"__GI_SCANNER__"})
      /\ defined(a, {"__STDC_VERSION__"}) = defined(b, {"__STDC_VERSION__"})
    BY MacroTestsAlike
<1>2. /\ C11(a) = C11(b) /\ XlcOrSun(a) = XlcOrSun(b)
      /\ Msvc(a, 1301) = Msvc(b, 1301) /\ Msvc(a, 1500) = Msvc(b, 1500)
      /\ GnucCheckVersion(a, 4, 8) = GnucCheckVersion(b, 4, 8)
    BY MacroConditions
<1>3. Statements(a) = Statements(b)
    BY <1>1, <1>2 DEF Statements, If
<1>4. TypeOf(a) = TypeOf(b)
    BY <1>1, <1>2 DEF TypeOf, If
<1>5. CAlignOf(a) = CAlignOf(b)
    BY <1>1, <1>2 DEF CAlignOf, If
<1>6. "c_static_assert" \in ReadNames
    BY CompilerReadNames DEF CompilerReads
<1>7. /\ Has(a, "feature", "c_static_assert") = Has(b, "feature", "c_static_assert")
      /\ Has(a, "extension", "c_static_assert") = Has(b, "extension", "c_static_assert")
    BY <1>6, MacroConditions
<1>8. CStaticAssert(a) = CStaticAssert(b)
    BY <1>1, <1>2, <1>7 DEF CStaticAssert, If
<1>9. QED
    BY <1>3, <1>4, <1>5, <1>8

LEMMA DeclarationsAlike ==
    ASSUME NEW a, NEW b, Alike(a, b)
    PROVE  /\ Visibility(a) = Visibility(b) /\ ExternVar(a) = ExternVar(b) /\ Inline(a) = Inline(b)
           /\ Extension(a) = Extension(b) /\ Aligned(a) = Aligned(b)
           /\ Constructors(a) = Constructors(b) /\ Analyzer(a) = Analyzer(b)
<1>1. /\ Is(a, "MINGW") = Is(b, "MINGW") /\ Is(a, "MSVC") = Is(b, "MSVC")
      /\ Is(a, "CLANG") = Is(b, "CLANG") /\ Is(a, "GNU") = Is(b, "GNU")
      /\ Version(a, "GNU") = Version(b, "GNU")
    BY MacroTestsAlike
<1>2. /\ defined(a, {"PCTK_OS_WIN32"}) = defined(b, {"PCTK_OS_WIN32"})
      /\ defined(a, {"PCTK_SHARED"}) = defined(b, {"PCTK_SHARED"})
      /\ defined(a, {"_MSC_VER"}) = defined(b, {"_MSC_VER"})
      /\ defined(a, {"__SUNPRO_C"}) = defined(b, {"__SUNPRO_C"})
      /\ defined(a, {"__clang_analyzer__"}) = defined(b, {"__clang_analyzer__"})
      /\ defined(a, {"__COVERITY__"}) = defined(b, {"__COVERITY__"})
    BY MacroTestsAlike
<1>3. /\ GnucCheckVersion(a, 2, 8) = GnucCheckVersion(b, 2, 8)
      /\ GnucCheckVersion(a, 2, 7) = GnucCheckVersion(b, 2, 7)
    BY MacroConditions
<1>4. HasAttribute(a, "__noinline__") = HasAttribute(b, "__noinline__")
    BY AttributesAlike
<1>5. Visibility(a) = Visibility(b)
    BY <1>1 DEF Visibility, If
<1>6. ExternVar(a) = ExternVar(b)
    BY <1>2 DEF ExternVar, If
<1>7. Inline(a) = Inline(b)
    BY <1>1, <1>4 DEF Inline
<1>8. Extension(a) = Extension(b)
    BY <1>3 DEF Extension, If
<1>9. Aligned(a) = Aligned(b)
    BY <1>1 DEF Aligned, If
<1>10. Constructors(a) = Constructors(b)
    BY <1>2, <1>3 DEF Constructors
<1>11. "attribute_analyzer_noreturn" \in ReadNames
    BY MacroReadNames DEF MacrosReads
<1>12. Has(a, "feature", "attribute_analyzer_noreturn") = Has(b, "feature", "attribute_analyzer_noreturn")
    BY <1>11, MacroConditions
<1>13. Analyzer(a) = Analyzer(b)
    BY <1>2, <1>12 DEF Analyzer, If
<1>14. QED
    BY <1>5, <1>6, <1>7, <1>8, <1>9, <1>10, <1>13

LEMMA AttributeMacrosAlike ==
    ASSUME NEW a, NEW b, Alike(a, b)
    PROVE  /\ FunctionAttributes(a) = FunctionAttributes(b)
           /\ FormatAttributes(a) = FormatAttributes(b)
           /\ OtherAttributes(a) = OtherAttributes(b) /\ TypeAttributes(a) = TypeAttributes(b)
<1> DEFINE attribute == [ATTR_PURE |-> "__pure__", ATTR_MALLOC |-> "__malloc__",
                         ATTR_NULL_TERMINATED |-> "__sentinel__", ATTR_ALLOC_SIZE |-> "__alloc_size__",
                         ATTR_ALLOC_SIZE2 |-> "__alloc_size__"]
           Told(u, x) == \E t \in DOMAIN attribute : x = "PCTK_" \o t /\ HasAttribute(u, attribute[t])
           Spelt(u) == [x \in {"PCTK_" \o t : t \in DOMAIN attribute} |-> If(Told(u, x), "gnu")]
<1>1. \A t \in DOMAIN attribute : HasAttribute(a, attribute[t]) = HasAttribute(b, attribute[t])
    BY AttributesAlike
<1>2. \A u : FunctionAttributes(u) = Spelt(u)
    BY DEF FunctionAttributes
<1> HIDE DEF attribute
<1>3. \A x : Told(a, x) <=> Told(b, x)
    BY <1>1
<1> HIDE DEF Told
<1>4. \A x : If(Told(a, x), "gnu") = If(Told(b, x), "gnu")
    BY <1>3 DEF If
<1>5. Spelt(a) = Spelt(b)
    BY <1>4
<1>6. FormatAttributes(a) = FormatAttributes(b)
  <2>1. /\ HasAttribute(a, "__format__") = HasAttribute(b, "__format__")
        /\ HasAttribute(a, "__format_arg__") = HasAttribute(b, "__format_arg__")
    BY AttributesAlike
  <2>2. QED
    BY <2>1 DEF FormatAttributes, If
<1>7. OtherAttributes(a) = OtherAttributes(b)
  <2>1. /\ HasAttribute(a, "__const__") = HasAttribute(b, "__const__")
        /\ HasAttribute(a, "__unused__") = HasAttribute(b, "__unused__")
        /\ HasAttribute(a, "__no_instrument_function__") = HasAttribute(b, "__no_instrument_function__")
        /\ HasAttribute(a, "fallthrough") = HasAttribute(b, "fallthrough")
    BY AttributesAlike
  <2>2. QED
    BY <2>1 DEF OtherAttributes, If
<1>8. TypeAttributes(a) = TypeAttributes(b)
  <2>1. /\ HasAttribute(a, "may_alias") = HasAttribute(b, "may_alias")
        /\ HasAttribute(a, "warn_unused_result") = HasAttribute(b, "warn_unused_result")
    BY AttributesAlike
  <2>2. QED
    BY <2>1 DEF TypeAttributes, If
<1>9. QED
    BY <1>2, <1>5, <1>6, <1>7, <1>8

LEMMA DeprecationsAlike ==
    ASSUME NEW a, NEW b, Alike(a, b)
    PROVE  /\ NoReturn(a) = NoReturn(b) /\ Deprecated(a) = Deprecated(b)
           /\ Pragma(a) = Pragma(b) /\ Warnings(a) = Warnings(b)
           /\ DeprecatedFor(a) = DeprecatedFor(b) /\ IgnoreDeprecations(a) = IgnoreDeprecations(b)
<1>1. /\ Is(a, "INTEL") = Is(b, "INTEL") /\ Is(a, "MSVC") = Is(b, "MSVC")
      /\ Is(a, "CLANG") = Is(b, "CLANG")
      /\ Version(a, "GNU") = Version(b, "GNU") /\ Version(a, "INTEL") = Version(b, "INTEL")
      /\ value(a, "__cplusplus") = value(b, "__cplusplus")
    BY MacroTestsAlike
<1>2. /\ defined(a, {"__clang__"}) = defined(b, {"__clang__"})
      /\ defined(a, {"_MSC_VER"}) = defined(b, {"_MSC_VER"})
      /\ defined(a, {"__APPLE__"}) = defined(b, {"__APPLE__"})
      /\ defined(a, {"__ICC"}) = defined(b, {"__ICC"})
    BY MacroTestsAlike
<1>3. /\ GnucCheckVersion(a, 3, 1) = GnucCheckVersion(b, 3, 1)
      /\ GnucCheckVersion(a, 4, 5) = GnucCheckVersion(b, 4, 5)
      /\ GnucCheckVersion(a, 4, 6) = GnucCheckVersion(b, 4, 6)
      /\ Msvc(a, 1200) = Msvc(b, 1200) /\ Msvc(a, 1300) = Msvc(b, 1300)
      /\ Msvc(a, 1500) = Msvc(b, 1500) /\ C11(a) = C11(b)
    BY MacroConditions
<1>4. /\ HasAttribute(a, "__noreturn__") = HasAttribute(b, "__noreturn__")
      /\ HasAttribute(a, "__deprecated__") = HasAttribute(b, "__deprecated__")
    BY AttributesAlike
<1>5. NoReturn(a) = NoReturn(b)
    BY <1>1, <1>3, <1>4 DEF NoReturn, If
<1>6. Deprecated(a) = Deprecated(b)
    BY <1>1, <1>2, <1>3, <1>4 DEF Deprecated, If
<1>7. Pragma(a) = Pragma(b)
    BY <1>1, <1>2 DEF Pragma
<1>8. Warnings(a) = Warnings(b)
    BY <1>1, <1>7 DEF Warnings, If
<1>9. DeprecatedFor(a) = DeprecatedFor(b)
    BY <1>2, <1>3, <1>6 DEF DeprecatedFor
<1>10. IgnoreDeprecations(a) = IgnoreDeprecations(b)
    BY <1>2, <1>3 DEF IgnoreDeprecations, If
<1>11. QED
    BY <1>5, <1>6, <1>7, <1>8, <1>9, <1>10

LEMMA SpellingsAlike ==
    ASSUME NEW a, NEW b, Alike(a, b)
    PROVE  Spellings(a) = Spellings(b)
    BY KeywordsAlike, PlatformAlike, StatementsAlike, DeclarationsAlike, AttributeMacrosAlike,
       DeprecationsAlike DEF Spellings

(* What the spellings define are names of this header.                     *)
Spells(f) == DOMAIN f \subseteq SpellingMacros

LEMMA SpellsAs ==
    /\ Spells(<< >>)
    /\ \A names \in SUBSET SpellingNames : \A language : Spells(As(names, language))
    /\ \A f, g : Spells(f) /\ Spells(g) => Spells(Join(f, g))
<1>1. Spells(<< >>)
    BY DEF Spells
<1>2. ASSUME NEW names \in SUBSET SpellingNames, NEW language
      PROVE  Spells(As(names, language))
    BY DEF As, SpellingMacros, Spells
<1>3. ASSUME NEW f, NEW g, Spells(f), Spells(g)
      PROVE  Spells(Join(f, g))
    BY <1>3 DEF Join, DefineAs, Spells
<1>4. QED
    BY <1>1, <1>2, <1>3

LEMMA PlatformNames ==
    ASSUME NEW a
    PROVE  Spells(Platform(a))
<1>1. /\ {"DIR_SEPARATOR"} \in SUBSET SpellingNames
      /\ {"SEARCHPATH_SEPARATOR"} \in SUBSET SpellingNames
      /\ {"NEWLINE"} \in SUBSET SpellingNames
      /\ {"LIB_PREFIX"} \in SUBSET SpellingNames
      /\ {"LIB_EXT"} \in SUBSET SpellingNames
    BY DEF SpellingNames
<1>2. \A language :
        /\ Spells(As({"DIR_SEPARATOR"}, language))
        /\ Spells(As({"SEARCHPATH_SEPARATOR"}, language))
        /\ Spells(As({"NEWLINE"}, language))
        /\ Spells(As({"LIB_PREFIX"}, language))
        /\ Spells(As({"LIB_EXT"}, language))
    BY <1>1, SpellsAs
<1>3. Spells(Platform(a))
    BY <1>2, SpellsAs DEF Platform
<1>4. QED
    BY <1>3

LEMMA StatementNames ==
    ASSUME NEW a
    PROVE  Spells(AlignOf(a)) /\ Spells(StaticAssert(a)) /\ Spells(Statements(a)) /\ Spells(TypeOf(a)) /\ Spells(CAlignOf(a)) /\ Spells(CStaticAssert(a))
<1>1. /\ {"ALIGNOF"} \in SUBSET SpellingNames
      /\ {"STATIC_ASSERT", "STATIC_ASSERT_X"} \in SUBSET SpellingNames
      /\ {"STMT_END"} \in SUBSET SpellingNames
      /\ {"STRFUNC"} \in SUBSET SpellingNames
      /\ {"LIKELY", "UNLIKELY"} \in SUBSET SpellingNames
      /\ {"TYPEOF"} \in SUBSET SpellingNames
      /\ {"C_ALIGNOF"} \in SUBSET SpellingNames
      /\ {"C_STATIC_ASSERT", "C_STATIC_ASSERT_X"} \in SUBSET SpellingNames
    BY DEF SpellingNames
<1>2. \A language :
        /\ Spells(As({"ALIGNOF"}, language))
        /\ Spells(As({"STATIC_ASSERT", "STATIC_ASSERT_X"}, language))
        /\ Spells(As({"STMT_END"}, language))
        /\ Spells(As({"STRFUNC"}, language))
        /\ Spells(As({"LIKELY", "UNLIKELY"}, language))
        /\ Spells(As({"TYPEOF"}, language))
        /\ Spells(As({"C_ALIGNOF"}, language))
        /\ Spells(As({"C_STATIC_ASSERT", "C_STATIC_ASSERT_X"}, language))
    BY <1>1, SpellsAs
<1>3. Spells(AlignOf(a))
  <2>1. Spells([x \in {"UTK_C_ALIGNOF"} |-> "gnu"])
    BY DEF Spells, SpellingMacros
  <2>2. QED
    BY <1>2, <2>1, SpellsAs DEF AlignOf
<1>4. Spells(StaticAssert(a))
    BY <1>2, SpellsAs DEF StaticAssert
<1>5. Spells(Statements(a))
    BY <1>2, SpellsAs DEF Statements
<1>6. Spells(TypeOf(a))
    BY <1>2, SpellsAs DEF TypeOf
<1>7. Spells(CAlignOf(a))
    BY <1>2, SpellsAs DEF CAlignOf
<1>8. Spells(CStaticAssert(a))
    BY <1>2, SpellsAs DEF CStaticAssert
<1>9. QED
    BY <1>3, <1>4, <1>5, <1>6, <1>7, <1>8

LEMMA DeclarationNames ==
    ASSUME NEW a
    PROVE  Spells(Visibility(a)) /\ Spells(ExternVar(a)) /\ Spells(Inline(a)) /\ Spells(Extension(a)) /\ Spells(Aligned(a)) /\ Spells(Analyzer(a)) /\ Spells(Constructors(a))
<1>1. /\ {"DECL_EXPORT", "DECL_IMPORT"} \in SUBSET SpellingNames
      /\ {"DECL_HIDDEN"} \in SUBSET SpellingNames
      /\ {"EXTERN_VAR"} \in SUBSET SpellingNames
      /\ {"FORCE_INLINE", "ALWAYS_INLINE"} \in SUBSET SpellingNames
      /\ ({"FORCE_INLINE", "ALWAYS_INLINE"} \cup {"NO_INLINE"}) \in SUBSET SpellingNames
      /\ {"NO_INLINE"} \in SUBSET SpellingNames
      /\ {"EXTENSION"} \in SUBSET SpellingNames
      /\ {"ATTR_ALIGNED"} \in SUBSET SpellingNames
      /\ {"ANALYZER_NORETURN"} \in SUBSET SpellingNames
      /\ {"DECL_CONSTRUCTOR", "DECL_DESTRUCTOR"} \in SUBSET SpellingNames
    BY DEF SpellingNames
<1>2. \A language :
        /\ Spells(As({"DECL_EXPORT", "DECL_IMPORT"}, language))
        /\ Spells(As({"DECL_HIDDEN"}, language))
        /\ Spells(As({"EXTERN_VAR"}, language))
        /\ Spells(As({"FORCE_INLINE", "ALWAYS_INLINE"}, language))
        /\ Spells(As({"FORCE_INLINE", "ALWAYS_INLINE"} \cup {"NO_INLINE"}, language))
        /\ Spells(As({"NO_INLINE"}, language))
        /\ Spells(As({"EXTENSION"}, language))
        /\ Spells(As({"ATTR_ALIGNED"}, language))
        /\ Spells(As({"ANALYZER_NORETURN"}, language))
        /\ Spells(As({"DECL_CONSTRUCTOR", "DECL_DESTRUCTOR"}, language))
    BY <1>1, SpellsAs
<1>3. Spells(Visibility(a))
    BY <1>2, SpellsAs DEF Visibility
<1>4. Spells(ExternVar(a))
    BY <1>2, SpellsAs DEF ExternVar
<1>5. Spells(Inline(a))
    BY <1>2, SpellsAs DEF Inline
<1>6. Spells(Extension(a))
    BY <1>2, SpellsAs DEF Extension
<1>7. Spells(Aligned(a))
    BY <1>2, SpellsAs DEF Aligned
<1>8. Spells(Analyzer(a))
    BY <1>2, SpellsAs DEF Analyzer
<1>9. Spells(Constructors(a))
    BY <1>2, SpellsAs DEF Constructors
<1>10. QED
    BY <1>3, <1>4, <1>5, <1>6, <1>7, <1>8, <1>9

LEMMA AttributeNames ==
    ASSUME NEW a
    PROVE  Spells(FormatAttributes(a)) /\ Spells(OtherAttributes(a)) /\ Spells(TypeAttributes(a)) /\ Spells(NoReturn(a))
<1>1. /\ {"ATTR_PRINTF", "ATTR_SCANF", "ATTR_STRFTIME"} \in SUBSET SpellingNames
      /\ {"ATTR_FORMAT"} \in SUBSET SpellingNames
      /\ {"ATTR_CONST"} \in SUBSET SpellingNames
      /\ {"ATTR_UNUSED"} \in SUBSET SpellingNames
      /\ {"ATTR_NO_INSTRUMENT"} \in SUBSET SpellingNames
      /\ {"ATTR_FALLTHROUGH"} \in SUBSET SpellingNames
      /\ {"ATTR_MAY_ALIAS"} \in SUBSET SpellingNames
      /\ {"ATTR_WARN_UNUSED_RESULT"} \in SUBSET SpellingNames
      /\ {"ATTR_NORETURN"} \in SUBSET SpellingNames
      /\ {"ATTR_NORETURN_FUNCPTR"} \in SUBSET SpellingNames
      /\ {"ATTR_NORETURN", "ATTR_NORETURN_FUNCPTR"} \in SUBSET SpellingNames
    BY DEF SpellingNames
<1>2. \A language :
        /\ Spells(As({"ATTR_PRINTF", "ATTR_SCANF", "ATTR_STRFTIME"}, language))
        /\ Spells(As({"ATTR_FORMAT"}, language))
        /\ Spells(As({"ATTR_CONST"}, language))
        /\ Spells(As({"ATTR_UNUSED"}, language))
        /\ Spells(As({"ATTR_NO_INSTRUMENT"}, language))
        /\ Spells(As({"ATTR_FALLTHROUGH"}, language))
        /\ Spells(As({"ATTR_MAY_ALIAS"}, language))
        /\ Spells(As({"ATTR_WARN_UNUSED_RESULT"}, language))
        /\ Spells(As({"ATTR_NORETURN"}, language))
        /\ Spells(As({"ATTR_NORETURN_FUNCPTR"}, language))
        /\ Spells(As({"ATTR_NORETURN", "ATTR_NORETURN_FUNCPTR"}, language))
    BY <1>1, SpellsAs
<1>3. Spells(FormatAttributes(a))
    BY <1>2, SpellsAs DEF FormatAttributes
<1>4. Spells(OtherAttributes(a))
    BY <1>2, SpellsAs DEF OtherAttributes
<1>5. Spells(TypeAttributes(a))
    BY <1>2, SpellsAs DEF TypeAttributes
<1>6. Spells(NoReturn(a))
    BY <1>2, SpellsAs DEF NoReturn
<1>7. QED
    BY <1>3, <1>4, <1>5, <1>6

LEMMA DeprecationNames ==
    ASSUME NEW a
    PROVE  Spells(Deprecated(a)) /\ Spells(Pragma(a)) /\ Spells(Warnings(a)) /\ Spells(DeprecatedFor(a)) /\ Spells(IgnoreDeprecations(a))
<1>1. /\ {"ATTR_DEPRECATED", "ATTR_DEPRECATED_X"} \in SUBSET SpellingNames
      /\ {"PRAGMA"} \in SUBSET SpellingNames
      /\ {"WARNING_PUSH", "WARNING_POP", "WARNING_DISABLE_DEPRECATED",
                      "IGNORE_DEPRECATIONS"} \in SUBSET SpellingNames
      /\ {"WARNING_DISABLE_FLOAT_COMPARE"} \in SUBSET SpellingNames
      /\ {"WARNING_DISABLE_INVALID_OFFSETOF"} \in SUBSET SpellingNames
      /\ {"ATTR_DEPRECATED_FOR"} \in SUBSET SpellingNames
      /\ {"BEGIN_IGNORE_DEPRECATIONS", "END_IGNORE_DEPRECATIONS"} \in SUBSET SpellingNames
    BY DEF SpellingNames
<1>2. \A language :
        /\ Spells(As({"ATTR_DEPRECATED", "ATTR_DEPRECATED_X"}, language))
        /\ Spells(As({"PRAGMA"}, language))
        /\ Spells(As({"WARNING_PUSH", "WARNING_POP", "WARNING_DISABLE_DEPRECATED",
                      "IGNORE_DEPRECATIONS"}, language))
        /\ Spells(As({"WARNING_DISABLE_FLOAT_COMPARE"}, language))
        /\ Spells(As({"WARNING_DISABLE_INVALID_OFFSETOF"}, language))
        /\ Spells(As({"ATTR_DEPRECATED_FOR"}, language))
        /\ Spells(As({"BEGIN_IGNORE_DEPRECATIONS", "END_IGNORE_DEPRECATIONS"}, language))
    BY <1>1, SpellsAs
<1>3. Spells(Deprecated(a))
    BY <1>2, SpellsAs DEF Deprecated
<1>4. Spells(Pragma(a))
    BY <1>2, SpellsAs DEF Pragma
<1>5. Spells(Warnings(a))
    BY <1>2, SpellsAs DEF Warnings
<1>6. Spells(DeprecatedFor(a))
    BY <1>2, SpellsAs DEF DeprecatedFor
<1>7. Spells(IgnoreDeprecations(a))
    BY <1>2, SpellsAs DEF IgnoreDeprecations
<1>8. QED
    BY <1>3, <1>4, <1>5, <1>6, <1>7

LEMMA KeywordNames ==
    ASSUME NEW a
    PROVE  Spells(Keywords(a)) /\ Spells(FunctionAttributes(a))
<1> DEFINE names == [NULLPTR |-> {"NULLPTR"}, CONSTEXPR |-> {"CONSTEXPR", "RELAXED_CONSTEXPR"},
                     EXPLICIT_OVERRIDES |-> {"OVERRIDE", "FINAL"},
                     NOEXCEPT |-> {"NOEXCEPT", "NOEXCEPT_EXPR", "NOTHROW"},
                     DEFAULT_MEMBERS |-> {"EPCTK_DEFAULT", "EPCTK_DEFAULT_FUNC"},
                     DELETE_MEMBERS |-> {"EPCTK_DELETE", "EPCTK_DELETE_FUNC"},
                     ALIGNAS |-> {"ALIGN"}, RVALUE_REFS |-> {"DISABLE_MOVE"}]
           Given11 == {g \in DOMAIN names : value(a, Feature(g)) = 1}
           attribute == [ATTR_PURE |-> "__pure__", ATTR_MALLOC |-> "__malloc__",
                         ATTR_NULL_TERMINATED |-> "__sentinel__", ATTR_ALLOC_SIZE |-> "__alloc_size__",
                         ATTR_ALLOC_SIZE2 |-> "__alloc_size__"]
<1>1. \A f \in DOMAIN names : names[f] \subseteq SpellingNames
    BY DEF SpellingNames
<1>2. Keywords(a) = Join(As(UNION {names[f] : f \in DOMAIN names}, "plain"),
                         As(UNION {names[f] : f \in Given11}, "cxx11"))
    BY DEF Keywords
<1>3. DOMAIN FunctionAttributes(a) = {"PCTK_" \o t : t \in DOMAIN attribute}
    BY DEF FunctionAttributes
<1>4. DOMAIN attribute \subseteq SpellingNames
    BY DEF SpellingNames
<1>5. Given11 \subseteq DOMAIN names
    OBVIOUS
<1> HIDE DEF names, Given11, attribute
<1>6. /\ UNION {names[f] : f \in DOMAIN names} \in SUBSET SpellingNames
      /\ UNION {names[f] : f \in Given11} \in SUBSET SpellingNames
    BY <1>1, <1>5
<1>7. /\ Spells(As(UNION {names[f] : f \in DOMAIN names}, "plain"))
      /\ Spells(As(UNION {names[f] : f \in Given11}, "cxx11"))
    BY <1>6, SpellsAs
<1>8. Spells(Keywords(a))
    BY <1>2, <1>7, SpellsAs
<1>9. Spells(FunctionAttributes(a))
    BY <1>3, <1>4 DEF Spells, SpellingMacros
<1>10. QED
    BY <1>8, <1>9

LEMMA SpellingsNames == \A a : Spells(Spellings(a))
<1> TAKE a
<1> DEFINE p1 == Join(Join(Keywords(a), AlignOf(a)), Join(StaticAssert(a), Statements(a)))
           p2 == Join(Join(TypeOf(a), CAlignOf(a)), Join(CStaticAssert(a), Visibility(a)))
           p3 == Join(Join(ExternVar(a), Inline(a)), Join(Extension(a), Aligned(a)))
           p4 == Join(Join(FunctionAttributes(a), FormatAttributes(a)),
                      Join(OtherAttributes(a), TypeAttributes(a)))
           p5 == Join(Join(NoReturn(a), Deprecated(a)), Join(Pragma(a), Warnings(a)))
           p6 == Join(Join(DeprecatedFor(a), IgnoreDeprecations(a)), Join(Analyzer(a), Constructors(a)))
<1>1. Spells(p1) /\ Spells(p2)
    BY KeywordNames, StatementNames, DeclarationNames, SpellsAs
<1>2. Spells(p3) /\ Spells(p4)
    BY KeywordNames, DeclarationNames, AttributeNames, SpellsAs
<1>3. Spells(p5) /\ Spells(p6)
    BY AttributeNames, DeprecationNames, DeclarationNames, SpellsAs
<1>4. Spellings(a) = Join(Join(p1, p2), Join(Join(p3, p4), Join(p5, p6)))
    BY DEF Spellings
<1> HIDE DEF p1, p2, p3, p4, p5, p6
<1>5. Spells(Join(p1, p2)) /\ Spells(Join(p3, p4)) /\ Spells(Join(p5, p6))
    BY <1>1, <1>2, <1>3, SpellsAs
<1>6. Spells(Join(Join(p3, p4), Join(p5, p6)))
    BY <1>5, SpellsAs
<1>7. QED
    BY <1>4, <1>5, <1>6, SpellsAs

LEMMA MacroTestLines ==
    ASSUME NEW a
    PROVE  /\ \A b : Alike(a, b) => Alike(MacroTests(a), MacroTests(b))
           /\ Extends(a, MacroTests(a), SpellingMacros)
<1>1. \A u : MacroTests(u) = IF ~Cpp98(u) THEN Define(u, {Error})
                             ELSE DefineAs(DefineAs(u, Platform(u)), Spellings(u))
    BY DEF MacroTests
<1>2. ASSUME NEW b, Alike(a, b)
      PROVE  Alike(MacroTests(a), MacroTests(b))
  <2>1. Cpp98(a) = Cpp98(b)
    BY <1>2, MacroConditions
  <2>2. Alike(Define(a, {Error}), Define(b, {Error}))
    BY <1>2, AlikeLines
  <2>3. Platform(a) = Platform(b) /\ Spellings(a) = Spellings(b)
    BY <1>2, PlatformAlike, SpellingsAlike
  <2>4. Alike(DefineAs(a, Platform(a)), DefineAs(b, Platform(b)))
    BY <1>2, <2>3, AlikeLines
  <2>5. Alike(DefineAs(DefineAs(a, Platform(a)), Spellings(a)),
              DefineAs(DefineAs(b, Platform(b)), Spellings(b)))
    BY <2>3, <2>4, AlikeLines
  <2>6. QED
    BY <1>1, <2>1, <2>2, <2>5
<1>3. DOMAIN Platform(a) \subseteq SpellingMacros /\ DOMAIN Spellings(a) \subseteq SpellingMacros
    BY PlatformNames, SpellingsNames DEF Spells
<1>4. Extends(a, DefineAs(a, Platform(a)), SpellingMacros)
    BY <1>3, ExtendsLines
<1>5. Extends(DefineAs(a, Platform(a)), DefineAs(DefineAs(a, Platform(a)), Spellings(a)), SpellingMacros)
    BY <1>3, ExtendsLines
<1>6. Extends(a, DefineAs(DefineAs(a, Platform(a)), Spellings(a)), SpellingMacros)
    BY <1>4, <1>5, ExtendsTwice
<1>7. Extends(a, Define(a, {Error}), SpellingMacros)
    BY ExtendsLines
<1>8. QED
    BY <1>1, <1>2, <1>6, <1>7
-----------------------------------------------------------------------------
(* pctkTypes.h.                                                            *)
LEMMA TypeReadNames == TypesReads \subseteq ReadNames /\ ConfigMacros \subseteq ReadNames
<1>1. TypesReads \subseteq ReadNames
    BY DEF ReadNames
<1>2. ConfigMacros \subseteq TypesReads
    BY DEF TypesReads
<1>3. QED
    BY <1>1, <1>2

LEMMA FormatsAlike ==
    ASSUME NEW a, NEW b, Alike(a, b)
    PROVE  /\ Formats(a) = Formats(b) /\ Typedefs(a) = Typedefs(b) /\ PtrTypes(a) = PtrTypes(b)
           /\ BuiltinOverflowChecks(a) = BuiltinOverflowChecks(b)
<1> DEFINE names ==
        {"PCTK_HAS_INT8_T", "PCTK_HAS_INT16_T", "PCTK_HAS_INT32_T", "PCTK_HAS_INT64_T",
         "PCTK_HAS_PTRDIFF_T", "PCTK_SHORT_SIZE", "PCTK_INT_SIZE", "PCTK_LONG_SIZE",
         "PCTK_LONG_LONG_SIZE", "PCTK_VOIDP_SIZE", "PCTK_INT64_IS_LONG_TYPE",
         "PCTK_INT64_IS_LONG_LONG_TYPE", "PCTK_SIZET_IS_SHORT_TYPE", "PCTK_SIZET_IS_INT_TYPE",
         "PCTK_SIZET_IS_LONG_TYPE", "PCTK_SIZET_IS_LONG_LONG_TYPE"}
<1>1. names \subseteq ReadNames
    BY TypeReadNames DEF ConfigMacros
<1>2. \A n \in names : value(a, n) = value(b, n)
    BY <1>1, AlikeTests
<1>3. "PCTK_SIZET_SIZE" \in ReadNames /\ "__GNUC__" \in ReadNames
      /\ {"PCTK_TEST_OVERFLOW_FALLBACK"} \subseteq ReadNames
      /\ {"__INTEL_COMPILER"} \subseteq ReadNames /\ "__builtin_add_overflow" \in ReadNames
    BY TypeReadNames, CompilerReadNames DEF TypesReads, CompilerReads
<1>4. /\ value(a, "PCTK_SIZET_SIZE") = value(b, "PCTK_SIZET_SIZE")
      /\ value(a, "__GNUC__") = value(b, "__GNUC__")
      /\ defined(a, {"PCTK_TEST_OVERFLOW_FALLBACK"}) = defined(b, {"PCTK_TEST_OVERFLOW_FALLBACK"})
      /\ defined(a, {"__INTEL_COMPILER"}) = defined(b, {"__INTEL_COMPILER"})
    BY <1>3, AlikeTests
<1>5. Has(a, "builtin", "__builtin_add_overflow") = Has(b, "builtin", "__builtin_add_overflow")
    BY <1>3, MacroConditions
<1>6. BuiltinOverflowChecks(a) = BuiltinOverflowChecks(b)
    BY <1>4, <1>5 DEF BuiltinOverflowChecks
<1>7. Sizes(a) = Sizes(b)
    BY <1>2 DEF Sizes
<1>8. PointerLike(a) = PointerLike(b)
    BY <1>7 DEF PointerLike
<1>9. IntTypes(a) = IntTypes(b)
    BY <1>2 DEF IntTypes
<1>10. PtrTypes(a) = PtrTypes(b)
    BY <1>2, <1>8 DEF PtrTypes
<1>11. Typedefs(a) = Typedefs(b)
    BY <1>9, <1>10 DEF Typedefs
<1>12. Int16Format(a) = Int16Format(b)
    BY <1>2, <1>7 DEF Int16Format
<1>13. Int32Format(a) = Int32Format(b)
    BY <1>2, <1>7 DEF Int32Format
<1>modifier. Int32Modifier(a) = Int32Modifier(b)
    BY <1>2, <1>7 DEF Int32Modifier
<1>14. Int64Format(a) = Int64Format(b)
    BY <1>2, <1>7 DEF Int64Format
<1>15. SizeFormat(a) = SizeFormat(b)
    BY <1>2, <1>4 DEF SizeFormat
<1>16. IntptrFormat(a) = IntptrFormat(b)
    BY <1>8 DEF IntptrFormat
<1>17. Formats(a) = Formats(b)
    BY <1>12, <1>13, <1>modifier, <1>14, <1>15, <1>16 DEF Formats
<1>18. QED
    BY <1>6, <1>10, <1>11, <1>17

LEMMA TypeLines ==
    ASSUME NEW a
    PROVE  /\ \A b : Alike(a, b) => Alike(TypeTestLines(a), TypeTestLines(b))
           /\ Extends(a, TypeTestLines(a), TypeMacros \cup {"PCTK_POINTER_SIZE"})
           /\ "PCTK_POINTER_SIZE" \in DOMAIN TypeTestLines(a)
           /\ TypeTestLines(a)["PCTK_POINTER_SIZE"] = PointerSize(a)
<1> DEFINE Sizing(u) == [PCTK_POINTER_SIZE |-> PointerSize(u),
                         PCTK_HAS_BUILTIN_OVERFLOW_CHECKS |-> Flag(BuiltinOverflowChecks(u))]
           Refusals(u) == Refused(Formats(u)) \cup Refused(PtrTypes(u))
           names == TypeMacros \cup {"PCTK_POINTER_SIZE"}
           Sized(u) == DefineAs(u, Sizing(u))
<1>1. \A u : TypeTestLines(u) =
            Define(DefineAs(DefineAs(Sized(u), Formats(u)), Typedefs(u)), Refusals(u))
    BY DEF TypeTestLines
<1>2. DOMAIN Sizing(a) \subseteq names /\ DOMAIN Formats(a) \subseteq TypeMacros
    BY DEF TypeMacros, Formats
<1>3. DOMAIN Typedefs(a) \subseteq TypeMacros
    BY DEF Typedefs, DefineAs, IntTypes, PtrTypes, OtherTypes, TypeMacros
<1>4. Refusals(a) \subseteq {Error}
    BY DEF Refused
<1>5. ASSUME NEW b, Alike(a, b)
      PROVE  Alike(TypeTestLines(a), TypeTestLines(b))
  <2>1. /\ Formats(a) = Formats(b) /\ Typedefs(a) = Typedefs(b) /\ PtrTypes(a) = PtrTypes(b)
        /\ BuiltinOverflowChecks(a) = BuiltinOverflowChecks(b)
    BY <1>5, FormatsAlike
  <2>2. Refusals(a) = Refusals(b)
    BY <2>1
  <2>3. Sizing(a)["PCTK_HAS_BUILTIN_OVERFLOW_CHECKS"] = Sizing(b)["PCTK_HAS_BUILTIN_OVERFLOW_CHECKS"]
    BY <2>1
  <2>4. /\ DOMAIN Sizing(a) = {"PCTK_POINTER_SIZE", "PCTK_HAS_BUILTIN_OVERFLOW_CHECKS"}
        /\ DOMAIN Sizing(b) = {"PCTK_POINTER_SIZE", "PCTK_HAS_BUILTIN_OVERFLOW_CHECKS"}
    OBVIOUS
  <2>5. "PCTK_POINTER_SIZE" \in Unseen
    BY DEF Unseen
  <2> HIDE DEF Sizing, Refusals
  <2>6. Alike(Sized(a), Sized(b))
    BY <1>5, <2>3, <2>4, <2>5 DEF Alike, AgreeBut, Same, DefineAs
  <2> HIDE DEF Sized
  <2>7. Alike(DefineAs(Sized(a), Formats(a)), DefineAs(Sized(b), Formats(b)))
    BY <2>1, <2>6, AlikeLines
  <2>8. Alike(DefineAs(DefineAs(Sized(a), Formats(a)), Typedefs(a)),
              DefineAs(DefineAs(Sized(b), Formats(b)), Typedefs(b)))
    BY <2>1, <2>7, AlikeLines
  <2>9. QED
    BY <1>1, <2>2, <2>8, AlikeLines
<1>6. "PCTK_POINTER_SIZE" \in DOMAIN Sized(a) /\ Sized(a)["PCTK_POINTER_SIZE"] = PointerSize(a)
    BY DEF DefineAs
<1> HIDE DEF Sizing, Refusals
<1>7. Extends(a, Sized(a), names)
    BY <1>2, ExtendsLines
<1> HIDE DEF Sized
<1>8. Extends(Sized(a), DefineAs(Sized(a), Formats(a)), TypeMacros)
    BY <1>2, ExtendsLines
<1>9. Extends(DefineAs(Sized(a), Formats(a)),
              DefineAs(DefineAs(Sized(a), Formats(a)), Typedefs(a)), TypeMacros)
    BY <1>3, ExtendsLines
<1>10. Extends(DefineAs(DefineAs(Sized(a), Formats(a)), Typedefs(a)), TypeTestLines(a), TypeMacros)
    BY <1>1, <1>4, ExtendsLines
<1>11. Extends(Sized(a), TypeTestLines(a), TypeMacros)
    BY <1>8, <1>9, <1>10, ExtendsTwice
<1>12. Extends(a, TypeTestLines(a), names)
    BY <1>7, <1>11, ExtendsMore, ExtendsTwice
<1>13. "PCTK_POINTER_SIZE" \notin TypeMacros \cup {Error}
  <2>1. /\ 6 \in DOMAIN Definitions /\ 11 \in DOMAIN Definitions /\ 12 \in DOMAIN Definitions
        /\ Definitions[6] = TypeMacros /\ Definitions[11] = {"PCTK_POINTER_SIZE"}
        /\ Definitions[12] = {Error}
    BY DEF Definitions
  <2>2. QED
    BY <2>1, DefinedOnce
<1>14. Same(Sized(a), TypeTestLines(a), "PCTK_POINTER_SIZE")
    BY <1>11, <1>13 DEF Extends, AgreeBut
<1>15. QED
    BY <1>5, <1>6, <1>12, <1>14 DEF Same

-----------------------------------------------------------------------------
(* pctkLimits.h, pctkGlobal.h and pctkTypeTraits.h.                        *)
LEMMA LimitLines ==
    ASSUME NEW a
    PROVE  /\ \A b : Alike(a, b) => Alike(Limits(a), Limits(b))
           /\ Extends(a, Limits(a), LimitMacros)
<1> DEFINE Of(x) == CHOOSE n \in DOMAIN SystemLimits : LimitName(n) = x
           Limit1(u, name) == IF defined(u, {name}) THEN u[name] ELSE SystemLimits[name]
           Named1(u) == [x \in LimitMacros |-> Limit1(u, Of(x))]
<1>1. \A u : Limits(u) = DefineAs(u, Named1(u))
    BY DEF Limits, LimitMacros
<1>2. \A x \in LimitMacros : Of(x) \in DOMAIN SystemLimits
    BY DEF LimitMacros
<1>3. DOMAIN SystemLimits \subseteq ReadNames
    BY DEF ReadNames, OtherReads
<1>4. ASSUME NEW b, Alike(a, b)
      PROVE  Named1(a) = Named1(b)
  <2>1. Agree(a, b, DOMAIN SystemLimits)
    BY <1>3, <1>4, AlikeTests
  <2>2. \A n \in DOMAIN SystemLimits : Limit1(a, n) = Limit1(b, n)
    BY <2>1 DEF Agree, Same, defined
  <2> HIDE DEF Limit1, Of
  <2>3. QED
    BY <1>2, <2>2
<1>5. DOMAIN Named1(a) \subseteq LimitMacros
    OBVIOUS
<1> HIDE DEF Named1
<1>6. QED
    BY <1>1, <1>4, <1>5, AlikeLines, ExtendsLines

LEMMA ExportLines ==
    ASSUME NEW a
    PROVE  /\ \A b : Alike(a, b) => Alike(Exports(a), Exports(b))
           /\ Extends(a, Exports(a), {"PCTK_CORE_API"})
<1>1. {"PCTK_SHARED", "PCTK_BUILD_CORE_LIB", "PCTK_DECL_EXPORT", "PCTK_DECL_IMPORT"} \subseteq ReadNames
  <2>1. "PCTK_SHARED" \in ReadNames
    BY MacroReadNames DEF MacrosReads
  <2>2. {"PCTK_BUILD_CORE_LIB", "PCTK_DECL_EXPORT", "PCTK_DECL_IMPORT"} \subseteq OtherReads
    BY DEF OtherReads
  <2>3. QED
    BY <2>1, <2>2 DEF ReadNames
<1>2. ASSUME NEW b, Alike(a, b)
      PROVE  Exports(a) = DefineAs(a, [PCTK_CORE_API |-> CoreApi(b)])
  <2>1. /\ defined(a, {"PCTK_SHARED"}) = defined(b, {"PCTK_SHARED"})
        /\ defined(a, {"PCTK_BUILD_CORE_LIB"}) = defined(b, {"PCTK_BUILD_CORE_LIB"})
        /\ value(a, "PCTK_DECL_EXPORT") = value(b, "PCTK_DECL_EXPORT")
        /\ value(a, "PCTK_DECL_IMPORT") = value(b, "PCTK_DECL_IMPORT")
    BY <1>1, <1>2, AlikeTests
  <2>2. CoreApi(a) = CoreApi(b)
    BY <2>1 DEF CoreApi
  <2>3. QED
    BY <2>2 DEF Exports
<1>3. ASSUME NEW b, Alike(a, b)
      PROVE  Alike(Exports(a), Exports(b))
    BY <1>2, <1>3, AlikeLines DEF Exports
<1>4. DOMAIN [PCTK_CORE_API |-> CoreApi(a)] \subseteq {"PCTK_CORE_API"}
    OBVIOUS
<1>5. Extends(a, Exports(a), {"PCTK_CORE_API"})
    BY <1>4, ExtendsLines DEF Exports
<1>6. QED
    BY <1>3, <1>5

LEMMA CharLines ==
    ASSUME NEW a
    PROVE  /\ \A b : Alike(a, b) => Alike(CharIsSigned(a), CharIsSigned(b))
           /\ Extends(a, CharIsSigned(a), {})
<1>1. "__CHAR_UNSIGNED__" \in ReadNames
    BY DEF ReadNames, OtherReads
<1>2. Feature("STATIC_ASSERT") \in ReadNames
  <2>1. "STATIC_ASSERT" \in FeatureNames
    BY DEF FeatureNames, Defaulted
  <2>2. QED
    BY <2>1, CompilerReadNames DEF FeatureMacros
<1>3. ASSUME NEW b, Alike(a, b)
      PROVE  Alike(CharIsSigned(a), CharIsSigned(b))
  <2>1. /\ value(a, Feature("STATIC_ASSERT")) = value(b, Feature("STATIC_ASSERT"))
        /\ defined(a, {"__CHAR_UNSIGNED__"}) = defined(b, {"__CHAR_UNSIGNED__"})
    BY <1>1, <1>2, <1>3, AlikeTests
  <2>2. Alike(Define(a, {Error}), Define(b, {Error}))
    BY <1>3, AlikeLines
  <2>3. QED
    BY <1>3, <2>1, <2>2 DEF CharIsSigned
<1>4. Extends(a, Define(a, {Error}), {}) /\ Extends(a, a, {})
    BY ExtendsLines, ExtendsSelf
<1>5. QED
    BY <1>3, <1>4 DEF CharIsSigned

(* pctkTypeInfo.h and pctkFlags.h.  Where every typedef of a type's name   *)
(* is of a type's name, both look up no other names.                       *)
TypesBare(a) == \A n \in TypeNames \cap DOMAIN a : a[n] \in TypeNames

LEMMA PrimitivesAlike ==
    ASSUME NEW a, NEW b, Alike(a, b), TypesBare(a)
    PROVE  /\ SpecialisedTwice(a) <=> SpecialisedTwice(b)
           /\ Named(a, {"ushort", "uint"}) <=> Named(b, {"ushort", "uint"})
<1> DEFINE Of(u, n) == IF n \in DOMAIN u THEN u[n] ELSE n
<1>1. TypeNames \subseteq ReadNames
    BY DEF ReadNames, OtherReads
<1>2. Agree(a, b, TypeNames)
    BY <1>1, AlikeTests
<1>3. ASSUME NEW n \in TypeNames
      PROVE  Of(a, n) = Of(b, n) /\ Of(a, n) \in TypeNames
    BY <1>2 DEF Agree, Same, TypesBare
<1>4. \A u, n : Typedef(u, n) = Of(u, Of(u, n))
    BY DEF Typedef
<1> HIDE DEF Of
<1>5. \A n \in TypeNames : Typedef(a, n) = Typedef(b, n)
    BY <1>3, <1>4
<1>6. "PCTK_OS_DARWIN" \in ReadNames
    BY SystemReadNames DEF SystemMacros
<1>7. defined(a, {"PCTK_OS_DARWIN"}) = defined(b, {"PCTK_OS_DARWIN"})
    BY <1>6, AlikeTests
<1>8. Primitives(a) = Primitives(b) /\ Primitives(a) \subseteq TypeNames
    BY <1>7 DEF Primitives, TypeNames, BaseTypes
<1>9. SpecialisedTwice(a) <=> SpecialisedTwice(b)
    BY <1>5, <1>8 DEF SpecialisedTwice
<1>10. {"ushort", "uint"} \subseteq TypeNames
    BY DEF TypeNames
<1>11. Named(a, {"ushort", "uint"}) <=> Named(b, {"ushort", "uint"})
    BY <1>2, <1>10 DEF Named, Agree, Same
<1>12. QED
    BY <1>9, <1>11

LEMMA PrimitiveLines ==
    ASSUME NEW a, TypesBare(a)
    PROVE  /\ \A b : Alike(a, b) => Alike(PrimitiveInfos(a), PrimitiveInfos(b))
           /\ Extends(a, PrimitiveInfos(a), {})
<1>1. ASSUME NEW b, Alike(a, b)
      PROVE  Alike(PrimitiveInfos(a), PrimitiveInfos(b))
  <2>1. /\ SpecialisedTwice(a) <=> SpecialisedTwice(b)
        /\ Named(a, {"ushort", "uint"}) <=> Named(b, {"ushort", "uint"})
    BY <1>1, PrimitivesAlike
  <2>2. Alike(Define(a, {Error}), Define(b, {Error}))
    BY <1>1, AlikeLines
  <2>3. QED
    BY <1>1, <2>1, <2>2 DEF PrimitiveInfos
<1>2. Extends(a, Define(a, {Error}), {}) /\ Extends(a, a, {})
    BY ExtendsLines, ExtendsSelf
<1>3. QED
    BY <1>1, <1>2 DEF PrimitiveInfos

LEMMA FlagLines ==
    ASSUME NEW a
    PROVE  /\ \A b : Alike(a, b) => Alike(FlagClass(a), FlagClass(b))
           /\ Extends(a, FlagClass(a), {})
<1>1. ASSUME NEW b, Alike(a, b)
      PROVE  Alike(FlagClass(a), FlagClass(b))
  <2>1. "__LP64__" \in ReadNames /\ TypeNames \subseteq ReadNames
    BY SystemReadNames DEF SystemReads, ReadNames, OtherReads
  <2>2. /\ defined(a, {"__LP64__"}) = defined(b, {"__LP64__"}) /\ Agree(a, b, TypeNames)
    BY <1>1, <2>1, AlikeTests
  <2>3. Is(a, "MSVC") = Is(b, "MSVC")
    BY <1>1, FeatureConditions
  <2>4. FlagNames(a) = FlagNames(b) /\ FlagNames(a) \subseteq TypeNames
    BY <2>2, <2>3 DEF FlagNames, TypeNames
  <2>5. Named(a, FlagNames(a)) <=> Named(b, FlagNames(b))
    BY <2>2, <2>4 DEF Named, Agree, Same
  <2>6. Alike(Define(a, {Error}), Define(b, {Error}))
    BY <1>1, AlikeLines
  <2>7. QED
    BY <1>1, <2>5, <2>6 DEF FlagClass
<1>2. Extends(a, Define(a, {Error}), {}) /\ Extends(a, a, {})
    BY ExtendsLines, ExtendsSelf
<1>3. QED
    BY <1>1, <1>2 DEF FlagClass
-----------------------------------------------------------------------------
(* pctkProcessor.h.                                                        *)
LEMMA ProcessorReadNames ==
    /\ ArmReads \subseteq ProcessorReads /\ X86Reads \subseteq ProcessorReads
    /\ MipsReads \subseteq ProcessorReads /\ FamilyReads \subseteq ProcessorReads
    /\ OrderReads \subseteq ProcessorReads /\ SizeReads \subseteq ProcessorReads
    /\ ArmMacros \subseteq ProcessorReads /\ PowerMacros \subseteq ProcessorReads
    /\ {"__ARM_ARCH_6" \o v \o "__" : v \in {"", "J", "T2", "Z", "K", "ZK", "M"}} \subseteq ProcessorReads
    /\ {"__ARM_ARCH_7" \o v \o "__" : v \in {"", "A", "R", "M", "S"}} \subseteq ProcessorReads
  BY DEF ProcessorReads

LEMMA EndianAlike ==
    ASSUME NEW a, NEW b, Agree(a, b, ProcessorReads)
    PROVE  BigEndian(a) = BigEndian(b) /\ LittleEndian(a) = LittleEndian(b)
<1>1. {"__ORDER_BIG_ENDIAN__", "__ORDER_LITTLE_ENDIAN__"} \subseteq OrderReads
    BY DEF OrderReads
<1>2. Agree(a, b, OrderReads)
    BY ProcessorReadNames DEF Agree
<1>3. QED
    BY <1>1, <1>2 DEF BigEndian, LittleEndian, Agree, Same, defined

LEMMA ArmAlike ==
    ASSUME NEW a, NEW b, Agree(a, b, ProcessorReads)
    PROVE  Arm(a) = Arm(b)
<1> DEFINE V6 == {"__ARM_ARCH_6" \o v \o "__" : v \in {"", "J", "T2", "Z", "K", "ZK", "M"}}
           V7 == {"__ARM_ARCH_7" \o v \o "__" : v \in {"", "A", "R", "M", "S"}}
           named7 == V7 \cup {"_ARM_ARCH_7", "__CORE_CORTEXA__"}
           names == {"__ARM_ARCH", "__TARGET_ARCH_ARM", "_M_ARM"}
           lists == {{"__ARM64_ARCH_8__", "__aarch64__", "__ARMv8__", "__ARMv8_A__", "_M_ARM64"},
                     {"__ARM_ARCH_5TEJ__", "__ARM_ARCH_5TE__"}, {"__ARM_ARCH_4T__"},
                     {"__aarch64__", "__ARM64__", "_M_ARM64"}, {"__thumb__"}, {"__ARMEB__"},
                     {"__ARMEL__", "_M_ARM64"}}
<1>1. (\A S \in lists : S \subseteq ArmReads) /\ names \subseteq ArmReads
    BY DEF ArmReads
<1>10. Agree(a, b, ArmReads)
    BY ProcessorReadNames DEF Agree
<1>2. V6 \subseteq ProcessorReads
    BY ProcessorReadNames
<1>3. named7 \subseteq ProcessorReads
  <2>1. V7 \subseteq ProcessorReads
    BY ProcessorReadNames
  <2>2. {"_ARM_ARCH_7", "__CORE_CORTEXA__"} \subseteq ArmReads
    BY DEF ArmReads
  <2>3. QED
    BY <2>1, <2>2, ProcessorReadNames
<1> HIDE DEF V6, named7
<1>4. /\ \A S \in lists : defined(a, S) = defined(b, S)
      /\ defined(a, V6) = defined(b, V6) /\ defined(a, named7) = defined(b, named7)
      /\ \A x \in names : value(a, x) = value(b, x)
    BY <1>1, <1>2, <1>3, <1>10, AgreeTests
<1>5. \A u : ArmRevision(u) =
        IF value(u, "__ARM_ARCH") > 1 THEN value(u, "__ARM_ARCH")
        ELSE IF value(u, "__TARGET_ARCH_ARM") > 1 THEN value(u, "__TARGET_ARCH_ARM")
        ELSE IF value(u, "_M_ARM") > 1 THEN value(u, "_M_ARM")
        ELSE IF defined(u, {"__ARM64_ARCH_8__", "__aarch64__", "__ARMv8__", "__ARMv8_A__", "_M_ARM64"})
        THEN 8
        ELSE IF defined(u, named7) THEN 7
        ELSE IF defined(u, V6) THEN 6
        ELSE IF defined(u, {"__ARM_ARCH_5TEJ__", "__ARM_ARCH_5TE__"}) THEN 5
        ELSE IF defined(u, {"__ARM_ARCH_4T__"}) THEN 4
        ELSE 0
    BY DEF ArmRevision, named7, V6
<1>6. ArmRevision(a) = ArmRevision(b)
    BY <1>4, <1>5
<1>7. /\ defined(a, {"__aarch64__", "__ARM64__", "_M_ARM64"})
            = defined(b, {"__aarch64__", "__ARM64__", "_M_ARM64"})
      /\ defined(a, {"__thumb__"}) = defined(b, {"__thumb__"})
      /\ defined(a, {"__ARMEL__", "_M_ARM64"}) = defined(b, {"__ARMEL__", "_M_ARM64"})
      /\ defined(a, {"__ARMEB__"}) = defined(b, {"__ARMEB__"})
    BY <1>4
<1>8. BigEndian(a) = BigEndian(b) /\ LittleEndian(a) = LittleEndian(b)
    BY EndianAlike
<1>9. QED
    BY <1>6, <1>7, <1>8 DEF Arm, When

LEMMA X86Alike ==
    ASSUME NEW a, NEW b, Agree(a, b, ProcessorReads)
    PROVE  /\ X86Revision(a) = X86Revision(b)
           /\ \A bits, revision, size : X86(a, bits, revision, size) = X86(b, bits, revision, size)
<1> DEFINE lists == {{"_M_IX86"}, {"__i686__", "__athlon__", "__SSE__", "__pentiumpro__"},
                     {"__i586__", "__k6__", "__pentium__"}, {"__i486__", "__80486__"}}
<1>1. (\A S \in lists : S \subseteq X86Reads) /\ "_M_IX86" \in X86Reads
    BY DEF X86Reads
<1>9. Agree(a, b, X86Reads)
    BY ProcessorReadNames DEF Agree
<1>2. /\ \A S \in lists : defined(a, S) = defined(b, S)
      /\ value(a, "_M_IX86") = value(b, "_M_IX86")
    BY <1>1, <1>9, AgreeTests
<1>3. X86Revision(a) = X86Revision(b)
    BY <1>2 DEF X86Revision
<1>4. LittleEndian(a) = LittleEndian(b)
    BY EndianAlike
<1>5. QED
    BY <1>3, <1>4 DEF X86

LEMMA MipsAlike ==
    ASSUME NEW a, NEW b, Agree(a, b, ProcessorReads)
    PROVE  Mips(a) = Mips(b)
<1> DEFINE isa(u, n, names) == defined(u, names) \/ value(u, "__mips") >= n
           lists == {{"_MIPS_ARCH_MIPS1"}, {"_MIPS_ARCH_MIPS2"}, {"_MIPS_ARCH_MIPS3"},
                     {"_MIPS_ARCH_MIPS4"}, {"_MIPS_ARCH_MIPS5"}, {"_MIPS_ARCH_MIPS32", "__mips32"},
                     {"_MIPS_ARCH_MIPS64", "__mips64"}, {"__MIPSEL__"}, {"__MIPSEB__"}}
           revisions(u) == {<<isa(u, 1, {"_MIPS_ARCH_MIPS1"}), {"MIPS_I"}>>,
                            <<isa(u, 2, {"_MIPS_ARCH_MIPS2"}), {"MIPS_II"}>>,
                            <<isa(u, 3, {"_MIPS_ARCH_MIPS3"}), {"MIPS_III"}>>,
                            <<isa(u, 4, {"_MIPS_ARCH_MIPS4"}), {"MIPS_IV"}>>,
                            <<isa(u, 5, {"_MIPS_ARCH_MIPS5"}), {"MIPS_V"}>>,
                            <<isa(u, 32, {"_MIPS_ARCH_MIPS32", "__mips32"}), {"MIPS_32"}>>}
           is64(u) == defined(u, {"_MIPS_ARCH_MIPS64", "__mips64"})
<1>1. (\A S \in lists : S \subseteq MipsReads) /\ "__mips" \in MipsReads
    BY DEF MipsReads
<1>9. Agree(a, b, MipsReads)
    BY ProcessorReadNames DEF Agree
<1>2. /\ \A S \in lists : defined(a, S) = defined(b, S)
      /\ value(a, "__mips") = value(b, "__mips")
    BY <1>1, <1>9, AgreeTests
<1>3. \A S \in lists : \A n : isa(a, n, S) = isa(b, n, S)
    BY <1>2
<1> HIDE DEF isa
<1>4. revisions(a) = revisions(b)
    BY <1>3
<1>5. /\ is64(a) = is64(b) /\ defined(a, {"__MIPSEL__"}) = defined(b, {"__MIPSEL__"})
      /\ defined(a, {"__MIPSEB__"}) = defined(b, {"__MIPSEB__"})
    BY <1>2
<1>6. BigEndian(a) = BigEndian(b) /\ LittleEndian(a) = LittleEndian(b)
    BY EndianAlike
<1>7. \A u : Mips(u) =
          Both(Both(Plain({"MIPS"} \cup Given(revisions(u)) \cup (IF is64(u) THEN {"MIPS_64"} ELSE {})),
                    When(is64(u), WordSize(8))),
               IF defined(u, {"__MIPSEL__"}) THEN ByteOrder(LittleEndian(u))
               ELSE IF defined(u, {"__MIPSEB__"}) THEN ByteOrder(BigEndian(u))
               ELSE None)
    BY DEF Mips, isa
<1> HIDE DEF revisions, is64
<1>8. QED
    BY <1>4, <1>5, <1>6, <1>7

LEMMA FamilyAlike ==
    ASSUME NEW a, NEW b, Agree(a, b, ProcessorReads)
    PROVE  ProcessorFamily(a) = ProcessorFamily(b)
<1> DEFINE lists ==
        {ArmMacros, {"__i386", "__i386__", "_M_IX86"}, {"__x86_64", "__x86_64__", "__amd64", "_M_X64"},
         {"__ia64", "__ia64__", "_M_IA64"}, {"__mips", "__mips__", "_M_MRX000"}, PowerMacros,
         {"__riscv"}, {"__s390__"}, {"__s390x__"}, {"__sh__"}, {"__sh4a__"}, {"__sparc__"},
         {"__sparc_v9__"}, {"__sparc64__"}, {"__EMSCRIPTEN__"},
         {"__ppc64__", "__powerpc64__", "__64BIT__"}}
<1>1. ArmMacros \subseteq ProcessorReads /\ PowerMacros \subseteq ProcessorReads
    BY ProcessorReadNames
<1>2. (\A S \in lists \ {ArmMacros, PowerMacros} : S \subseteq FamilyReads)
      /\ "__riscv_xlen" \in FamilyReads
    BY DEF FamilyReads
<1>8. Agree(a, b, FamilyReads)
    BY ProcessorReadNames DEF Agree
<1>3. /\ \A S \in lists : defined(a, S) = defined(b, S)
      /\ value(a, "__riscv_xlen") = value(b, "__riscv_xlen")
    BY <1>1, <1>2, <1>8, AgreeTests
<1>4. Arm(a) = Arm(b) /\ Mips(a) = Mips(b) /\ X86Revision(a) = X86Revision(b)
      /\ X86(a, "32", X86Revision(a), 4) = X86(b, "32", X86Revision(b), 4)
      /\ X86(a, "64", 6, 8) = X86(b, "64", 6, 8)
    BY ArmAlike, MipsAlike, X86Alike
<1>5. Power(a) = Power(b)
    BY <1>3 DEF Power
<1>6. BigEndian(a) = BigEndian(b) /\ LittleEndian(a) = LittleEndian(b)
    BY EndianAlike
<1>9. QED
    BY <1>3, <1>4, <1>5, <1>6 DEF ProcessorFamily

(* What pctkProcessor.h tests, its own macros included.                    *)
ProcessorSees == ProcessorReads \cup ProcessorMacros \cup {Error}

LEMMA AgreeLines ==
    ASSUME NEW a, NEW b, NEW names, Agree(a, b, names), NEW f
    PROVE  Agree(DefineAs(a, f), DefineAs(b, f), names)
  BY DEF Agree, Same, DefineAs

LEMMA DetectAlike ==
    ASSUME NEW a, NEW b, Agree(a, b, ProcessorSees)
    PROVE  /\ Agree(DetectByteOrder(a), DetectByteOrder(b), ProcessorSees)
           /\ Agree(DetectWordSize(a), DetectWordSize(b), ProcessorSees)
<1> DEFINE order(u) ==
               IF defined(u, {"PCTK_PROCESSOR_BYTE_ORDER"}) THEN None
               ELSE IF defined(u, {"__BYTE_ORDER__"})
                       /\ u["__BYTE_ORDER__"] \in {BigEndian(u), LittleEndian(u)}
               THEN ByteOrder(value(u, "__BYTE_ORDER__"))
               ELSE IF defined(u, {"__BIG_ENDIAN__", "_big_endian__", "_BIG_ENDIAN"})
               THEN ByteOrder(BigEndian(u))
               ELSE IF defined(u, {"__LITTLE_ENDIAN__", "_little_endian__", "_LITTLE_ENDIAN"})
               THEN ByteOrder(LittleEndian(u))
               ELSE [x \in {Error} |-> 1]
           size(u) ==
               IF defined(u, {"PCTK_PROCESSOR_WORDSIZE"}) THEN None
               ELSE IF defined(u, {"__SIZEOF_POINTER__"})
               THEN WordSize(value(u, "__SIZEOF_POINTER__"))
               ELSE IF defined(u, {"__LP64__", "_LP64"}) THEN WordSize(8)
               ELSE WordSize(4)
           own == {"PCTK_PROCESSOR_BYTE_ORDER", "PCTK_PROCESSOR_WORDSIZE"}
<1>1. /\ Agree(a, b, OrderReads) /\ Agree(a, b, SizeReads) /\ Agree(a, b, ProcessorReads)
      /\ Agree(a, b, own)
    BY ProcessorReadNames DEF Agree, ProcessorSees, ProcessorMacros
<1>2. BigEndian(a) = BigEndian(b) /\ LittleEndian(a) = LittleEndian(b)
    BY <1>1, EndianAlike
<1>3. /\ defined(a, {"__BYTE_ORDER__"}) = defined(b, {"__BYTE_ORDER__"})
      /\ defined(a, {"__BIG_ENDIAN__", "_big_endian__", "_BIG_ENDIAN"})
             = defined(b, {"__BIG_ENDIAN__", "_big_endian__", "_BIG_ENDIAN"})
      /\ defined(a, {"__LITTLE_ENDIAN__", "_little_endian__", "_LITTLE_ENDIAN"})
             = defined(b, {"__LITTLE_ENDIAN__", "_little_endian__", "_LITTLE_ENDIAN"})
      /\ value(a, "__BYTE_ORDER__") = value(b, "__BYTE_ORDER__")
    BY <1>1, AgreeTests DEF OrderReads
<1>4. /\ defined(a, {"__SIZEOF_POINTER__"}) = defined(b, {"__SIZEOF_POINTER__"})
      /\ defined(a, {"__LP64__", "_LP64"}) = defined(b, {"__LP64__", "_LP64"})
      /\ value(a, "__SIZEOF_POINTER__") = value(b, "__SIZEOF_POINTER__")
    BY <1>1, AgreeTests DEF SizeReads
<1>5. /\ defined(a, {"PCTK_PROCESSOR_BYTE_ORDER"}) = defined(b, {"PCTK_PROCESSOR_BYTE_ORDER"})
      /\ defined(a, {"PCTK_PROCESSOR_WORDSIZE"}) = defined(b, {"PCTK_PROCESSOR_WORDSIZE"})
    BY <1>1, AgreeTests
<1>6. \A u : defined(u, {"__BYTE_ORDER__"}) => u["__BYTE_ORDER__"] = value(u, "__BYTE_ORDER__")
    BY DEF defined, value
<1>7. order(a) = order(b)
    BY <1>2, <1>3, <1>5, <1>6
<1>8. size(a) = size(b)
    BY <1>4, <1>5
<1>9. \A u : DetectByteOrder(u) = DefineAs(u, order(u)) /\ DetectWordSize(u) = DefineAs(u, size(u))
    BY DEF DetectByteOrder, DetectWordSize
<1> HIDE DEF order, size
<1>10. QED
    BY <1>7, <1>8, <1>9, AgreeLines

LEMMA ProcessorAlike ==
    ASSUME NEW a, NEW b, Agree(a, b, ProcessorSees)
    PROVE  Agree(ProcessorLines(a), ProcessorLines(b), ProcessorSees)
<1>1. ProcessorFamily(a) = ProcessorFamily(b)
    BY FamilyAlike DEF Agree, ProcessorSees
<1>2. Agree(DefineAs(a, ProcessorFamily(a)), DefineAs(b, ProcessorFamily(b)), ProcessorSees)
    BY <1>1, AgreeLines
<1>3. QED
    BY <1>2, DetectAlike DEF ProcessorLines

(* Of the processor: a table of its macros.                                *)
Proc(f) == DOMAIN f \subseteq ProcessorMacros \cup {Error}

LEMMA ProcParts ==
    /\ \A S \in SUBSET ProcessorNames : Proc(Plain(S))
    /\ \A n \in ProcessorNames : \A k : Proc(Revision(n, k))
    /\ \A k : Proc(ByteOrder(k)) /\ Proc(WordSize(k))
    /\ Proc(None) /\ Proc([x \in {Error} |-> 1])
    /\ \A f, g : Proc(f) /\ Proc(g) => Proc(Both(f, g))
    /\ \A c, f : Proc(f) => Proc(When(c, f))
<1>1. \A S \in SUBSET ProcessorNames : Proc(Plain(S))
    BY DEF Proc, Plain, ProcessorMacros
<1>2. \A n \in ProcessorNames : \A k : Proc(Revision(n, k))
    BY DEF Proc, Revision, ProcessorMacros
<1>3. \A k : Proc(ByteOrder(k)) /\ Proc(WordSize(k))
    BY DEF Proc, ByteOrder, WordSize, ProcessorMacros
<1>4. Proc(None) /\ Proc([x \in {Error} |-> 1])
    BY <1>1 DEF None, Proc
<1>5. \A f, g : Proc(f) /\ Proc(g) => Proc(Both(f, g))
    BY DEF Proc, Both, DefineAs
<1>6. \A c, f : Proc(f) => Proc(When(c, f))
    BY <1>4 DEF When
<1>7. QED
    BY <1>1, <1>2, <1>3, <1>4, <1>5, <1>6

LEMMA ArmProc == ASSUME NEW a PROVE Proc(Arm(a))
<1> DEFINE all == {"ARM_V" \o ToString(v) : v \in 4..8}
           supersets == {"ARM_V" \o ToString(v) : v \in {w \in 4..8 : w <= ArmRevision(a)}}
           is64 == defined(a, {"__aarch64__", "__ARM64__", "_M_ARM64"})
           variant == IF is64 THEN {"ARM_64"} ELSE {"ARM_32"}
           thumb == IF defined(a, {"__thumb__"}) THEN {"ARM_THUMB"} ELSE {}
<1>1. all \subseteq ProcessorNames
    BY DEF ProcessorNames
<1>2. supersets \subseteq all
    OBVIOUS
<1>3. {"ARM", "ARM_32", "ARM_64", "ARM_THUMB"} \subseteq ProcessorNames
    BY DEF ProcessorNames
<1>4. variant \cup thumb \subseteq {"ARM", "ARM_32", "ARM_64", "ARM_THUMB"}
    OBVIOUS
<1> HIDE DEF all
<1>5. variant \cup thumb \cup supersets \subseteq ProcessorNames
    BY <1>1, <1>2, <1>3, <1>4
<1>6. Arm(a) =
        Both(Both(Plain(variant \cup thumb \cup supersets), Revision("ARM", ArmRevision(a))),
        Both(When(is64, WordSize(8)),
        Both(When(ArmRevision(a) < 4, [x \in {Error} |-> 1]),
             IF defined(a, {"__ARMEL__", "_M_ARM64"}) THEN ByteOrder(LittleEndian(a))
             ELSE IF defined(a, {"__ARMEB__"}) THEN ByteOrder(BigEndian(a))
             ELSE None)))
    BY DEF Arm
<1> HIDE DEF supersets, is64, variant, thumb
<1>7. Proc(Plain(variant \cup thumb \cup supersets)) /\ Proc(Revision("ARM", ArmRevision(a)))
    BY <1>3, <1>5, ProcParts
<1>8. QED
    BY <1>6, <1>7, ProcParts

LEMMA MipsProc == ASSUME NEW a PROVE Proc(Mips(a))
<1> DEFINE isa(n, names) == defined(a, names) \/ value(a, "__mips") >= n
           revisions == {<<isa(1, {"_MIPS_ARCH_MIPS1"}), {"MIPS_I"}>>,
                         <<isa(2, {"_MIPS_ARCH_MIPS2"}), {"MIPS_II"}>>,
                         <<isa(3, {"_MIPS_ARCH_MIPS3"}), {"MIPS_III"}>>,
                         <<isa(4, {"_MIPS_ARCH_MIPS4"}), {"MIPS_IV"}>>,
                         <<isa(5, {"_MIPS_ARCH_MIPS5"}), {"MIPS_V"}>>,
                         <<isa(32, {"_MIPS_ARCH_MIPS32", "__mips32"}), {"MIPS_32"}>>}
           is64 == defined(a, {"_MIPS_ARCH_MIPS64", "__mips64"})
           mips == {"MIPS", "MIPS_I", "MIPS_II", "MIPS_III", "MIPS_IV", "MIPS_V", "MIPS_32", "MIPS_64"}
           all == {"MIPS"} \cup Given(revisions) \cup (IF is64 THEN {"MIPS_64"} ELSE {})
<1>1. \A row \in revisions : row[2] \subseteq mips
    OBVIOUS
<1>2. mips \subseteq ProcessorNames
    BY DEF ProcessorNames
<1>3. Mips(a) =
          Both(Both(Plain(all), When(is64, WordSize(8))),
               IF defined(a, {"__MIPSEL__"}) THEN ByteOrder(LittleEndian(a))
               ELSE IF defined(a, {"__MIPSEB__"}) THEN ByteOrder(BigEndian(a))
               ELSE None)
    BY DEF Mips
<1> HIDE DEF revisions
<1>4. Given(revisions) \subseteq mips
    BY <1>1, GivenWithin
<1>5. all \subseteq mips
    BY <1>4
<1> HIDE DEF all, is64, mips
<1>6. Proc(Plain(all))
    BY <1>2, <1>5, ProcParts
<1>7. QED
    BY <1>3, <1>6, ProcParts

LEMMA FamilyProc == ASSUME NEW a PROVE Proc(ProcessorFamily(a))
<1> DEFINE D(names) == defined(a, names)
           Variant(name, macro, variant) == Plain({name} \cup IF D({macro}) THEN {variant} ELSE {})
           little == ByteOrder(LittleEndian(a))
           big == ByteOrder(BigEndian(a))
           names == {"IA64", "POWER", "POWER_32", "POWER_64", "RISCV", "RISCV_32", "RISCV_64", "S390",
                     "S390_X", "SH", "SH_4A", "SPARC", "SPARC_V9", "SPARC_64", "WASM", "X86"}
<1>1. names \subseteq ProcessorNames
    BY DEF ProcessorNames
<1>2. \A S \in SUBSET names : Proc(Plain(S))
    BY <1>1, ProcParts
<1>3. \A n, v \in names : \A c : Proc(Plain({n} \cup IF c THEN {v} ELSE {}))
    BY <1>2
<1>4. /\ Proc(Plain({"IA64"})) /\ Proc(Plain({"WASM"}))
      /\ Proc(Plain({"POWER", "POWER_64"})) /\ Proc(Plain({"POWER", "POWER_32"}))
      /\ \A c : Proc(Plain({"RISCV", IF c THEN "RISCV_64" ELSE "RISCV_32"}))
    BY <1>2
<1>5. /\ Proc(Variant("S390", "__s390x__", "S390_X")) /\ Proc(Variant("SH", "__sh4a__", "SH_4A"))
      /\ Proc(Variant("SPARC", "__sparc_v9__", "SPARC_V9"))
      /\ Proc(Variant("SPARC", "__sparc64__", "SPARC_64"))
  <2>1. /\ \A c : Proc(Plain({"S390"} \cup IF c THEN {"S390_X"} ELSE {}))
        /\ \A c : Proc(Plain({"SH"} \cup IF c THEN {"SH_4A"} ELSE {}))
        /\ \A c : Proc(Plain({"SPARC"} \cup IF c THEN {"SPARC_V9"} ELSE {}))
        /\ \A c : Proc(Plain({"SPARC"} \cup IF c THEN {"SPARC_64"} ELSE {}))
    BY <1>3
  <2> HIDE DEF D
  <2>2. QED
    BY <2>1
<1>6. \A bits \in {"32", "64"} : \A revision, size : Proc(X86(a, bits, revision, size))
  <2> TAKE bits \in {"32", "64"}
  <2> TAKE revision, size
  <2>1. {"X86_" \o bits} \subseteq ProcessorNames
      BY DEF ProcessorNames
  <2>2. Proc(Plain({"X86_" \o bits})) /\ Proc(Revision("X86", revision))
      BY <1>1, <2>1, ProcParts
  <2>3. QED
      BY <2>2, ProcParts DEF X86
<1>7. Proc(X86(a, "32", X86Revision(a), 4)) /\ Proc(X86(a, "64", 6, 8))
    BY <1>6
<1>8. Proc(Power(a))
    BY <1>4, ProcParts DEF Power
<1>9. Proc(Arm(a)) /\ Proc(Mips(a))
    BY ArmProc, MipsProc
<1>10. ProcessorFamily(a) =
        IF D(ArmMacros) THEN Arm(a)
        ELSE IF D({"__i386", "__i386__", "_M_IX86"}) THEN X86(a, "32", X86Revision(a), 4)
        ELSE IF D({"__x86_64", "__x86_64__", "__amd64", "_M_X64"}) THEN X86(a, "64", 6, 8)
        ELSE IF D({"__ia64", "__ia64__", "_M_IA64"}) THEN Both(Plain({"IA64"}), WordSize(8))
        ELSE IF D({"__mips", "__mips__", "_M_MRX000"}) THEN Mips(a)
        ELSE IF D(PowerMacros) THEN Power(a)
        ELSE IF D({"__riscv"})
        THEN Both(Plain({"RISCV", IF value(a, "__riscv_xlen") = 64 THEN "RISCV_64" ELSE "RISCV_32"}),
                  little)
        ELSE IF D({"__s390__"}) THEN Both(Variant("S390", "__s390x__", "S390_X"), big)
        ELSE IF D({"__sh__"}) THEN Variant("SH", "__sh4a__", "SH_4A")
        ELSE IF D({"__sparc__"})
        THEN Both(Both(Variant("SPARC", "__sparc_v9__", "SPARC_V9"),
                       Variant("SPARC", "__sparc64__", "SPARC_64")), big)
        ELSE IF D({"__EMSCRIPTEN__"}) THEN Both(Plain({"WASM"}), Both(little, WordSize(8)))
        ELSE None
    BY DEF ProcessorFamily
<1> HIDE DEF D, Variant, little, big, names
<1>11. Proc(little) /\ Proc(big)
    BY ProcParts DEF little, big
<1>12. QED
    BY <1>4, <1>5, <1>7, <1>8, <1>9, <1>10, <1>11, ProcParts

LEMMA ProcessorLinesExtend ==
    ASSUME NEW a
    PROVE  Extends(a, ProcessorLines(a), ProcessorMacros)
<1>1. \A d, f : Proc(f) => Extends(d, DefineAs(d, f), ProcessorMacros)
    BY ExtendsLines DEF Proc
<1>2. \A d : Extends(d, DetectByteOrder(d), ProcessorMacros)
    BY <1>1, ProcParts DEF DetectByteOrder
<1>3. \A d : Extends(d, DetectWordSize(d), ProcessorMacros)
    BY <1>1, ProcParts DEF DetectWordSize
<1> DEFINE b == DefineAs(a, ProcessorFamily(a))
           c == DetectByteOrder(b)
<1>4. Extends(a, b, ProcessorMacros)
    BY <1>1, FamilyProc
<1> HIDE DEF b
<1>5. Extends(a, c, ProcessorMacros)
    BY <1>2, <1>4, ExtendsTwice
<1> HIDE DEF c
<1>6. Extends(a, DetectWordSize(c), ProcessorMacros)
    BY <1>3, <1>5, ExtendsTwice
<1>7. QED
    BY <1>6 DEF ProcessorLines, b, c

-----------------------------------------------------------------------------
(* The chain of the headers: each includes the one before it, then its own *)
(* lines follow.  What they make of a target, guards aside.                *)
Own(k, a) ==
    IF k = 1 THEN SystemLines(a)
    ELSE IF k = 2 THEN StandardTests(Compilers(a))
    ELSE IF k = 3 THEN MacroTests(a)
    ELSE IF k = 4 THEN TypeTestLines(a)
    ELSE IF k = 5 THEN Limits(a)
    ELSE IF k = 6 THEN Exports(a)
    ELSE IF k = 7 THEN CharIsSigned(a)
    ELSE IF k = 8 THEN PrimitiveInfos(a)
    ELSE FlagClass(a)

OwnNames(k) ==
    IF k = 1 THEN SystemMacros
    ELSE IF k = 2 THEN CompilerMacros \cup FeatureMacros
    ELSE IF k = 3 THEN SpellingMacros
    ELSE IF k = 4 THEN TypeMacros \cup {"PCTK_POINTER_SIZE"}
    ELSE IF k = 5 THEN LimitMacros
    ELSE IF k = 6 THEN {"PCTK_CORE_API"}
    ELSE {}

Guard(k) ==
    IF k = 1 THEN GuardOf.System
    ELSE IF k = 2 THEN GuardOf.Compiler
    ELSE IF k = 3 THEN GuardOf.Macros
    ELSE IF k = 4 THEN GuardOf.Types
    ELSE IF k = 5 THEN GuardOf.Limits
    ELSE IF k = 6 THEN GuardOf.Global
    ELSE IF k = 7 THEN GuardOf.TypeTraits
    ELSE IF k = 8 THEN GuardOf.TypeInfo
    ELSE GuardOf.Flags

Levels == 1..9

LEMMA OwnLines ==
    ASSUME NEW k \in Levels, NEW a, k = 8 => TypesBare(a)
    PROVE  /\ \A b : Alike(a, b) => Alike(Own(k, a), Own(k, b))
           /\ Extends(a, Own(k, a), OwnNames(k))
<1>1. k \in {1, 2, 3, 4, 5, 6, 7, 8, 9}
    BY DEF Levels
<1>2. CASE k = 1
    BY <1>2, SystemTests DEF Own, OwnNames
<1>3. CASE k = 2
    BY <1>3, CompilerTestLines DEF Own, OwnNames
<1>4. CASE k = 3
    BY <1>4, MacroTestLines DEF Own, OwnNames
<1>5. CASE k = 4
    BY <1>5, TypeLines DEF Own, OwnNames
<1>6. CASE k = 5
    BY <1>6, LimitLines DEF Own, OwnNames
<1>7. CASE k = 6
    BY <1>7, ExportLines DEF Own, OwnNames
<1>8. CASE k = 7
    BY <1>8, CharLines DEF Own, OwnNames
<1>9. CASE k = 8
    BY <1>9, PrimitiveLines DEF Own, OwnNames
<1>10. CASE k = 9
    BY <1>10, FlagLines DEF Own, OwnNames
<1>11. QED
    BY <1>1, <1>2, <1>3, <1>4, <1>5, <1>6, <1>7, <1>8, <1>9, <1>10

LEMMA GuardsDiffer ==
    /\ \A k \in Levels : Guard(k) \in GuardNames /\ Guard(k) # GuardOf.Processor
    /\ GuardOf.Processor \in GuardNames
    /\ \A j, k \in Levels : Guard(j) = Guard(k) => j = k
<1>1. \A k \in Levels : Guard(k) \in GuardNames
    BY DEF Levels, Guard, GuardNames, GuardOf
<1>2. GuardOf.Processor \in GuardNames
    BY DEF GuardNames, GuardOf
<1>3. \A k \in Levels : Guard(k) # GuardOf.Processor
    BY DEF Levels, Guard, GuardOf
<1>4. \A j, k \in Levels : Guard(j) = Guard(k) => j = k
    BY DEF Levels, Guard, GuardOf
<1>5. QED
    BY <1>1, <1>2, <1>3, <1>4

(* What no header of the chain defines.                                    *)
Foreign ==
    GuardNames \cup ProcessorMacros \cup ProcessorReads \cup ConfigMacros \cup {Error}
    \cup (TypeNames \ {"pctk_int64_t"})

LEMMA NamesApart ==
    /\ \A k \in Levels : OwnNames(k) \cap Foreign = {}
    /\ \A k \in Levels \ {4} : "PCTK_POINTER_SIZE" \notin OwnNames(k)
    /\ "PCTK_POINTER_SIZE" \notin Foreign \cup ProcessorReads
    /\ (GuardNames \cup {Error}) \cap ProcessorReads = {}
    /\ ProcessorMacros \cap (ProcessorReads \cup {Error, "PCTK_POINTER_SIZE"}) = {}
    /\ GuardNames \cap (ProcessorMacros \cup {Error, "PCTK_POINTER_SIZE"}) = {}
<1> DEFINE D == Definitions
<1>1. /\ DOMAIN D = 1..13
      /\ D[1] = GuardNames /\ D[2] = SystemMacros /\ D[3] = CompilerMacros /\ D[4] = FeatureMacros
      /\ D[5] = SpellingMacros /\ D[6] = TypeMacros /\ D[7] = LimitMacros /\ D[8] = {"PCTK_CORE_API"}
      /\ D[9] = ProcessorMacros /\ D[10] = ConfigMacros /\ D[11] = {"PCTK_POINTER_SIZE"}
      /\ D[12] = {Error} /\ D[13] = TypeNames \ {"pctk_int64_t"}
    BY DEF Definitions
<1>2. \A i, j \in 1..13 : i # j => D[i] \cap D[j] = {}
    BY <1>1, DefinedOnce
<1>3. \A i \in 1..13 : D[i] \cap ProcessorReads = {}
    BY <1>1, TestsInOrder
<1> HIDE DEF D
<1>4. \A i \in 2..8 : D[i] \cap Foreign = {}
  <2> TAKE i \in 2..8
  <2>1. /\ D[i] \cap GuardNames = {} /\ D[i] \cap ProcessorMacros = {} /\ D[i] \cap ConfigMacros = {}
        /\ D[i] \cap {Error} = {} /\ D[i] \cap (TypeNames \ {"pctk_int64_t"}) = {}
    BY <1>1, <1>2
  <2>2. D[i] \cap ProcessorReads = {}
    BY <1>3
  <2>3. QED
    BY <2>1, <2>2 DEF Foreign
<1>5. \A i \in (1..13) \ {11} : "PCTK_POINTER_SIZE" \notin D[i]
    BY <1>1, <1>2
<1>6. "PCTK_POINTER_SIZE" \notin ProcessorReads
    BY <1>1, <1>3
<1>7. "PCTK_POINTER_SIZE" \notin Foreign
    BY <1>1, <1>5, <1>6 DEF Foreign
<1>8. OwnNames(2) = D[3] \cup D[4] /\ OwnNames(4) = D[6] \cup {"PCTK_POINTER_SIZE"}
      /\ OwnNames(1) = D[2] /\ OwnNames(3) = D[5] /\ OwnNames(5) = D[7] /\ OwnNames(6) = D[8]
      /\ \A k \in 7..9 : OwnNames(k) = {}
    BY <1>1 DEF OwnNames
<1>9. \A k \in Levels : k \in {1, 2, 3, 4, 5, 6} \/ k \in 7..9
    BY DEF Levels
<1>10. \A k \in Levels : OwnNames(k) \cap Foreign = {}
    BY <1>4, <1>7, <1>8, <1>9
<1>11. \A k \in Levels \ {4} : "PCTK_POINTER_SIZE" \notin OwnNames(k)
    BY <1>5, <1>8, <1>9
<1>12. /\ (GuardNames \cup {Error}) \cap ProcessorReads = {}
       /\ ProcessorMacros \cap ProcessorReads = {}
    BY <1>1, <1>3
<1>13. ProcessorMacros \cap {Error, "PCTK_POINTER_SIZE"} = {}
    BY <1>1, <1>2
<1>14. GuardNames \cap (ProcessorMacros \cup {Error, "PCTK_POINTER_SIZE"}) = {}
    BY <1>1, <1>2
<1>15. QED
    BY <1>6, <1>7, <1>10, <1>11, <1>12, <1>13, <1>14

LEMMA OwnIs ==
    \A a :
        /\ Own(1, a) = SystemLines(a) /\ Own(2, a) = StandardTests(Compilers(a))
        /\ Own(3, a) = MacroTests(a) /\ Own(4, a) = TypeTestLines(a) /\ Own(5, a) = Limits(a)
        /\ Own(6, a) = Exports(a) /\ Own(7, a) = CharIsSigned(a) /\ Own(8, a) = PrimitiveInfos(a)
        /\ Own(9, a) = FlagClass(a)
  BY DEF Own

(* What the headers up to the k-th make of a target, guards aside.         *)
Chain(t, k) ==
    LET a == Predefined(t)
        b == Own(1, a)
        c == Own(2, b)
        d == Own(3, c)
        e == Own(4, d)
        f == Own(5, e)
        g == Own(6, f)
        h == Own(7, g)
        i == Own(8, h)
    IN  IF k = 0 THEN a
        ELSE IF k = 1 THEN b
        ELSE IF k = 2 THEN c
        ELSE IF k = 3 THEN d
        ELSE IF k = 4 THEN e
        ELSE IF k = 5 THEN f
        ELSE IF k = 6 THEN g
        ELSE IF k = 7 THEN h
        ELSE IF k = 8 THEN i
        ELSE Own(9, i)

LEMMA ChainStep ==
    ASSUME NEW t
    PROVE  /\ Chain(t, 0) = Predefined(t)
           /\ \A k \in Levels : Chain(t, k) = Own(k, Chain(t, k - 1))
<1>1. \A k \in Levels : k \in {1, 2, 3, 4, 5, 6, 7, 8, 9}
    BY DEF Levels
<1>2. Chain(t, 0) = Predefined(t)
    BY DEF Chain
<1>3. ASSUME NEW k \in {1, 2, 3, 4, 5, 6, 7, 8, 9}
      PROVE  Chain(t, k) = Own(k, Chain(t, k - 1))
    BY DEF Chain
<1>4. QED
    BY <1>1, <1>2, <1>3

(* What pctkTypes.h defines is what its parts say.                         *)
LEMMA TypeValues ==
    ASSUME NEW a
    PROVE  LET types == TypeTestLines(a) IN
           /\ \A x \in DOMAIN Typedefs(a) : x \in DOMAIN types /\ types[x] = Typedefs(a)[x]
           /\ \A x \in DOMAIN Formats(a) : x \in DOMAIN types /\ types[x] = Formats(a)[x]
           /\ "pctk_int64_t" \in DOMAIN types /\ types["pctk_int64_t"] \in {"int64_t", "long long"}
<1> DEFINE types == TypeTestLines(a)
           typed == {"pctk_int8_t", "pctk_int16_t", "pctk_int32_t", "pctk_int64_t", "pctk_ptrdiff_t",
                     "pctk_intptr_t", "pctk_size_t", "pctk_longlong_t"}
           formats == {"PCTK_INT16_FORMAT", "PCTK_INT32_FORMAT", "PCTK_INT32_MODIFIER",
                       "PCTK_INT64_FORMAT", "PCTK_SIZE_FORMAT", "PCTK_INTPTR_FORMAT"}
           refused == Refused(Formats(a)) \cup Refused(PtrTypes(a))
           sized == DefineAs(a, [PCTK_POINTER_SIZE |-> PointerSize(a),
                             PCTK_HAS_BUILTIN_OVERFLOW_CHECKS |-> Flag(BuiltinOverflowChecks(a))])
<1>1. types = Define(DefineAs(DefineAs(sized, Formats(a)), Typedefs(a)), refused)
    BY DEF TypeTestLines
<1>2. refused \subseteq {Error}
    BY DEF Refused
<1>3. DOMAIN Typedefs(a) = typed
    BY DEF Typedefs, DefineAs, IntTypes, PtrTypes, OtherTypes
<1>4. DOMAIN Formats(a) = formats
    BY DEF Formats
<1>5. Error \notin typed \cup formats /\ typed \cap formats = {}
    BY DEF Error
<1>6. Typedefs(a)["pctk_int64_t"] \in {"int64_t", "long long"}
    BY DEF Typedefs, DefineAs, IntTypes, PtrTypes, OtherTypes
<1> HIDE DEF types, typed, formats, refused, sized
<1>7. \A x \in typed : x \in DOMAIN types /\ types[x] = Typedefs(a)[x]
    BY <1>1, <1>2, <1>3, <1>5 DEF Define, DefineAs
<1>8. \A x \in formats : x \in DOMAIN types /\ types[x] = Formats(a)[x]
    BY <1>1, <1>2, <1>3, <1>4, <1>5 DEF Define, DefineAs
<1>9. "pctk_int64_t" \in typed
    BY DEF typed
<1>10. QED
    BY <1>3, <1>4, <1>6, <1>7, <1>8, <1>9 DEF types

LEMMA ErrorNoType == Error \notin TypeNames
<1>1. Error # "pctk_int64_t"
    BY DEF Error
<1>2. Definitions[12] = {Error} /\ Definitions[13] = TypeNames \ {"pctk_int64_t"}
    BY DEF Definitions
<1>3. 12 \in DOMAIN Definitions /\ 13 \in DOMAIN Definitions
    BY DEF Definitions
<1>4. QED
    BY <1>1, <1>2, <1>3, DefinedOnce

LEMMA Int64Kept == \A k \in 5..7 : "pctk_int64_t" \notin OwnNames(k) \cup {Error}
<1>1. /\ Definitions[6] = TypeMacros /\ Definitions[7] = LimitMacros
      /\ Definitions[8] = {"PCTK_CORE_API"}
      /\ 6 \in DOMAIN Definitions /\ 7 \in DOMAIN Definitions /\ 8 \in DOMAIN Definitions
    BY DEF Definitions
<1>2. "pctk_int64_t" \in TypeMacros
    BY DEF TypeMacros
<1>3. "pctk_int64_t" \notin LimitMacros /\ "pctk_int64_t" \notin {"PCTK_CORE_API"}
    BY <1>1, <1>2, DefinedOnce
<1>4. "pctk_int64_t" # Error
    BY DEF Error
<1>5. \A k \in 5..7 : k = 5 \/ k = 6 \/ k = 7
    OBVIOUS
<1>6. QED
    BY <1>3, <1>4, <1>5 DEF OwnNames

(* How far the chain gets before it fails, it fails further on.            *)
LEMMA ChainTypes ==
    ASSUME NEW t \in Targets
    PROVE  /\ \A k \in 0..9 : \A x \in Foreign \ {Error} : Same(Predefined(t), Chain(t, k), x)
           /\ \A k \in 0..3 : Same(Predefined(t), Chain(t, k), "PCTK_POINTER_SIZE")
           /\ TypesBare(Chain(t, 7))
           /\ \A k \in Levels : Extends(Chain(t, k - 1), Chain(t, k), OwnNames(k))
<1> DEFINE P(k) == \A x \in Foreign \ {Error} : Same(Predefined(t), Chain(t, k), x)
           X(k) == Extends(Chain(t, k - 1), Chain(t, k), OwnNames(k))
           Z(k) == Same(Predefined(t), Chain(t, k), "PCTK_POINTER_SIZE")
<1>1. P(0) /\ Z(0)
    BY ChainStep DEF Same
<1>2. \A k \in Levels : P(k - 1) /\ X(k) => P(k)
    BY NamesApart DEF Extends, AgreeBut, Same
<1>3. \A k \in Levels : TypesBare(Chain(t, k - 1)) => X(k)
    BY ChainStep, OwnLines
<1>4. \A k \in Levels \ {8} : X(k)
    BY ChainStep, OwnLines
<1>5. \A k \in 1..3 : Z(k - 1) => Z(k)
  <2> TAKE k \in 1..3
  <2>1. k \in Levels \ {4} /\ k \in Levels \ {8}
    BY DEF Levels
  <2>2. "PCTK_POINTER_SIZE" \notin OwnNames(k) \cup {Error}
    BY <2>1, NamesApart DEF Foreign
  <2>3. QED
    BY <1>4, <2>1, <2>2 DEF Extends, AgreeBut, Same
<1> HIDE DEF P, X, Z
<1>6. Z(0) /\ Z(1) /\ Z(2) /\ Z(3)
  <2>1. Z(1)
    BY <1>1, <1>5
  <2>2. Z(2)
    BY <1>5, <2>1
  <2>3. Z(3)
    BY <1>5, <2>2
  <2>4. QED
    BY <1>1, <2>1, <2>2, <2>3
<1>7. P(0) /\ P(1) /\ P(2) /\ P(3) /\ P(4) /\ P(5) /\ P(6) /\ P(7)
  <2>1. \A k \in 1..7 : P(k - 1) => P(k)
    BY <1>2, <1>4 DEF Levels
  <2>2. P(1)
    BY <1>1, <2>1
  <2>3. P(2)
    BY <2>1, <2>2
  <2>4. P(3)
    BY <2>1, <2>3
  <2>5. P(4)
    BY <2>1, <2>4
  <2>6. P(5)
    BY <2>1, <2>5
  <2>7. P(6)
    BY <2>1, <2>6
  <2>8. P(7)
    BY <2>1, <2>7
  <2>9. QED
    BY <1>1, <2>2, <2>3, <2>4, <2>5, <2>6, <2>7, <2>8
<1>8. TypesBare(Chain(t, 7))
  <2>1. ASSUME NEW n \in TypeNames \cap DOMAIN Chain(t, 7), n # "pctk_int64_t"
        PROVE  Chain(t, 7)[n] \in TypeNames
    <3>1. n \in Foreign \ {Error}
        BY <2>1, ErrorNoType DEF Foreign
    <3>2. Same(Predefined(t), Chain(t, 7), n)
        BY <1>7, <3>1 DEF P
    <3>3. n \in DOMAIN Predefined(t) /\ Chain(t, 7)[n] = Predefined(t)[n]
        BY <3>2 DEF Same
    <3>4. Predefined(t)[n] \in BaseTypes
        BY <3>3, TargetsBare
    <3>5. QED
        BY <3>3, <3>4 DEF TypeNames
  <2>2. Chain(t, 7)["pctk_int64_t"] \in TypeNames
    <3>1. /\ "pctk_int64_t" \in DOMAIN TypeTestLines(Chain(t, 3))
          /\ TypeTestLines(Chain(t, 3))["pctk_int64_t"] \in {"int64_t", "long long"}
        BY TypeValues
    <3>2. Chain(t, 4) = TypeTestLines(Chain(t, 3))
        BY ChainStep, OwnIs DEF Levels
    <3>3. \A k \in 5..7 : Same(Chain(t, k - 1), Chain(t, k), "pctk_int64_t")
      <4> TAKE k \in 5..7
      <4>1. "pctk_int64_t" \notin OwnNames(k) \cup {Error}
        BY Int64Kept
      <4>2. k \in Levels \ {8}
        BY DEF Levels
      <4>3. X(k)
        BY <1>4, <4>2
      <4>4. QED
        BY <4>1, <4>3 DEF X, Extends, AgreeBut
    <3>4. /\ Same(Chain(t, 4), Chain(t, 5), "pctk_int64_t")
          /\ Same(Chain(t, 5), Chain(t, 6), "pctk_int64_t")
          /\ Same(Chain(t, 6), Chain(t, 7), "pctk_int64_t")
        BY <3>3
    <3>5. Chain(t, 7)["pctk_int64_t"] = Chain(t, 4)["pctk_int64_t"]
        BY <3>1, <3>2, <3>4 DEF Same
    <3>6. QED
        BY <3>1, <3>2, <3>5 DEF TypeNames, BaseTypes, StandardNames
  <2>3. QED
    BY <2>1, <2>2 DEF TypesBare
<1>9. X(8)
    BY <1>3, <1>8 DEF Levels
<1>10. P(8) /\ P(9)
  <2>1. X(9) /\ 8 \in Levels /\ 9 \in Levels
    BY <1>4 DEF Levels
  <2>2. QED
    BY <1>2, <1>7, <1>9, <2>1
<1>11. \A k \in 0..9 : P(k)
    BY <1>7, <1>10
<1>12. \A k \in 0..3 : Z(k)
    BY <1>6
<1>13. \A k \in Levels : X(k)
    BY <1>4, <1>9
<1>14. QED
    BY <1>8, <1>11, <1>12, <1>13 DEF P, X, Z

-----------------------------------------------------------------------------
(* The headers of the chain, from wherever the inclusions before got to.   *)
LEMMA ChainFails ==
    ASSUME NEW t \in Targets, NEW i \in 0..9, NEW j \in 0..9, i <= j, Fails(Chain(t, i))
    PROVE  Fails(Chain(t, j))
<1> DEFINE F(k) == Fails(Chain(t, k))
<1>1. \A k \in Levels : F(k - 1) => F(k)
    BY ChainTypes DEF Extends
<1> HIDE DEF F
<1>2. F(i)
    BY DEF F
<1>3. SUFFICES ASSUME ~F(j)
               PROVE  FALSE
    BY DEF F
<1> DEFINE S == {k \in i..j : ~F(k)}
<1>4. S \subseteq Nat /\ S # {}
    BY <1>3
<1>5. PICK least \in S : \A k \in S : least <= k
    BY <1>4, LeastNatural
<1>6. least \in Levels /\ least - 1 \in i..j
    BY <1>2, <1>5 DEF Levels
<1>7. F(least - 1)
    BY <1>5, <1>6
<1>8. QED
    BY <1>1, <1>5, <1>6, <1>7

Measured == {"__SIZEOF_POINTER__", "__LP64__"}

LEMMA PointerSizeSame ==
    ASSUME NEW a, NEW b, Agree(a, b, SizeReads), defined(a, Measured)
    PROVE  PointerSize(a) = PointerSize(b) /\ defined(b, Measured)
<1>1. defined(a, {"__SIZEOF_POINTER__"}) = defined(b, {"__SIZEOF_POINTER__"})
    BY DEF defined, Agree, Same, SizeReads
<1>2. defined(a, {"__LP64__", "_LP64"}) = defined(b, {"__LP64__", "_LP64"})
    BY DEF defined, Agree, Same, SizeReads
<1>3. defined(b, Measured)
    BY DEF defined, Agree, Same, SizeReads, Measured
<1>4. value(a, "__SIZEOF_POINTER__") = value(b, "__SIZEOF_POINTER__")
    BY DEF value, Agree, Same, SizeReads
<1>5. defined(a, {"__SIZEOF_POINTER__"}) \/ defined(a, {"__LP64__", "_LP64"})
    BY DEF defined, Measured
<1>6. QED
    BY <1>1, <1>2, <1>3, <1>4, <1>5 DEF PointerSize

Marked(a, guard) == guard \in DOMAIN a /\ a[guard] = 1

(* Where the compiler tells the size of a pointer, pctkTypes.h has it.     *)
Told(t, n, a) ==
    n >= 4 /\ defined(Predefined(t), Measured) =>
        "PCTK_POINTER_SIZE" \in DOMAIN a /\ a["PCTK_POINTER_SIZE"] = PointerSize(Predefined(t))

(* a has what n headers of the chain define, n or k of them marked.        *)
Reached(t, n, a) == ~Fails(a) /\ Alike(a, Chain(t, n)) /\ Told(t, n, a)

Ready(t, k, n, a) ==
    /\ Reached(t, n, a)
    /\ \A j \in 1..k : IF j <= n THEN Marked(a, Guard(j)) ELSE Guard(j) \notin DOMAIN a

(* The k-th header makes b of a, which then has what n headers define.     *)
Kept(k, a, b) ==
    \A x \in GuardNames \cup ProcessorMacros : (\A j \in 1..k : x # Guard(j)) => Same(a, b, x)

Moves(t, k, n, a, b) ==
    IF Fails(Chain(t, n)) THEN Fails(b)
    ELSE Reached(t, n, b) /\ (\A j \in 1..k : Marked(b, Guard(j))) /\ Kept(k, a, b)

LEMMA AlikeFails == ASSUME NEW a, NEW b, Alike(a, b) PROVE Fails(a) <=> Fails(b)
<1>1. Error \notin Unseen
    BY NamesApart DEF Unseen, Foreign
<1>2. QED
    BY <1>1 DEF Alike, AgreeBut, Same, Fails

LEMMA AlikeSizes == ASSUME NEW a, NEW b, Alike(a, b) PROVE Agree(a, b, SizeReads)
<1>1. \A x \in ProcessorReads : x \notin Unseen
    BY NamesApart DEF Unseen, Foreign
<1>2. SizeReads \subseteq ProcessorReads
    BY ProcessorReadNames
<1>3. QED
    BY <1>1, <1>2 DEF Alike, AgreeBut, Agree

LEMMA PredefinedSizes ==
    ASSUME NEW t \in Targets, NEW n \in 0..9
    PROVE  Agree(Predefined(t), Chain(t, n), SizeReads)
<1>1. SizeReads \subseteq Foreign \ {Error}
    BY ProcessorReadNames, NamesApart DEF Foreign
<1>2. QED
    BY <1>1, ChainTypes DEF Agree

LEMMA LevelEnter ==
    ASSUME NEW t \in Targets, NEW k \in Levels, NEW n \in 0..9, n < k, NEW a, Ready(t, k, n, a)
    PROVE  /\ ~defined(a, {Guard(k), Error})
           /\ Ready(t, k - 1, n, Define(a, {Guard(k)}))
<1> DEFINE b == Define(a, {Guard(k)})
<1>1. Guard(k) \in GuardNames /\ Guard(k) # Error /\ Guard(k) # "PCTK_POINTER_SIZE"
    BY GuardsDiffer, NamesApart DEF Foreign
<1>2. \A x : x # Guard(k) => Same(a, b, x)
    BY DEF Define, DefineAs, Same
<1> HIDE DEF b
<1>3. ~defined(a, {Guard(k), Error})
    BY DEF Ready, Reached, Levels, defined, Fails
<1>4. ~Fails(b)
    BY <1>1, <1>2 DEF Ready, Reached, Fails, Same
<1>5. Alike(b, Chain(t, n))
    BY <1>1, <1>2 DEF Ready, Reached, Alike, AgreeBut, Same, Unseen
<1>6. Told(t, n, b)
    BY <1>1, <1>2 DEF Ready, Reached, Told, Same
<1>7. ASSUME NEW j \in 1..(k - 1)
      PROVE  IF j <= n THEN Marked(b, Guard(j)) ELSE Guard(j) \notin DOMAIN b
  <2>1. j \in Levels /\ j \in 1..k /\ j # k
    BY DEF Levels
  <2>2. Same(a, b, Guard(j))
    BY <1>2, <2>1, GuardsDiffer
  <2>3. QED
    BY <2>1, <2>2 DEF Ready, Marked, Same
<1>8. QED
    BY <1>3, <1>4, <1>5, <1>6, <1>7 DEF Ready, Reached, b

LEMMA LevelBefore ==
    ASSUME NEW t \in Targets, NEW k \in Levels, NEW j \in 0..8, k = j + 1, NEW n \in 0..9, n < k,
           NEW a, Ready(t, k, n, a)
    PROVE  Ready(t, j, n, Define(a, {Guard(k)}))
<1>1. j = k - 1
    OBVIOUS
<1>2. QED
    BY <1>1, LevelEnter

LEMMA LevelSkip ==
    ASSUME NEW t \in Targets, NEW k \in 0..9, NEW n \in 0..9, k <= n, NEW a, Ready(t, k, n, a)
    PROVE  Moves(t, k, n, a, a) /\ (k > 0 => defined(a, {Guard(k), Error}))
<1>1. Kept(k, a, a)
    BY DEF Kept, Same
<1>2. ~Fails(Chain(t, n))
    BY AlikeFails DEF Ready, Reached
<1>3. \A j \in 1..k : Marked(a, Guard(j))
    BY DEF Ready
<1>4. k > 0 => Guard(k) \in DOMAIN a
    BY <1>3 DEF Marked
<1>5. QED
    BY <1>1, <1>2, <1>3, <1>4 DEF Moves, Ready, defined

LEMMA LevelLeave ==
    ASSUME NEW t \in Targets, NEW k \in Levels, NEW a, NEW b, NEW c,
           Moves(t, k - 1, k - 1, Define(a, {Guard(k)}), b),
           c = Own(k, b) \/ (Fails(b) /\ c = b)
    PROVE  Moves(t, k, k, a, c)
<1> DEFINE d == Define(a, {Guard(k)})
           p == Chain(t, k - 1)
           q == Chain(t, k)
<1>1. q = Own(k, p) /\ Extends(p, q, OwnNames(k))
    BY ChainStep, ChainTypes
<1>2. CASE Fails(p)
  <2>1. Fails(b) /\ Fails(q)
    BY <1>1, <1>2 DEF Moves, Extends
  <2>2. Fails(c)
    <3>1. CASE k = 8
      <4>1. Own(8, b) = PrimitiveInfos(b) /\ Extends(b, Define(b, {Error}), {}) /\ Extends(b, b, {})
        BY ExtendsLines, ExtendsSelf, OwnIs
      <4>2. QED
        BY <2>1, <3>1, <4>1 DEF Extends, PrimitiveInfos
    <3>2. CASE k # 8
      <4>1. Extends(b, Own(k, b), OwnNames(k))
        BY <3>2, OwnLines
      <4>2. QED
        BY <2>1, <4>1 DEF Extends
    <3>3. QED
        BY <3>1, <3>2
  <2>3. QED
    BY <2>1, <2>2 DEF Moves
<1>3. CASE ~Fails(p)
  <2>1. /\ Reached(t, k - 1, b) /\ Kept(k - 1, d, b)
        /\ \A j \in 1..(k - 1) : Marked(b, Guard(j))
    BY <1>3 DEF Moves
  <2>2. c = Own(k, b)
    BY <2>1 DEF Reached
  <2>3. k = 8 => TypesBare(b)
    <3>1. TypeNames \subseteq ReadNames
        BY DEF ReadNames, OtherReads
    <3>2. Agree(b, p, TypeNames)
        BY <2>1, <3>1, AlikeTests DEF Reached
    <3>3. k = 8 => p = Chain(t, 7)
        OBVIOUS
    <3>4. QED
        BY <3>2, <3>3, ChainTypes DEF TypesBare, Agree, Same
  <2>4. Alike(c, q) /\ Extends(b, c, OwnNames(k))
    BY <1>1, <2>1, <2>2, <2>3, OwnLines DEF Reached
  <2>5. Fails(c) <=> Fails(q)
    BY <2>4, AlikeFails
  <2>6. ASSUME ~Fails(q)
        PROVE  Reached(t, k, c) /\ (\A j \in 1..k : Marked(c, Guard(j))) /\ Kept(k, a, c)
    <3>1. Told(t, k, c)
      <4>1. CASE k = 4
        <5>1. c = TypeTestLines(b)
            BY <2>2, <4>1, OwnIs
        <5>2. "PCTK_POINTER_SIZE" \in DOMAIN c /\ c["PCTK_POINTER_SIZE"] = PointerSize(b)
            BY <5>1, TypeLines
        <5>3. Agree(Predefined(t), p, SizeReads)
            BY PredefinedSizes DEF Levels
        <5>4. Agree(b, p, SizeReads)
            BY <2>1, AlikeSizes DEF Reached
        <5>5. Agree(Predefined(t), b, SizeReads)
            BY <5>3, <5>4 DEF Agree, Same
        <5>6. defined(Predefined(t), Measured) => PointerSize(b) = PointerSize(Predefined(t))
            BY <5>5, PointerSizeSame
        <5>7. QED
            BY <5>2, <5>6 DEF Told
      <4>2. CASE k # 4
        <5>1. "PCTK_POINTER_SIZE" \notin OwnNames(k) \cup {Error}
            BY <4>2, NamesApart DEF Foreign
        <5>2. Same(b, c, "PCTK_POINTER_SIZE")
            BY <2>4, <5>1 DEF Extends, AgreeBut
        <5>3. Told(t, k - 1, b)
            BY <2>1 DEF Reached
        <5>4. k >= 4 => k - 1 >= 4
            BY <4>2 DEF Levels
        <5>5. QED
            BY <5>2, <5>3, <5>4 DEF Told, Same
      <4>3. QED
        BY <4>1, <4>2
    <3>2. \A x \in GuardNames \cup ProcessorMacros : Same(b, c, x)
      <4>1. \A x \in GuardNames \cup ProcessorMacros : x \notin OwnNames(k) \cup {Error}
        BY NamesApart DEF Foreign
      <4>2. QED
        BY <2>4, <4>1 DEF Extends, AgreeBut
    <3>3. \A x : x # Guard(k) => Same(a, d, x)
        BY DEF Define, DefineAs, Same
    <3>4. Marked(d, Guard(k))
        BY DEF Define, DefineAs, Marked
    <3> HIDE DEF d
    <3>5. Kept(k, a, c)
      <4>1. \A j \in 1..(k - 1) : j \in 1..k
        BY DEF Levels
      <4>2. k \in 1..k
        BY DEF Levels
      <4>3. QED
        BY <2>1, <3>2, <3>3, <4>1, <4>2 DEF Kept, Same
    <3>6. \A j \in 1..k : Marked(c, Guard(j))
      <4>1. \A j \in 1..k : j = k \/ j \in 1..(k - 1)
        BY DEF Levels
      <4>2. \A j \in 1..k : Guard(j) \in GuardNames
        BY GuardsDiffer DEF Levels
      <4>3. Marked(b, Guard(k))
        <5>1. \A j \in 1..(k - 1) : Guard(k) # Guard(j)
            BY GuardsDiffer DEF Levels
        <5>2. Same(d, b, Guard(k))
            BY <2>1, <5>1, GuardsDiffer DEF Kept
        <5>3. QED
            BY <3>4, <5>2 DEF Marked, Same
      <4>4. \A j \in 1..k : Marked(b, Guard(j))
        BY <2>1, <4>1, <4>3
      <4>5. QED
        BY <3>2, <4>2, <4>4 DEF Marked, Same
    <3>7. QED
        BY <2>4, <2>5, <2>6, <3>1, <3>5, <3>6 DEF Reached
  <2>7. QED
    BY <2>5, <2>6 DEF Moves
<1>4. QED
    BY <1>2, <1>3

(* Where a header is included before another's lines.                      *)
LEMMA LevelThen ==
    ASSUME NEW t \in Targets, NEW k \in 0..9, NEW j \in 0..9, k <= j, NEW n \in 0..9, NEW p \in 0..9,
           n <= p, k <= p, n = p \/ k = p,
           NEW a, NEW b, Ready(t, j, n, a), Moves(t, k, p, a, b), ~Fails(b)
    PROVE  Ready(t, j, p, b)
<1>1. Reached(t, p, b) /\ (\A i \in 1..k : Marked(b, Guard(i))) /\ Kept(k, a, b)
    BY DEF Moves
<1>2. ASSUME NEW i \in 1..j
      PROVE  IF i <= p THEN Marked(b, Guard(i)) ELSE Guard(i) \notin DOMAIN b
  <2>1. CASE i <= k
    BY <1>1, <2>1
  <2>2. CASE k < i
    <3>1. \A l \in 1..k : Guard(i) # Guard(l)
        BY <2>2, GuardsDiffer DEF Levels
    <3>2. Guard(i) \in GuardNames
        BY GuardsDiffer DEF Levels
    <3>3. Same(a, b, Guard(i))
        BY <1>1, <3>1, <3>2 DEF Kept
    <3>4. i <= p <=> i <= n
        BY <2>2
    <3>5. IF i <= n THEN Marked(a, Guard(i)) ELSE Guard(i) \notin DOMAIN a
        BY DEF Ready
    <3>6. QED
        BY <3>3, <3>4, <3>5 DEF Marked, Same
  <2>3. QED
    BY <2>1, <2>2
<1>3. QED
    BY <1>1, <1>2 DEF Ready

(* A header of the chain is included: the guard, the header before, and its*)
(* own lines unless it failed.                                             *)
LEMMA LevelHeader ==
    ASSUME NEW t \in Targets, NEW k \in Levels, NEW n \in 0..9, NEW a, Ready(t, k, n, a),
           NEW j \in 0..8, k = j + 1, NEW b, NEW c, NEW lines,
           n < k => Moves(t, j, j, Define(a, {Guard(k)}), c),
           lines = Own(k, c) \/ (Fails(c) /\ lines = c),
           b = IF defined(a, {Guard(k), Error}) THEN a ELSE lines
    PROVE  Moves(t, k, IF n < k THEN k ELSE n, a, b)
<1>1. CASE n < k
  <2>1. ~defined(a, {Guard(k), Error})
    BY <1>1, LevelEnter
  <2>2. b = lines /\ j = k - 1
    BY <2>1
  <2>3. Moves(t, k - 1, k - 1, Define(a, {Guard(k)}), c)
    BY <1>1, <2>2
  <2>4. Moves(t, k, k, a, b)
    BY <2>2, <2>3, LevelLeave
  <2>5. QED
    BY <1>1, <2>4
<1>2. CASE ~(n < k)
  <2>1. k \in 0..9 /\ k <= n /\ k > 0
    BY <1>2 DEF Levels
  <2>2. Moves(t, k, n, a, a) /\ b = a
    BY <2>1, LevelSkip
  <2>3. QED
    BY <1>2, <2>2
<1>3. QED
    BY <1>1, <1>2

LEMMA SystemLevel ==
    ASSUME NEW t \in Targets, NEW n \in 0..9, NEW a, Ready(t, 1, n, a)
    PROVE  Moves(t, 1, IF n < 1 THEN 1 ELSE n, a, pctkSystem(a))
<1> DEFINE d == Define(a, {Guard(1)})
           c == d
           lines == SystemLines(d)
<1>1. 1 \in Levels /\ 0 \in 0..8 /\ 1 = 0 + 1 /\ Guard(1) = "_PCTKSYSTEM_H_"
    BY DEF Levels, Guard, GuardOf
<1>2. pctkSystem(a) = IF defined(a, {Guard(1), Error}) THEN a ELSE lines
    BY <1>1 DEF pctkSystem, Header
<1>3. lines = Own(1, c) \/ (Fails(c) /\ lines = c)
    BY OwnIs DEF SystemLines
<1> HIDE DEF lines, d
<1>4. ASSUME n < 1
      PROVE  Moves(t, 0, 0, d, c)
  <2>1. Ready(t, 0, n, d)
    BY <1>1, <1>4, LevelBefore DEF d
  <2>2. n = 0
    BY <1>4
  <2>3. QED
    BY <2>1, <2>2, LevelSkip
<1> HIDE DEF c
<1>5. QED
    BY <1>1, <1>2, <1>3, <1>4, LevelHeader DEF d

LEMMA CompilerLevel ==
    ASSUME NEW t \in Targets, NEW n \in 0..9, NEW a, Ready(t, 2, n, a)
    PROVE  Moves(t, 2, IF n < 2 THEN 2 ELSE n, a, pctkCompiler(a))
<1> DEFINE d == Define(a, {Guard(2)})
           c == pctkSystem(d)
           lines == CompilerLines(d)
<1>1. 2 \in Levels /\ 1 \in 0..8 /\ 2 = 1 + 1 /\ Guard(2) = "_PCTKCOMPILER_H"
    BY DEF Levels, Guard, GuardOf
<1>2. pctkCompiler(a) = IF defined(a, {Guard(2), Error}) THEN a ELSE lines
    BY <1>1 DEF pctkCompiler, Header
<1>3. lines = Own(2, c) \/ (Fails(c) /\ lines = c)
    BY OwnIs DEF CompilerLines
<1> HIDE DEF lines, d
<1>4. ASSUME n < 2
      PROVE  Moves(t, 1, 1, d, c)
  <2>1. Ready(t, 1, n, d)
    BY <1>1, <1>4, LevelBefore DEF d
  <2>2. Moves(t, 1, IF n < 1 THEN 1 ELSE n, d, c)
    BY <2>1, SystemLevel
  <2>3. QED
    BY <1>4, <2>2
<1> HIDE DEF c
<1>5. QED
    BY <1>1, <1>2, <1>3, <1>4, LevelHeader DEF d

LEMMA MacrosLevel ==
    ASSUME NEW t \in Targets, NEW n \in 0..9, NEW a, Ready(t, 3, n, a)
    PROVE  Moves(t, 3, IF n < 3 THEN 3 ELSE n, a, pctkMacros(a))
<1> DEFINE d == Define(a, {Guard(3)})
           c == pctkCompiler(d)
           lines == MacrosLines(d)
<1>1. 3 \in Levels /\ 2 \in 0..8 /\ 3 = 2 + 1 /\ Guard(3) = "_PCTKMACROS_H_"
    BY DEF Levels, Guard, GuardOf
<1>2. pctkMacros(a) = IF defined(a, {Guard(3), Error}) THEN a ELSE lines
    BY <1>1 DEF pctkMacros, Header
<1>3. lines = Own(3, c) \/ (Fails(c) /\ lines = c)
    BY OwnIs DEF MacrosLines
<1> HIDE DEF lines, d
<1>4. ASSUME n < 3
      PROVE  Moves(t, 2, 2, d, c)
  <2>1. Ready(t, 2, n, d)
    BY <1>1, <1>4, LevelBefore DEF d
  <2>2. Moves(t, 2, IF n < 2 THEN 2 ELSE n, d, c)
    BY <2>1, CompilerLevel
  <2>3. QED
    BY <1>4, <2>2
<1> HIDE DEF c
<1>5. QED
    BY <1>1, <1>2, <1>3, <1>4, LevelHeader DEF d

LEMMA TypesLevel ==
    ASSUME NEW t \in Targets, NEW n \in 0..9, NEW a, Ready(t, 4, n, a)
    PROVE  Moves(t, 4, IF n < 4 THEN 4 ELSE n, a, pctkTypes(a))
<1> DEFINE d == Define(a, {Guard(4)})
           c == pctkMacros(d)
           lines == TypesLines(d)
<1>1. 4 \in Levels /\ 3 \in 0..8 /\ 4 = 3 + 1 /\ Guard(4) = "_PCTKTYPES_H"
    BY DEF Levels, Guard, GuardOf
<1>2. pctkTypes(a) = IF defined(a, {Guard(4), Error}) THEN a ELSE lines
    BY <1>1 DEF pctkTypes, Header
<1>3. lines = Own(4, c) \/ (Fails(c) /\ lines = c)
    BY OwnIs DEF TypesLines, UnlessFailed
<1> HIDE DEF lines, d
<1>4. ASSUME n < 4
      PROVE  Moves(t, 3, 3, d, c)
  <2>1. Ready(t, 3, n, d)
    BY <1>1, <1>4, LevelBefore DEF d
  <2>2. Moves(t, 3, IF n < 3 THEN 3 ELSE n, d, c)
    BY <2>1, MacrosLevel
  <2>3. QED
    BY <1>4, <2>2
<1> HIDE DEF c
<1>5. QED
    BY <1>1, <1>2, <1>3, <1>4, LevelHeader DEF d

LEMMA LimitsLevel ==
    ASSUME NEW t \in Targets, NEW n \in 0..9, NEW a, Ready(t, 5, n, a)
    PROVE  Moves(t, 5, IF n < 5 THEN 5 ELSE n, a, pctkLimits(a))
<1> DEFINE d == Define(a, {Guard(5)})
           c == pctkTypes(d)
           lines == LimitsLines(d)
<1>1. 5 \in Levels /\ 4 \in 0..8 /\ 5 = 4 + 1 /\ Guard(5) = "_PCTKLIMITS_H_"
    BY DEF Levels, Guard, GuardOf
<1>2. pctkLimits(a) = IF defined(a, {Guard(5), Error}) THEN a ELSE lines
    BY <1>1 DEF pctkLimits, Header
<1>3. lines = Own(5, c) \/ (Fails(c) /\ lines = c)
    BY OwnIs DEF LimitsLines, UnlessFailed
<1> HIDE DEF lines, d
<1>4. ASSUME n < 5
      PROVE  Moves(t, 4, 4, d, c)
  <2>1. Ready(t, 4, n, d)
    BY <1>1, <1>4, LevelBefore DEF d
  <2>2. Moves(t, 4, IF n < 4 THEN 4 ELSE n, d, c)
    BY <2>1, TypesLevel
  <2>3. QED
    BY <1>4, <2>2
<1> HIDE DEF c
<1>5. QED
    BY <1>1, <1>2, <1>3, <1>4, LevelHeader DEF d

LEMMA GlobalIncludes ==
    ASSUME NEW t \in Targets, NEW n \in 0..5, NEW a, Ready(t, 5, n, a)
    PROVE  Moves(t, 5, 5, a, pctkCompiler(pctkLimits(pctkMacros(a))))
<1> DEFINE b == pctkMacros(a)
           c == pctkLimits(b)
           p == IF n < 3 THEN 3 ELSE n
<1>1. \A d : Fails(d) => pctkLimits(d) = d /\ pctkCompiler(d) = d
    BY DEF pctkLimits, pctkCompiler, Header, Fails, defined
<1>2. Ready(t, 3, n, a)
    BY DEF Ready
<1>3. Moves(t, 3, p, a, b)
    BY <1>2, MacrosLevel
<1> HIDE DEF b
<1>4. p \in 0..5 /\ n <= p /\ 3 <= p /\ (n = p \/ 3 = p)
    OBVIOUS
<1> HIDE DEF p
<1>5. CASE Fails(b)
  <2>1. pctkCompiler(c) = b
    BY <1>1, <1>5
  <2>2. Fails(Chain(t, p))
    BY <1>3, <1>5 DEF Moves, Reached
  <2>3. Fails(Chain(t, 5))
    BY <1>4, <2>2, ChainFails
  <2>4. QED
    BY <1>5, <2>1, <2>3 DEF Moves, b, c
<1>6. CASE ~Fails(b)
  <2>1. Ready(t, 5, p, b)
    BY <1>3, <1>4, <1>6, LevelThen
  <2>2. Moves(t, 5, 5, b, c)
    BY <1>4, <2>1, LimitsLevel
  <2> HIDE DEF c
  <2>3. CASE Fails(c)
    <3>1. Fails(Chain(t, 5)) /\ pctkCompiler(c) = c
        BY <1>1, <2>2, <2>3 DEF Moves, Reached
    <3>2. QED
        BY <2>3, <3>1 DEF Moves, b, c
  <2>4. CASE ~Fails(c)
    <3>1. Ready(t, 5, 5, c)
        BY <1>4, <2>1, <2>2, <2>4, LevelThen
    <3>2. Marked(c, Guard(2))
        BY <3>1 DEF Ready
    <3>3. pctkCompiler(c) = c
        BY <3>2 DEF Marked, Guard, GuardOf, pctkCompiler, Header, defined
    <3>4. ~Fails(Chain(t, 5))
        BY <2>2, <2>4 DEF Moves
    <3>5. Kept(3, a, b) /\ Kept(5, b, c)
        BY <1>3, <1>6, <2>2, <3>4 DEF Moves
    <3>6. Kept(5, a, c)
        BY <3>5 DEF Kept, Same
    <3>7. QED
        BY <2>2, <3>3, <3>4, <3>6 DEF Moves, b, c
  <2>5. QED
    BY <2>3, <2>4
<1>7. QED
    BY <1>5, <1>6

LEMMA GlobalLevel ==
    ASSUME NEW t \in Targets, NEW n \in 0..9, NEW a, Ready(t, 6, n, a)
    PROVE  Moves(t, 6, IF n < 6 THEN 6 ELSE n, a, pctkGlobal(a))
<1> DEFINE d == Define(a, {Guard(6)})
           c == pctkCompiler(pctkLimits(pctkMacros(d)))
           lines == GlobalLines(d)
<1>1. 6 \in Levels /\ 5 \in 0..8 /\ 6 = 5 + 1 /\ Guard(6) = "_PCTKGLOBAL_H"
    BY DEF Levels, Guard, GuardOf
<1>2. pctkGlobal(a) = IF defined(a, {Guard(6), Error}) THEN a ELSE lines
    BY <1>1 DEF pctkGlobal, Header
<1>3. lines = Own(6, c) \/ (Fails(c) /\ lines = c)
    BY OwnIs DEF GlobalLines, UnlessFailed
<1> HIDE DEF lines, d
<1>4. ASSUME n < 6
      PROVE  Moves(t, 5, 5, d, c)
  <2>1. Ready(t, 5, n, d)
    BY <1>1, <1>4, LevelBefore DEF d
  <2>2. n \in 0..5
    BY <1>4
  <2>3. QED
    BY <2>1, <2>2, GlobalIncludes
<1> HIDE DEF c
<1>5. QED
    BY <1>1, <1>2, <1>3, <1>4, LevelHeader DEF d

LEMMA TypeTraitsLevel ==
    ASSUME NEW t \in Targets, NEW n \in 0..9, NEW a, Ready(t, 7, n, a)
    PROVE  Moves(t, 7, IF n < 7 THEN 7 ELSE n, a, pctkTypeTraits(a))
<1> DEFINE d == Define(a, {Guard(7)})
           c == pctkGlobal(d)
           lines == TypeTraitsLines(d)
<1>1. 7 \in Levels /\ 6 \in 0..8 /\ 7 = 6 + 1 /\ Guard(7) = "_PCTKTYPETRAITS_H"
    BY DEF Levels, Guard, GuardOf
<1>2. pctkTypeTraits(a) = IF defined(a, {Guard(7), Error}) THEN a ELSE lines
    BY <1>1 DEF pctkTypeTraits, Header
<1>3. lines = Own(7, c) \/ (Fails(c) /\ lines = c)
    BY OwnIs DEF TypeTraitsLines
<1> HIDE DEF lines, d
<1>4. ASSUME n < 7
      PROVE  Moves(t, 6, 6, d, c)
  <2>1. Ready(t, 6, n, d)
    BY <1>1, <1>4, LevelBefore DEF d
  <2>2. Moves(t, 6, IF n < 6 THEN 6 ELSE n, d, c)
    BY <2>1, GlobalLevel
  <2>3. QED
    BY <1>4, <2>2
<1> HIDE DEF c
<1>5. QED
    BY <1>1, <1>2, <1>3, <1>4, LevelHeader DEF d

LEMMA TypeInfoLevel ==
    ASSUME NEW t \in Targets, NEW n \in 0..9, NEW a, Ready(t, 8, n, a)
    PROVE  Moves(t, 8, IF n < 8 THEN 8 ELSE n, a, pctkTypeInfo(a))
<1> DEFINE d == Define(a, {Guard(8)})
           c == pctkTypeTraits(d)
           lines == TypeInfoLines(d)
<1>1. 8 \in Levels /\ 7 \in 0..8 /\ 8 = 7 + 1 /\ Guard(8) = "_PCTKTYPEINFO_H"
    BY DEF Levels, Guard, GuardOf
<1>2. pctkTypeInfo(a) = IF defined(a, {Guard(8), Error}) THEN a ELSE lines
    BY <1>1 DEF pctkTypeInfo, Header
<1>3. lines = Own(8, c) \/ (Fails(c) /\ lines = c)
    BY OwnIs DEF TypeInfoLines, UnlessFailed
<1> HIDE DEF lines, d
<1>4. ASSUME n < 8
      PROVE  Moves(t, 7, 7, d, c)
  <2>1. Ready(t, 7, n, d)
    BY <1>1, <1>4, LevelBefore DEF d
  <2>2. Moves(t, 7, IF n < 7 THEN 7 ELSE n, d, c)
    BY <2>1, TypeTraitsLevel
  <2>3. QED
    BY <1>4, <2>2
<1> HIDE DEF c
<1>5. QED
    BY <1>1, <1>2, <1>3, <1>4, LevelHeader DEF d

LEMMA FlagsLevel ==
    ASSUME NEW t \in Targets, NEW n \in 0..9, NEW a, Ready(t, 9, n, a)
    PROVE  Moves(t, 9, IF n < 9 THEN 9 ELSE n, a, pctkFlags(a))
<1> DEFINE d == Define(a, {Guard(9)})
           c == pctkTypeInfo(d)
           lines == FlagsLines(d)
<1>1. 9 \in Levels /\ 8 \in 0..8 /\ 9 = 8 + 1 /\ Guard(9) = "_PCTKFLAGS_H"
    BY DEF Levels, Guard, GuardOf
<1>2. pctkFlags(a) = IF defined(a, {Guard(9), Error}) THEN a ELSE lines
    BY <1>1 DEF pctkFlags, Header
<1>3. lines = Own(9, c) \/ (Fails(c) /\ lines = c)
    BY OwnIs DEF FlagsLines, UnlessFailed
<1> HIDE DEF lines, d
<1>4. ASSUME n < 9
      PROVE  Moves(t, 8, 8, d, c)
  <2>1. Ready(t, 8, n, d)
    BY <1>1, <1>4, LevelBefore DEF d
  <2>2. Moves(t, 8, IF n < 8 THEN 8 ELSE n, d, c)
    BY <2>1, TypeInfoLevel
  <2>3. QED
    BY <1>4, <2>2
<1> HIDE DEF c
<1>5. QED
    BY <1>1, <1>2, <1>3, <1>4, LevelHeader DEF d

-----------------------------------------------------------------------------
(* A translation unit: what it includes says what it has defined.          *)
LevelOf(hs) ==
    IF "Flags" \in hs THEN 9
    ELSE IF "TypeTraits" \in hs THEN 7
    ELSE IF "Global" \in hs THEN 6
    ELSE IF "Types" \in hs THEN 4
    ELSE IF "Macros" \in hs THEN 3
    ELSE IF "Compiler" \in hs THEN 2
    ELSE IF "System" \in hs THEN 1
    ELSE 0

ProcessorOf(t, hs, a) ==
    IF "Processor" \in hs
    THEN Marked(a, GuardOf.Processor) /\ Agree(ProcessorLines(Predefined(t)), a, ProcessorMacros)
    ELSE GuardOf.Processor \notin DOMAIN a /\ Agree(Predefined(t), a, ProcessorMacros)

Compiles(t, hs) ==
    /\ ~Fails(Chain(t, LevelOf(hs)))
    /\ "Processor" \in hs => ~Fails(ProcessorLines(Predefined(t)))

Gives(t, hs, a) == Ready(t, 9, LevelOf(hs), a) /\ ProcessorOf(t, hs, a)

After(t, hs, a) == IF Compiles(t, hs) THEN Gives(t, hs, a) ELSE Fails(a)

LEMMA LevelRange == \A hs : LevelOf(hs) \in 0..9
    BY DEF LevelOf

LEMMA AfterNothing == ASSUME NEW t \in Targets PROVE After(t, {}, Predefined(t))
<1> DEFINE a == Predefined(t)
<1>1. LevelOf({}) = 0 /\ Chain(t, 0) = a
    BY ChainStep DEF LevelOf
<1>2. \A x \in GuardNames \cup {Error} : x \notin DOMAIN a
    BY TargetsBare
<1> HIDE DEF a
<1>3. ~Fails(a)
    BY <1>2 DEF Fails
<1>4. Reached(t, 0, a)
    BY <1>1, <1>3 DEF Reached, Told, Alike, AgreeBut, Same
<1>5. \A j \in 1..9 : ~(j <= 0) /\ Guard(j) \notin DOMAIN a
    BY <1>2, GuardsDiffer DEF Levels
<1>6. Ready(t, 9, 0, a)
    BY <1>4, <1>5 DEF Ready
<1>7. ProcessorOf(t, {}, a)
    BY <1>2, GuardsDiffer DEF ProcessorOf, Agree, Same, a
<1>8. QED
    BY <1>1, <1>3, <1>6, <1>7 DEF After, Compiles, Gives, a

LEMMA AfterChain ==
    ASSUME NEW t \in Targets, NEW k \in Levels, NEW n \in 0..9, NEW p \in 0..9,
           p = IF n < k THEN k ELSE n,
           NEW hs, NEW more, LevelOf(hs) = n, LevelOf(more) = p,
           "Processor" \in hs <=> "Processor" \in more, Compiles(t, hs),
           NEW a, NEW b, Gives(t, hs, a), Moves(t, k, p, a, b)
    PROVE  After(t, more, b)
<1>1. CASE Fails(Chain(t, p))
    BY <1>1 DEF After, Compiles, Moves
<1>2. CASE ~Fails(Chain(t, p))
  <2>1. Reached(t, p, b) /\ Kept(k, a, b)
    BY <1>2 DEF Moves
  <2>2. ~Fails(b)
    BY <2>1 DEF Reached
  <2>3. k \in 0..9 /\ k <= 9 /\ n <= p /\ k <= p /\ (n = p \/ k = p) /\ 9 \in 0..9
    BY DEF Levels
  <2>4. Ready(t, 9, n, a)
    BY DEF Gives
  <2>5. Ready(t, 9, p, b)
    BY <2>2, <2>3, <2>4, LevelThen
  <2>6. \A j \in 1..k : j \in Levels
    BY DEF Levels
  <2>7. Same(a, b, GuardOf.Processor)
    BY <2>1, <2>6, GuardsDiffer DEF Kept
  <2>8. Agree(a, b, ProcessorMacros)
    BY <2>1, <2>6, GuardsDiffer, NamesApart DEF Kept, Agree
  <2>9. ProcessorOf(t, more, b)
    BY <2>7, <2>8 DEF Gives, ProcessorOf, Marked, Agree, Same
  <2>10. Compiles(t, more)
    BY <1>2 DEF Compiles
  <2>11. QED
    BY <2>5, <2>9, <2>10 DEF After, Gives
<1>3. QED
    BY <1>1, <1>2

LEMMA AfterProcessor ==
    ASSUME NEW t \in Targets, NEW hs, Compiles(t, hs), NEW a, Gives(t, hs, a)
    PROVE  After(t, hs \cup {"Processor"}, pctkProcessor(a))
<1> DEFINE n == LevelOf(hs)
           more == hs \cup {"Processor"}
           g == GuardOf.Processor
           d == Define(a, {g})
           b == ProcessorLines(d)
           q == ProcessorLines(Predefined(t))
<1>1. LevelOf(more) = n /\ "Processor" \in more /\ n \in 0..9
    BY LevelRange DEF LevelOf
<1>2. pctkProcessor(a) = IF defined(a, {g, Error}) THEN a ELSE b
    BY DEF pctkProcessor, Header, GuardOf
<1>3. CASE "Processor" \in hs
  <2>1. more = hs
    BY <1>3
  <2>2. g \in DOMAIN a
    BY <1>3 DEF Gives, ProcessorOf, Marked
  <2>3. pctkProcessor(a) = a
    BY <1>2, <2>2 DEF defined
  <2>4. QED
    BY <2>1, <2>3 DEF After
<1>4. CASE "Processor" \notin hs
  <2>1. /\ g \notin DOMAIN a /\ Agree(Predefined(t), a, ProcessorMacros)
        /\ Reached(t, n, a)
    BY <1>4 DEF Gives, ProcessorOf, Ready
  <2>2. pctkProcessor(a) = b
    BY <1>2, <2>1 DEF defined, Reached, Fails
  <2>3. \A x : x # g => Same(a, d, x)
    BY DEF Define, DefineAs, Same
  <2>4. Marked(d, g)
    BY DEF Define, DefineAs, Marked
  <2>5. g \in GuardNames
    BY GuardsDiffer
  <2> HIDE DEF d, n
  <2>6. Agree(Predefined(t), d, ProcessorSees)
    <3>1. \A x \in ProcessorSees : x # g
        BY <2>5, NamesApart DEF ProcessorSees
    <3>2. ASSUME NEW x \in ProcessorReads
          PROVE  Same(Predefined(t), a, x)
      <4>1. x \in Foreign \ {Error} /\ x \notin Unseen
        BY NamesApart DEF Foreign, Unseen
      <4>2. Same(a, Chain(t, n), x)
        BY <2>1, <4>1 DEF Reached, Alike, AgreeBut
      <4>3. Same(Predefined(t), Chain(t, n), x)
        BY <1>1, <4>1, ChainTypes
      <4>4. QED
        BY <4>2, <4>3 DEF Same
    <3>3. Same(Predefined(t), a, Error)
        BY <2>1, TargetsBare DEF Reached, Fails, Same
    <3>4. Agree(Predefined(t), a, ProcessorSees)
        BY <2>1, <3>2, <3>3 DEF Agree, ProcessorSees
    <3>5. QED
        BY <2>3, <3>1, <3>4 DEF Agree, Same
  <2>7. Agree(q, b, ProcessorMacros) /\ Same(q, b, Error)
    BY <2>6, ProcessorAlike DEF Agree, ProcessorSees
  <2>8. Extends(d, b, ProcessorMacros)
    BY ProcessorLinesExtend
  <2> HIDE DEF b, q
  <2>9. CASE Fails(q)
    <3>1. Fails(b)
        BY <2>7, <2>9 DEF Same, Fails
    <3>2. ~Compiles(t, more)
        BY <1>1, <2>9 DEF Compiles, q
    <3>3. QED
        BY <2>2, <3>1, <3>2 DEF After
  <2>10. CASE ~Fails(q)
    <3>1. ~Fails(b) /\ ~Fails(d)
        BY <2>7, <2>8, <2>10 DEF Same, Fails, Extends
    <3>2. \A x : x \notin ProcessorMacros \cup {g} => Same(a, b, x)
      <4>1. \A x : x \notin ProcessorMacros \cup {Error} => Same(d, b, x)
        BY <2>8 DEF Extends, AgreeBut
      <4>2. Same(a, b, Error)
        BY <2>1, <3>1 DEF Reached, Fails, Same
      <4>3. QED
        BY <2>3, <4>1, <4>2 DEF Same
    <3>3. Alike(b, Chain(t, n))
        BY <2>1, <2>5, <3>2 DEF Reached, Alike, AgreeBut, Same, Unseen
    <3>4. "PCTK_POINTER_SIZE" \notin ProcessorMacros \cup {g}
        BY <2>5, NamesApart
    <3>5. Told(t, n, b)
        BY <2>1, <3>2, <3>4 DEF Reached, Told, Same
    <3>6. \A j \in 1..9 : Guard(j) \notin ProcessorMacros \cup {g}
        BY GuardsDiffer, NamesApart DEF Levels
    <3>7. \A j \in 1..9 : IF j <= n THEN Marked(a, Guard(j)) ELSE Guard(j) \notin DOMAIN a
        BY DEF Gives, Ready, n
    <3>8. \A j \in 1..9 : IF j <= n THEN Marked(b, Guard(j)) ELSE Guard(j) \notin DOMAIN b
        BY <3>2, <3>6, <3>7 DEF Marked, Same
    <3>9. Ready(t, 9, n, b)
        BY <3>1, <3>3, <3>5, <3>8 DEF Ready, Reached
    <3>10. Marked(b, g)
      <4>1. g \notin ProcessorMacros \cup {Error}
        BY <2>5, NamesApart
      <4>2. Same(d, b, g)
        BY <2>8, <4>1 DEF Extends, AgreeBut
      <4>3. QED
        BY <2>4, <4>2 DEF Marked, Same
    <3>11. ProcessorOf(t, more, b)
        BY <1>1, <2>7, <3>10 DEF ProcessorOf, q
    <3>12. Compiles(t, more)
        BY <1>1, <2>10 DEF Compiles, q, n
    <3>13. QED
        BY <1>1, <2>2, <3>9, <3>11, <3>12 DEF After, Gives
  <2>11. QED
    BY <2>9, <2>10
<1>5. QED
    BY <1>3, <1>4

LEMMA AfterOne ==
    ASSUME NEW t \in Targets, NEW h \in HeaderNames, NEW hs, NEW a, After(t, hs, a)
    PROVE  After(t, hs \cup {h}, Preprocess(h, a))
<1> DEFINE n == LevelOf(hs)
           more == hs \cup {h}
<1>1. n \in 0..9
    BY LevelRange
<1>2. CASE ~Compiles(t, hs)
  <2>1. Fails(a)
    BY <1>2 DEF After
  <2>2. \A guard : defined(a, {guard, Error})
    BY <2>1 DEF Fails, defined
  <2>3. Preprocess(h, a) = a
    BY <2>2 DEF HeaderNames, Preprocess, Header, pctkSystem, pctkProcessor, pctkCompiler,
                pctkMacros, pctkTypes, pctkGlobal, pctkTypeTraits, pctkFlags
  <2>4. LevelOf(more) \in 0..9 /\ n <= LevelOf(more)
    BY DEF LevelOf
  <2>5. Fails(Chain(t, n)) => Fails(Chain(t, LevelOf(more)))
    BY <1>1, <2>4, ChainFails
  <2>6. ~Compiles(t, more)
    BY <1>2, <2>5 DEF Compiles
  <2>7. QED
    BY <2>1, <2>3, <2>6 DEF After
<1>3. CASE Compiles(t, hs) /\ h = "Processor"
  <2>1. Gives(t, hs, a) /\ Preprocess(h, a) = pctkProcessor(a)
    BY <1>3 DEF After, Preprocess
  <2>2. QED
    BY <1>3, <2>1, AfterProcessor
<1>4. CASE Compiles(t, hs) /\ h # "Processor"
  <2>1. Gives(t, hs, a) /\ Ready(t, 9, n, a)
    BY <1>4 DEF After, Gives
  <2>2. \A k \in Levels : Ready(t, k, n, a)
    BY <2>1 DEF Ready, Levels
  <2>3. "Processor" \in hs <=> "Processor" \in more
    BY <1>4
  <2>4. \A k \in Levels : \A b :
            Moves(t, k, IF n < k THEN k ELSE n, a, b) /\ LevelOf(more) = (IF n < k THEN k ELSE n)
                => After(t, more, b)
    <3> TAKE k \in Levels
    <3> TAKE b
    <3>1. (IF n < k THEN k ELSE n) \in 0..9
        BY <1>1 DEF Levels
    <3> HIDE DEF more
    <3>2. QED
        BY <1>1, <1>4, <2>1, <2>3, <3>1, AfterChain
  <2>5. {1, 2, 3, 4, 6, 7, 9} \subseteq Levels
    BY DEF Levels
  <2>6. CASE h = "System"
    <3>1. LevelOf(more) = (IF n < 1 THEN 1 ELSE n) /\ Preprocess(h, a) = pctkSystem(a)
        BY <2>6 DEF LevelOf, Preprocess
    <3>2. QED
        BY <1>1, <2>2, <2>4, <2>5, <3>1, SystemLevel
  <2>7. CASE h = "Compiler"
    <3>1. LevelOf(more) = (IF n < 2 THEN 2 ELSE n) /\ Preprocess(h, a) = pctkCompiler(a)
        BY <2>7 DEF LevelOf, Preprocess
    <3>2. QED
        BY <1>1, <2>2, <2>4, <2>5, <3>1, CompilerLevel
  <2>8. CASE h = "Macros"
    <3>1. LevelOf(more) = (IF n < 3 THEN 3 ELSE n) /\ Preprocess(h, a) = pctkMacros(a)
        BY <2>8 DEF LevelOf, Preprocess
    <3>2. QED
        BY <1>1, <2>2, <2>4, <2>5, <3>1, MacrosLevel
  <2>9. CASE h = "Types"
    <3>1. LevelOf(more) = (IF n < 4 THEN 4 ELSE n) /\ Preprocess(h, a) = pctkTypes(a)
        BY <2>9 DEF LevelOf, Preprocess
    <3>2. QED
        BY <1>1, <2>2, <2>4, <2>5, <3>1, TypesLevel
  <2>10. CASE h = "Global"
    <3>1. LevelOf(more) = (IF n < 6 THEN 6 ELSE n) /\ Preprocess(h, a) = pctkGlobal(a)
        BY <2>10 DEF LevelOf, Preprocess
    <3>2. QED
        BY <1>1, <2>2, <2>4, <2>5, <3>1, GlobalLevel
  <2>11. CASE h = "TypeTraits"
    <3>1. LevelOf(more) = (IF n < 7 THEN 7 ELSE n) /\ Preprocess(h, a) = pctkTypeTraits(a)
        BY <2>11 DEF LevelOf, Preprocess
    <3>2. QED
        BY <1>1, <2>2, <2>4, <2>5, <3>1, TypeTraitsLevel
  <2>12. CASE h = "Flags"
    <3>1. LevelOf(more) = (IF n < 9 THEN 9 ELSE n) /\ Preprocess(h, a) = pctkFlags(a)
        BY <2>12 DEF LevelOf, Preprocess
    <3>2. QED
        BY <1>1, <2>2, <2>4, <2>5, <3>1, FlagsLevel
  <2>13. QED
    BY <1>4, <2>6, <2>7, <2>8, <2>9, <2>10, <2>11, <2>12 DEF HeaderNames
<1>5. QED
    BY <1>2, <1>3, <1>4

(* The same headers in some order, and in the order of the chain.          *)
LEMMA SameMacros ==
    ASSUME NEW t \in Targets, NEW hs, NEW a, NEW b, Gives(t, hs, a), Gives(t, hs, b)
    PROVE  undef(a, {"PCTK_POINTER_SIZE"}) = undef(b, {"PCTK_POINTER_SIZE"})
<1> DEFINE n == LevelOf(hs)
<1>1. \A x : x \notin Unseen => Same(a, b, x)
    BY DEF Gives, Ready, Reached, Alike, AgreeBut, Same
<1>2. \A x \in ProcessorMacros : Same(a, b, x)
    BY DEF Gives, ProcessorOf, Agree, Same
<1>3. \A j \in 1..9 : Same(a, b, Guard(j))
    BY DEF Gives, Ready, Marked, Same
<1>4. Same(a, b, GuardOf.Processor)
    BY DEF Gives, ProcessorOf, Marked, Same
<1>5. \A x \in GuardNames : x = GuardOf.Processor \/ \E j \in 1..9 : x = Guard(j)
  <2>1. GuardNames = {Guard(1), Guard(2), Guard(3), Guard(4), Guard(5), Guard(6), Guard(7), Guard(8),
                      Guard(9), GuardOf.Processor}
    BY DEF GuardNames, GuardOf, Guard
  <2>2. 1 \in 1..9 /\ 2 \in 1..9 /\ 3 \in 1..9 /\ 4 \in 1..9 /\ 5 \in 1..9 /\ 6 \in 1..9
        /\ 7 \in 1..9 /\ 8 \in 1..9 /\ 9 \in 1..9
    OBVIOUS
  <2>3. QED
    BY <2>1, <2>2
<1>6. \A x \in GuardNames : Same(a, b, x)
    BY <1>3, <1>4, <1>5
<1>7. \A x : x # "PCTK_POINTER_SIZE" => Same(a, b, x)
    BY <1>1, <1>2, <1>6 DEF Unseen
<1>8. QED
    BY <1>7 DEF undef, Same

LEMMA InOrderAfter ==
    ASSUME NEW t \in Targets, NEW hs \in SUBSET HeaderNames
    PROVE  After(t, hs, InOrder(t, hs))
<1> DEFINE In(h, defs) == IfIncluded(hs, h, defs)
           a == Predefined(t)
           b == In("Processor", a)
           c == In("System", b)
           d == In("Compiler", c)
           e == In("Macros", d)
           f == In("Types", e)
           g == In("Global", f)
           i == In("TypeTraits", g)
           j == In("Flags", i)
<1>1. InOrder(t, hs) = j
    BY DEF InOrder
<1>2. \A h \in HeaderNames : \A S, defs :
          After(t, hs \cap S, defs) => After(t, hs \cap (S \cup {h}), In(h, defs))
  <2> TAKE h \in HeaderNames
  <2> TAKE S, defs
  <2> HAVE After(t, hs \cap S, defs)
  <2>1. CASE h \in hs
    <3>1. hs \cap (S \cup {h}) = (hs \cap S) \cup {h}
        BY <2>1
    <3>2. QED
        BY <2>1, <3>1, AfterOne DEF IfIncluded
  <2>2. CASE h \notin hs
    <3>1. hs \cap (S \cup {h}) = hs \cap S
        BY <2>2
    <3>2. QED
        BY <2>2, <3>1 DEF IfIncluded
  <2>3. QED
    BY <2>1, <2>2
<1>3. \A h \in {"Processor", "System", "Compiler", "Macros", "Types", "Global", "TypeTraits", "Flags"} :
          h \in HeaderNames
    BY DEF HeaderNames
<1>4. After(t, hs \cap {}, a)
  <2>1. hs \cap {} = {}
    OBVIOUS
  <2>2. QED
    BY <2>1, AfterNothing
<1> HIDE DEF In, a
<1>5. After(t, hs \cap ({} \cup {"Processor"}), b)
    BY <1>2, <1>3, <1>4
<1> HIDE DEF b
<1>6. After(t, hs \cap (({} \cup {"Processor"}) \cup {"System"}), c)
    BY <1>2, <1>3, <1>5
<1> HIDE DEF c
<1> DEFINE S == ({} \cup {"Processor"}) \cup {"System"}
<1>7. After(t, hs \cap (S \cup {"Compiler"}), d)
    BY <1>2, <1>3, <1>6
<1> HIDE DEF d
<1>8. After(t, hs \cap ((S \cup {"Compiler"}) \cup {"Macros"}), e)
    BY <1>2, <1>3, <1>7
<1> HIDE DEF e
<1> DEFINE T == (S \cup {"Compiler"}) \cup {"Macros"}
<1>9. After(t, hs \cap (T \cup {"Types"}), f)
    BY <1>2, <1>3, <1>8
<1> HIDE DEF f
<1>10. After(t, hs \cap ((T \cup {"Types"}) \cup {"Global"}), g)
    BY <1>2, <1>3, <1>9
<1> HIDE DEF g
<1> DEFINE U == (T \cup {"Types"}) \cup {"Global"}
<1>11. After(t, hs \cap (U \cup {"TypeTraits"}), i)
    BY <1>2, <1>3, <1>10
<1> HIDE DEF i
<1>12. After(t, hs \cap ((U \cup {"TypeTraits"}) \cup {"Flags"}), j)
    BY <1>2, <1>3, <1>11
<1>13. hs \cap ((U \cup {"TypeTraits"}) \cup {"Flags"}) = hs
    BY DEF HeaderNames
<1>14. QED
    BY <1>1, <1>12, <1>13

-----------------------------------------------------------------------------
(* Compiled() is a recursive function: that it exists is shown by the least*)
(* length for which it would not.                                          *)
Units(after, t, hs, k) ==
    after = [n \in 0..k |-> IF n = 0 THEN Predefined(t) ELSE Preprocess(hs[n], after[n - 1])]

LEMMA CompiledUnits ==
    ASSUME NEW t, NEW hs
    PROVE  Compiled(t, hs) = (CHOOSE after : Units(after, t, hs, Len(hs)))[Len(hs)]
  BY DEF Compiled, Units

LEMMA UnitsExist ==
    ASSUME NEW t, NEW hs, NEW k \in Nat
    PROVE  \E after : Units(after, t, hs, k)
<1> DEFINE missing == {i \in Nat : ~ \E after : Units(after, t, hs, i)}
<1>1. SUFFICES ASSUME missing # {} PROVE FALSE
    OBVIOUS
<1>2. PICK i \in missing : \A j \in missing : i <= j
    BY <1>1, LeastNatural
<1>3. CASE i = 0
  <2>1. Units([n \in 0..0 |-> Predefined(t)], t, hs, 0)
    BY DEF Units
  <2>2. QED
    BY <1>2, <1>3, <2>1
<1>4. CASE i # 0
  <2>1. i - 1 \in Nat /\ i - 1 \notin missing
    BY <1>2, <1>4
  <2>2. PICK g : Units(g, t, hs, i - 1)
    BY <2>1
  <2> DEFINE f == [n \in 0..i |-> IF n < i THEN g[n] ELSE Preprocess(hs[i], g[i - 1])]
  <2>3. \A n \in 0..i - 1 : g[n] = IF n = 0 THEN Predefined(t) ELSE Preprocess(hs[n], g[n - 1])
    BY <2>2 DEF Units
  <2>4. \A n \in 0..i : f[n] = IF n = 0 THEN Predefined(t) ELSE Preprocess(hs[n], f[n - 1])
    BY <1>2, <1>4, <2>3
  <2>5. Units(f, t, hs, i)
    BY <2>4 DEF Units
  <2>6. QED
    BY <1>2, <2>5
<1>5. QED
    BY <1>3, <1>4

LEMMA CompiledAfter ==
    ASSUME NEW t \in Targets, NEW hs \in Seq(HeaderNames)
    PROVE  After(t, Range(hs), Compiled(t, hs))
<1> DEFINE k == Len(hs)
           f == CHOOSE after : Units(after, t, hs, k)
           first(n) == {hs[i] : i \in 1..n}
           Right(n) == After(t, first(n), f[n])
           wrong == {n \in Nat : n <= k /\ ~Right(n)}
<1>1. k \in Nat /\ DOMAIN hs = 1..k /\ \A i \in 1..k : hs[i] \in HeaderNames
    BY LenProperties, ElementOfSeq
<1>2. Units(f, t, hs, k)
    BY <1>1, UnitsExist
<1> HIDE DEF f
<1>3. \A n \in 0..k : f[n] = IF n = 0 THEN Predefined(t) ELSE Preprocess(hs[n], f[n - 1])
    BY <1>2 DEF Units
<1> HIDE DEF Right
<1>4. wrong = {}
  <2>1. SUFFICES ASSUME wrong # {} PROVE FALSE
    OBVIOUS
  <2>2. PICK n \in wrong : \A j \in wrong : n <= j
    BY <2>1, LeastNatural
  <2>3. n \in 0..k
    BY <1>1, <2>2
  <2>4. CASE n = 0
    <3>1. first(0) = {} /\ f[0] = Predefined(t)
        BY <1>3, <2>3, <2>4
    <3>2. QED
        BY <2>2, <2>4, <3>1, AfterNothing DEF Right
  <2>5. CASE n # 0
    <3>1. n - 1 \in Nat /\ n - 1 <= k /\ n - 1 \notin wrong
        BY <1>1, <2>2, <2>5
    <3>2. After(t, first(n - 1), f[n - 1])
        BY <3>1 DEF Right
    <3>3. hs[n] \in HeaderNames
        BY <1>1, <2>3, <2>5
    <3>4. first(n) = first(n - 1) \cup {hs[n]}
        BY <2>3, <2>5
    <3>5. f[n] = Preprocess(hs[n], f[n - 1])
        BY <1>3, <2>3, <2>5
    <3> HIDE DEF first
    <3>6. After(t, first(n), f[n])
        BY <3>2, <3>3, <3>4, <3>5, AfterOne
    <3>7. QED
        BY <2>2, <3>6 DEF Right
  <2>6. QED
    BY <2>4, <2>5
<1>5. After(t, first(k), f[k])
  <2>1. Right(k)
    BY <1>1, <1>4
  <2>2. QED
    BY <2>1 DEF Right
<1>6. first(k) = Range(hs)
    BY <1>1 DEF Range
<1>7. Compiled(t, hs) = f[k]
    BY CompiledUnits DEF f
<1>8. QED
    BY <1>5, <1>6, <1>7

-----------------------------------------------------------------------------
(* What is defined is what the headers included, in any order, define.     *)
IncludesInv ==
    /\ target \in Targets
    /\ includes \in Seq(HeaderNames) /\ Len(includes) <= Longest /\ IsInjective(includes)
    /\ After(target, Range(includes), m)

LEMMA IncludesInit == Init => IncludesInv
<1> SUFFICES ASSUME Init PROVE IncludesInv
    OBVIOUS
<1>1. target \in Targets /\ includes = << >> /\ m = Predefined(target)
    BY DEF Init
<1>2. includes \in Seq(HeaderNames) /\ Len(includes) = 0 /\ Range(includes) = {}
    BY <1>1 DEF Range
<1>3. IsInjective(includes)
    BY <1>1 DEF IsInjective
<1>4. After(target, {}, Predefined(target))
    BY <1>1, AfterNothing
<1>5. After(target, Range(includes), m)
    BY <1>1, <1>2, <1>4
<1>6. Len(includes) <= Longest
    BY <1>2, LongestAssumption
<1>7. QED
    BY <1>1, <1>2, <1>3, <1>5, <1>6 DEF IncludesInv

LEMMA IncludeKeeps ==
    ASSUME IncludesInv, NEW h \in HeaderNames, Include(h)
    PROVE  IncludesInv'
<1>1. /\ includes' = Append(includes, h) /\ m' = Preprocess(h, m) /\ target' = target
      /\ Len(includes) < Longest /\ h \notin Range(includes)
    BY DEF Include, Included
<1>2. /\ target \in Targets /\ includes \in Seq(HeaderNames) /\ IsInjective(includes)
      /\ After(target, Range(includes), m)
    BY DEF IncludesInv
<1>3. Len(includes) \in Nat /\ DOMAIN includes = 1..Len(includes)
    BY <1>2, LenProperties
<1>4. /\ includes' \in Seq(HeaderNames) /\ Len(includes') = Len(includes) + 1
      /\ \A i \in 1..(Len(includes) + 1) :
             includes'[i] = IF i <= Len(includes) THEN includes[i] ELSE h
    BY <1>1, <1>2, AppendProperties
<1>5. DOMAIN includes' = 1..(Len(includes) + 1)
    BY <1>4, LenProperties
<1>6. Len(includes') <= Longest
    BY <1>1, <1>3, <1>4, LongestAssumption
<1>7. Range(includes') = Range(includes) \cup {h}
    BY <1>3, <1>4, <1>5 DEF Range
<1>8. IsInjective(includes')
  <2>1. \A i \in 1..Len(includes) : includes[i] # h
    BY <1>1, <1>3 DEF Range
  <2>2. \A i, j \in 1..Len(includes) : includes[i] = includes[j] => i = j
    BY <1>2, <1>3 DEF IsInjective
  <2>3. ASSUME NEW i \in 1..(Len(includes) + 1), NEW j \in 1..(Len(includes) + 1),
               includes'[i] = includes'[j]
        PROVE  i = j
    BY <1>3, <1>4, <2>1, <2>2, <2>3
  <2>4. QED
    BY <1>5, <2>3 DEF IsInjective
<1>9. After(target, Range(includes) \cup {h}, Preprocess(h, m))
    BY <1>2, AfterOne
<1>10. QED
    BY <1>1, <1>2, <1>4, <1>6, <1>7, <1>8, <1>9 DEF IncludesInv

LEMMA UpgradeKeeps ==
    ASSUME IncludesInv, Upgrade
    PROVE  IncludesInv'
<1>1. PICK t \in {u[2] : u \in {v \in Upgrades : v[1] = target}} :
          target' = t /\ m' = Compiled(t, includes)
    BY DEF Upgrade
<1>2. t \in Targets
    BY <1>1, UpgradesAssumption
<1>3. includes' = includes
    BY DEF Upgrade
<1>4. includes \in Seq(HeaderNames)
    BY DEF IncludesInv
<1>5. After(t, Range(includes), Compiled(t, includes))
    BY <1>2, <1>4, CompiledAfter
<1>6. QED
    BY <1>1, <1>2, <1>3, <1>5 DEF IncludesInv

LEMMA IncludesStep == IncludesInv /\ [Next]_vars => IncludesInv'
<1> SUFFICES ASSUME IncludesInv, [Next]_vars PROVE IncludesInv'
    OBVIOUS
<1>1. CASE UNCHANGED vars
    BY <1>1 DEF vars, IncludesInv
<1>2. ASSUME NEW h \in HeaderNames, Include(h)
      PROVE  IncludesInv'
    BY <1>2, IncludeKeeps
<1>3. CASE Upgrade
    BY <1>3, UpgradeKeeps
<1>4. QED
    BY <1>1, <1>2, <1>3 DEF Next

LEMMA IncludesAlways == Spec => []IncludesInv
<1>1. Init => IncludesInv
    BY IncludesInit
<1>2. IncludesInv /\ [Next]_vars => IncludesInv'
    BY IncludesStep
<1>3. QED
    BY <1>1, <1>2, PTL DEF Spec

LEMMA RangeWithin == ASSUME IncludesInv PROVE Range(includes) \in SUBSET HeaderNames
<1>1. includes \in Seq(HeaderNames)
    BY DEF IncludesInv
<1>2. DOMAIN includes = 1..Len(includes) /\ \A i \in 1..Len(includes) : includes[i] \in HeaderNames
    BY <1>1, LenProperties, ElementOfSeq
<1>3. QED
    BY <1>2 DEF Range

(* The order in which headers are included does not matter to any source   *)
(* that compiles, on any target: each of the headers of core/global and    *)
(* core/tools includes what it tests, and no two define one name.          *)
THEOREM IncludeOrderAlwaysFree == Spec => []IncludeOrderFree
<1>1. ASSUME IncludesInv
      PROVE  IncludeOrderFree
  <2> SUFFICES ASSUME ~Fails(m)
               PROVE  undef(m, {"PCTK_POINTER_SIZE"})
                          = undef(InOrder(target, Range(includes)), {"PCTK_POINTER_SIZE"})
    BY DEF IncludeOrderFree
  <2> DEFINE hs == Range(includes)
  <2>1. target \in Targets /\ After(target, hs, m)
    BY <1>1 DEF IncludesInv
  <2>2. hs \in SUBSET HeaderNames
    BY <1>1, RangeWithin
  <2> HIDE DEF hs
  <2>3. Compiles(target, hs) /\ Gives(target, hs, m)
    BY <2>1 DEF After
  <2>4. After(target, hs, InOrder(target, hs))
    BY <2>1, <2>2, InOrderAfter
  <2>5. Gives(target, hs, InOrder(target, hs))
    BY <2>3, <2>4 DEF After
  <2>6. undef(m, {"PCTK_POINTER_SIZE"}) = undef(InOrder(target, hs), {"PCTK_POINTER_SIZE"})
    BY <2>1, <2>3, <2>5, SameMacros
  <2>7. QED
    BY <2>6 DEF hs
<1>2. QED
    BY <1>1, IncludesAlways, PTL

-----------------------------------------------------------------------------
(* The features of the compiler, once pctkCompiler.h is included.          *)
FeatureBits(a) ==
    /\ \A x \in FeatureMacros \cap DOMAIN a : a[x] \in {0, 1}
    /\ \A f \in Defaulted : Feature(f) \in DOMAIN a

LEMMA FeatureTestsBits ==
    ASSUME NEW a, NEW features \in SUBSET FeatureNames, FeatureMacros \cap DOMAIN a = {}
    PROVE  FeatureBits(FeatureTests(a, features))
<1> DEFINE brought == {Feature(f) : f \in features}
           both == DefaultDelete(features)
           lacking == [x \in {Feature(f) : f \in Defaulted} |-> 0]
           b == DefineAs(Define(a, brought), both)
           c == DefineMissing(b, lacking)
<1>1. FeatureTests(a, features) = c
    BY DEF FeatureTests
<1>2. \A x \in DOMAIN both : both[x] \in {0, 1}
    BY DEF DefaultDelete
<1> HIDE DEF both
<1>3. \A x \in FeatureMacros \cap DOMAIN b : b[x] \in {0, 1}
    BY <1>2 DEF Define, DefineAs
<1> HIDE DEF b
<1>4. \A x \in FeatureMacros \cap DOMAIN c : c[x] \in {0, 1}
    BY <1>3 DEF DefineMissing, DefineAs
<1>5. \A f \in Defaulted : Feature(f) \in DOMAIN c
    BY DEF DefineMissing, DefineAs
<1>6. QED
    BY <1>1, <1>4, <1>5 DEF FeatureBits

LEMMA CompilerBits ==
    ASSUME NEW a, FeatureMacros \cap DOMAIN a = {}
    PROVE  FeatureBits(StandardTests(Compilers(a)))
<1> DEFINE b == Compilers(a)
           c == DefineAs(b, Standards(b))
<1>1. FeatureMacros \cap (CompilerMacros \cup {Error}) = {}
  <2>1. /\ Definitions[3] = CompilerMacros /\ Definitions[4] = FeatureMacros
        /\ Definitions[12] = {Error}
        /\ 3 \in DOMAIN Definitions /\ 4 \in DOMAIN Definitions /\ 12 \in DOMAIN Definitions
    BY DEF Definitions
  <2>2. QED
    BY <2>1, DefinedOnce
<1>2. Extends(a, b, CompilerMacros)
    BY CompilersLines
<1> HIDE DEF b
<1>3. Extends(b, c, CompilerMacros)
    BY StandardsLines, ExtendsLines
<1>4. \A x \in FeatureMacros : Same(a, c, x)
    BY <1>1, <1>2, <1>3 DEF Extends, AgreeBut, Same
<1>5. StandardTests(b) = FeatureTests(c, Features(c))
    BY DEF StandardTests, CompilerTests
<1> HIDE DEF c
<1>6. FeatureMacros \cap DOMAIN c = {}
    BY <1>4 DEF Same
<1>7. Features(c) \in SUBSET FeatureNames
    BY FeaturesNames
<1>8. QED
    BY <1>5, <1>6, <1>7, FeatureTestsBits DEF b

(* The headers after pctkCompiler.h leave the features as they are.        *)
LEMMA FeaturesKept ==
    ASSUME NEW t \in Targets
    PROVE  /\ FeatureMacros \cap DOMAIN Chain(t, 1) = {}
           /\ \A n \in 2..9 : \A x \in FeatureMacros : Same(Chain(t, 2), Chain(t, n), x)
<1>1. /\ \A k \in Levels \ {2} : FeatureMacros \cap (OwnNames(k) \cup {Error}) = {}
  <2> DEFINE D == Definitions
  <2>1. /\ DOMAIN D = 1..13
        /\ D[2] = SystemMacros /\ D[4] = FeatureMacros /\ D[5] = SpellingMacros /\ D[6] = TypeMacros
        /\ D[7] = LimitMacros /\ D[8] = {"PCTK_CORE_API"} /\ D[11] = {"PCTK_POINTER_SIZE"}
        /\ D[12] = {Error}
    BY DEF Definitions
  <2>2. \A i \in (1..13) \ {4} : D[i] \cap FeatureMacros = {}
    BY <2>1, DefinedOnce
  <2> HIDE DEF D
  <2>3. /\ OwnNames(1) = D[2] /\ OwnNames(3) = D[5] /\ OwnNames(4) = D[6] \cup D[11]
        /\ OwnNames(5) = D[7] /\ OwnNames(6) = D[8] /\ \A k \in 7..9 : OwnNames(k) = {}
    BY <2>1 DEF OwnNames
  <2>4. \A k \in Levels : k \in {1, 2, 3, 4, 5, 6} \/ k \in 7..9
    BY DEF Levels
  <2>5. FeatureMacros \cap {Error} = {}
    BY <2>1, <2>2
  <2>6. QED
    BY <2>2, <2>3, <2>4, <2>5
<1>2. \A k \in Levels \ {2} : \A x \in FeatureMacros : Same(Chain(t, k - 1), Chain(t, k), x)
    BY <1>1, ChainTypes DEF Extends, AgreeBut
<1>3. FeatureMacros \cap DOMAIN Chain(t, 1) = {}
  <2>1. 1 \in Levels \ {2} /\ 1 - 1 = 0
    BY DEF Levels
  <2>2. \A x \in FeatureMacros : Same(Chain(t, 0), Chain(t, 1), x)
    BY <1>2, <2>1
  <2>3. \A x \in FeatureMacros : x \notin DOMAIN Chain(t, 0)
    BY ChainStep, TargetsBare
  <2>4. QED
    BY <2>2, <2>3 DEF Same
<1>4. ASSUME NEW x \in FeatureMacros, NEW n \in 2..9
      PROVE  Same(Chain(t, 2), Chain(t, n), x)
  <2> DEFINE S(k) == Same(Chain(t, k - 1), Chain(t, k), x)
  <2>1. S(3) /\ S(4) /\ S(5) /\ S(6) /\ S(7) /\ S(8) /\ S(9)
    BY <1>2 DEF Levels
  <2>2. /\ Same(Chain(t, 2), Chain(t, 3), x) /\ Same(Chain(t, 3), Chain(t, 4), x)
        /\ Same(Chain(t, 4), Chain(t, 5), x) /\ Same(Chain(t, 5), Chain(t, 6), x)
        /\ Same(Chain(t, 6), Chain(t, 7), x) /\ Same(Chain(t, 7), Chain(t, 8), x)
        /\ Same(Chain(t, 8), Chain(t, 9), x)
    BY <2>1
  <2>3. n \in {2, 3, 4, 5, 6, 7, 8, 9}
    OBVIOUS
  <2>4. QED
    BY <2>2, <2>3 DEF Same
<1>5. QED
    BY <1>3, <1>4

(* What is in Unseen, and so may differ from the chain, is no feature.     *)
LEMMA FeaturesSeen == FeatureMacros \cap Unseen = {}
<1>1. /\ Definitions[1] = GuardNames /\ Definitions[4] = FeatureMacros
      /\ Definitions[9] = ProcessorMacros /\ Definitions[11] = {"PCTK_POINTER_SIZE"}
      /\ 1 \in DOMAIN Definitions /\ 4 \in DOMAIN Definitions /\ 9 \in DOMAIN Definitions
      /\ 11 \in DOMAIN Definitions
    BY DEF Definitions
<1>2. QED
    BY <1>1, DefinedOnce DEF Unseen

LEMMA BitsReached ==
    ASSUME NEW t \in Targets, NEW n \in 2..9, NEW a, Reached(t, n, a)
    PROVE  FeatureBits(a)
<1>1. FeatureBits(Chain(t, 2))
  <2>1. FeatureBits(StandardTests(Compilers(Chain(t, 1))))
    BY FeaturesKept, CompilerBits
  <2>2. Chain(t, 2) = StandardTests(Compilers(Chain(t, 1)))
    BY ChainStep, OwnIs DEF Levels
  <2>3. QED
    BY <2>1, <2>2
<1>2. \A x \in FeatureMacros : Same(Chain(t, 2), a, x)
    BY FeaturesKept, FeaturesSeen DEF Reached, Alike, AgreeBut, Same
<1>3. \A f \in Defaulted : Feature(f) \in FeatureMacros
    BY DEF FeatureMacros, FeatureNames
<1>4. QED
    BY <1>1, <1>2, <1>3 DEF FeatureBits, Same

(* The features are 0 or 1 and defined where pctkCompiler.h was included,  *)
(* by whatever header (pctkCompiler.h:623-784); and the bookkeeping of the *)
(* model has its types.                                                    *)
THEOREM TypesAlwaysOK == Spec => []TypeOK
<1>1. ASSUME IncludesInv
      PROVE  TypeOK
  <2>1. /\ target \in Targets /\ includes \in Seq(HeaderNames) /\ Len(includes) <= Longest
        /\ IsInjective(includes) /\ After(target, Range(includes), m)
    BY <1>1 DEF IncludesInv
  <2>2. Len(includes) \in 0..Longest
    BY <2>1, LenProperties, LongestAssumption
  <2>3. Range(includes) \subseteq HeaderNames
    BY <1>1, RangeWithin
  <2>4. ASSUME Seen("_PCTKCOMPILER_H"), NEW f \in Tested
        PROVE  Feature(f) \in DOMAIN m /\ m[Feature(f)] \in {0, 1}
    <3> DEFINE n == LevelOf(Range(includes))
    <3>1. ~Fails(m) /\ Guard(2) \in DOMAIN m
        BY <2>4 DEF Seen, defined, Guard, GuardOf
    <3>2. Ready(target, 9, n, m)
        BY <2>1, <3>1 DEF After, Gives
    <3>3. n \in 0..9
        BY LevelRange
    <3> HIDE DEF n
    <3>4. n \in 2..9
        BY <3>1, <3>2, <3>3 DEF Ready
    <3>5. FeatureBits(m)
        BY <2>1, <3>2, <3>4, BitsReached DEF Ready
    <3>6. f \in Defaulted /\ Feature(f) \in FeatureMacros
      <4>1. f \in Defaulted
        BY DEF Tested, Defaulted
      <4>2. QED
        BY <4>1 DEF FeatureMacros, FeatureNames
    <3>7. QED
        BY <3>5, <3>6 DEF FeatureBits
  <2>5. QED
    BY <2>1, <2>2, <2>3, <2>4 DEF TypeOK
<1>2. QED
    BY <1>1, IncludesAlways, PTL
-----------------------------------------------------------------------------
(* What configure.cmake writes of a compiler.  SMT takes no string of two  *)
(* words: this one has a name.                                             *)
LongLong == "long long"

ConfigRight(d, a) ==
    /\ value(a, "PCTK_SHORT_SIZE") = d.size["short"] /\ value(a, "PCTK_INT_SIZE") = d.size["int"]
    /\ value(a, "PCTK_LONG_SIZE") = d.size["long"]
    /\ value(a, "PCTK_LONG_LONG_SIZE") = d.size[LongLong]
    /\ value(a, "PCTK_VOIDP_SIZE") = d.size["pointer"]
    /\ value(a, "PCTK_HAS_INT16_T") = Flag("int16_t" \in DOMAIN d.name)
    /\ value(a, "PCTK_HAS_INT32_T") = Flag("int32_t" \in DOMAIN d.name)
    /\ value(a, "PCTK_HAS_INT64_T") = Flag("int64_t" \in DOMAIN d.name)
    /\ value(a, "PCTK_HAS_PTRDIFF_T") = Flag("ptrdiff_t" \in DOMAIN d.name)
    /\ value(a, "PCTK_INT64_IS_LONG_TYPE") = IsType(d, "int64_t", "long")
    /\ value(a, "PCTK_INT64_IS_LONG_LONG_TYPE") = IsType(d, "int64_t", LongLong)
    /\ value(a, "PCTK_SIZET_IS_SHORT_TYPE") = IsType(d, "size_t", "short")
    /\ value(a, "PCTK_SIZET_IS_INT_TYPE") = IsType(d, "size_t", "int")
    /\ value(a, "PCTK_SIZET_IS_LONG_TYPE") = IsType(d, "size_t", "long")
    /\ value(a, "PCTK_SIZET_IS_LONG_LONG_TYPE") = IsType(d, "size_t", LongLong)

SizeNames == {"PCTK_SHORT_SIZE", "PCTK_INT_SIZE", "PCTK_LONG_SIZE", "PCTK_LONG_LONG_SIZE",
              "PCTK_VOIDP_SIZE", "PCTK_SIZE_T_SIZE"}
HasNames == {"PCTK_HAS_INT8_T", "PCTK_HAS_INT16_T", "PCTK_HAS_INT32_T", "PCTK_HAS_INT64_T",
             "PCTK_HAS_SSIZE_T", "PCTK_HAS_PTRDIFF_T"}
MixNames == {"PCTK_INT64_IS_LONG_TYPE", "PCTK_INT64_IS_LONG_LONG_TYPE", "PCTK_SIZET_IS_SHORT_TYPE",
             "PCTK_SIZET_IS_INT_TYPE", "PCTK_SIZET_IS_LONG_TYPE", "PCTK_SIZET_IS_LONG_LONG_TYPE"}

LEMMA ConfigValues ==
    ASSUME NEW t, NEW a, \A x \in ConfigMacros : Same(Predefined(t), a, x)
    PROVE  ConfigRight(t.data, a)
<1> DEFINE d == t.data
           config == pctkCoreConfig(d)
           has == TypeTests(d)
           size == SizeTests(d)
           mix == MixTests(d)
<1>1. DOMAIN size = SizeNames /\ DOMAIN has = HasNames /\ DOMAIN mix = MixNames
    BY DEF TypeTests, SizeTests, MixTests, SizeNames, HasNames, MixNames
<1>2. SizeNames \cap HasNames = {} /\ SizeNames \cap MixNames = {} /\ HasNames \cap MixNames = {}
    BY DEF SizeNames, HasNames, MixNames
<1>3. SizeNames \cup HasNames \cup MixNames = ConfigMacros
    BY DEF SizeNames, HasNames, MixNames, ConfigMacros
<1>4. /\ size["PCTK_SHORT_SIZE"] = d.size["short"] /\ size["PCTK_INT_SIZE"] = d.size["int"]
      /\ size["PCTK_LONG_SIZE"] = d.size["long"] /\ size["PCTK_LONG_LONG_SIZE"] = d.size[LongLong]
      /\ size["PCTK_VOIDP_SIZE"] = d.size["pointer"]
    BY DEF SizeTests, LongLong
<1>5. /\ has["PCTK_HAS_INT16_T"] = Flag("int16_t" \in DOMAIN d.name)
      /\ has["PCTK_HAS_INT32_T"] = Flag("int32_t" \in DOMAIN d.name)
      /\ has["PCTK_HAS_INT64_T"] = Flag("int64_t" \in DOMAIN d.name)
      /\ has["PCTK_HAS_PTRDIFF_T"] = Flag("ptrdiff_t" \in DOMAIN d.name)
    BY DEF TypeTests
<1>6. /\ mix["PCTK_INT64_IS_LONG_TYPE"] = IsType(d, "int64_t", "long")
      /\ mix["PCTK_INT64_IS_LONG_LONG_TYPE"] = IsType(d, "int64_t", LongLong)
      /\ mix["PCTK_SIZET_IS_SHORT_TYPE"] = IsType(d, "size_t", "short")
      /\ mix["PCTK_SIZET_IS_INT_TYPE"] = IsType(d, "size_t", "int")
      /\ mix["PCTK_SIZET_IS_LONG_TYPE"] = IsType(d, "size_t", "long")
      /\ mix["PCTK_SIZET_IS_LONG_LONG_TYPE"] = IsType(d, "size_t", LongLong)
    BY DEF MixTests, LongLong
<1>7. config = DefineAs(DefineAs(has, size), mix)
    BY DEF pctkCoreConfig
<1> HIDE DEF has, size, mix
<1>8. /\ DOMAIN config = ConfigMacros
      /\ \A x \in SizeNames : config[x] = size[x]
      /\ \A x \in HasNames : config[x] = has[x]
      /\ \A x \in MixNames : config[x] = mix[x]
    BY <1>1, <1>2, <1>3, <1>7 DEF DefineAs
<1> HIDE DEF config
<1>9. Predefined(t) = DefineAs(DefineAs(t.macros, t.data.name), config)
    BY DEF Predefined, config
<1>10. \A x \in ConfigMacros : x \in DOMAIN a /\ a[x] = config[x]
    BY <1>8, <1>9 DEF DefineAs, Same
<1>11. /\ \A x \in SizeNames : value(a, x) = size[x]
       /\ \A x \in HasNames : value(a, x) = has[x]
       /\ \A x \in MixNames : value(a, x) = mix[x]
    BY <1>3, <1>8, <1>10 DEF value
<1>12. {"PCTK_SHORT_SIZE", "PCTK_INT_SIZE", "PCTK_LONG_SIZE", "PCTK_LONG_LONG_SIZE",
              "PCTK_VOIDP_SIZE"} \subseteq SizeNames
    BY DEF SizeNames
<1>13. {"PCTK_HAS_INT16_T", "PCTK_HAS_INT32_T", "PCTK_HAS_INT64_T", "PCTK_HAS_PTRDIFF_T"}
            \subseteq HasNames
    BY DEF HasNames
<1>14. QED
    BY <1>4, <1>5, <1>6, <1>11, <1>12, <1>13 DEF ConfigRight, MixNames

(* The system's typedefs are what the compiler has them for.               *)
LEMMA StandardValues ==
    ASSUME NEW t \in Targets
    PROVE  /\ \A x \in StandardNames \cap DOMAIN t.data.name :
                  x \in DOMAIN Predefined(t) /\ Predefined(t)[x] = t.data.name[x]
           /\ \A x \in IntegerTypes : x \notin DOMAIN Predefined(t)
<1> DEFINE config == pctkCoreConfig(t.data)
<1>1. DOMAIN config \subseteq ConfigMacros
    BY DEF pctkCoreConfig, DefineAs, TypeTests, SizeTests, MixTests, ConfigMacros
<1>2. Predefined(t) = DefineAs(DefineAs(t.macros, t.data.name), config)
    BY DEF Predefined
<1> HIDE DEF config
<1>3. StandardNames \cap ConfigMacros = {}
    BY DEF StandardNames, ConfigMacros
<1>4. \A x \in StandardNames \cap DOMAIN t.data.name :
          x \in DOMAIN Predefined(t) /\ Predefined(t)[x] = t.data.name[x]
    BY <1>1, <1>2, <1>3 DEF DefineAs
<1>5. IntegerTypes \subseteq BaseTypes
    BY DEF IntegerTypes, BaseTypes
<1>6. QED
    BY <1>4, <1>5, TargetsBare

(* What the formats read, and the types they are for.                      *)
ReadBy(modifier) == IF modifier = "" THEN "int" ELSE Reads(modifier)

LEMMA Modifiers ==
    /\ ReadBy("h") = "short" /\ ReadBy("") = "int" /\ ReadBy("l") = "long"
    /\ ReadBy("ll") = LongLong
<1>1. ReadBy("h") = Reads("h") /\ ReadBy("l") = Reads("l") /\ ReadBy("ll") = Reads("ll")
    BY DEF ReadBy
<1>2. Reads("h") = "short" /\ Reads("l") = "long" /\ Reads("ll") = LongLong
    BY DEF Reads, LongLong
<1>3. ReadBy("") = "int"
    BY DEF ReadBy
<1>4. QED
    BY <1>1, <1>2, <1>3

LEMMA Words ==
    /\ IntegerTypes = {"short", "int", "long", LongLong}
    /\ LongLong \notin {"short", "int", "long", "char"}
    BY DEF IntegerTypes, LongLong

LEMMA FlagIs == ASSUME NEW b PROVE Flag(b) = 1 <=> b
    BY DEF Flag

LEMMA TypesAre ==
    ASSUME NEW d, NEW n, NEW type
    PROVE  IsType(d, n, type) = 1 <=> n \in DOMAIN d.name /\ d.name[n] = type
    BY FlagIs DEF IsType

LEMMA TypesStand ==
    ASSUME NEW d, StandardTypes(d)
    PROVE  /\ d.size["short"] = 2 /\ d.size["int"] = 4 /\ d.size[LongLong] = 8
           /\ Means(d, "int16_t", 2) /\ Means(d, "int32_t", 4) /\ Means(d, "int64_t", 8)
           /\ Means(d, "ptrdiff_t", d.size["pointer"])
           /\ "size_t" \in DOMAIN d.name /\ d.name["size_t"] \in IntegerTypes
    BY DEF StandardTypes, LongLong

LEMMA ShortFormats ==
    ASSUME NEW d, NEW a, ConfigRight(d, a), StandardTypes(d)
    PROVE  /\ ReadBy(Int16Format(a)) = "short"
           /\ d.size[ReadBy(Int32Format(a))] = 4
           /\ ReadBy(Int32Modifier(a)) = "short"
<1>1. value(a, "PCTK_SHORT_SIZE") = 2 /\ Sizes(a).int = 4
    BY TypesStand DEF ConfigRight, Sizes
<1>2. Int16Format(a) = "h" /\ Int32Format(a) = "" /\ Int32Modifier(a) = "h"
    BY <1>1 DEF Int16Format, Int32Format, Int32Modifier
<1>3. d.size["int"] = 4
    BY TypesStand
<1>4. QED
    BY <1>2, <1>3, Modifiers

LEMMA LongFormat ==
    ASSUME NEW d, NEW a, ConfigRight(d, a), StandardTypes(d), Int64Format(a) # Error
    PROVE  ReadBy(Int64Format(a)) = IF "int64_t" \in DOMAIN d.name THEN d.name["int64_t"] ELSE LongLong
<1> DEFINE long == d.size["long"]
           isLong == IsType(d, "int64_t", "long") = 1
           isLongLong == IsType(d, "int64_t", LongLong) = 1
<1>1. /\ Sizes(a).int = 4 /\ Sizes(a).long = long /\ Sizes(a).longlong = 8
      /\ value(a, "PCTK_INT64_IS_LONG_TYPE") = 1 <=> isLong
      /\ value(a, "PCTK_INT64_IS_LONG_LONG_TYPE") = 1 <=> isLongLong
    BY TypesStand DEF ConfigRight, Sizes
<1>2. /\ isLong <=> "int64_t" \in DOMAIN d.name /\ d.name["int64_t"] = "long"
      /\ isLongLong <=> "int64_t" \in DOMAIN d.name /\ d.name["int64_t"] = LongLong
    BY TypesAre
<1>3. "int64_t" \in DOMAIN d.name => (isLong /\ long = 8) \/ isLongLong
    BY TypesStand, Words, TypesAre DEF Means
<1> HIDE DEF long, isLong, isLongLong
<1>4. CASE long = 8 /\ isLong
  <2>1. Int64Format(a) = "l"
    BY <1>1, <1>4 DEF Int64Format
  <2>2. QED
    BY <1>2, <1>4, <2>1, Modifiers
<1>5. CASE long = 8 /\ ~isLong
  <2>1. isLongLong
    BY <1>1, <1>5 DEF Int64Format
  <2>2. Int64Format(a) = "ll"
    BY <1>1, <1>5, <2>1 DEF Int64Format
  <2>3. QED
    BY <1>2, <2>1, <2>2, Modifiers
<1>6. CASE long # 8
  <2>1. Int64Format(a) = "ll"
    BY <1>1, <1>6 DEF Int64Format
  <2>2. QED
    BY <1>2, <1>3, <1>6, <2>1, Modifiers
<1>7. QED
    BY <1>4, <1>5, <1>6

LEMMA SizeFormatRight ==
    ASSUME NEW d, NEW a, ConfigRight(d, a), StandardTypes(d)
    PROVE  ReadBy(SizeFormat(a)) = d.name["size_t"]
<1> DEFINE size == d.name["size_t"]
<1>1. /\ value(a, "PCTK_SIZET_IS_SHORT_TYPE") = 1 <=> size = "short"
      /\ value(a, "PCTK_SIZET_IS_INT_TYPE") = 1 <=> size = "int"
      /\ value(a, "PCTK_SIZET_IS_LONG_TYPE") = 1 <=> size = "long"
      /\ value(a, "PCTK_SIZET_IS_LONG_LONG_TYPE") = 1 <=> size = LongLong
    BY TypesStand, TypesAre DEF ConfigRight
<1>2. size \in {"short", "int", "long", LongLong}
    BY TypesStand, Words
<1> HIDE DEF size
<1>3. /\ size = "short" => SizeFormat(a) = "h"
      /\ size = "int" => SizeFormat(a) = ""
      /\ size = "long" => SizeFormat(a) = "l"
      /\ size = LongLong => SizeFormat(a) = "ll"
    BY <1>1, Words DEF SizeFormat
<1>4. ReadBy(SizeFormat(a)) = size
    BY <1>2, <1>3, Modifiers
<1>5. QED
    BY <1>4 DEF size

LEMMA PointerFormat ==
    ASSUME NEW d, NEW a, ConfigRight(d, a), IntptrFormat(a) # Error
    PROVE  /\ PointerLike(a) \in {"int", "long", LongLong}
           /\ d.size[PointerLike(a)] = d.size["pointer"]
           /\ ReadBy(IntptrFormat(a)) = PointerLike(a)
<1> DEFINE like == PointerLike(a)
           modifier == [int |-> "", long |-> "l"]
<1>1. /\ Sizes(a).int = d.size["int"] /\ Sizes(a).long = d.size["long"]
      /\ Sizes(a).longlong = d.size[LongLong] /\ Sizes(a).voidp = d.size["pointer"]
    BY DEF ConfigRight, Sizes
<1>2. DOMAIN modifier = {"int", "long"} /\ modifier["int"] = "" /\ modifier["long"] = "l"
    OBVIOUS
<1>3. IntptrFormat(a) = IF like \in {"int", "long"} THEN modifier[like]
                        ELSE IF like = Error THEN Error ELSE "ll"
    BY <1>2 DEF IntptrFormat
<1>4. like = IF Sizes(a).voidp = Sizes(a).int THEN "int"
             ELSE IF Sizes(a).voidp = Sizes(a).long THEN "long"
             ELSE IF Sizes(a).voidp = Sizes(a).longlong THEN LongLong
             ELSE Error
    BY DEF PointerLike, LongLong
<1>5. Error \notin {"int", "long"}
    BY DEF Error
<1> HIDE DEF like, modifier
<1>6. like # Error
    BY <1>3, <1>5
<1>7. like \in {"int", "long", LongLong} /\ d.size[like] = d.size["pointer"]
    BY <1>1, <1>4, <1>6
<1>8. ReadBy(IntptrFormat(a)) = like
    BY <1>2, <1>3, <1>6, <1>7, Words, Modifiers
<1>9. QED
    BY <1>7, <1>8 DEF like

(* What pctkTypes.h defines stays as it is, whatever is included later.    *)
LEMMA TypesKept ==
    ASSUME NEW t \in Targets, NEW n \in 4..9
    PROVE  \A x \in TypeMacros : Same(Chain(t, 4), Chain(t, n), x)
<1> DEFINE D == Definitions
<1>1. /\ DOMAIN D = 1..13
      /\ D[6] = TypeMacros /\ D[7] = LimitMacros /\ D[8] = {"PCTK_CORE_API"} /\ D[12] = {Error}
    BY DEF Definitions
<1>2. \A i \in (1..13) \ {6} : D[i] \cap TypeMacros = {}
    BY <1>1, DefinedOnce
<1> HIDE DEF D
<1>3. \A k \in 5..9 : TypeMacros \cap (OwnNames(k) \cup {Error}) = {}
  <2>1. OwnNames(5) = D[7] /\ OwnNames(6) = D[8] /\ \A k \in 7..9 : OwnNames(k) = {}
    BY <1>1 DEF OwnNames
  <2>2. \A k \in 5..9 : k \in {5, 6} \/ k \in 7..9
    OBVIOUS
  <2>3. TypeMacros \cap {Error} = {}
    BY <1>1, <1>2
  <2>4. QED
    BY <1>2, <2>1, <2>2, <2>3
<1>4. \A k \in 5..9 : \A x \in TypeMacros : Same(Chain(t, k - 1), Chain(t, k), x)
    BY <1>3, ChainTypes DEF Extends, AgreeBut, Levels
<1>5. ASSUME NEW x \in TypeMacros
      PROVE  Same(Chain(t, 4), Chain(t, n), x)
  <2> DEFINE S(k) == Same(Chain(t, k - 1), Chain(t, k), x)
  <2>1. S(5) /\ S(6) /\ S(7) /\ S(8) /\ S(9)
    BY <1>4
  <2>2. /\ Same(Chain(t, 4), Chain(t, 5), x) /\ Same(Chain(t, 5), Chain(t, 6), x)
        /\ Same(Chain(t, 6), Chain(t, 7), x) /\ Same(Chain(t, 7), Chain(t, 8), x)
        /\ Same(Chain(t, 8), Chain(t, 9), x)
    BY <2>1
  <2>3. n \in {4, 5, 6, 7, 8, 9}
    OBVIOUS
  <2>4. QED
    BY <2>2, <2>3 DEF Same
<1>6. QED
    BY <1>5

(* Nor does what may differ from the chain.                                *)
LEMMA TypesSeen == (TypeMacros \cup StandardNames \cup IntegerTypes) \cap Unseen = {}
<1>1. /\ Definitions[1] = GuardNames /\ Definitions[6] = TypeMacros
      /\ Definitions[9] = ProcessorMacros /\ Definitions[11] = {"PCTK_POINTER_SIZE"}
      /\ Definitions[13] = TypeNames \ {"pctk_int64_t"}
      /\ 1 \in DOMAIN Definitions /\ 6 \in DOMAIN Definitions /\ 9 \in DOMAIN Definitions
      /\ 11 \in DOMAIN Definitions /\ 13 \in DOMAIN Definitions
    BY DEF Definitions
<1>2. (TypeMacros \cup (TypeNames \ {"pctk_int64_t"})) \cap Unseen = {}
    BY <1>1, DefinedOnce DEF Unseen
<1>3. StandardNames \cup IntegerTypes \subseteq TypeNames \ {"pctk_int64_t"}
    BY DEF StandardNames, IntegerTypes, TypeNames, BaseTypes
<1>4. QED
    BY <1>2, <1>3

LEMMA ErrorSeen == Error \notin Unseen
<1>1. /\ Definitions[1] = GuardNames /\ Definitions[9] = ProcessorMacros
      /\ Definitions[11] = {"PCTK_POINTER_SIZE"} /\ Definitions[12] = {Error}
      /\ 1 \in DOMAIN Definitions /\ 9 \in DOMAIN Definitions
      /\ 11 \in DOMAIN Definitions /\ 12 \in DOMAIN Definitions
    BY DEF Definitions
<1>2. QED
    BY <1>1, DefinedOnce DEF Unseen

(* A table no header refused has a type for each name and a format for it. *)
LEMMA NothingRefused ==
    ASSUME NEW a, ~Fails(TypeTestLines(a))
    PROVE  /\ \A x \in DOMAIN Formats(a) : Formats(a)[x] # Error
           /\ \A x \in DOMAIN PtrTypes(a) : PtrTypes(a)[x] # Error
<1> DEFINE b == DefineAs(DefineAs(DefineAs(a, [PCTK_POINTER_SIZE |-> PointerSize(a),
                    PCTK_HAS_BUILTIN_OVERFLOW_CHECKS |-> Flag(BuiltinOverflowChecks(a))]),
                    Formats(a)), Typedefs(a))
           refused == Refused(Formats(a)) \cup Refused(PtrTypes(a))
<1>1. TypeTestLines(a) = Define(b, refused)
    BY DEF TypeTestLines
<1> HIDE DEF b
<1>2. Error \notin refused
    BY <1>1 DEF Fails, Define, DefineAs
<1>3. QED
    BY <1>2 DEF Refused

LEMMA ReachedTypes ==
    ASSUME NEW t \in Targets, NEW n \in 4..9, NEW a, Reached(t, n, a)
    PROVE  LET b == Chain(t, 3) IN
           /\ ConfigRight(t.data, b) /\ ~Fails(TypeTestLines(b))
           /\ \A x \in TypeMacros : Same(TypeTestLines(b), a, x)
           /\ \A x \in StandardNames \cap DOMAIN t.data.name :
                 x \in DOMAIN a /\ a[x] = t.data.name[x]
           /\ \A x \in IntegerTypes : x \notin DOMAIN a
           /\ defined(a, Measured) => defined(Predefined(t), Measured)
<1> DEFINE b == Chain(t, 3)
<1>1. /\ ~Fails(a) /\ \A x : x \notin Unseen => Same(a, Chain(t, n), x)
    BY DEF Reached, Alike, AgreeBut
<1>2. Chain(t, 4) = TypeTestLines(b)
    BY ChainStep, OwnIs DEF Levels
<1>3. ConfigRight(t.data, b)
  <2>1. ConfigMacros \subseteq Foreign \ {Error}
    <3>1. /\ Definitions[10] = ConfigMacros /\ Definitions[12] = {Error}
          /\ 10 \in DOMAIN Definitions /\ 12 \in DOMAIN Definitions
        BY DEF Definitions
    <3>2. Error \notin ConfigMacros
        BY <3>1, DefinedOnce
    <3>3. QED
        BY <3>2 DEF Foreign
  <2>2. \A x \in ConfigMacros : Same(Predefined(t), b, x)
    BY <2>1, ChainTypes
  <2>3. QED
    BY <2>2, ConfigValues
<1>4. ~Fails(TypeTestLines(b))
  <2>1. ~Fails(Chain(t, n))
    BY <1>1, ErrorSeen DEF Fails, Same
  <2>2. ~Fails(Chain(t, 4))
    BY <2>1, ChainFails
  <2>3. QED
    BY <1>2, <2>2
<1>5. \A x \in TypeMacros : Same(TypeTestLines(b), a, x)
    BY <1>1, <1>2, TypesKept, TypesSeen DEF Same
<1>6. \A x \in StandardNames \cup IntegerTypes : Same(Predefined(t), a, x)
  <2>1. StandardNames \cup IntegerTypes \subseteq TypeNames \ {"pctk_int64_t"}
    BY DEF StandardNames, IntegerTypes, TypeNames, BaseTypes
  <2>2. StandardNames \cup IntegerTypes \subseteq Foreign \ {Error}
    BY <2>1, ErrorNoType DEF Foreign
  <2>3. \A x \in StandardNames \cup IntegerTypes : Same(Predefined(t), Chain(t, n), x)
    BY <2>2, ChainTypes
  <2>4. QED
    BY <1>1, <2>3, TypesSeen DEF Same
<1>7. defined(a, Measured) => defined(Predefined(t), Measured)
  <2>1. Measured \subseteq SizeReads
    BY DEF Measured, SizeReads
  <2>2. SizeReads \subseteq ProcessorReads
    BY DEF ProcessorReads
  <2>3. ProcessorReads \cap (Unseen \cup {Error}) = {}
    <3>1. /\ Definitions[1] = GuardNames /\ Definitions[9] = ProcessorMacros
          /\ Definitions[11] = {"PCTK_POINTER_SIZE"} /\ Definitions[12] = {Error}
          /\ 1 \in DOMAIN Definitions /\ 9 \in DOMAIN Definitions
          /\ 11 \in DOMAIN Definitions /\ 12 \in DOMAIN Definitions
        BY DEF Definitions
    <3>2. QED
        BY <3>1, TestsInOrder DEF Unseen
  <2>4. \A x \in Measured : Same(Predefined(t), Chain(t, n), x) /\ Same(a, Chain(t, n), x)
    BY <1>1, <2>1, <2>2, <2>3, ChainTypes DEF Foreign
  <2>5. QED
    BY <2>4 DEF defined, Same
<1>8. QED
    BY <1>3, <1>4, <1>5, <1>6, <1>7, StandardValues DEF Same

(* The standard's type of a name, C's where the system has no such name.   *)
Standard(d, n, type) == IF n \in DOMAIN d.name THEN d.name[n] ELSE type

LEMMA NamedType ==
    ASSUME NEW a, NEW x, x \in DOMAIN a
    PROVE  Typedef(a, x) = IF a[x] \in DOMAIN a THEN a[a[x]] ELSE a[x]
    BY DEF Typedef

LEMMA TypedefsAre ==
    ASSUME NEW d, NEW a, ConfigRight(d, a)
    PROVE  /\ Typedefs(a)["pctk_int16_t"] = IF "int16_t" \in DOMAIN d.name THEN "int16_t" ELSE "short"
           /\ Typedefs(a)["pctk_int32_t"] = IF "int32_t" \in DOMAIN d.name THEN "int32_t" ELSE "int"
           /\ Typedefs(a)["pctk_int64_t"] = IF "int64_t" \in DOMAIN d.name THEN "int64_t" ELSE LongLong
           /\ Typedefs(a)["pctk_intptr_t"] = IF "ptrdiff_t" \in DOMAIN d.name THEN "ptrdiff_t"
                                             ELSE PointerLike(a)
           /\ {"pctk_int16_t", "pctk_int32_t", "pctk_int64_t", "pctk_intptr_t"} \subseteq DOMAIN Typedefs(a)
<1> DEFINE ints == IntTypes(a)
           ptrs == PtrTypes(a)
           intNames == {"pctk_int8_t", "pctk_int16_t", "pctk_int32_t", "pctk_int64_t"}
           ptrNames == {"pctk_ptrdiff_t", "pctk_intptr_t"}
           others == {"pctk_size_t", "pctk_longlong_t"}
<1>1. /\ value(a, "PCTK_HAS_INT16_T") = 1 <=> "int16_t" \in DOMAIN d.name
      /\ value(a, "PCTK_HAS_INT32_T") = 1 <=> "int32_t" \in DOMAIN d.name
      /\ value(a, "PCTK_HAS_INT64_T") = 1 <=> "int64_t" \in DOMAIN d.name
      /\ value(a, "PCTK_HAS_PTRDIFF_T") = 1 <=> "ptrdiff_t" \in DOMAIN d.name
    BY FlagIs DEF ConfigRight
<1>2. DOMAIN ints = intNames
    BY DEF IntTypes
<1>3. /\ ints["pctk_int16_t"] = IF value(a, "PCTK_HAS_INT16_T") = 1 THEN "int16_t" ELSE "short"
      /\ ints["pctk_int32_t"] = IF value(a, "PCTK_HAS_INT32_T") = 1 THEN "int32_t" ELSE "int"
      /\ ints["pctk_int64_t"] = IF value(a, "PCTK_HAS_INT64_T") = 1 THEN "int64_t" ELSE LongLong
    BY DEF IntTypes, LongLong
<1>4. /\ DOMAIN ptrs = ptrNames
      /\ ptrs["pctk_intptr_t"] = IF value(a, "PCTK_HAS_PTRDIFF_T") = 1 THEN "ptrdiff_t" ELSE PointerLike(a)
    BY DEF PtrTypes
<1>5. DOMAIN OtherTypes = others
    BY DEF OtherTypes
<1>6. Typedefs(a) = DefineAs(DefineAs(ints, ptrs), OtherTypes)
    BY DEF Typedefs
<1> HIDE DEF ints, ptrs
<1>7. \A x \in intNames : x \in DOMAIN Typedefs(a) /\ Typedefs(a)[x] = ints[x]
    BY <1>2, <1>4, <1>5, <1>6 DEF DefineAs
<1>8. \A x \in ptrNames : x \in DOMAIN Typedefs(a) /\ Typedefs(a)[x] = ptrs[x]
    BY <1>2, <1>4, <1>5, <1>6 DEF DefineAs
<1>9. QED
    BY <1>1, <1>3, <1>4, <1>7, <1>8

(* The widths of the types, and what the formats read.                     *)
LEMMA WidthsReached ==
    ASSUME NEW t \in Targets, NEW n \in 4..9, NEW a, Reached(t, n, a)
    PROVE  LET d == t.data
               b == Chain(t, 3)
           IN  /\ Typedef(a, "pctk_int16_t") = Standard(d, "int16_t", "short")
               /\ Typedef(a, "pctk_int32_t") = Standard(d, "int32_t", "int")
               /\ Typedef(a, "pctk_int64_t") = Standard(d, "int64_t", LongLong)
               /\ Typedef(a, "pctk_intptr_t") = Standard(d, "ptrdiff_t", PointerLike(b))
               /\ Typedef(a, "size_t") = d.name["size_t"]
               /\ a["PCTK_INT16_FORMAT"] = Int16Format(b) /\ a["PCTK_INT32_FORMAT"] = Int32Format(b)
               /\ a["PCTK_INT64_FORMAT"] = Int64Format(b) /\ a["PCTK_SIZE_FORMAT"] = SizeFormat(b)
               /\ a["PCTK_INTPTR_FORMAT"] = IntptrFormat(b)
               /\ a["PCTK_INT32_MODIFIER"] = Int32Modifier(b)
               /\ Int64Format(b) # Error /\ IntptrFormat(b) # Error
<1> DEFINE d == t.data
           b == Chain(t, 3)
           names == {"pctk_int16_t", "pctk_int32_t", "pctk_int64_t", "pctk_intptr_t"}
<1>1. /\ ConfigRight(d, b) /\ ~Fails(TypeTestLines(b))
      /\ \A x \in TypeMacros : Same(TypeTestLines(b), a, x)
      /\ \A x \in StandardNames \cap DOMAIN d.name : x \in DOMAIN a /\ a[x] = d.name[x]
      /\ \A x \in IntegerTypes : x \notin DOMAIN a
    BY ReachedTypes
<1>2. StandardTypes(d)
    BY TargetsAssumption
<1> HIDE DEF b, d
<1>3. \A x \in DOMAIN Formats(b) : Formats(b)[x] # Error
    BY <1>1, NothingRefused
<1>4. /\ DOMAIN Formats(b) = {"PCTK_INT16_FORMAT", "PCTK_INT32_FORMAT", "PCTK_INT32_MODIFIER",
                              "PCTK_INT64_FORMAT", "PCTK_SIZE_FORMAT", "PCTK_INTPTR_FORMAT"}
      /\ Formats(b)["PCTK_INT16_FORMAT"] = Int16Format(b) /\ Formats(b)["PCTK_INT32_FORMAT"] = Int32Format(b)
      /\ Formats(b)["PCTK_INT64_FORMAT"] = Int64Format(b) /\ Formats(b)["PCTK_SIZE_FORMAT"] = SizeFormat(b)
      /\ Formats(b)["PCTK_INTPTR_FORMAT"] = IntptrFormat(b)
      /\ Formats(b)["PCTK_INT32_MODIFIER"] = Int32Modifier(b)
    BY DEF Formats
<1>5. DOMAIN Formats(b) \cup names \subseteq TypeMacros
    BY <1>4 DEF TypeMacros
<1>6. \A x \in DOMAIN Formats(b) : a[x] = Formats(b)[x]
    BY <1>1, <1>5, TypeValues DEF Same
<1>7. Int64Format(b) # Error /\ IntptrFormat(b) # Error
    BY <1>3, <1>4
<1>8. \A x \in names : x \in DOMAIN a /\ a[x] = Typedefs(b)[x]
  <2>1. names \subseteq DOMAIN Typedefs(b)
    BY <1>1, TypedefsAre
  <2>2. QED
    BY <1>1, <1>5, <2>1, TypeValues DEF Same
<1>9. /\ a["pctk_int16_t"] = IF "int16_t" \in DOMAIN d.name THEN "int16_t" ELSE "short"
      /\ a["pctk_int32_t"] = IF "int32_t" \in DOMAIN d.name THEN "int32_t" ELSE "int"
      /\ a["pctk_int64_t"] = IF "int64_t" \in DOMAIN d.name THEN "int64_t" ELSE LongLong
      /\ a["pctk_intptr_t"] = IF "ptrdiff_t" \in DOMAIN d.name THEN "ptrdiff_t" ELSE PointerLike(b)
    BY <1>1, <1>8, TypedefsAre
<1>10. PointerLike(b) \in {"int", "long", LongLong}
    BY <1>1, <1>7, PointerFormat
<1>11. {"short", "int", "long", LongLong} \cap DOMAIN a = {}
    BY <1>1, Words
<1>12. /\ "int16_t" \in DOMAIN d.name => "int16_t" \in DOMAIN a /\ a["int16_t"] = d.name["int16_t"]
       /\ "int32_t" \in DOMAIN d.name => "int32_t" \in DOMAIN a /\ a["int32_t"] = d.name["int32_t"]
       /\ "int64_t" \in DOMAIN d.name => "int64_t" \in DOMAIN a /\ a["int64_t"] = d.name["int64_t"]
       /\ "ptrdiff_t" \in DOMAIN d.name => "ptrdiff_t" \in DOMAIN a /\ a["ptrdiff_t"] = d.name["ptrdiff_t"]
       /\ "size_t" \in DOMAIN a /\ a["size_t"] = d.name["size_t"]
    BY <1>1, <1>2, TypesStand DEF StandardNames
<1>13. Typedef(a, "pctk_int16_t") = Standard(d, "int16_t", "short")
    BY <1>8, <1>9, <1>11, <1>12, NamedType DEF Standard
<1>14. Typedef(a, "pctk_int32_t") = Standard(d, "int32_t", "int")
    BY <1>8, <1>9, <1>11, <1>12, NamedType DEF Standard
<1>15. Typedef(a, "pctk_int64_t") = Standard(d, "int64_t", LongLong)
    BY <1>8, <1>9, <1>11, <1>12, NamedType DEF Standard
<1>16. Typedef(a, "pctk_intptr_t") = Standard(d, "ptrdiff_t", PointerLike(b))
    BY <1>8, <1>9, <1>10, <1>11, <1>12, NamedType DEF Standard
<1>17. Typedef(a, "size_t") = d.name["size_t"]
  <2>1. d.name["size_t"] \notin DOMAIN a
    BY <1>1, <1>2, TypesStand
  <2>2. QED
    BY <1>12, <2>1, NamedType
<1>18. QED
    BY <1>4, <1>6, <1>7, <1>13, <1>14, <1>15, <1>16, <1>17 DEF b, d

LEMMA PointerTold ==
    ASSUME NEW t \in Targets, defined(Predefined(t), Measured)
    PROVE  PointerSize(Predefined(t)) = t.data.size["pointer"]
<1> DEFINE defs == Predefined(t)
           bytes == t.data.size["pointer"]
<1>1. TellsPointerSize(defs, bytes)
    BY TargetsAssumption
<1>2. defined(defs, {"__SIZEOF_POINTER__"}) \/ defined(defs, {"__LP64__", "_LP64"})
    BY DEF defined, Measured
<1> HIDE DEF defs, bytes
<1>3. defined(defs, {"__SIZEOF_POINTER__"}) => value(defs, "__SIZEOF_POINTER__") = bytes
    BY <1>1 DEF TellsPointerSize, defined, value
<1>4. defined(defs, {"__LP64__", "_LP64"}) => bytes = 8
    BY <1>1 DEF TellsPointerSize
<1>5. PointerSize(defs) = bytes
    BY <1>2, <1>3, <1>4 DEF PointerSize
<1>6. QED
    BY <1>5 DEF defs, bytes

(* The standard's types are as wide as their names say.                    *)
LEMMA StandardWidths ==
    ASSUME NEW d, StandardTypes(d), NEW like \in {"int", "long", LongLong},
           d.size[like] = d.size["pointer"]
    PROVE  /\ Standard(d, "int16_t", "short") # "char" /\ d.size[Standard(d, "int16_t", "short")] = 2
           /\ Standard(d, "int32_t", "int") # "char" /\ d.size[Standard(d, "int32_t", "int")] = 4
           /\ Standard(d, "int64_t", LongLong) # "char" /\ d.size[Standard(d, "int64_t", LongLong)] = 8
           /\ Standard(d, "ptrdiff_t", like) # "char"
           /\ d.size[Standard(d, "ptrdiff_t", like)] = d.size["pointer"]
<1>1. ASSUME NEW n, NEW bytes, Means(d, n, bytes), NEW type \in IntegerTypes, d.size[type] = bytes
      PROVE  Standard(d, n, type) # "char" /\ d.size[Standard(d, n, type)] = bytes
    BY <1>1, Words DEF Means, Standard
<1>2. QED
    BY <1>1, TypesStand, Words

(* The library's types are as wide as their names say, and each format     *)
(* reads the type it is for, on every target, whatever order the headers   *)
(* come in (pctkTypes.h:64-355, and the tests of configure.cmake).         *)
THEOREM WidthsAlwaysFit == Spec => []WidthsFit
<1>1. ASSUME IncludesInv
      PROVE  WidthsFit
  <2> SUFFICES ASSUME Seen("_PCTKTYPES_H")
               PROVE  WidthsFit
    BY DEF WidthsFit
  <2> DEFINE n == LevelOf(Range(includes))
             d == target.data
             b == Chain(target, 3)
             like == PointerLike(b)
  <2>1. target \in Targets /\ After(target, Range(includes), m)
    BY <1>1 DEF IncludesInv
  <2>2. ~Fails(m) /\ Guard(4) \in DOMAIN m
    BY DEF Seen, defined, Guard, GuardOf
  <2>3. Ready(target, 9, n, m)
    BY <2>1, <2>2 DEF After, Gives
  <2>4. n \in 4..9
    BY <2>2, <2>3, LevelRange DEF Ready
  <2> HIDE DEF n
  <2>5. Reached(target, n, m)
    BY <2>3 DEF Ready
  <2>6. /\ ConfigRight(d, b) /\ StandardTypes(d)
    BY <2>1, <2>4, <2>5, ReachedTypes, TargetsAssumption
  <2>7. /\ Typedef(m, "pctk_int16_t") = Standard(d, "int16_t", "short")
        /\ Typedef(m, "pctk_int32_t") = Standard(d, "int32_t", "int")
        /\ Typedef(m, "pctk_int64_t") = Standard(d, "int64_t", LongLong)
        /\ Typedef(m, "pctk_intptr_t") = Standard(d, "ptrdiff_t", like)
        /\ Typedef(m, "size_t") = d.name["size_t"]
    BY <2>1, <2>4, <2>5, WidthsReached
  <2>8. /\ m["PCTK_INT16_FORMAT"] = Int16Format(b) /\ m["PCTK_INT32_FORMAT"] = Int32Format(b)
        /\ m["PCTK_INT64_FORMAT"] = Int64Format(b) /\ m["PCTK_SIZE_FORMAT"] = SizeFormat(b)
        /\ m["PCTK_INTPTR_FORMAT"] = IntptrFormat(b)
        /\ m["PCTK_INT32_MODIFIER"] = Int32Modifier(b)
        /\ Int64Format(b) # Error /\ IntptrFormat(b) # Error
    BY <2>1, <2>4, <2>5, WidthsReached
  <2>9. defined(m, Measured) => m["PCTK_POINTER_SIZE"] = d.size["pointer"]
    <3>1. defined(m, Measured) => defined(Predefined(target), Measured)
        BY <2>1, <2>4, <2>5, ReachedTypes
    <3>2. defined(Predefined(target), Measured) => m["PCTK_POINTER_SIZE"] = PointerSize(Predefined(target))
        BY <2>4, <2>5 DEF Reached, Told
    <3>3. QED
        BY <2>1, <3>1, <3>2, PointerTold
  <2> HIDE DEF b, d
  <2>10. /\ like \in {"int", "long", LongLong} /\ d.size[like] = d.size["pointer"]
         /\ ReadBy(IntptrFormat(b)) = like
    BY <2>6, <2>8, PointerFormat
  <2> HIDE DEF like
  <2>11. \A format : Read(format) = ReadBy(m[format])
    BY DEF Read, ReadBy
  <2>12. \A x : Typedef(m, x) # "char" => SizeOf(x) = d.size[Typedef(m, x)]
    BY DEF SizeOf, d
  <2>13. /\ SizeOf("pctk_int16_t") = 2 /\ SizeOf("pctk_int32_t") = 4 /\ SizeOf("pctk_int64_t") = 8
         /\ SizeOf("pctk_intptr_t") = d.size["pointer"]
    BY <2>6, <2>7, <2>10, <2>12, StandardWidths
  <2>14. Read("PCTK_INT64_FORMAT") = Typedef(m, "pctk_int64_t")
    BY <2>6, <2>7, <2>8, <2>11, LongFormat DEF Standard
  <2>15. Read("PCTK_SIZE_FORMAT") = Typedef(m, "size_t")
    BY <2>6, <2>7, <2>8, <2>11, SizeFormatRight
  <2>16. /\ Read("PCTK_INT16_FORMAT") = "short" /\ d.size[Read("PCTK_INT32_FORMAT")] = 4
         /\ Read("PCTK_INT32_MODIFIER") = "short"
    BY <2>6, <2>8, <2>11, ShortFormats
  <2>17. d.size[Read("PCTK_INTPTR_FORMAT")] = d.size["pointer"]
    BY <2>8, <2>10, <2>11
  <2>18. QED
    BY <2>9, <2>13, <2>14, <2>15, <2>16, <2>17 DEF WidthsFit, Measured, d
<1>2. QED
    BY <1>1, IncludesAlways, PTL

-----------------------------------------------------------------------------
(* The features of a later compiler.  What pctkCompiler.h has found out of *)
(* the compiler before it lists the features.                              *)
Tells(c, p) ==
    /\ \A x \in LaterNames : Same(p, c, x)
    /\ Is(c, "GNU") <=> "__GNUC__" \in DOMAIN p
    /\ Is(c, "MSVC") <=> "_MSC_VER" \in DOMAIN p
    /\ Is(c, "CLANG") <=> "__clang__" \in DOMAIN p
    /\ Is(c, "INTEL") <=> "__INTEL_COMPILER" \in DOMAIN p
    /\ Is(c, "GNU") => Version(c, "GNU") = 100 * value(p, "__GNUC__") + value(p, "__GNUC_MINOR__")
    /\ Is(c, "MSVC") => Version(c, "MSVC") = value(p, "_MSC_VER")
    /\ Is(c, "INTEL") => Version(c, "INTEL") = value(p, "__INTEL_COMPILER")
    /\ Is(c, "CLANG") => /\ "PCTK_CC_CLANG" \in DOMAIN ClangVersion(p)
                         /\ Version(c, "CLANG") = ClangVersion(p)["PCTK_CC_CLANG"]

KnownCompilers == {"PCTK_CC_GNU", "PCTK_CC_MSVC", "PCTK_CC_CLANG", "PCTK_CC_INTEL"}

LEMMA NamedCompilers ==
    ASSUME NEW a
    PROVE  /\ "PCTK_CC_" \o "GNU" = "PCTK_CC_GNU" /\ "PCTK_CC_" \o "MSVC" = "PCTK_CC_MSVC"
           /\ "PCTK_CC_" \o "CLANG" = "PCTK_CC_CLANG" /\ "PCTK_CC_" \o "INTEL" = "PCTK_CC_INTEL"
           /\ Is(a, "GNU") <=> "PCTK_CC_GNU" \in DOMAIN a
           /\ Is(a, "MSVC") <=> "PCTK_CC_MSVC" \in DOMAIN a
           /\ Is(a, "CLANG") <=> "PCTK_CC_CLANG" \in DOMAIN a
           /\ Is(a, "INTEL") <=> "PCTK_CC_INTEL" \in DOMAIN a
           /\ Is(a, "GNU") => Version(a, "GNU") = a["PCTK_CC_GNU"]
           /\ Is(a, "MSVC") => Version(a, "MSVC") = a["PCTK_CC_MSVC"]
           /\ Is(a, "CLANG") => Version(a, "CLANG") = a["PCTK_CC_CLANG"]
           /\ Is(a, "INTEL") => Version(a, "INTEL") = a["PCTK_CC_INTEL"]
<1>1. /\ "PCTK_CC_" \o "GNU" = "PCTK_CC_GNU" /\ "PCTK_CC_" \o "MSVC" = "PCTK_CC_MSVC"
      /\ "PCTK_CC_" \o "CLANG" = "PCTK_CC_CLANG" /\ "PCTK_CC_" \o "INTEL" = "PCTK_CC_INTEL"
    BY CompilersNamed
<1>2. QED
    BY <1>1 DEF Is, Version, defined, value

LEMMA OthersUnknown ==
    ASSUME NEW a
    PROVE  Given({<<defined(a, {"__MINGW32__"}), {"PCTK_CC_MINGW"}>>,
                  <<defined(a, {"_MSC_VER"}), {"PCTK_CC_MSVC_NET"}>>,
                  <<defined(a, {"__BORLANDC__", "__TURBOC__"}), Borland(a)>>,
                  <<defined(a, {"__EMSCRIPTEN__"}), {"PCTK_CC_EMSCRIPTEN"}>>})
               \subseteq {"PCTK_CC_MINGW", "PCTK_CC_MSVC_NET", "PCTK_CC_BOR", "PCTK_CC_EMSCRIPTEN", Error}
<1> DEFINE table == {<<defined(a, {"__MINGW32__"}), {"PCTK_CC_MINGW"}>>,
                     <<defined(a, {"_MSC_VER"}), {"PCTK_CC_MSVC_NET"}>>,
                     <<defined(a, {"__BORLANDC__", "__TURBOC__"}), Borland(a)>>,
                     <<defined(a, {"__EMSCRIPTEN__"}), {"PCTK_CC_EMSCRIPTEN"}>>}
           names == {"PCTK_CC_MINGW", "PCTK_CC_MSVC_NET", "PCTK_CC_BOR", "PCTK_CC_EMSCRIPTEN", Error}
<1>1. Borland(a) \subseteq names
    BY DEF Borland
<1>2. \A row \in table : row[2] \subseteq names
    BY <1>1
<1> HIDE DEF table, names
<1>3. Given(table) \subseteq names
    BY <1>2, GivenWithin, Zenon
<1>4. QED
    BY <1>3, Zenon DEF table, names

(* Clang's version is known or refused.  Apple's build number tells the    *)
(* greatest version it has reached.                                        *)
Builds(a) == {row[2] : row \in {r \in AppleClang : a["__apple_build_version__"] >= r[1]}}

LEMMA ClangNumber ==
    ASSUME NEW a
    PROVE  /\ DOMAIN ClangVersion(a) = {"PCTK_CC_CLANG"} \/ DOMAIN ClangVersion(a) = {Error}
           /\ "PCTK_CC_CLANG" \in DOMAIN ClangVersion(a) =>
                IF "__apple_build_version__" \in DOMAIN a
                THEN /\ ClangVersion(a)["PCTK_CC_CLANG"] \in Builds(a)
                     /\ \A w \in Builds(a) : ClangVersion(a)["PCTK_CC_CLANG"] >= w
                ELSE ClangVersion(a)["PCTK_CC_CLANG"]
                        = 100 * value(a, "__clang_major__") + value(a, "__clang_minor__")
<1> DEFINE Greatest(reached) == CHOOSE v \in reached : \A w \in reached : v >= w
           From(reached) == IF reached = {} THEN [x \in {Error} |-> 1]
                            ELSE [x \in {"PCTK_CC_CLANG"} |-> Greatest(reached)]
           plainly == [x \in {"PCTK_CC_CLANG"} |->
                            100 * value(a, "__clang_major__") + value(a, "__clang_minor__")]
<1>1. ClangVersion(a) = IF "__apple_build_version__" \notin DOMAIN a THEN plainly ELSE From(Builds(a))
    BY DEF ClangVersion, Builds, defined
<1>2. Builds(a) # {} => Greatest(Builds(a)) \in Builds(a) /\ \A w \in Builds(a) : Greatest(Builds(a)) >= w
  <2>1. Builds(a) \subseteq {309, 308, 306, 305, 304, 303, 302, 301, 300}
    BY DEF Builds, AppleClang
  <2>2. ASSUME Builds(a) # {}
        PROVE  \E v \in Builds(a) : \A w \in Builds(a) : v >= w
    BY <2>1, <2>2
  <2>3. QED
    BY <2>2
<1>3. Error # "PCTK_CC_CLANG"
    BY DEF Error
<1> HIDE DEF Greatest
<1>4. /\ DOMAIN plainly = {"PCTK_CC_CLANG"}
      /\ plainly["PCTK_CC_CLANG"] = 100 * value(a, "__clang_major__") + value(a, "__clang_minor__")
    OBVIOUS
<1>5. IF Builds(a) = {} THEN DOMAIN From(Builds(a)) = {Error}
      ELSE /\ DOMAIN From(Builds(a)) = {"PCTK_CC_CLANG"}
           /\ From(Builds(a))["PCTK_CC_CLANG"] = Greatest(Builds(a))
    OBVIOUS
<1> HIDE DEF plainly, From
<1>6. QED
    BY <1>1, <1>2, <1>3, <1>4, <1>5

(* The four compilers a translation unit can be told.                      *)
LEMMA CompilersTold ==
    ASSUME NEW a, KnownCompilers \cap DOMAIN a = {}, ~Fails(Compilers(a))
    PROVE  LET b == Compilers(a) IN
           /\ "PCTK_CC_GNU" \in DOMAIN b <=> "__GNUC__" \in DOMAIN a
           /\ "PCTK_CC_MSVC" \in DOMAIN b <=> "_MSC_VER" \in DOMAIN a
           /\ "PCTK_CC_CLANG" \in DOMAIN b <=> "__clang__" \in DOMAIN a
           /\ "PCTK_CC_INTEL" \in DOMAIN b <=> "__INTEL_COMPILER" \in DOMAIN a
           /\ "PCTK_CC_GNU" \in DOMAIN b =>
                b["PCTK_CC_GNU"] = 100 * value(a, "__GNUC__") + value(a, "__GNUC_MINOR__")
           /\ "PCTK_CC_MSVC" \in DOMAIN b => b["PCTK_CC_MSVC"] = value(a, "_MSC_VER")
           /\ "PCTK_CC_INTEL" \in DOMAIN b => b["PCTK_CC_INTEL"] = value(a, "__INTEL_COMPILER")
           /\ "PCTK_CC_CLANG" \in DOMAIN b =>
                /\ "PCTK_CC_CLANG" \in DOMAIN ClangVersion(a)
                /\ b["PCTK_CC_CLANG"] = ClangVersion(a)["PCTK_CC_CLANG"]
<1> DEFINE gnu == IF defined(a, {"__GNUC__"})
                  THEN [x \in {"PCTK_CC_" \o "GNU"} |->
                              100 * value(a, "__GNUC__") + value(a, "__GNUC_MINOR__")]
                  ELSE << >>
           vc == IF defined(a, {"_MSC_VER"})
                 THEN [x \in {"PCTK_CC_" \o "MSVC"} |-> value(a, "_MSC_VER")] ELSE << >>
           icc == IF defined(a, {"__INTEL_COMPILER"})
                  THEN [x \in {"PCTK_CC_" \o "INTEL"} |-> value(a, "__INTEL_COMPILER")] ELSE << >>
           llvm == IF defined(a, {"__clang__"}) THEN ClangVersion(a) ELSE << >>
           others == Given({<<defined(a, {"__MINGW32__"}), {"PCTK_CC_MINGW"}>>,
                            <<defined(a, {"_MSC_VER"}), {"PCTK_CC_MSVC_NET"}>>,
                            <<defined(a, {"__BORLANDC__", "__TURBOC__"}), Borland(a)>>,
                            <<defined(a, {"__EMSCRIPTEN__"}), {"PCTK_CC_EMSCRIPTEN"}>>})
           b == Compilers(a)
<1>1. b = Define(DefineAs(DefineAs(DefineAs(DefineAs(a, gnu), vc), llvm), icc), others)
    BY DEF Compilers
<1>2. /\ DOMAIN gnu = IF "__GNUC__" \in DOMAIN a THEN {"PCTK_CC_GNU"} ELSE {}
      /\ DOMAIN vc = IF "_MSC_VER" \in DOMAIN a THEN {"PCTK_CC_MSVC"} ELSE {}
      /\ DOMAIN icc = IF "__INTEL_COMPILER" \in DOMAIN a THEN {"PCTK_CC_INTEL"} ELSE {}
      /\ "__GNUC__" \in DOMAIN a =>
            gnu["PCTK_CC_GNU"] = 100 * value(a, "__GNUC__") + value(a, "__GNUC_MINOR__")
      /\ "_MSC_VER" \in DOMAIN a => vc["PCTK_CC_MSVC"] = value(a, "_MSC_VER")
      /\ "__INTEL_COMPILER" \in DOMAIN a => icc["PCTK_CC_INTEL"] = value(a, "__INTEL_COMPILER")
  <2>1. DOMAIN << >> = {}
    OBVIOUS
  <2>2. /\ defined(a, {"__GNUC__"}) <=> "__GNUC__" \in DOMAIN a
        /\ defined(a, {"_MSC_VER"}) <=> "_MSC_VER" \in DOMAIN a
        /\ defined(a, {"__INTEL_COMPILER"}) <=> "__INTEL_COMPILER" \in DOMAIN a
    BY DEF defined
  <2>3. /\ DOMAIN gnu = IF "__GNUC__" \in DOMAIN a THEN {"PCTK_CC_GNU"} ELSE {}
        /\ "__GNUC__" \in DOMAIN a =>
              gnu["PCTK_CC_GNU"] = 100 * value(a, "__GNUC__") + value(a, "__GNUC_MINOR__")
    BY <2>1, <2>2, NamedCompilers
  <2>4. /\ DOMAIN vc = IF "_MSC_VER" \in DOMAIN a THEN {"PCTK_CC_MSVC"} ELSE {}
        /\ "_MSC_VER" \in DOMAIN a => vc["PCTK_CC_MSVC"] = value(a, "_MSC_VER")
    BY <2>1, <2>2, NamedCompilers
  <2>5. /\ DOMAIN icc = IF "__INTEL_COMPILER" \in DOMAIN a THEN {"PCTK_CC_INTEL"} ELSE {}
        /\ "__INTEL_COMPILER" \in DOMAIN a => icc["PCTK_CC_INTEL"] = value(a, "__INTEL_COMPILER")
    BY <2>1, <2>2, NamedCompilers
  <2> HIDE DEF gnu, vc, icc
  <2>6. QED
    BY <2>3, <2>4, <2>5
<1>3. others \cap KnownCompilers = {}
  <2>1. {"PCTK_CC_MINGW", "PCTK_CC_MSVC_NET", "PCTK_CC_BOR", "PCTK_CC_EMSCRIPTEN", Error} \cap KnownCompilers = {}
    BY DEF KnownCompilers, Error
  <2> HIDE DEF others
  <2>2. QED
    BY <2>1, OthersUnknown DEF others
<1>4. /\ "__clang__" \in DOMAIN a => llvm = ClangVersion(a)
      /\ "__clang__" \notin DOMAIN a => DOMAIN llvm = {}
      /\ DOMAIN ClangVersion(a) = {"PCTK_CC_CLANG"} \/ DOMAIN ClangVersion(a) = {Error}
  <2>1. DOMAIN << >> = {}
    OBVIOUS
  <2>2. defined(a, {"__clang__"}) <=> "__clang__" \in DOMAIN a
    BY DEF defined
  <2>3. DOMAIN ClangVersion(a) = {"PCTK_CC_CLANG"} \/ DOMAIN ClangVersion(a) = {Error}
    BY ClangNumber
  <2>4. QED
    BY <2>1, <2>2, <2>3
<1> HIDE DEF gnu, vc, icc, llvm, others, b
<1>5. /\ DOMAIN b = DOMAIN a \cup DOMAIN gnu \cup DOMAIN vc \cup DOMAIN llvm \cup DOMAIN icc \cup others
      /\ \A x \in KnownCompilers \cap DOMAIN b :
            b[x] = IF x \in DOMAIN icc THEN icc[x] ELSE IF x \in DOMAIN llvm THEN llvm[x]
                   ELSE IF x \in DOMAIN vc THEN vc[x] ELSE IF x \in DOMAIN gnu THEN gnu[x] ELSE a[x]
    BY <1>1, <1>3 DEF Define, DefineAs
<1>6. Error \notin DOMAIN b
    BY DEF Fails, b
<1>7. DOMAIN llvm = IF "__clang__" \in DOMAIN a THEN {"PCTK_CC_CLANG"} ELSE {}
    BY <1>4, <1>5, <1>6
<1>8. \A x \in KnownCompilers : x \in DOMAIN b <=> x \in DOMAIN gnu \cup DOMAIN vc \cup DOMAIN llvm \cup DOMAIN icc
    BY <1>3, <1>5
<1>9. QED
    BY <1>2, <1>4, <1>5, <1>7, <1>8 DEF KnownCompilers, b

LEMMA ClangSame ==
    ASSUME NEW a, NEW b,
           Agree(a, b, {"__apple_build_version__", "__clang_major__", "__clang_minor__"})
    PROVE  ClangVersion(a) = ClangVersion(b)
<1> DEFINE apple == "__apple_build_version__"
           plainly(u) == [x \in {"PCTK_CC_CLANG"} |->
                            100 * value(u, "__clang_major__") + value(u, "__clang_minor__")]
           from(reached) == IF reached = {} THEN [x \in {Error} |-> 1]
                            ELSE [x \in {"PCTK_CC_CLANG"} |->
                                    CHOOSE v \in reached : \A w \in reached : v >= w]
<1>1. \A u : ClangVersion(u) = IF apple \notin DOMAIN u THEN plainly(u) ELSE from(Builds(u))
    BY DEF ClangVersion, Builds, defined
<1>2. plainly(a) = plainly(b)
    BY DEF Agree, Same, value
<1>3. apple \in DOMAIN a <=> apple \in DOMAIN b
    BY DEF Agree, Same
<1>4. apple \in DOMAIN a => Builds(a) = Builds(b)
    BY DEF Agree, Same, Builds
<1> HIDE DEF plainly, from, apple
<1>5. QED
    BY <1>1, <1>2, <1>3, <1>4

LEMMA LaterNamesApart ==
    /\ LaterNames \cap (SystemMacros \cup CompilerMacros \cup {Error}) = {}
    /\ KnownCompilers \subseteq CompilerMacros /\ KnownCompilers \cap (SystemMacros \cup {Error}) = {}
<1> DEFINE D == Definitions
<1>1. /\ 2 \in DOMAIN D /\ 3 \in DOMAIN D /\ 12 \in DOMAIN D
      /\ D[2] = SystemMacros /\ D[3] = CompilerMacros /\ D[12] = {Error}
    BY DEF Definitions
<1>2. KnownCompilers \subseteq CompilerMacros
    BY NamedCompilers DEF KnownCompilers, CompilerMacros
<1> HIDE DEF D
<1>3. D[2] \cap D[3] = {} /\ D[3] \cap D[12] = {}
    BY <1>1, DefinedOnce DEF D
<1>4. LaterNames \cap UNION {D[i] : i \in DOMAIN D} = {}
    BY LaterNamesForeign DEF D
<1>5. QED
    BY <1>1, <1>2, <1>3, <1>4

LEMMA StandardsApart == \A a : DOMAIN Standards(a) \cap KnownCompilers = {}
    BY DEF Standards, KnownCompilers

LEMMA ChainTells ==
    ASSUME NEW t \in Targets, ~Fails(Chain(t, 2))
    PROVE  LET b == Compilers(Chain(t, 1))
               c == DefineAs(b, Standards(b))
           IN  /\ Tells(c, Predefined(t)) /\ FeatureMacros \cap DOMAIN c = {}
               /\ Chain(t, 2) = FeatureTests(c, Features(c))
<1> DEFINE p == Predefined(t)
           a == Chain(t, 1)
           b == Compilers(a)
           c == DefineAs(b, Standards(b))
<1>1. Chain(t, 2) = FeatureTests(c, Features(c)) /\ a = SystemLines(p)
    BY ChainStep, OwnIs DEF Levels, StandardTests, CompilerTests
<1>2. Extends(p, a, SystemMacros)
    BY SystemTests, <1>1
<1>3. Extends(a, b, CompilerMacros)
    BY CompilersLines
<1>4. Extends(b, c, CompilerMacros)
    BY StandardsLines, ExtendsLines
<1>5. Extends(c, Chain(t, 2), FeatureMacros)
  <2>1. Features(c) \in SUBSET FeatureNames
    BY FeaturesNames
  <2>2. QED
    BY <1>1, <2>1, FeatureTestsLines
<1>6. ~Fails(b) /\ ~Fails(c) /\ ~Fails(a)
    BY <1>3, <1>4, <1>5 DEF Extends
<1>7. \A x \in LaterNames : Same(p, a, x) /\ Same(p, c, x)
  <2> HIDE DEF p, a, b, c
  <2>1. QED
    BY <1>2, <1>3, <1>4, LaterNamesApart DEF Extends, AgreeBut, Same
<1>8. KnownCompilers \cap DOMAIN a = {}
  <2>1. KnownCompilers \cap DOMAIN p = {}
    BY TargetsBare, LaterNamesApart
  <2> HIDE DEF p, a
  <2>2. QED
    BY <1>2, <2>1, LaterNamesApart DEF Extends, AgreeBut, Same
<1>9. \A x \in KnownCompilers : Same(b, c, x)
  <2> HIDE DEF b
  <2>1. QED
    BY StandardsApart DEF Same, DefineAs
<1>10. FeatureMacros \cap DOMAIN c = {}
  <2>1. FeatureMacros \cap DOMAIN a = {}
    BY FeaturesKept
  <2>2. FeatureMacros \cap (CompilerMacros \cup {Error}) = {}
    <3>1. /\ Definitions[3] = CompilerMacros /\ Definitions[4] = FeatureMacros
          /\ Definitions[12] = {Error}
          /\ 3 \in DOMAIN Definitions /\ 4 \in DOMAIN Definitions /\ 12 \in DOMAIN Definitions
      BY DEF Definitions
    <3>2. QED
      BY <3>1, DefinedOnce
  <2> HIDE DEF a, b, c
  <2>3. QED
    BY <1>3, <1>4, <2>1, <2>2 DEF Extends, AgreeBut, Same
<1>11. Tells(c, p)
  <2> DEFINE names == {"__GNUC__", "__GNUC_MINOR__", "_MSC_VER", "__clang__", "__INTEL_COMPILER",
                       "__apple_build_version__", "__clang_major__", "__clang_minor__"}
  <2>1. names \subseteq LaterNames
    BY DEF LaterNames, Vendors, Numbers
  <2>2. \A x \in names : Same(p, a, x)
    BY <1>7, <2>1
  <2>3. \A x \in names : (x \in DOMAIN p <=> x \in DOMAIN a) /\ value(p, x) = value(a, x)
    BY <2>2 DEF Same, value
  <2>4. ClangVersion(p) = ClangVersion(a)
    BY <2>2, ClangSame DEF Agree
  <2>5. /\ "PCTK_CC_GNU" \in DOMAIN b <=> "__GNUC__" \in DOMAIN a
        /\ "PCTK_CC_MSVC" \in DOMAIN b <=> "_MSC_VER" \in DOMAIN a
        /\ "PCTK_CC_CLANG" \in DOMAIN b <=> "__clang__" \in DOMAIN a
        /\ "PCTK_CC_INTEL" \in DOMAIN b <=> "__INTEL_COMPILER" \in DOMAIN a
        /\ "PCTK_CC_GNU" \in DOMAIN b =>
                b["PCTK_CC_GNU"] = 100 * value(a, "__GNUC__") + value(a, "__GNUC_MINOR__")
        /\ "PCTK_CC_MSVC" \in DOMAIN b => b["PCTK_CC_MSVC"] = value(a, "_MSC_VER")
        /\ "PCTK_CC_INTEL" \in DOMAIN b => b["PCTK_CC_INTEL"] = value(a, "__INTEL_COMPILER")
        /\ "PCTK_CC_CLANG" \in DOMAIN b =>
              /\ "PCTK_CC_CLANG" \in DOMAIN ClangVersion(a)
              /\ b["PCTK_CC_CLANG"] = ClangVersion(a)["PCTK_CC_CLANG"]
    <3> HIDE DEF a
    <3>1. QED
      BY <1>6, <1>8, CompilersTold
  <2>6. \A x \in KnownCompilers : (x \in DOMAIN b <=> x \in DOMAIN c) /\ (x \in DOMAIN b => c[x] = b[x])
    BY <1>9 DEF Same
  <2> HIDE DEF p, a, b, c
  <2>7. /\ Is(c, "GNU") <=> "PCTK_CC_GNU" \in DOMAIN c
        /\ Is(c, "MSVC") <=> "PCTK_CC_MSVC" \in DOMAIN c
        /\ Is(c, "CLANG") <=> "PCTK_CC_CLANG" \in DOMAIN c
        /\ Is(c, "INTEL") <=> "PCTK_CC_INTEL" \in DOMAIN c
        /\ Is(c, "GNU") => Version(c, "GNU") = c["PCTK_CC_GNU"]
        /\ Is(c, "MSVC") => Version(c, "MSVC") = c["PCTK_CC_MSVC"]
        /\ Is(c, "CLANG") => Version(c, "CLANG") = c["PCTK_CC_CLANG"]
        /\ Is(c, "INTEL") => Version(c, "INTEL") = c["PCTK_CC_INTEL"]
    BY NamedCompilers
  <2>8. {"PCTK_CC_GNU", "PCTK_CC_MSVC", "PCTK_CC_CLANG", "PCTK_CC_INTEL"} \subseteq KnownCompilers
    BY DEF KnownCompilers
  <2>9. QED
    BY <1>7, <2>3, <2>4, <2>5, <2>6, <2>7, <2>8 DEF Tells
<1>12. QED
    BY <1>1, <1>10, <1>11

(* What tells a later compiler tells it in pctkCompiler.h too.             *)
Grows(c, d) ==
    /\ \A n \in {"GNU", "MSVC", "CLANG", "INTEL"} : Is(c, n) <=> Is(d, n)
    /\ \A x \in Numbers \cup Grown : value(c, x) \in Nat /\ value(d, x) \in Nat
    /\ \A x \in Grown : value(c, x) <= value(d, x)
    /\ \A x \in Abilities : defined(c, {x}) => defined(d, {x})
    /\ \A x \in Obstacles : defined(d, {x}) => defined(c, {x})
    /\ NotStrict(c) => NotStrict(d)
    /\ Cxx11(c) => Cxx11(d)
    /\ LaterModes(c, d)

LEMMA ModesGrow ==
    ASSUME NEW p, NEW q, LaterModes(p, q), value(p, "__cplusplus") \in Nat, value(q, "__cplusplus") \in Nat,
           value(p, "__STDC_VERSION__") \in Nat, value(q, "__STDC_VERSION__") \in Nat,
           value(p, "__cplusplus") <= value(q, "__cplusplus"),
           value(p, "__STDC_VERSION__") <= value(q, "__STDC_VERSION__")
    PROVE  (NotStrict(p) => NotStrict(q)) /\ (Cxx11(p) => Cxx11(q))
    BY DEF LaterModes, NotStrict, Cxx11

LEMMA ToldGrows ==
    ASSUME NEW c, NEW d, NEW p, NEW q, Tells(c, p), Tells(d, q), Later(p, q)
    PROVE  Grows(c, d)
<1>1. \A x \in LaterNames : /\ value(c, x) = value(p, x) /\ value(d, x) = value(q, x)
                            /\ defined(c, {x}) <=> x \in DOMAIN p
                            /\ defined(d, {x}) <=> x \in DOMAIN q
                            /\ defined(p, {x}) <=> x \in DOMAIN p
                            /\ defined(q, {x}) <=> x \in DOMAIN q
    BY DEF Tells, Same, value, defined
<1>2. /\ Numbers \subseteq LaterNames /\ Grown \subseteq LaterNames /\ Abilities \subseteq LaterNames
      /\ Obstacles \subseteq LaterNames /\ Modes \subseteq LaterNames /\ Vendors \subseteq LaterNames
    BY DEF LaterNames
<1>3. \A n \in {"GNU", "MSVC", "CLANG", "INTEL"} : Is(c, n) <=> Is(d, n)
    BY DEF Tells, Later, Vendors
<1>4. /\ \A x \in Numbers \cup Grown : value(c, x) \in Nat /\ value(d, x) \in Nat
      /\ \A x \in Grown : value(c, x) <= value(d, x)
    BY <1>1, <1>2 DEF Later
<1>5. /\ \A x \in Abilities : defined(c, {x}) => defined(d, {x})
      /\ \A x \in Obstacles : defined(d, {x}) => defined(c, {x})
  <2>1. Abilities \cap DOMAIN p \subseteq DOMAIN q /\ Obstacles \cap DOMAIN q \subseteq DOMAIN p
    BY DEF Later
  <2>2. QED
    BY <1>1, <1>2, <2>1
<1>6. LaterModes(c, d)
  <2>1. {"__GXX_EXPERIMENTAL_CXX0X__", "__INTEL_CXX11_MODE__", "__STRICT_ANSI__", "__cplusplus",
         "__STDC_VERSION__"} \subseteq LaterNames
    BY <1>2 DEF Modes, Grown
  <2>2. LaterModes(p, q)
    BY DEF Later
  <2>3. /\ value(d, "__cplusplus") = value(q, "__cplusplus")
        /\ value(d, "__STDC_VERSION__") = value(q, "__STDC_VERSION__")
        /\ \A x \in {"__GXX_EXPERIMENTAL_CXX0X__", "__INTEL_CXX11_MODE__", "__STRICT_ANSI__",
                     "__STDC_VERSION__"} :
              (defined(c, {x}) <=> defined(p, {x})) /\ (defined(d, {x}) <=> defined(q, {x}))
    BY <1>1, <2>1
  <2>4. QED
    BY <2>2, <2>3 DEF LaterModes
<1>7. (NotStrict(c) => NotStrict(d)) /\ (Cxx11(c) => Cxx11(d))
  <2>1. "__cplusplus" \in Grown /\ "__STDC_VERSION__" \in Grown
    BY DEF Grown
  <2>2. QED
    BY <1>4, <1>6, <2>1, ModesGrow
<1>8. QED
    BY <1>3, <1>4, <1>5, <1>6, <1>7 DEF Grows

(* Their versions.                                                         *)
LEMMA VersionsGrow ==
    ASSUME NEW c, NEW d, NEW p, NEW q, Tells(c, p), Tells(d, q), Later(p, q)
    PROVE  /\ Is(c, "GNU") =>
                /\ Version(c, "GNU") \in Nat /\ Version(d, "GNU") \in Nat
                /\ Precedes(Version(c, "GNU"), Version(d, "GNU"),
                            value(c, "__GNUC_PATCHLEVEL__"), value(d, "__GNUC_PATCHLEVEL__"))
           /\ Is(c, "MSVC") =>
                /\ Version(c, "MSVC") \in Nat /\ Version(d, "MSVC") \in Nat
                /\ Version(c, "MSVC") <= Version(d, "MSVC")
           /\ Is(c, "INTEL") =>
                /\ Version(c, "INTEL") \in Nat /\ Version(d, "INTEL") \in Nat
                /\ Precedes(Version(c, "INTEL"), Version(d, "INTEL"),
                            value(c, "__INTEL_COMPILER_UPDATE"), value(d, "__INTEL_COMPILER_UPDATE"))
           /\ Is(c, "CLANG") =>
                /\ Version(c, "CLANG") \in Nat /\ Version(d, "CLANG") \in Nat
                /\ Version(c, "CLANG") <= Version(d, "CLANG")
<1> DEFINE names == Numbers \cup Grown
<1>1. \A x \in names : /\ value(c, x) = value(p, x) /\ value(d, x) = value(q, x)
                       /\ value(p, x) \in Nat /\ value(q, x) \in Nat
    BY DEF Tells, Same, value, Later, LaterNames
<1>2. /\ {"__GNUC__", "__GNUC_MINOR__", "__GNUC_PATCHLEVEL__", "__clang_major__", "__clang_minor__"}
            \subseteq names
      /\ {"__INTEL_COMPILER", "__INTEL_COMPILER_UPDATE", "_MSC_VER", "__apple_build_version__"} \subseteq names
    BY DEF Numbers, Grown
<1>3. \A n \in {"GNU", "MSVC", "CLANG", "INTEL"} : Is(c, n) <=> Is(d, n)
    BY ToldGrows DEF Grows
<1> HIDE DEF names
<1>4. Is(c, "GNU") =>
        /\ Version(c, "GNU") \in Nat /\ Version(d, "GNU") \in Nat
        /\ Precedes(Version(c, "GNU"), Version(d, "GNU"),
                    value(c, "__GNUC_PATCHLEVEL__"), value(d, "__GNUC_PATCHLEVEL__"))
  <2>1. Is(c, "GNU") =>
            /\ Version(c, "GNU") = 100 * value(p, "__GNUC__") + value(p, "__GNUC_MINOR__")
            /\ Version(d, "GNU") = 100 * value(q, "__GNUC__") + value(q, "__GNUC_MINOR__")
    BY <1>3 DEF Tells
  <2>2. Precedes(100 * value(p, "__GNUC__") + value(p, "__GNUC_MINOR__"),
                 100 * value(q, "__GNUC__") + value(q, "__GNUC_MINOR__"),
                 value(p, "__GNUC_PATCHLEVEL__"), value(q, "__GNUC_PATCHLEVEL__"))
    BY DEF Later
  <2>3. QED
    BY <1>1, <1>2, <2>1, <2>2
<1>5. Is(c, "MSVC") =>
        /\ Version(c, "MSVC") \in Nat /\ Version(d, "MSVC") \in Nat
        /\ Version(c, "MSVC") <= Version(d, "MSVC")
  <2>1. Is(c, "MSVC") => Version(c, "MSVC") = value(p, "_MSC_VER") /\ Version(d, "MSVC") = value(q, "_MSC_VER")
    BY <1>3 DEF Tells
  <2>2. value(p, "_MSC_VER") <= value(q, "_MSC_VER")
    BY DEF Later, Grown
  <2>3. QED
    BY <1>1, <1>2, <2>1, <2>2
<1>6. Is(c, "INTEL") =>
        /\ Version(c, "INTEL") \in Nat /\ Version(d, "INTEL") \in Nat
        /\ Precedes(Version(c, "INTEL"), Version(d, "INTEL"),
                    value(c, "__INTEL_COMPILER_UPDATE"), value(d, "__INTEL_COMPILER_UPDATE"))
  <2>1. Is(c, "INTEL") => /\ Version(c, "INTEL") = value(p, "__INTEL_COMPILER")
                          /\ Version(d, "INTEL") = value(q, "__INTEL_COMPILER")
    BY <1>3 DEF Tells
  <2>2. Precedes(value(p, "__INTEL_COMPILER"), value(q, "__INTEL_COMPILER"),
                 value(p, "__INTEL_COMPILER_UPDATE"), value(q, "__INTEL_COMPILER_UPDATE"))
    BY DEF Later
  <2>3. QED
    BY <1>1, <1>2, <2>1, <2>2
<1>7. ASSUME Is(c, "CLANG")
      PROVE  /\ Version(c, "CLANG") \in Nat /\ Version(d, "CLANG") \in Nat
             /\ Version(c, "CLANG") <= Version(d, "CLANG")
  <2> DEFINE apple == "__apple_build_version__"
  <2>1. /\ Version(c, "CLANG") = ClangVersion(p)["PCTK_CC_CLANG"]
        /\ Version(d, "CLANG") = ClangVersion(q)["PCTK_CC_CLANG"]
        /\ "PCTK_CC_CLANG" \in DOMAIN ClangVersion(p) /\ "PCTK_CC_CLANG" \in DOMAIN ClangVersion(q)
    BY <1>3, <1>7 DEF Tells
  <2>2. apple \in DOMAIN p <=> apple \in DOMAIN q
    BY DEF Later, Vendors
  <2>3. CASE apple \in DOMAIN p
    <3>1. /\ Version(c, "CLANG") \in Builds(p) /\ Version(d, "CLANG") \in Builds(q)
          /\ \A w \in Builds(q) : Version(d, "CLANG") >= w
      BY <2>1, <2>2, <2>3, ClangNumber
    <3>2. p[apple] <= q[apple] /\ p[apple] \in Nat /\ q[apple] \in Nat
      <4>1. value(p, apple) <= value(q, apple)
        BY DEF Later, Grown
      <4>2. QED
        BY <1>1, <1>2, <2>2, <2>3, <4>1 DEF value
    <3>3. Builds(p) \subseteq Nat /\ Builds(q) \subseteq Nat
      BY DEF Builds, AppleClang
    <3>4. Builds(p) \subseteq Builds(q)
      <4>1. \A r \in AppleClang : r[1] \in Nat
        BY DEF AppleClang
      <4>2. QED
        BY <3>2, <4>1 DEF Builds
    <3>5. QED
      BY <3>1, <3>3, <3>4
  <2>4. CASE apple \notin DOMAIN p
    <3>1. /\ Version(c, "CLANG") = 100 * value(p, "__clang_major__") + value(p, "__clang_minor__")
          /\ Version(d, "CLANG") = 100 * value(q, "__clang_major__") + value(q, "__clang_minor__")
      BY <2>1, <2>2, <2>4, ClangNumber
    <3>2. 100 * value(p, "__clang_major__") + value(p, "__clang_minor__")
             <= 100 * value(q, "__clang_major__") + value(q, "__clang_minor__")
      BY DEF Later
    <3>3. QED
      BY <1>1, <1>2, <3>1, <3>2
  <2>5. QED
    BY <2>3, <2>4
<1>8. QED
    BY <1>4, <1>5, <1>6, <1>7

(* What a table, or a list of conditions, gives of the features.           *)
LEMMA SinceGrows ==
    ASSUME NEW table, \A row \in table : row[1] \in Nat,
           NEW v \in Nat, NEW w \in Nat, v <= w
    PROVE  Since(table, v) \subseteq Since(table, w)
    BY DEF Since

LEMMA GivenHas ==
    ASSUME NEW table, NEW x
    PROVE  x \in Given(table) <=> \E row \in table : row[1] /\ x \in row[2]
    BY DEF Given

LEMMA GivenRow ==
    ASSUME NEW a, NEW A, NEW rest, NEW x
    PROVE  x \in Given({<<a, A>>} \cup rest) <=> (a /\ x \in A) \/ x \in Given(rest)
<1>1. \A table : x \in Given(table) <=> \E row \in table : row[1] /\ x \in row[2]
    BY GivenHas
<1>2. <<a, A>>[1] = a /\ <<a, A>>[2] = A
    OBVIOUS
<1>3. QED
    BY <1>1, <1>2

LEMMA GivenOne == ASSUME NEW a, NEW A, NEW x PROVE x \in Given({<<a, A>>}) <=> a /\ x \in A
<1>1. {<<a, A>>} \cup {} = {<<a, A>>} /\ x \notin Given({})
    BY DEF Given
<1>2. x \in Given({<<a, A>>} \cup {}) <=> (a /\ x \in A) \/ x \in Given({})
    BY GivenRow
<1>3. QED
    BY <1>1, <1>2

LEMMA GivenBoth ==
    ASSUME NEW S, NEW T
    PROVE  Given(S \cup T) = Given(S) \cup Given(T)
    BY DEF Given

LEMMA GivenTwo ==
    ASSUME NEW a, NEW b, NEW A, NEW B, NEW x
    PROVE  x \in Given({<<a, A>>, <<b, B>>}) <=> (a /\ x \in A) \/ (b /\ x \in B)
<1>1. {<<a, A>>, <<b, B>>} = {<<a, A>>} \cup {<<b, B>>}
    OBVIOUS
<1>2. Given({<<a, A>>} \cup {<<b, B>>}) = Given({<<a, A>>}) \cup Given({<<b, B>>})
    BY GivenBoth
<1>3. x \in Given({<<a, A>>}) <=> a /\ x \in A
    BY GivenOne
<1>4. x \in Given({<<b, B>>}) <=> b /\ x \in B
    BY GivenOne
<1>5. QED
    BY <1>1, <1>2, <1>3, <1>4

(* The features of each compiler (pctkCompiler.h:145-784).                 *)
LEMMA GnuGrows ==
    ASSUME NEW c, NEW d, Grows(c, d), Version(c, "GNU") \in Nat, Version(d, "GNU") \in Nat,
           Precedes(Version(c, "GNU"), Version(d, "GNU"),
                    value(c, "__GNUC_PATCHLEVEL__"), value(d, "__GNUC_PATCHLEVEL__"))
    PROVE  GnuFeatures(c) \subseteq GnuFeatures(d)
<1> DEFINE cxx14(u) == value(u, "__cplusplus") > 201103 /\ Version(u, "GNU") >= 409
           static(u) == value(u, "__STDC_VERSION__") > 199901 /\ Version(u, "GNU") >= 407
           threads(u) == value(u, "__STDC_VERSION__") > 199901 /\ Version(u, "GNU") >= 409 /\ HasThreads(u)
           patched(u) == Version(u, "GNU") >= 408 /\ value(u, "__GNUC_PATCHLEVEL__") >= 1
           C(u) == {<<NotStrict(u), {"VARIADIC_MACROS"}>>,
                    <<cxx14(u), {"LAMBDA_CAPTURES", "RETURN_TYPE_DEDUCTION"}>>,
                    <<static(u), {"STATIC_ASSERT"}>>, <<threads(u), {"THREAD_LOCAL"}>>}
           Patch(u) == {<<patched(u), {"REF_QUALIFIERS"}>>}
           always(u) == {"RESTRICTED_VLA", "THREADSAFE_STATICS"}
                        \cup Since({<<403, {"BINARY_LITERALS"}>>}, Version(u, "GNU"))
<1>1. \A u : GnuFeatures(u) =
          always(u) \cup Given(C(u)) \cup
            IF ~Cxx11(u) THEN {} ELSE Since(GnuCxx11, Version(u, "GNU")) \cup Given(Patch(u))
    BY DEF GnuFeatures
<1>2. /\ \A x \in {"__cplusplus", "__STDC_VERSION__", "__GNUC_PATCHLEVEL__"} :
            value(c, x) \in Nat /\ value(d, x) \in Nat
      /\ \A x \in {"__cplusplus", "__STDC_VERSION__"} : value(c, x) <= value(d, x)
      /\ NotStrict(c) => NotStrict(d)
      /\ Cxx11(c) => Cxx11(d)
      /\ HasThreads(c) => HasThreads(d)
    BY DEF Grows, Numbers, Grown, Abilities, HasThreads
<1>3. /\ Version(c, "GNU") <= Version(d, "GNU")
      /\ \/ Version(c, "GNU") < Version(d, "GNU")
         \/ value(c, "__GNUC_PATCHLEVEL__") <= value(d, "__GNUC_PATCHLEVEL__")
    BY DEF Precedes
<1>4. /\ Since({<<403, {"BINARY_LITERALS"}>>}, Version(c, "GNU"))
            \subseteq Since({<<403, {"BINARY_LITERALS"}>>}, Version(d, "GNU"))
      /\ Since(GnuCxx11, Version(c, "GNU")) \subseteq Since(GnuCxx11, Version(d, "GNU"))
  <2>1. \A row \in GnuCxx11 \cup {<<403, {"BINARY_LITERALS"}>>} : row[1] \in Nat
    BY DEF GnuCxx11
  <2>2. QED
    BY <1>3, <2>1, SinceGrows
<1>5. /\ (cxx14(c) => cxx14(d)) /\ (static(c) => static(d)) /\ (threads(c) => threads(d))
      /\ patched(c) => patched(d) \/ Version(d, "GNU") >= 409
    BY <1>2, <1>3
<1> HIDE DEF cxx14, static, threads, patched
<1>6. ASSUME NEW u, NEW x
      PROVE  x \in Given(C(u)) <=>
                \/ NotStrict(u) /\ x \in {"VARIADIC_MACROS"}
                \/ cxx14(u) /\ x \in {"LAMBDA_CAPTURES", "RETURN_TYPE_DEDUCTION"}
                \/ static(u) /\ x \in {"STATIC_ASSERT"}
                \/ threads(u) /\ x \in {"THREAD_LOCAL"}
  <2> DEFINE some == {<<NotStrict(u), {"VARIADIC_MACROS"}>>,
                      <<cxx14(u), {"LAMBDA_CAPTURES", "RETURN_TYPE_DEDUCTION"}>>}
             others == {<<static(u), {"STATIC_ASSERT"}>>, <<threads(u), {"THREAD_LOCAL"}>>}
  <2>1. C(u) = some \cup others
    OBVIOUS
  <2>2. x \in Given(some) <=>
            \/ NotStrict(u) /\ x \in {"VARIADIC_MACROS"}
            \/ cxx14(u) /\ x \in {"LAMBDA_CAPTURES", "RETURN_TYPE_DEDUCTION"}
    BY GivenTwo
  <2>3. x \in Given(others) <=>
            \/ static(u) /\ x \in {"STATIC_ASSERT"}
            \/ threads(u) /\ x \in {"THREAD_LOCAL"}
    BY GivenTwo
  <2> HIDE DEF C, some, others
  <2>4. Given(some \cup others) = Given(some) \cup Given(others)
    BY GivenBoth
  <2>5. QED
    BY <2>1, <2>2, <2>3, <2>4
<1>7. \A u, x : x \in Given(Patch(u)) <=> patched(u) /\ x \in {"REF_QUALIFIERS"}
    BY GivenOne
<1> HIDE DEF always, C, Patch
<1>8. Given(C(c)) \subseteq Given(C(d))
    BY <1>2, <1>5, <1>6
<1>9. Given(Patch(c)) \subseteq Given(Patch(d)) \cup Since(GnuCxx11, Version(d, "GNU"))
  <2>1. <<409, {"REF_QUALIFIERS"}>> \in GnuCxx11
    BY DEF GnuCxx11
  <2>2. Version(d, "GNU") >= 409 => "REF_QUALIFIERS" \in Since(GnuCxx11, Version(d, "GNU"))
    BY <2>1 DEF Since
  <2>3. QED
    BY <1>5, <1>7, <2>2
<1>10. always(c) \subseteq always(d)
    BY <1>4 DEF always
<1>11. QED
    BY <1>1, <1>2, <1>4, <1>8, <1>9, <1>10

LEMMA MsvcGrows ==
    ASSUME NEW c, NEW d, Grows(c, d), Version(c, "MSVC") \in Nat, Version(d, "MSVC") \in Nat,
           Version(c, "MSVC") <= Version(d, "MSVC")
    PROVE  MsvcFeatures(c) \ {"NO_TEMPLATE_FRIENDS"} \subseteq MsvcFeatures(d)
<1> DEFINE patch == {<<190023419, {"ATTRIBUTES", "THREADSAFE_STATICS", "UNIFORM_INIT"}>>}
<1>1. /\ value(c, "_MSC_FULL_VER") \in Nat /\ value(d, "_MSC_FULL_VER") \in Nat
      /\ value(c, "_MSC_FULL_VER") <= value(d, "_MSC_FULL_VER")
    BY DEF Grows, Grown
<1>2. \A row \in MsvcBrought \cup patch : row[1] \in Nat
    BY DEF MsvcBrought
<1>3. /\ Since(MsvcBrought, Version(c, "MSVC")) \subseteq Since(MsvcBrought, Version(d, "MSVC"))
      /\ Since(patch, value(c, "_MSC_FULL_VER")) \subseteq Since(patch, value(d, "_MSC_FULL_VER"))
    BY <1>1, <1>2, SinceGrows
<1>4. QED
    BY <1>3 DEF MsvcFeatures

LEMMA ClangGrows ==
    ASSUME NEW c, NEW d, Grows(c, d), Version(c, "CLANG") \in Nat, Version(d, "CLANG") \in Nat,
           Version(c, "CLANG") <= Version(d, "CLANG")
    PROVE  ClangFeatures(c) \subseteq ClangFeatures(d)
<1> DEFINE Knows(u, name) == defined(u, {"cxx_" \o name})
           NamesTold(u, names) == UNION {pair[2] : pair \in {p \in names : Knows(u, p[1])}}
           atomic(u) == Knows(u, "atomic") /\ defined(u, {"<atomic>"})
           constexpr(u) == Knows(u, "constexpr") /\ Version(u, "CLANG") > 302
           thread(u) == Knows(u, "thread_local") /\ ~defined(u, {"__FreeBSD__"})
           since209(u) == Version(u, "CLANG") >= 209
           returned(u) == Knows(u, "decltype_auto") /\ Knows(u, "return_type_deduction")
           cthread(u) == defined(u, {"c_thread_local"}) /\ HasThreads(u) /\ ~defined(u, {"__FreeBSD__"})
           variadic(u) == since209(u) /\ NotStrict(u)
           cxx14(u) == value(u, "__cplusplus") > 201103
           binary(u) == Knows(u, "binary_literals")
           static(u) == defined(u, {"c_static_assert"})
           inC(u) == defined(u, {"__STDC_VERSION__"})
           In11(u) == {<<atomic(u), {"ATOMICS"}>>, <<constexpr(u), {"CONSTEXPR"}>>,
                       <<thread(u), {"THREAD_LOCAL"}>>, <<since209(u), {"EXTERN_TEMPLATES"}>>}
           In14(u) == {<<returned(u), {"RETURN_TYPE_DEDUCTION"}>>}
           InC(u) == {<<static(u), {"STATIC_ASSERT"}>>, <<cthread(u), {"THREAD_LOCAL"}>>}
           Cxx11Told(u) == NamesTold(u, Cxx11Names) \cup Given(In11(u))
           Cxx14Told(u) == NamesTold(u, Cxx14Names) \cup Given(In14(u))
           CTold(u) == Given(InC(u))
           All(u) == {<<binary(u), {"BINARY_LITERALS"}>>, <<variadic(u), {"VARIADIC_MACROS"}>>,
                      <<Cxx11(u), Cxx11Told(u)>>, <<cxx14(u), Cxx14Told(u)>>, <<inC(u), CTold(u)>>}
<1>1. \A u : ClangFeatures(u) = {"RESTRICTED_VLA", "THREADSAFE_STATICS"} \cup Given(All(u))
    BY DEF ClangFeatures
<1>2. /\ \A x \in {"<atomic>", "c_static_assert", "c_thread_local", "__STDC_VERSION__"} :
            defined(c, {x}) => defined(d, {x})
      /\ defined(d, {"__FreeBSD__"}) => defined(c, {"__FreeBSD__"})
      /\ value(c, "__cplusplus") \in Nat /\ value(d, "__cplusplus") \in Nat
      /\ value(c, "__cplusplus") <= value(d, "__cplusplus")
      /\ NotStrict(c) => NotStrict(d)
      /\ Cxx11(c) => Cxx11(d)
      /\ HasThreads(c) => HasThreads(d)
    BY DEF Grows, Grown, Abilities, Obstacles, HasThreads
<1>3. /\ \A p \in Cxx11Names \cup Cxx14Names : Knows(c, p[1]) => Knows(d, p[1])
      /\ \A n \in {"atomic", "constexpr", "thread_local", "decltype_auto", "return_type_deduction",
                   "binary_literals"} : Knows(c, n) => Knows(d, n)
    BY DEF Grows, Abilities
<1> HIDE DEF Knows
<1>4. /\ (atomic(c) => atomic(d)) /\ (constexpr(c) => constexpr(d)) /\ (thread(c) => thread(d))
      /\ (since209(c) => since209(d)) /\ (returned(c) => returned(d)) /\ (cthread(c) => cthread(d))
      /\ (variadic(c) => variadic(d)) /\ (cxx14(c) => cxx14(d)) /\ (binary(c) => binary(d))
      /\ (static(c) => static(d)) /\ (inC(c) => inC(d))
    BY <1>2, <1>3
<1> HIDE DEF atomic, constexpr, thread, since209, returned, cthread, variadic, cxx14, binary, static, inC
<1>5. NamesTold(c, Cxx11Names) \subseteq NamesTold(d, Cxx11Names) /\ NamesTold(c, Cxx14Names) \subseteq NamesTold(d, Cxx14Names)
    BY <1>3
<1>6. ASSUME NEW u, NEW x
      PROVE  x \in Given(In11(u)) <=>
                \/ atomic(u) /\ x \in {"ATOMICS"}
                \/ constexpr(u) /\ x \in {"CONSTEXPR"}
                \/ thread(u) /\ x \in {"THREAD_LOCAL"}
                \/ since209(u) /\ x \in {"EXTERN_TEMPLATES"}
  <2> DEFINE some == {<<atomic(u), {"ATOMICS"}>>, <<constexpr(u), {"CONSTEXPR"}>>}
             others == {<<thread(u), {"THREAD_LOCAL"}>>, <<since209(u), {"EXTERN_TEMPLATES"}>>}
  <2>1. In11(u) = some \cup others
    OBVIOUS
  <2>2. x \in Given(some) <=>
            \/ atomic(u) /\ x \in {"ATOMICS"}
            \/ constexpr(u) /\ x \in {"CONSTEXPR"}
    BY GivenTwo
  <2>3. x \in Given(others) <=>
            \/ thread(u) /\ x \in {"THREAD_LOCAL"}
            \/ since209(u) /\ x \in {"EXTERN_TEMPLATES"}
    BY GivenTwo
  <2> HIDE DEF In11, some, others
  <2>4. Given(some \cup others) = Given(some) \cup Given(others)
    BY GivenBoth
  <2>5. QED
    BY <2>1, <2>2, <2>3, <2>4
<1>7. \A u, x : x \in Given(In14(u)) <=> returned(u) /\ x \in {"RETURN_TYPE_DEDUCTION"}
    BY GivenOne
<1>8. ASSUME NEW u, NEW x
      PROVE  x \in Given(InC(u)) <=>
                \/ static(u) /\ x \in {"STATIC_ASSERT"}
                \/ cthread(u) /\ x \in {"THREAD_LOCAL"}
    BY GivenTwo
<1> HIDE DEF NamesTold, In11, In14, InC
<1>9. Cxx11Told(c) \subseteq Cxx11Told(d)
    BY <1>4, <1>5, <1>6
<1>10. Cxx14Told(c) \subseteq Cxx14Told(d)
    BY <1>4, <1>5, <1>7
<1>11. CTold(c) \subseteq CTold(d)
    BY <1>4, <1>8
<1> HIDE DEF Cxx11Told, Cxx14Told, CTold
<1>12. ASSUME NEW u, NEW x
       PROVE  x \in Given(All(u)) <=>
                \/ binary(u) /\ x \in {"BINARY_LITERALS"}
                \/ variadic(u) /\ x \in {"VARIADIC_MACROS"}
                \/ Cxx11(u) /\ x \in Cxx11Told(u)
                \/ cxx14(u) /\ x \in Cxx14Told(u)
                \/ inC(u) /\ x \in CTold(u)
  <2> DEFINE some == {<<binary(u), {"BINARY_LITERALS"}>>, <<variadic(u), {"VARIADIC_MACROS"}>>}
             more == {<<Cxx11(u), Cxx11Told(u)>>, <<cxx14(u), Cxx14Told(u)>>}
             last == {<<inC(u), CTold(u)>>}
  <2>1. All(u) = some \cup (more \cup last)
    OBVIOUS
  <2>2. x \in Given(some) <=>
            \/ binary(u) /\ x \in {"BINARY_LITERALS"}
            \/ variadic(u) /\ x \in {"VARIADIC_MACROS"}
    BY GivenTwo
  <2>3. x \in Given(more) <=>
            \/ Cxx11(u) /\ x \in Cxx11Told(u)
            \/ cxx14(u) /\ x \in Cxx14Told(u)
    BY GivenTwo
  <2>4. x \in Given(last) <=> inC(u) /\ x \in CTold(u)
    BY GivenOne
  <2> HIDE DEF All, some, more, last
  <2>5. Given(more \cup last) = Given(more) \cup Given(last)
    BY GivenBoth
  <2>6. Given(some \cup (more \cup last)) = Given(some) \cup Given(more \cup last)
    BY GivenBoth
  <2>7. QED
    BY <2>1, <2>2, <2>3, <2>4, <2>5, <2>6
<1> HIDE DEF All
<1>13. QED
    BY <1>1, <1>2, <1>4, <1>9, <1>10, <1>11, <1>12

LEMMA IntelGrows ==
    ASSUME NEW c, NEW d, Grows(c, d), Version(c, "INTEL") \in Nat, Version(d, "INTEL") \in Nat,
           Precedes(Version(c, "INTEL"), Version(d, "INTEL"),
                    value(c, "__INTEL_COMPILER_UPDATE"), value(d, "__INTEL_COMPILER_UPDATE"))
    PROVE  IntelFeatures(c) \ {"NO_TEMPLATE_FRIENDS"} \subseteq IntelFeatures(d)
<1> DEFINE In11(u) == value(u, "__cplusplus") >= 201103 \/ defined(u, {"__INTEL_CXX11_MODE__"})
           InC(u) == ~In11(u) /\ value(u, "__STDC_VERSION__") > 199901
           update(u) == 100 * Version(u, "INTEL") + value(u, "__INTEL_COMPILER_UPDATE")
           old(u) == Version(u, "INTEL") < 1200
           binary(u) == Version(u, "INTEL") >= 1310 /\ ~defined(u, {"_WIN32"})
           thread(u) == InC(u) /\ HasThreads(u)
           unicode(u) == Version(u, "INTEL") >= 1210 /\ ~defined(u, {"_CHAR16T"})
           constexpr(u) == Version(u, "INTEL") >= 1500 /\ update(u) >= 150001
           Plainly(u) == {<<old(u), {"NO_TEMPLATE_FRIENDS"}>>, <<binary(u), {"BINARY_LITERALS"}>>,
                          <<InC(u), {"STATIC_ASSERT"}>>, <<thread(u), {"THREAD_LOCAL"}>>}
           Updated(u) == {<<unicode(u), {"UNICODE_STRINGS"}>>, <<constexpr(u), {"CONSTEXPR"}>>}
           always == {"RESTRICTED_VLA", "VARIADIC_MACROS", "THREADSAFE_STATICS"}
<1>1. \A u : IntelFeatures(u) =
          always \cup Given(Plainly(u)) \cup
            IF ~In11(u) THEN {} ELSE Since(IntelCxx11, Version(u, "INTEL")) \cup Given(Updated(u))
    BY DEF IntelFeatures
<1>2. /\ \A x \in {"__cplusplus", "__STDC_VERSION__", "__INTEL_COMPILER_UPDATE"} :
            value(c, x) \in Nat /\ value(d, x) \in Nat
      /\ \A x \in {"__cplusplus", "__STDC_VERSION__"} : value(c, x) <= value(d, x)
      /\ \A x \in {"_WIN32", "_CHAR16T"} : defined(d, {x}) => defined(c, {x})
      /\ HasThreads(c) => HasThreads(d)
    BY DEF Grows, Numbers, Grown, Abilities, Obstacles, HasThreads
<1>3. /\ Version(c, "INTEL") <= Version(d, "INTEL")
      /\ \/ Version(c, "INTEL") < Version(d, "INTEL")
         \/ /\ Version(c, "INTEL") = Version(d, "INTEL")
            /\ value(c, "__INTEL_COMPILER_UPDATE") <= value(d, "__INTEL_COMPILER_UPDATE")
    BY DEF Precedes
<1>4. In11(c) => In11(d)
    BY <1>2 DEF Grows, LaterModes
<1>5. InC(c) => InC(d)
  <2>1. value(c, "__STDC_VERSION__") > 199901 => defined(d, {"__STDC_VERSION__"})
    BY <1>2 DEF value, defined
  <2>2. defined(d, {"__STDC_VERSION__"}) => ~In11(d)
    BY <1>2 DEF Grows, LaterModes
  <2>3. QED
    BY <1>2, <2>1, <2>2
<1>6. constexpr(c) => constexpr(d)
  <2> DEFINE v == Version(c, "INTEL")
             w == Version(d, "INTEL")
  <2>1. CASE v < w
    BY <1>2, <2>1
  <2>2. CASE v = w
    BY <1>2, <1>3, <2>2
  <2>3. QED
    BY <1>3, <2>1, <2>2
<1>7. /\ (binary(c) => binary(d)) /\ (thread(c) => thread(d)) /\ (unicode(c) => unicode(d))
  <2> HIDE DEF InC
  <2>1. QED
    BY <1>2, <1>3, <1>5
<1> HIDE DEF In11, InC, update, old, binary, thread, unicode, constexpr
<1>8. ASSUME NEW u, NEW x
      PROVE  x \in Given(Plainly(u)) <=>
                \/ old(u) /\ x \in {"NO_TEMPLATE_FRIENDS"}
                \/ binary(u) /\ x \in {"BINARY_LITERALS"}
                \/ InC(u) /\ x \in {"STATIC_ASSERT"}
                \/ thread(u) /\ x \in {"THREAD_LOCAL"}
  <2> DEFINE some == {<<old(u), {"NO_TEMPLATE_FRIENDS"}>>, <<binary(u), {"BINARY_LITERALS"}>>}
             others == {<<InC(u), {"STATIC_ASSERT"}>>, <<thread(u), {"THREAD_LOCAL"}>>}
  <2>1. Plainly(u) = some \cup others
    OBVIOUS
  <2>2. x \in Given(some) <=>
            \/ old(u) /\ x \in {"NO_TEMPLATE_FRIENDS"}
            \/ binary(u) /\ x \in {"BINARY_LITERALS"}
    BY GivenTwo
  <2>3. x \in Given(others) <=>
            \/ InC(u) /\ x \in {"STATIC_ASSERT"}
            \/ thread(u) /\ x \in {"THREAD_LOCAL"}
    BY GivenTwo
  <2> HIDE DEF Plainly, some, others
  <2>4. Given(some \cup others) = Given(some) \cup Given(others)
    BY GivenBoth
  <2>5. QED
    BY <2>1, <2>2, <2>3, <2>4
<1>9. ASSUME NEW u, NEW x
      PROVE  x \in Given(Updated(u)) <=>
                \/ unicode(u) /\ x \in {"UNICODE_STRINGS"}
                \/ constexpr(u) /\ x \in {"CONSTEXPR"}
    BY GivenTwo
<1> HIDE DEF Plainly, Updated, always
<1>10. /\ Given(Plainly(c)) \ {"NO_TEMPLATE_FRIENDS"} \subseteq Given(Plainly(d))
       /\ Given(Updated(c)) \subseteq Given(Updated(d))
    BY <1>5, <1>6, <1>7, <1>8, <1>9
<1>11. Since(IntelCxx11, Version(c, "INTEL")) \subseteq Since(IntelCxx11, Version(d, "INTEL"))
  <2>1. \A row \in IntelCxx11 : row[1] \in Nat
    BY DEF IntelCxx11
  <2>2. QED
    BY <1>3, <2>1, SinceGrows
<1>12. QED
    BY <1>1, <1>4, <1>10, <1>11

(* A later compiler loses no feature; that templates cannot be friends is   *)
(* the lack of one.                                                        *)
LEMMA FeaturesGrow ==
    ASSUME NEW c, NEW d, NEW p, NEW q, Tells(c, p), Tells(d, q), Later(p, q)
    PROVE  Features(c) \ {"NO_TEMPLATE_FRIENDS"} \subseteq Features(d)
<1> DEFINE gnu(u) == Is(u, "GNU") /\ ~Is(u, "INTEL") /\ ~Is(u, "CLANG")
           clang(u) == Is(u, "CLANG") /\ ~Is(u, "INTEL") /\ ~Is(u, "MSVC")
           intel(u) == Is(u, "INTEL") /\ ~Is(u, "MSVC")
           table(u) == {<<gnu(u), GnuFeatures(u)>>, <<Is(u, "MSVC"), MsvcFeatures(u)>>,
                        <<clang(u), ClangFeatures(u)>>, <<intel(u), IntelFeatures(u)>>}
<1>1. \A u : Features(u) = Given(table(u))
    BY DEF Features
<1>2. \A n \in {"GNU", "MSVC", "CLANG", "INTEL"} : Is(c, n) <=> Is(d, n)
    BY ToldGrows DEF Grows
<1>3. (gnu(c) <=> gnu(d)) /\ (clang(c) <=> clang(d)) /\ (intel(c) <=> intel(d))
    BY <1>2
<1>4. Is(c, "GNU") => GnuFeatures(c) \subseteq GnuFeatures(d)
    BY ToldGrows, VersionsGrow, GnuGrows
<1>5. Is(c, "MSVC") => MsvcFeatures(c) \ {"NO_TEMPLATE_FRIENDS"} \subseteq MsvcFeatures(d)
    BY ToldGrows, VersionsGrow, MsvcGrows
<1>6. Is(c, "CLANG") => ClangFeatures(c) \subseteq ClangFeatures(d)
    BY ToldGrows, VersionsGrow, ClangGrows
<1>7. Is(c, "INTEL") => IntelFeatures(c) \ {"NO_TEMPLATE_FRIENDS"} \subseteq IntelFeatures(d)
    BY ToldGrows, VersionsGrow, IntelGrows
<1>8. (gnu(c) => Is(c, "GNU")) /\ (clang(c) => Is(c, "CLANG")) /\ (intel(c) => Is(c, "INTEL"))
    OBVIOUS
<1> HIDE DEF gnu, clang, intel
<1>9. ASSUME NEW u, NEW x
      PROVE  x \in Given(table(u)) <=>
                \/ gnu(u) /\ x \in GnuFeatures(u)
                \/ Is(u, "MSVC") /\ x \in MsvcFeatures(u)
                \/ clang(u) /\ x \in ClangFeatures(u)
                \/ intel(u) /\ x \in IntelFeatures(u)
  <2> DEFINE some == {<<gnu(u), GnuFeatures(u)>>, <<Is(u, "MSVC"), MsvcFeatures(u)>>}
             others == {<<clang(u), ClangFeatures(u)>>, <<intel(u), IntelFeatures(u)>>}
  <2>1. table(u) = some \cup others
    OBVIOUS
  <2>2. x \in Given(some) <=>
            \/ gnu(u) /\ x \in GnuFeatures(u)
            \/ Is(u, "MSVC") /\ x \in MsvcFeatures(u)
    BY GivenTwo
  <2>3. x \in Given(others) <=>
            \/ clang(u) /\ x \in ClangFeatures(u)
            \/ intel(u) /\ x \in IntelFeatures(u)
    BY GivenTwo
  <2> HIDE DEF table, some, others
  <2>4. Given(some \cup others) = Given(some) \cup Given(others)
    BY GivenBoth
  <2>5. QED
    BY <2>1, <2>2, <2>3, <2>4
<1> HIDE DEF table
<1>10. QED
    BY <1>1, <1>2, <1>3, <1>4, <1>5, <1>6, <1>7, <1>8, <1>9

(* A macro of a feature is 1 if and only if the compiler has the feature.  *)
LEMMA FeatureTold ==
    ASSUME NEW a, NEW features \in SUBSET FeatureNames, FeatureMacros \cap DOMAIN a = {},
           NEW f \in Defaulted
    PROVE  value(FeatureTests(a, features), Feature(f)) = 1 <=> f \in features
<1> DEFINE brought == {Feature(g) : g \in features}
           both == DefaultDelete(features)
           lacking == [x \in {Feature(g) : g \in Defaulted} |-> 0]
           x == Feature(f)
           b == Define(a, brought)
           c == DefineAs(b, both)
           d == DefineMissing(c, lacking)
<1>1. FeatureTests(a, features) = d
    BY DEF FeatureTests
<1>2. f \in FeatureNames /\ x \in FeatureMacros
    BY DEF FeatureNames, FeatureMacros
<1>3. x \in brought <=> f \in features
    BY <1>2, FeaturesDiffer
<1>4. x \notin DOMAIN both
  <2>1. /\ "DEFAULT_DELETE_MEMBERS" \in FeatureNames /\ "_DEFAULT_DELETE_MEMBERS" \in FeatureNames
    BY DEF FeatureNames
  <2>2. "DEFAULT_DELETE_MEMBERS" \notin Defaulted /\ "_DEFAULT_DELETE_MEMBERS" \notin Defaulted
    BY DEF Defaulted
  <2>3. x # Feature("DEFAULT_DELETE_MEMBERS") /\ x # Feature("_DEFAULT_DELETE_MEMBERS")
    BY <1>2, <2>1, <2>2, FeaturesDiffer
  <2>4. \A y \in DOMAIN both : y = Feature("DEFAULT_DELETE_MEMBERS") \/ y = Feature("_DEFAULT_DELETE_MEMBERS")
    BY DEF DefaultDelete
  <2>5. QED
    BY <2>3, <2>4
<1>5. x \in DOMAIN lacking /\ lacking[x] = 0
    OBVIOUS
<1> HIDE DEF both, lacking, brought, x
<1>6. (x \in DOMAIN b <=> f \in features) /\ (x \in DOMAIN b => b[x] = 1)
    BY <1>2, <1>3 DEF Define, DefineAs
<1> HIDE DEF b
<1>7. (x \in DOMAIN c <=> x \in DOMAIN b) /\ (x \in DOMAIN b => c[x] = b[x])
    BY <1>4 DEF DefineAs
<1> HIDE DEF c
<1>8. x \in DOMAIN d /\ d[x] = IF x \in DOMAIN c THEN c[x] ELSE 0
    BY <1>5 DEF DefineMissing, DefineAs
<1> HIDE DEF d
<1>9. value(d, x) = 1 <=> f \in features
    BY <1>6, <1>7, <1>8 DEF value
<1>10. QED
    BY <1>1, <1>9 DEF x

LEMMA UpgradeGrows ==
    ASSUME NEW t \in Targets, NEW u \in Targets, <<t, u>> \in Upgrades,
           ~Fails(Chain(t, 2)), ~Fails(Chain(u, 2))
    PROVE  FeatureSet(Chain(t, 2)) \subseteq FeatureSet(Chain(u, 2))
<1> DEFINE b(v) == Compilers(Chain(v, 1))
           c(v) == DefineAs(b(v), Standards(b(v)))
<1>1. /\ Tells(c(t), Predefined(t)) /\ FeatureMacros \cap DOMAIN c(t) = {}
      /\ Chain(t, 2) = FeatureTests(c(t), Features(c(t)))
    BY ChainTells
<1>2. /\ Tells(c(u), Predefined(u)) /\ FeatureMacros \cap DOMAIN c(u) = {}
      /\ Chain(u, 2) = FeatureTests(c(u), Features(c(u)))
    BY ChainTells
<1> HIDE DEF c
<1>3. Later(Predefined(t), Predefined(u))
    BY UpgradesAreLater
<1>4. Features(c(t)) \ {"NO_TEMPLATE_FRIENDS"} \subseteq Features(c(u))
    BY <1>1, <1>2, <1>3, FeaturesGrow
<1>5. Features(c(t)) \in SUBSET FeatureNames /\ Features(c(u)) \in SUBSET FeatureNames
    BY FeaturesNames
<1>6. \A f \in Defaulted : value(Chain(t, 2), Feature(f)) = 1 <=> f \in Features(c(t))
    BY <1>1, <1>5, FeatureTold
<1>7. \A f \in Defaulted : value(Chain(u, 2), Feature(f)) = 1 <=> f \in Features(c(u))
    BY <1>2, <1>5, FeatureTold
<1>8. QED
    BY <1>4, <1>6, <1>7 DEF FeatureSet

(* There are features from the second header of the chain on.              *)
LEMMA FeaturesReached ==
    ASSUME NEW t \in Targets, NEW n \in 0..9, NEW a, Reached(t, n, a)
    PROVE  IF n < 2 THEN FeatureSet(a) = {}
           ELSE FeatureSet(a) = FeatureSet(Chain(t, 2)) /\ ~Fails(Chain(t, 2))
<1>1. \A f \in Defaulted : Feature(f) \in FeatureMacros
    BY DEF FeatureMacros, FeatureNames
<1>2. \A x \in FeatureMacros : Same(Chain(t, n), a, x)
    BY FeaturesSeen DEF Reached, Alike, AgreeBut, Same
<1>3. CASE n < 2
  <2>1. FeatureMacros \cap DOMAIN Chain(t, n) = {}
    <3>1. FeatureMacros \cap DOMAIN Chain(t, 1) = {}
      BY FeaturesKept
    <3>2. FeatureMacros \cap DOMAIN Chain(t, 0) = {}
      BY ChainStep, TargetsBare
    <3>3. n = 0 \/ n = 1
      BY <1>3
    <3>4. QED
      BY <3>1, <3>2, <3>3
  <2>2. \A f \in Defaulted : value(a, Feature(f)) = 0
    BY <1>1, <1>2, <2>1 DEF Same, value
  <2>3. QED
    BY <1>3, <2>2 DEF FeatureSet
<1>4. CASE n >= 2
  <2>1. \A x \in FeatureMacros : Same(Chain(t, 2), a, x)
    BY <1>2, <1>4, FeaturesKept DEF Same
  <2>2. \A f \in Defaulted : value(a, Feature(f)) = value(Chain(t, 2), Feature(f))
    BY <1>1, <2>1 DEF Same, value
  <2>3. FeatureSet(a) = FeatureSet(Chain(t, 2))
    BY <2>2 DEF FeatureSet
  <2>4. ~Fails(Chain(t, n))
    BY AlikeFails DEF Reached
  <2>5. ~Fails(Chain(t, 2))
    BY <1>4, <2>4, ChainFails
  <2>6. QED
    BY <1>4, <2>3, <2>5
<1>5. QED
    BY <1>3, <1>4

LEMMA LevelGrows == \A S, T : S \subseteq T => LevelOf(S) <= LevelOf(T)
    BY DEF LevelOf

LEMMA StepKeepsFeatures ==
    ASSUME IncludesInv, IncludesInv', [Next]_vars, ~Fails(m), ~Fails(m')
    PROVE  FeatureSet(m) \subseteq FeatureSet(m')
<1> DEFINE n == LevelOf(Range(includes))
           k == LevelOf(Range(includes'))
<1>1. Reached(target, n, m) /\ n \in 0..9 /\ target \in Targets
    BY LevelRange DEF IncludesInv, After, Gives, Ready
<1>2. Reached(target', k, m') /\ k \in 0..9 /\ target' \in Targets
    BY LevelRange DEF IncludesInv, After, Gives, Ready
<1>3. ASSUME NEW h \in HeaderNames, Include(h)
      PROVE  FeatureSet(m) \subseteq FeatureSet(m')
  <2>1. includes' = Append(includes, h) /\ target' = target
    BY <1>3 DEF Include
  <2>2. Range(includes) \subseteq Range(includes')
    <3>1. includes \in Seq(HeaderNames)
      BY DEF IncludesInv
    <3>2. QED
      BY <2>1, <3>1 DEF Range
  <2>3. n <= k
    BY <2>2, LevelGrows
  <2> HIDE DEF n, k
  <2>4. QED
    BY <1>1, <1>2, <2>1, <2>3, FeaturesReached
<1>4. ASSUME Upgrade
      PROVE  FeatureSet(m) \subseteq FeatureSet(m')
  <2>1. PICK t \in {u[2] : u \in {v \in Upgrades : v[1] = target}} : target' = t
    BY <1>4 DEF Upgrade
  <2>2. <<target, target'>> \in Upgrades
    BY <2>1, UpgradesAssumption
  <2>3. n = k
    BY <1>4 DEF Upgrade
  <2> HIDE DEF n, k
  <2>4. CASE n < 2
    BY <1>1, <2>4, FeaturesReached
  <2>5. CASE ~(n < 2)
    <3>1. FeatureSet(m) = FeatureSet(Chain(target, 2)) /\ ~Fails(Chain(target, 2))
      BY <1>1, <2>5, FeaturesReached
    <3>2. FeatureSet(m') = FeatureSet(Chain(target', 2)) /\ ~Fails(Chain(target', 2))
      BY <1>2, <2>3, <2>5, FeaturesReached
    <3>3. QED
      BY <1>1, <1>2, <2>2, <3>1, <3>2, UpgradeGrows
  <2>6. QED
    BY <2>4, <2>5
<1>5. CASE UNCHANGED vars
    BY <1>5 DEF vars, FeatureSet
<1>6. QED
    BY <1>3, <1>4, <1>5 DEF Next

(* Whatever is included, a later version of the compiler, or a later       *)
(* standard, keeps every feature (pctkCompiler.h:145-784).                 *)
THEOREM UpgradesAlwaysKeepFeatures == Spec => UpgradeKeepsFeatures
<1>1. IncludesInv /\ IncludesInv' /\ [Next]_vars =>
          [~Fails(m) /\ ~Fails(m') => FeatureSet(m) \subseteq FeatureSet(m')]_vars
    BY StepKeepsFeatures
<1>2. QED
    BY <1>1, IncludesAlways, PTL DEF Spec, UpgradeKeepsFeatures

-----------------------------------------------------------------------------
(* Spellings.  A name no later header of the chain defines stays.          *)
LEMMA ChainKeeps ==
    ASSUME NEW t \in Targets, NEW i \in 0..9, NEW n \in i..9, NEW x,
           \A k \in Levels : k > i => x \notin OwnNames(k) \cup {Error}
    PROVE  Same(Chain(t, i), Chain(t, n), x)
<1> DEFINE S(k) == Same(Chain(t, k - 1), Chain(t, k), x)
           A(k) == Same(Chain(t, i), Chain(t, k), x)
<1>1. \A k \in Levels : k > i => S(k)
    BY ChainTypes DEF Extends, AgreeBut
<1>2. A(i)
    BY DEF Same
<1>3. \A k \in Levels : k > i /\ A(k - 1) => A(k)
    BY <1>1 DEF Same
<1> HIDE DEF A
<1>4. \A k \in {0, 1, 2, 3, 4, 5, 6, 7, 8, 9} : k >= i => A(k)
  <2>1. i \in {0, 1, 2, 3, 4, 5, 6, 7, 8, 9}
    OBVIOUS
  <2>2. /\ i < 1 /\ A(0) => A(1)
        /\ i < 2 /\ A(1) => A(2)
        /\ i < 3 /\ A(2) => A(3)
        /\ i < 4 /\ A(3) => A(4)
        /\ i < 5 /\ A(4) => A(5)
        /\ i < 6 /\ A(5) => A(6)
        /\ i < 7 /\ A(6) => A(7)
        /\ i < 8 /\ A(7) => A(8)
        /\ i < 9 /\ A(8) => A(9)
    BY <1>3 DEF Levels
  <2>3. QED
    BY <1>2, <2>1, <2>2
<1>5. A(n)
    BY <1>4
<1>6. QED
    BY <1>5 DEF A

(* What a table in the chain says of the compiler is what the compiler     *)
(* says of itself.                                                         *)
ToldNames == SpokenNames \cup CompilerMacros \cup {"PCTK_OS_WIN32"}

LEMMA ToldApart ==
    /\ \A k \in Levels : SpokenNames \cap (OwnNames(k) \cup {Error}) = {}
    /\ \A k \in Levels \ {2} : CompilerMacros \cap (OwnNames(k) \cup {Error}) = {}
    /\ CompilerMacros \cap FeatureMacros = {}
    /\ \A k \in Levels \ {1} : "PCTK_OS_WIN32" \notin OwnNames(k) \cup {Error}
    /\ ToldNames \cap Unseen = {}
<1> DEFINE D == Definitions
<1>1. /\ DOMAIN D = 1..13
      /\ D[1] = GuardNames /\ D[2] = SystemMacros /\ D[3] = CompilerMacros /\ D[4] = FeatureMacros
      /\ D[5] = SpellingMacros /\ D[6] = TypeMacros /\ D[7] = LimitMacros /\ D[8] = {"PCTK_CORE_API"}
      /\ D[9] = ProcessorMacros /\ D[11] = {"PCTK_POINTER_SIZE"} /\ D[12] = {Error}
    BY DEF Definitions
<1>2. \A i, j \in 1..13 : i # j => D[i] \cap D[j] = {}
    BY <1>1, DefinedOnce
<1>3. \A i \in 1..13 : SpokenNames \cap D[i] = {}
    BY <1>1, SpokenNamesForeign
<1>4. "PCTK_OS_WIN32" \in D[2]
    BY <1>1 DEF SystemMacros
<1> HIDE DEF D
<1>5. /\ OwnNames(1) = D[2] /\ OwnNames(2) = D[3] \cup D[4] /\ OwnNames(3) = D[5]
      /\ OwnNames(4) = D[6] \cup D[11]
      /\ OwnNames(5) = D[7] /\ OwnNames(6) = D[8] /\ \A k \in 7..9 : OwnNames(k) = {}
    BY <1>1 DEF OwnNames
<1>6. \A k \in Levels : k \in {1, 2, 3, 4, 5, 6} \/ k \in 7..9
    BY DEF Levels
<1>7. \A k \in Levels : SpokenNames \cap (OwnNames(k) \cup {Error}) = {}
    BY <1>1, <1>3, <1>5, <1>6
<1>8. \A k \in Levels \ {2} : CompilerMacros \cap (OwnNames(k) \cup {Error}) = {}
    BY <1>1, <1>2, <1>5, <1>6
<1>9. \A k \in Levels \ {1} : "PCTK_OS_WIN32" \notin OwnNames(k) \cup {Error}
    BY <1>1, <1>2, <1>4, <1>5, <1>6
<1>10. Unseen = D[1] \cup D[9] \cup D[11]
    BY <1>1 DEF Unseen
<1>11. ToldNames \cap Unseen = {}
    BY <1>1, <1>2, <1>3, <1>4, <1>10 DEF ToldNames
<1>12. CompilerMacros \cap FeatureMacros = {}
    BY <1>1, <1>2
<1>13. QED
    BY <1>7, <1>8, <1>9, <1>11, <1>12

LEMMA ToldReached ==
    ASSUME NEW t \in Targets, NEW n \in 3..9, NEW a, Reached(t, n, a)
    PROVE  /\ \A x \in SpokenNames : Same(Predefined(t), a, x)
           /\ \A x \in CompilerMacros : Same(Chain(t, 2), a, x)
           /\ Same(Chain(t, 1), a, "PCTK_OS_WIN32")
<1>1. \A x \in ToldNames : Same(Chain(t, n), a, x)
    BY ToldApart DEF Reached, Alike, AgreeBut, Same
<1>2. \A x \in SpokenNames : Same(Predefined(t), Chain(t, n), x)
  <2>1. Chain(t, 0) = Predefined(t)
    BY ChainStep
  <2>2. \A x \in SpokenNames : Same(Chain(t, 0), Chain(t, n), x)
    BY ToldApart, ChainKeeps
  <2>3. QED
    BY <2>1, <2>2
<1>3. \A x \in CompilerMacros : Same(Chain(t, 2), Chain(t, n), x)
    BY ToldApart, ChainKeeps
<1>4. Same(Chain(t, 1), Chain(t, n), "PCTK_OS_WIN32")
    BY ToldApart, ChainKeeps
<1>5. QED
    BY <1>1, <1>2, <1>3, <1>4 DEF ToldNames, Same

(* Windows is told by its names, MinGW by its own.                         *)
LEMMA WindowsTold ==
    ASSUME NEW t \in Targets, "PCTK_OS_WIN32" \in DOMAIN Chain(t, 1)
    PROVE  defined(Predefined(t), WindowsNames)
<1> DEFINE w == "PCTK_OS_WIN32"
           p == Predefined(t)
           a == Define(p, OperatingSystem(p))
           b == WindowsOrUnix(a)
           c == Synonyms(b)
           d == AppleVersions(c)
<1>1. Chain(t, 1) = LinuxBase(d)
    BY ChainStep, OwnIs DEF Levels, SystemLines
<1>2. w \in DOMAIN d
  <2> HIDE DEF d
  <2>1. \A S \in {{Error}, {"PCTK_LINUXBASE"}} : w \notin S
    BY DEF Error
  <2>2. LinuxBase(d) = d \/ \E S \in {{Error}, {"PCTK_LINUXBASE"}} : LinuxBase(d) = Define(d, S)
    BY DEF LinuxBase
  <2>3. QED
    BY <1>1, <2>1, <2>2 DEF Define, DefineAs
<1>3. w \in DOMAIN c
  <2> HIDE DEF c
  <2> DEFINE raised == [x \in {r \in MinimumNames : value(c, r) < 1060} |-> 1060]
             e == IF defined(c, {"PCTK_OS_MACOS"}) THEN DefineAs(c, raised) ELSE c
             names == [x \in VersionNames |-> 1]
  <2>1. w \notin DOMAIN raised /\ w \notin DOMAIN names
    BY SystemsNamed
  <2>2. AppleVersions(c) = c \/ AppleVersions(c) = DefineMissing(e, names)
    BY DEF AppleVersions
  <2> HIDE DEF raised, names
  <2>3. w \in DOMAIN e => w \in DOMAIN c
    BY <2>1 DEF DefineAs
  <2> HIDE DEF e
  <2>4. QED
    BY <1>2, <2>1, <2>2, <2>3 DEF DefineMissing, DefineAs, d
<1>4. w \in DOMAIN b
  <2> HIDE DEF b
  <2> DEFINE table == {<<defined(b, {"PCTK_OS_DARWIN"}), {"PCTK_OS_MAC"}>>,
                       <<defined(b, {"PCTK_OS_DARWIN32"}), {"PCTK_OS_MAC32"}>>,
                       <<defined(b, {"PCTK_OS_DARWIN64"}), {"PCTK_OS_MAC64"}>>,
                       <<defined(b, {"PCTK_OS_MACOS"}), {"PCTK_OS_MACX", "PCTK_OS_OSX"}>>}
             more == {"PCTK_OS_MAC", "PCTK_OS_MAC32", "PCTK_OS_MAC64", "PCTK_OS_MACX", "PCTK_OS_OSX"}
  <2>1. c = Define(b, Given(table))
    BY DEF Synonyms
  <2>2. \A row \in table : row[2] \subseteq more
    OBVIOUS
  <2>3. w \notin more
    OBVIOUS
  <2> HIDE DEF table, more, c
  <2>4. Given(table) \subseteq more
    BY <2>2, GivenWithin
  <2>5. QED
    BY <1>3, <2>1, <2>3, <2>4 DEF Define, DefineAs
<1>5. w \in DOMAIN a
  <2> HIDE DEF a
  <2>1. QED
    BY <1>4 DEF WindowsOrUnix, Define, DefineAs, undef, b
<1>6. w \in OperatingSystem(p)
  <2> HIDE DEF p
  <2>1. w \notin DOMAIN p
    BY SystemsNamed DEF p
  <2>2. QED
    BY <1>5, <2>1 DEF Define, DefineAs
<1> HIDE DEF p
<1>7. w \notin AppleSystem(p)
    BY DEF AppleSystem, Error
<1>8. w \notin OtherSystem(p)
  <2> DEFINE told == {i \in DOMAIN OtherSystems : defined(p, OtherSystems[i][1])}
             first == CHOOSE i \in told : \A j \in told : i <= j
  <2>1. OtherSystem(p) = IF told = {} THEN {Error} ELSE {"PCTK_OS_" \o n : n \in OtherSystems[first][2]}
    BY DEF OtherSystem
  <2>2. w # Error
    BY DEF Error
  <2>3. told # {} => first \in DOMAIN OtherSystems
    <3>1. told \subseteq DOMAIN OtherSystems
      OBVIOUS
    <3>2. told \subseteq 1..19
      BY <3>1 DEF OtherSystems
    <3>3. told # {} => \E i \in told : \A j \in told : i <= j
      <4>1. told \subseteq Nat
        BY <3>2
      <4> HIDE DEF told
      <4>2. QED
        BY <4>1, LeastNatural
    <3> HIDE DEF told
    <3>4. QED
      BY <3>1, <3>3
  <2> HIDE DEF told, first
  <2>4. told # {} => w \notin {"PCTK_OS_" \o n : n \in OtherSystems[first][2]}
    BY <2>3, SystemsNamed
  <2>5. QED
    BY <2>1, <2>2, <2>4
<1>9. Win64(p) \/ Win32(p)
  <2>1. w \notin {"PCTK_OS_WEBOS", Error} /\ w \notin {"PCTK_OS_ANDROID", "PCTK_OS_LINUX"} /\ w \notin {"PCTK_OS_CYGWIN"}
    BY DEF Error
  <2>2. QED
    BY <1>6, <1>7, <1>8, <2>1 DEF OperatingSystem
<1>10. QED
    BY <1>9 DEF Win64, Win32, WindowsNames, defined, p

LEMMA MinGWTold ==
    ASSUME NEW a, "PCTK_CC_MINGW" \notin DOMAIN a, "PCTK_CC_MINGW" \in DOMAIN Compilers(a)
    PROVE  "__MINGW32__" \in DOMAIN a
<1> DEFINE gnu == IF defined(a, {"__GNUC__"})
                  THEN [x \in {"PCTK_CC_" \o "GNU"} |->
                              100 * value(a, "__GNUC__") + value(a, "__GNUC_MINOR__")]
                  ELSE << >>
           vc == IF defined(a, {"_MSC_VER"})
                 THEN [x \in {"PCTK_CC_" \o "MSVC"} |-> value(a, "_MSC_VER")] ELSE << >>
           icc == IF defined(a, {"__INTEL_COMPILER"})
                  THEN [x \in {"PCTK_CC_" \o "INTEL"} |-> value(a, "__INTEL_COMPILER")] ELSE << >>
           llvm == IF defined(a, {"__clang__"}) THEN ClangVersion(a) ELSE << >>
           mingw == {<<defined(a, {"__MINGW32__"}), {"PCTK_CC_MINGW"}>>}
           rest == {<<defined(a, {"_MSC_VER"}), {"PCTK_CC_MSVC_NET"}>>,
                    <<defined(a, {"__BORLANDC__", "__TURBOC__"}), Borland(a)>>,
                    <<defined(a, {"__EMSCRIPTEN__"}), {"PCTK_CC_EMSCRIPTEN"}>>}
           table == {<<defined(a, {"__MINGW32__"}), {"PCTK_CC_MINGW"}>>,
                     <<defined(a, {"_MSC_VER"}), {"PCTK_CC_MSVC_NET"}>>,
                     <<defined(a, {"__BORLANDC__", "__TURBOC__"}), Borland(a)>>,
                     <<defined(a, {"__EMSCRIPTEN__"}), {"PCTK_CC_EMSCRIPTEN"}>>}
           names == {"PCTK_CC_MSVC_NET", "PCTK_CC_BOR", "PCTK_CC_EMSCRIPTEN", Error}
<1>1. Compilers(a) = Define(DefineAs(DefineAs(DefineAs(DefineAs(a, gnu), vc), llvm), icc), Given(table))
    BY DEF Compilers
<1>2. "PCTK_CC_MINGW" \notin DOMAIN gnu \cup DOMAIN vc \cup DOMAIN icc
  <2>1. DOMAIN << >> = {}
    OBVIOUS
  <2>2. /\ DOMAIN gnu \subseteq {"PCTK_CC_GNU"} /\ DOMAIN vc \subseteq {"PCTK_CC_MSVC"}
        /\ DOMAIN icc \subseteq {"PCTK_CC_INTEL"}
    BY <2>1, NamedCompilers
  <2> HIDE DEF gnu, vc, icc
  <2>3. QED
    BY <2>2
<1>3. "PCTK_CC_MINGW" \notin DOMAIN llvm
  <2>1. DOMAIN << >> = {} /\ Error # "PCTK_CC_MINGW"
    BY DEF Error
  <2>2. QED
    BY <2>1, ClangNumber
<1>4. table = mingw \cup rest
    OBVIOUS
<1>5. \A row \in rest : row[2] \subseteq names
    BY DEF Borland
<1>6. "PCTK_CC_MINGW" \in Given(mingw) <=> defined(a, {"__MINGW32__"}) /\ "PCTK_CC_MINGW" \in {"PCTK_CC_MINGW"}
    BY GivenOne
<1>7. "PCTK_CC_MINGW" \notin names
    BY DEF Error
<1> HIDE DEF gnu, vc, icc, llvm, mingw, rest, table, names
<1>8. "PCTK_CC_MINGW" \in Given(table)
    BY <1>1, <1>2, <1>3 DEF Define, DefineAs
<1>9. "PCTK_CC_MINGW" \notin Given(rest)
    BY <1>5, <1>7, GivenWithin
<1>10. "PCTK_CC_MINGW" \in Given(mingw)
    BY <1>4, <1>8, <1>9, GivenBoth
<1>11. QED
    BY <1>6, <1>10 DEF defined

(* What the features that are keywords tell of the language.               *)
KeywordFeatures ==
    {"NULLPTR", "CONSTEXPR", "EXPLICIT_OVERRIDES", "NOEXCEPT", "DEFAULT_MEMBERS", "DELETE_MEMBERS",
     "ALIGNAS", "RVALUE_REFS", "ALIGNOF", "STATIC_ASSERT"}

OldFeatures ==
    {"RESTRICTED_VLA", "THREADSAFE_STATICS", "BINARY_LITERALS", "VARIADIC_MACROS", "LAMBDA_CAPTURES",
     "RETURN_TYPE_DEDUCTION", "NO_TEMPLATE_FRIENDS", "ATTRIBUTES", "UNIFORM_INIT", "THREAD_LOCAL"}

LEMMA GivenAny ==
    ASSUME NEW a, NEW A, NEW names, A \subseteq names
    PROVE  Given({<<a, A>>}) \subseteq names
    BY GivenOne

LEMMA GivenNot ==
    ASSUME NEW a, NEW A, ~a
    PROVE  Given({<<a, A>>}) = {}
<1>1. \A x : x \notin Given({<<a, A>>})
    BY GivenOne
<1>2. QED
    BY <1>1

LEMMA GivenFour ==
    ASSUME NEW r, NEW s, NEW t, NEW u, NEW names,
           Given({r}) \subseteq names, Given({s}) \subseteq names,
           Given({t}) \subseteq names, Given({u}) \subseteq names
    PROVE  Given({r, s, t, u}) \subseteq names
<1>1. {r, s, t, u} = ({r} \cup {s}) \cup ({t} \cup {u})
    OBVIOUS
<1>2. /\ Given({r} \cup {s}) = Given({r}) \cup Given({s})
      /\ Given({t} \cup {u}) = Given({t}) \cup Given({u})
    BY GivenBoth
<1>3. Given(({r} \cup {s}) \cup ({t} \cup {u})) = Given({r} \cup {s}) \cup Given({t} \cup {u})
    BY GivenBoth
<1>4. QED
    BY <1>1, <1>2, <1>3

LEMMA SinceOnly ==
    ASSUME NEW table, NEW names, NEW v, \A row \in table : v >= row[1] => row[2] \subseteq names
    PROVE  Since(table, v) \subseteq names
    BY DEF Since

LEMMA GnuPlain ==
    ASSUME NEW c, ~Cxx11(c), "__STDC_VERSION__" \notin DOMAIN c
    PROVE  GnuFeatures(c) \subseteq OldFeatures
<1> DEFINE version == Version(c, "GNU")
           strict == NotStrict(c)
           lambda == value(c, "__cplusplus") > 201103 /\ version >= 409
           static == value(c, "__STDC_VERSION__") > 199901 /\ version >= 407
           threads == value(c, "__STDC_VERSION__") > 199901 /\ version >= 409 /\ HasThreads(c)
           r == <<strict, {"VARIADIC_MACROS"}>>
           s == <<lambda, {"LAMBDA_CAPTURES", "RETURN_TYPE_DEDUCTION"}>>
           t == <<static, {"STATIC_ASSERT"}>>
           u == <<threads, {"THREAD_LOCAL"}>>
           since == {<<403, {"BINARY_LITERALS"}>>}
           more == Since(GnuCxx11, version)
               \cup Given({<<version >= 408 /\ value(c, "__GNUC_PATCHLEVEL__") >= 1, {"REF_QUALIFIERS"}>>})
<1>1. GnuFeatures(c) = {"RESTRICTED_VLA", "THREADSAFE_STATICS"} \cup Since(since, version) \cup Given({r, s, t, u})
  <2>1. GnuFeatures(c) = {"RESTRICTED_VLA", "THREADSAFE_STATICS"} \cup Since(since, version)
                             \cup Given({r, s, t, u}) \cup IF ~Cxx11(c) THEN {} ELSE more
    BY DEF GnuFeatures
  <2> HIDE DEF r, s, t, u, since, more
  <2>2. QED
    BY <2>1
<1>2. ~static
    BY DEF value
<1>3. /\ {"VARIADIC_MACROS"} \subseteq OldFeatures /\ {"LAMBDA_CAPTURES", "RETURN_TYPE_DEDUCTION"} \subseteq OldFeatures
      /\ {"THREAD_LOCAL"} \subseteq OldFeatures
    BY DEF OldFeatures
<1>4. \A row \in since : row[2] \subseteq OldFeatures
    BY DEF OldFeatures
<1> HIDE DEF strict, lambda, static, threads, since
<1>5. Given({r}) \subseteq OldFeatures
    BY <1>3, GivenAny
<1>6. Given({s}) \subseteq OldFeatures
    BY <1>3, GivenAny
<1>7. Given({t}) \subseteq OldFeatures
    BY <1>2, GivenNot
<1>8. Given({u}) \subseteq OldFeatures
    BY <1>3, GivenAny
<1> HIDE DEF r, s, t, u
<1>9. Given({r, s, t, u}) \subseteq OldFeatures
    BY <1>5, <1>6, <1>7, <1>8, GivenFour
<1>10. Since(since, version) \subseteq OldFeatures
    BY <1>4, SinceOnly
<1>11. {"RESTRICTED_VLA", "THREADSAFE_STATICS"} \subseteq OldFeatures
    BY DEF OldFeatures
<1>12. QED
    BY <1>1, <1>9, <1>10, <1>11

LEMMA ClangPlain ==
    ASSUME NEW c, ~Cxx11(c), value(c, "__cplusplus") \in Nat, "__STDC_VERSION__" \notin DOMAIN c
    PROVE  ClangFeatures(c) \subseteq OldFeatures
<1> DEFINE Knows(name) == defined(c, {"cxx_" \o name})
           NamesTold(names) == UNION {pair[2] : pair \in {p \in names : Knows(p[1])}}
           since209 == Version(c, "CLANG") >= 209
           freebsd == defined(c, {"__FreeBSD__"})
           cxx11 == NamesTold(Cxx11Names) \cup
               Given({<<Knows("atomic") /\ defined(c, {"<atomic>"}), {"ATOMICS"}>>,
                      <<Knows("constexpr") /\ Version(c, "CLANG") > 302, {"CONSTEXPR"}>>,
                      <<Knows("thread_local") /\ ~freebsd, {"THREAD_LOCAL"}>>,
                      <<since209, {"EXTERN_TEMPLATES"}>>})
           cxx14 == NamesTold(Cxx14Names) \cup
               Given({<<Knows("decltype_auto") /\ Knows("return_type_deduction"),
                        {"RETURN_TYPE_DEDUCTION"}>>})
           inC == Given({<<defined(c, {"c_static_assert"}), {"STATIC_ASSERT"}>>,
                         <<defined(c, {"c_thread_local"}) /\ HasThreads(c) /\ ~freebsd,
                           {"THREAD_LOCAL"}>>})
           binary == Knows("binary_literals")
           strict == since209 /\ NotStrict(c)
           since11 == Cxx11(c)
           since14 == value(c, "__cplusplus") > 201103
           standard == defined(c, {"__STDC_VERSION__"})
           q == <<binary, {"BINARY_LITERALS"}>>
           r == <<strict, {"VARIADIC_MACROS"}>>
           s == <<since11, cxx11>>
           t == <<since14, cxx14>>
           u == <<standard, inC>>
<1>1. ClangFeatures(c) = {"RESTRICTED_VLA", "THREADSAFE_STATICS"} \cup Given({q, r, s, t, u})
    BY DEF ClangFeatures
<1>2. ~since11 /\ ~since14 /\ ~standard
    BY DEF Cxx11, defined
<1>3. {"BINARY_LITERALS"} \subseteq OldFeatures /\ {"VARIADIC_MACROS"} \subseteq OldFeatures
    BY DEF OldFeatures
<1> HIDE DEF cxx11, cxx14, inC, binary, strict, since11, since14, standard
<1>4. Given({q}) \subseteq OldFeatures
    BY <1>3, GivenAny
<1>5. Given({r}) \subseteq OldFeatures
    BY <1>3, GivenAny
<1>6. Given({s}) = {}
    BY <1>2, GivenNot
<1>7. Given({t}) = {}
    BY <1>2, GivenNot
<1>8. Given({u}) = {}
    BY <1>2, GivenNot
<1> HIDE DEF q, r, s, t, u
<1>9. {q, r, s, t, u} = {q} \cup {r, s, t, u}
    OBVIOUS
<1>10. Given({q, r, s, t, u}) = Given({q}) \cup Given({r, s, t, u})
    BY <1>9, GivenBoth
<1>11. Given({r, s, t, u}) \subseteq OldFeatures
    BY <1>5, <1>6, <1>7, <1>8, GivenFour
<1>12. {"RESTRICTED_VLA", "THREADSAFE_STATICS"} \subseteq OldFeatures
    BY DEF OldFeatures
<1>13. QED
    BY <1>1, <1>4, <1>10, <1>11, <1>12

LEMMA IntelTable ==
    ASSUME NEW old, NEW binary, NEW c11, NEW threads, ~c11
    PROVE  Given({<<old, {"NO_TEMPLATE_FRIENDS"}>>, <<binary, {"BINARY_LITERALS"}>>,
                  <<c11, {"STATIC_ASSERT"}>>, <<threads, {"THREAD_LOCAL"}>>}) \subseteq OldFeatures
<1> DEFINE r == <<old, {"NO_TEMPLATE_FRIENDS"}>>
           s == <<binary, {"BINARY_LITERALS"}>>
           t == <<c11, {"STATIC_ASSERT"}>>
           u == <<threads, {"THREAD_LOCAL"}>>
<1>1. /\ {"NO_TEMPLATE_FRIENDS"} \subseteq OldFeatures /\ {"BINARY_LITERALS"} \subseteq OldFeatures
      /\ {"THREAD_LOCAL"} \subseteq OldFeatures
    BY DEF OldFeatures
<1>2. Given({r}) \subseteq OldFeatures
    BY <1>1, GivenAny
<1>3. Given({s}) \subseteq OldFeatures
    BY <1>1, GivenAny
<1>4. Given({t}) = {}
    BY GivenNot
<1>5. Given({u}) \subseteq OldFeatures
    BY <1>1, GivenAny
<1> HIDE DEF r, s, t, u
<1>6. Given({r, s, t, u}) \subseteq OldFeatures
    BY <1>2, <1>3, <1>4, <1>5, GivenFour
<1>7. QED
    BY <1>6 DEF r, s, t, u

IntelCxx11Mode(c) == value(c, "__cplusplus") >= 201103 \/ defined(c, {"__INTEL_CXX11_MODE__"})

LEMMA IntelPlain ==
    ASSUME NEW c, ~IntelCxx11Mode(c), "__STDC_VERSION__" \notin DOMAIN c
    PROVE  IntelFeatures(c) \subseteq OldFeatures
<1> DEFINE version == Version(c, "INTEL")
           cxx11 == value(c, "__cplusplus") >= 201103 \/ defined(c, {"__INTEL_CXX11_MODE__"})
           c11 == ~cxx11 /\ value(c, "__STDC_VERSION__") > 199901
           old == version < 1200
           binary == version >= 1310 /\ ~defined(c, {"_WIN32"})
           threads == c11 /\ HasThreads(c)
           table == {<<old, {"NO_TEMPLATE_FRIENDS"}>>, <<binary, {"BINARY_LITERALS"}>>,
                     <<c11, {"STATIC_ASSERT"}>>, <<threads, {"THREAD_LOCAL"}>>}
<1>1. ~cxx11 /\ ~c11
    BY SMT DEF value, IntelCxx11Mode
<1>2. IntelFeatures(c) = {"RESTRICTED_VLA", "VARIADIC_MACROS", "THREADSAFE_STATICS"} \cup Given(table)
    BY <1>1, SMT DEF IntelFeatures
<1> HIDE DEF c11, cxx11, old, binary, threads
<1>3. Given(table) \subseteq OldFeatures
    BY <1>1, IntelTable
<1> HIDE DEF table
<1>4. {"RESTRICTED_VLA", "VARIADIC_MACROS", "THREADSAFE_STATICS"} \subseteq OldFeatures
    BY SMT DEF OldFeatures
<1>5. QED
    BY <1>2, <1>3, <1>4, SMT

LEMMA MsvcPlain ==
    ASSUME NEW c, Version(c, "MSVC") \in Nat, Version(c, "MSVC") < 1600
    PROVE  MsvcFeatures(c) \subseteq OldFeatures
<1> DEFINE patch == {<<190023419, {"ATTRIBUTES", "THREADSAFE_STATICS", "UNIFORM_INIT"}>>}
<1>1. \A row \in MsvcBrought : Version(c, "MSVC") >= row[1] => row[2] \subseteq OldFeatures
  <2>1. \A row \in MsvcBrought : row = <<1400, {"VARIADIC_MACROS"}>> \/ (row[1] \in Nat /\ row[1] >= 1600)
    BY DEF MsvcBrought
  <2>2. {"VARIADIC_MACROS"} \subseteq OldFeatures
    BY DEF OldFeatures
  <2>3. QED
    BY <2>1, <2>2
<1>2. \A row \in patch : row[2] \subseteq OldFeatures
    BY DEF OldFeatures
<1> HIDE DEF patch
<1>3. Since(MsvcBrought, Version(c, "MSVC")) \subseteq OldFeatures /\ Since(patch, value(c, "_MSC_FULL_VER")) \subseteq OldFeatures
    BY <1>1, <1>2, SinceOnly
<1>4. QED
    BY <1>3 DEF MsvcFeatures, OldFeatures, patch

LEMMA GivenIf ==
    ASSUME NEW a, NEW A, NEW names, a => A \subseteq names
    PROVE  Given({<<a, A>>}) \subseteq names
<1>1. CASE a
  <2>1. A \subseteq names
    BY <1>1
  <2>2. QED
    BY <2>1, GivenAny
<1>2. CASE ~a
  <2>1. Given({<<a, A>>}) = {}
    BY <1>2, GivenNot
  <2>2. QED
    BY <2>1
<1>3. QED
    BY <1>1, <1>2

LEMMA FourWithin ==
    ASSUME NEW a, NEW b, NEW c, NEW d, NEW A, NEW B, NEW C, NEW D, NEW names,
           a => A \subseteq names, b => B \subseteq names, c => C \subseteq names, d => D \subseteq names
    PROVE  Given({<<a, A>>, <<b, B>>, <<c, C>>, <<d, D>>}) \subseteq names
<1> DEFINE r == <<a, A>>
           s == <<b, B>>
           t == <<c, C>>
           u == <<d, D>>
<1>1. Given({r}) \subseteq names
    BY GivenIf
<1>2. Given({s}) \subseteq names
    BY GivenIf
<1>3. Given({t}) \subseteq names
    BY GivenIf
<1>4. Given({u}) \subseteq names
    BY GivenIf
<1> HIDE DEF r, s, t, u
<1>5. Given({r, s, t, u}) \subseteq names
    BY <1>1, <1>2, <1>3, <1>4, GivenFour
<1>6. QED
    BY <1>5 DEF r, s, t, u

(* A compiler that does not speak of C++11 has no feature that is a        *)
(* keyword of it.                                                          *)
LEMMA SilentPlain ==
    ASSUME NEW c, NEW p, Tells(c, p), ~Speaks11(p), "__STDC_VERSION__" \notin DOMAIN p,
           \A x \in Numbers \cup Grown : value(p, x) \in Nat
    PROVE  Features(c) \subseteq OldFeatures
<1> DEFINE gnu == Is(c, "GNU") /\ ~Is(c, "INTEL") /\ ~Is(c, "CLANG")
           msvc == Is(c, "MSVC")
           clang == Is(c, "CLANG") /\ ~Is(c, "INTEL") /\ ~Is(c, "MSVC")
           intel == Is(c, "INTEL") /\ ~Is(c, "MSVC")
           told == {"__cplusplus", "__STDC_VERSION__", "__GXX_EXPERIMENTAL_CXX0X__",
                    "__INTEL_CXX11_MODE__", "_MSC_VER"}
<1>1. \A x \in told : Same(p, c, x)
  <2>1. told \subseteq LaterNames
    BY DEF LaterNames, Grown, Modes
  <2>2. QED
    BY <2>1 DEF Tells
<1>2. \A x \in told : value(c, x) = value(p, x) /\ (defined(c, {x}) <=> defined(p, {x}))
    BY <1>1 DEF Same, value, defined
<1>3. {"__cplusplus", "_MSC_VER"} \subseteq Grown
    BY DEF Grown
<1>4. value(p, "__cplusplus") \in Nat /\ value(p, "_MSC_VER") \in Nat
    BY <1>3
<1>5. /\ value(p, "__cplusplus") < 201103 /\ value(p, "_MSC_VER") < 1600
      /\ ~defined(p, {"__GXX_EXPERIMENTAL_CXX0X__"}) /\ ~defined(p, {"__INTEL_CXX11_MODE__"})
    BY <1>4, SMT DEF Speaks11, defined
<1>6. ~Cxx11(c) /\ ~IntelCxx11Mode(c) /\ "__STDC_VERSION__" \notin DOMAIN c
      /\ value(c, "__cplusplus") \in Nat
    BY <1>1, <1>2, <1>4, <1>5, SMT DEF Cxx11, IntelCxx11Mode, Same
<1>7. msvc => Version(c, "MSVC") \in Nat /\ Version(c, "MSVC") < 1600
    BY <1>4, <1>5, SMT DEF Tells
<1>8. GnuFeatures(c) \subseteq OldFeatures
    BY <1>6, GnuPlain, SMT
<1>9. ClangFeatures(c) \subseteq OldFeatures
    BY <1>6, ClangPlain, SMT
<1>10. IntelFeatures(c) \subseteq OldFeatures
    BY <1>6, IntelPlain, SMT
<1>11. msvc => MsvcFeatures(c) \subseteq OldFeatures
    BY <1>7, MsvcPlain, SMT
<1> DEFINE G == GnuFeatures(c)
           M == MsvcFeatures(c)
           C == ClangFeatures(c)
           I == IntelFeatures(c)
<1>12. Features(c) = Given({<<gnu, G>>, <<msvc, M>>, <<clang, C>>, <<intel, I>>})
    BY DEF Features
<1>13. (gnu => G \subseteq OldFeatures) /\ (msvc => M \subseteq OldFeatures) /\ (clang => C \subseteq OldFeatures)
       /\ (intel => I \subseteq OldFeatures)
    BY <1>8, <1>9, <1>10, <1>11
<1> HIDE DEF gnu, msvc, clang, intel, G, M, C, I
<1>14. Given({<<gnu, G>>, <<msvc, M>>, <<clang, C>>, <<intel, I>>}) \subseteq OldFeatures
    BY <1>13, FourWithin
<1>15. QED
    BY <1>12, <1>14

LEMMA FeaturesSpoken ==
    ASSUME NEW t \in Targets, NEW n \in 3..9, NEW a, Reached(t, n, a),
           NEW f \in KeywordFeatures, value(a, Feature(f)) = 1,
           "__STDC_VERSION__" \notin DOMAIN Predefined(t)
    PROVE  Speaks11(Predefined(t))
<1> DEFINE b == Compilers(Chain(t, 1))
           c == DefineAs(b, Standards(b))
<1>1. KeywordFeatures \subseteq Defaulted /\ KeywordFeatures \cap OldFeatures = {}
      /\ "NO_TEMPLATE_FRIENDS" \notin KeywordFeatures
    BY DEF KeywordFeatures, Defaulted, OldFeatures
<1>2. FeatureSet(a) = FeatureSet(Chain(t, 2)) /\ ~Fails(Chain(t, 2))
    BY FeaturesReached, SMT
<1>3. value(Chain(t, 2), Feature(f)) = 1
    BY <1>1, <1>2 DEF FeatureSet
<1>4. /\ Tells(c, Predefined(t)) /\ FeatureMacros \cap DOMAIN c = {}
      /\ Chain(t, 2) = FeatureTests(c, Features(c))
    BY <1>2, ChainTells
<1> HIDE DEF c
<1>5. Features(c) \in SUBSET FeatureNames
    BY FeaturesNames
<1>6. f \in Features(c)
    BY <1>1, <1>3, <1>4, <1>5, FeatureTold
<1>7. \A x \in Numbers \cup Grown : value(Predefined(t), x) \in Nat
    BY TargetsSpeak
<1>8. QED
    BY <1>1, <1>4, <1>6, <1>7, SilentPlain

LEMMA GivenPart ==
    ASSUME NEW table, NEW a, NEW A, <<a, A>> \in table, a
    PROVE  A \subseteq Given(table)
<1>1. <<a, A>>[1] = a /\ <<a, A>>[2] = A
    OBVIOUS
<1> DEFINE row == <<a, A>>
<1>2. row \in table /\ row[1] /\ row[2] = A
    BY <1>1
<1> HIDE DEF row
<1>3. QED
    BY <1>2 DEF Given

LEMMA FourGiven ==
    ASSUME NEW a, NEW b, NEW c, NEW d, NEW A, NEW B, NEW C, NEW D
    PROVE  LET all == Given({<<a, A>>, <<b, B>>, <<c, C>>, <<d, D>>}) IN
           /\ a => A \subseteq all
           /\ b => B \subseteq all
           /\ c => C \subseteq all
           /\ d => D \subseteq all
<1> DEFINE table == {<<a, A>>, <<b, B>>, <<c, C>>, <<d, D>>}
<1>1. <<a, A>> \in table /\ <<b, B>> \in table /\ <<c, C>> \in table /\ <<d, D>> \in table
    OBVIOUS
<1> HIDE DEF table
<1>2. a => A \subseteq Given(table)
    BY <1>1, GivenPart
<1>3. b => B \subseteq Given(table)
    BY <1>1, GivenPart
<1>4. c => C \subseteq Given(table)
    BY <1>1, GivenPart
<1>5. d => D \subseteq Given(table)
    BY <1>1, GivenPart
<1>6. QED
    BY <1>2, <1>3, <1>4, <1>5 DEF table

LEMMA SpeaksTold ==
    ASSUME NEW u
    PROVE  /\ defined(u, {"_MSC_VER"}) => {"msvc", "declspec"} \subseteq Speaks(u)
           /\ defined(u, GnuNames) \/ ~defined(u, {"_MSC_VER"}) => {"gnu", "c99"} \subseteq Speaks(u)
           /\ defined(u, WindowsNames) => {"declspec"} \subseteq Speaks(u)
           /\ Speaks11(u) => {"cxx11"} \subseteq Speaks(u)
<1> DEFINE msvc == defined(u, {"_MSC_VER"})
           gnu == defined(u, GnuNames) \/ ~defined(u, {"_MSC_VER"})
           windows == defined(u, WindowsNames)
           later == Speaks11(u)
           A == {"msvc", "declspec"}
           B == {"gnu", "c99"}
           C == {"declspec"}
           D == {"cxx11"}
<1>1. Speaks(u) = Given({<<msvc, A>>, <<gnu, B>>, <<windows, C>>, <<later, D>>})
    BY DEF Speaks
<1> HIDE DEF msvc, gnu, windows, later, A, B, C, D
<1> DEFINE all == Given({<<msvc, A>>, <<gnu, B>>, <<windows, C>>, <<later, D>>})
<1>2. /\ msvc => A \subseteq all
      /\ gnu => B \subseteq all
      /\ windows => C \subseteq all
      /\ later => D \subseteq all
    BY FourGiven
<1> HIDE DEF all
<1>3. Speaks(u) = all
    BY <1>1 DEF all
<1>4. /\ msvc => A \subseteq Speaks(u)
      /\ gnu => B \subseteq Speaks(u)
      /\ windows => C \subseteq Speaks(u)
      /\ later => D \subseteq Speaks(u)
    BY <1>2, <1>3
<1>5. QED
    BY <1>4 DEF msvc, gnu, windows, later, A, B, C, D

(* What a table tells of the compiler, and the languages it understands.   *)
Talks(a, languages) ==
    /\ "plain" \in languages
    /\ "__cplusplus" \in DOMAIN a /\ "__STDC_VERSION__" \notin DOMAIN a
    /\ ~({"__INTEL_COMPILER", "_MSC_VER"} \subseteq DOMAIN a)
    /\ Is(a, "GNU") => "__GNUC__" \in DOMAIN a
    /\ Is(a, "CLANG") => "__clang__" \in DOMAIN a
    /\ Is(a, "MSVC") => "_MSC_VER" \in DOMAIN a
    /\ Is(a, "INTEL") => "__INTEL_COMPILER" \in DOMAIN a
    /\ "_MSC_VER" \in DOMAIN a => {"msvc", "declspec"} \subseteq languages
    /\ defined(a, GnuNames) \/ "_MSC_VER" \notin DOMAIN a => {"gnu", "c99"} \subseteq languages
    /\ "PCTK_OS_WIN32" \in DOMAIN a \/ Is(a, "MINGW") => "declspec" \in languages
    /\ value(a, "__cplusplus") >= 201103 => "cxx11" \in languages
    /\ \A f \in KeywordFeatures : value(a, Feature(f)) = 1 => "cxx11" \in languages

LEMMA CompilersKnown ==
    ASSUME NEW t \in Targets, NEW n \in 3..9, NEW a, Reached(t, n, a)
    PROVE  LET p == Predefined(t) IN
           /\ Is(a, "GNU") => "__GNUC__" \in DOMAIN p
           /\ Is(a, "CLANG") => "__clang__" \in DOMAIN p
           /\ Is(a, "MSVC") => "_MSC_VER" \in DOMAIN p
           /\ Is(a, "INTEL") => "__INTEL_COMPILER" \in DOMAIN p
           /\ Is(a, "MINGW") => "__MINGW32__" \in DOMAIN p
<1> DEFINE p == Predefined(t)
           g == Chain(t, 1)
           b == Compilers(g)
           c == DefineAs(b, Standards(b))
           e == Chain(t, 2)
           mingw == "PCTK_CC_MINGW"
<1>1. ~Fails(e)
    BY FeaturesReached, SMT
<1>2. /\ Tells(c, p) /\ e = FeatureTests(c, Features(c))
    BY <1>1, ChainTells
<1>3. \A x \in CompilerMacros : Same(e, a, x)
    BY ToldReached
<1>4. \A x \in CompilerMacros : Same(c, e, x)
  <2> HIDE DEF c, e
  <2>1. Features(c) \in SUBSET FeatureNames
    BY FeaturesNames
  <2>2. Extends(c, e, FeatureMacros)
    BY <1>2, <2>1, FeatureTestsLines
  <2>3. Error \notin CompilerMacros
    <3>1. CompilerMacros \cap (OwnNames(1) \cup {Error}) = {}
      BY ToldApart DEF Levels
    <3>2. QED
      BY <3>1
  <2>4. QED
    BY <2>2, <2>3, ToldApart DEF Extends, AgreeBut
<1>5. KnownCompilers \cup {mingw} \subseteq CompilerMacros
  <2>1. KnownCompilers = {"PCTK_CC_" \o n1 : n1 \in {"GNU", "MSVC", "INTEL"}} \cup {"PCTK_CC_CLANG"}
    BY NamedCompilers DEF KnownCompilers
  <2>2. QED
    BY <2>1 DEF CompilerMacros
<1>6. \A x \in KnownCompilers \cup {mingw} : x \in DOMAIN c <=> x \in DOMAIN a
  <2> HIDE DEF c, e
  <2>1. QED
    BY <1>3, <1>4, <1>5 DEF Same
<1>7. /\ Is(a, "GNU") <=> Is(c, "GNU")
      /\ Is(a, "CLANG") <=> Is(c, "CLANG")
      /\ Is(a, "MSVC") <=> Is(c, "MSVC")
      /\ Is(a, "INTEL") <=> Is(c, "INTEL")
  <2> HIDE DEF c
  <2>1. QED
    BY <1>6, NamedCompilers DEF KnownCompilers
<1>8. Is(a, "MINGW") => "__MINGW32__" \in DOMAIN p
  <2> SUFFICES ASSUME Is(a, "MINGW")
               PROVE  "__MINGW32__" \in DOMAIN p
    OBVIOUS
  <2>1. "PCTK_CC_" \o "MINGW" = mingw
    BY CompilersNamed
  <2>2. mingw \in DOMAIN a
    BY <2>1 DEF Is, defined
  <2>3. mingw \in DOMAIN c
    BY <1>6, <2>2
  <2>4. mingw \notin DOMAIN Standards(b)
    BY DEF Standards
  <2>5. mingw \in DOMAIN b
    <3> HIDE DEF b
    <3>1. QED
      BY <2>3, <2>4 DEF DefineAs
  <2>6. mingw \notin DOMAIN g
    <3>1. mingw \notin DOMAIN p
      BY <1>5, TargetsBare
    <3>2. mingw \notin OwnNames(1) \cup {Error}
      BY <1>5, ToldApart DEF Levels
    <3>3. Chain(t, 0) = p
      BY ChainStep
    <3>4. Extends(Chain(t, 0), g, OwnNames(1))
      BY ChainTypes DEF Levels
    <3> HIDE DEF p, g
    <3>5. QED
      BY <3>1, <3>2, <3>3, <3>4 DEF Extends, AgreeBut, Same
  <2>7. "__MINGW32__" \in DOMAIN g
    BY <2>5, <2>6, MinGWTold
  <2>8. "__MINGW32__" \in SpokenNames
    BY DEF SpokenNames, WindowsNames
  <2>9. Same(p, g, "__MINGW32__")
    <3>1. \A k \in Levels : "__MINGW32__" \notin OwnNames(k) \cup {Error}
      BY <2>8, ToldApart
    <3>2. Same(Chain(t, 0), Chain(t, 1), "__MINGW32__")
      BY <3>1, ChainKeeps
    <3>3. QED
      BY <3>2, ChainStep
  <2>10. QED
    BY <2>7, <2>9 DEF Same
<1>9. QED
  BY <1>2, <1>7, <1>8 DEF Tells

LEMMA TalksReached ==
    ASSUME NEW t \in Targets, NEW n \in 3..9, NEW a, Reached(t, n, a)
    PROVE  Talks(a, t.understood \cup {"plain"})
<1> DEFINE p == Predefined(t)
           L == t.understood \cup {"plain"}
<1>1. /\ \A x \in SpokenNames : Same(p, a, x)
      /\ Same(Chain(t, 1), a, "PCTK_OS_WIN32")
    BY ToldReached
<1>2. /\ Speaks(p) \subseteq t.understood
      /\ ~({"__cplusplus", "__STDC_VERSION__"} \subseteq DOMAIN p)
      /\ ~({"__INTEL_COMPILER", "_MSC_VER"} \subseteq DOMAIN p)
    BY TargetsSpeak
<1>3. GnuNames \cup {"_MSC_VER", "__INTEL_COMPILER", "__cplusplus", "__STDC_VERSION__"} \subseteq SpokenNames
    BY DEF SpokenNames
<1>4. "__GNUC__" \in GnuNames /\ "__clang__" \in GnuNames
    BY DEF GnuNames
<1>5. \A x \in SpokenNames : x \in DOMAIN a <=> x \in DOMAIN p
    BY <1>1 DEF Same
<1>6. "__cplusplus" \in DOMAIN a
  <2>1. ~Fails(Chain(t, n))
    BY AlikeFails DEF Reached
  <2>2. ~Fails(Chain(t, 3))
    BY <2>1, ChainFails
  <2>3. Chain(t, 3) = MacroTests(Chain(t, 2))
    BY ChainStep, OwnIs DEF Levels
  <2>4. Cpp98(Chain(t, 2))
    BY <2>2, <2>3 DEF MacroTests, Fails, Define, DefineAs
  <2>5. Same(Chain(t, 0), Chain(t, 2), "__cplusplus") /\ Chain(t, 0) = p
    <3>1. "__cplusplus" \in SpokenNames
      BY DEF SpokenNames
    <3>2. \A k \in Levels : "__cplusplus" \notin OwnNames(k) \cup {Error}
      BY <3>1, ToldApart
    <3>3. QED
      BY <3>2, ChainKeeps, ChainStep
  <2>6. QED
    BY <1>3, <1>5, <2>4, <2>5 DEF Cpp98, defined, Same
<1>7. "__STDC_VERSION__" \notin DOMAIN a /\ "__STDC_VERSION__" \notin DOMAIN p
    BY <1>2, <1>3, <1>5, <1>6
<1>8. ~({"__INTEL_COMPILER", "_MSC_VER"} \subseteq DOMAIN a)
    BY <1>2, <1>3, <1>5
<1>9. /\ Is(a, "GNU") => "__GNUC__" \in DOMAIN a
      /\ Is(a, "CLANG") => "__clang__" \in DOMAIN a
      /\ Is(a, "MSVC") => "_MSC_VER" \in DOMAIN a
      /\ Is(a, "INTEL") => "__INTEL_COMPILER" \in DOMAIN a
    BY <1>3, <1>4, <1>5, CompilersKnown
<1>10. "_MSC_VER" \in DOMAIN a => {"msvc", "declspec"} \subseteq L
    BY <1>2, <1>3, <1>5, SpeaksTold DEF defined
<1>11. defined(a, GnuNames) \/ "_MSC_VER" \notin DOMAIN a => {"gnu", "c99"} \subseteq L
  <2>1. defined(a, GnuNames) => defined(p, GnuNames)
    BY <1>3, <1>5 DEF defined
  <2>2. "_MSC_VER" \notin DOMAIN a => ~defined(p, {"_MSC_VER"})
    BY <1>3, <1>5 DEF defined
  <2>3. QED
    BY <1>2, <2>1, <2>2, SpeaksTold
<1>12. "PCTK_OS_WIN32" \in DOMAIN a \/ Is(a, "MINGW") => "declspec" \in L
  <2>1. "PCTK_OS_WIN32" \in DOMAIN a => defined(p, WindowsNames)
    BY <1>1, WindowsTold DEF Same
  <2>2. Is(a, "MINGW") => defined(p, WindowsNames)
    BY CompilersKnown DEF WindowsNames, defined
  <2>3. QED
    BY <1>2, <2>1, <2>2, SpeaksTold
<1>13. Speaks11(p) => "cxx11" \in L
    BY <1>2, SpeaksTold
<1>14. value(a, "__cplusplus") >= 201103 => "cxx11" \in L
  <2>1. Same(p, a, "__cplusplus")
    BY <1>1, <1>3
  <2>2. value(a, "__cplusplus") = value(p, "__cplusplus")
    BY <2>1 DEF Same, value
  <2>3. QED
    BY <1>13, <2>2, SMT DEF Speaks11
<1>15. \A f \in KeywordFeatures : value(a, Feature(f)) = 1 => "cxx11" \in L
    BY <1>7, <1>13, FeaturesSpoken
<1>16. QED
    BY <1>6, <1>7, <1>8, <1>9, <1>10, <1>11, <1>12, <1>14, <1>15 DEF Talks

(* Every macro but lacks expands to one of the languages.                  *)
Within(f, languages, lacks) == \A x \in DOMAIN f \ lacks : f[x] \in languages

LEMMA WithinAs ==
    ASSUME NEW names, NEW language, NEW languages, NEW lacks, names # {} => language \in languages
    PROVE  Within(As(names, language), languages, lacks)
    BY DEF Within, As

LEMMA WithinJoin ==
    ASSUME NEW f, NEW g, NEW languages, NEW lacks, Within(f, languages, lacks),
           Within(g, languages, lacks)
    PROVE  Within(Join(f, g), languages, lacks)
    BY DEF Within, Join, DefineAs

LEMMA WithinNothing == \A languages, lacks : Within(<< >>, languages, lacks)
    BY DEF Within

LEMMA IfWithin ==
    ASSUME NEW condition, NEW language, NEW languages, "plain" \in languages,
           condition => language \in languages
    PROVE  If(condition, language) \in languages
    BY DEF If

(* The conditions of pctkMacros.h, and what who satisfies them understands.*)
LEMMA TalksGnu ==
    ASSUME NEW a, NEW languages, Talks(a, languages),
           \/ defined(a, GnuNames)
           \/ \E major \in Nat \ {0} : \E minor : GnucCheckVersion(a, major, minor)
           \/ XlcOrSun(a)
           \/ \E n : HasAttribute(a, n)
           \/ \E n : Has(a, "feature", n)
           \/ Is(a, "GNU") \/ Is(a, "CLANG")
           \/ "_MSC_VER" \notin DOMAIN a
    PROVE  "gnu" \in languages /\ "c99" \in languages
<1>1. \A x \in GnuNames : x \in DOMAIN a => defined(a, GnuNames)
    BY DEF defined
<1>2. {"__GNUC__", "__clang__", "__xlC__", "__SUNPRO_CC"} \subseteq GnuNames
    BY DEF GnuNames
<1>3. \A x : value(a, x) # 0 => x \in DOMAIN a
    BY DEF value
<1>4. ASSUME NEW major \in Nat \ {0}, NEW minor, GnucCheckVersion(a, major, minor)
      PROVE  "__GNUC__" \in DOMAIN a
    BY <1>3, <1>4, SMT DEF GnucCheckVersion
<1>5. ASSUME XlcOrSun(a)
      PROVE  "__xlC__" \in DOMAIN a \/ "__SUNPRO_CC" \in DOMAIN a
    BY <1>3, <1>5, SMT DEF XlcOrSun
<1>6. ASSUME NEW what \in {"attribute", "feature"}, NEW n, Has(a, what, n)
      PROVE  defined(a, GnuNames)
  <2>1. "__has_" \o what \in GnuNames
    BY DEF GnuNames
  <2>2. "__has_" \o what \in DOMAIN a
    BY <1>6 DEF Has, defined
  <2>3. QED
    BY <1>1, <2>1, <2>2
<1>7. defined(a, GnuNames) \/ "_MSC_VER" \notin DOMAIN a
    BY <1>1, <1>2, <1>4, <1>5, <1>6 DEF HasAttribute, Talks
<1>8. QED
    BY <1>7 DEF Talks

LEMMA TalksMsvc ==
    ASSUME NEW a, NEW languages, Talks(a, languages),
           (\E version : Msvc(a, version)) \/ defined(a, {"_MSC_VER"}) \/ Is(a, "MSVC")
    PROVE  "msvc" \in languages /\ "declspec" \in languages
    BY DEF Talks, Msvc, defined

(* It is C++, which has no version of the standard of C.                   *)
LEMMA TalksCxx ==
    ASSUME NEW a, NEW languages, Talks(a, languages)
    PROVE  /\ ~C11(a) /\ ~defined(a, {"__STDC_VERSION__"}) /\ Cpp98(a)
           /\ ~(value(a, "__STDC_VERSION__") >= 199901)
    BY SMT DEF Talks, C11, defined, Cpp98, value

(* A version that is known is one of a compiler that is known.             *)
LEMMA VersionIs ==
    ASSUME NEW a, NEW name, NEW number \in Nat \ {0}, Version(a, name) >= number
    PROVE  Is(a, name)
<1> DEFINE x == "PCTK_CC_" \o name
<1>1. value(a, x) >= number
    BY DEF Version
<1>2. x \in DOMAIN a => Is(a, name)
    BY DEF Is, defined
<1> HIDE DEF x
<1>3. x \in DOMAIN a
    BY <1>1, SMT DEF value
<1>4. QED
    BY <1>2, <1>3

LEMMA KeywordsWithin ==
    ASSUME NEW a, NEW languages, Talks(a, languages), NEW lacks
    PROVE  Within(Keywords(a), languages, lacks) /\ Within(AlignOf(a), languages, lacks)
<1> DEFINE names == [NULLPTR |-> {"NULLPTR"}, CONSTEXPR |-> {"CONSTEXPR", "RELAXED_CONSTEXPR"},
                     EXPLICIT_OVERRIDES |-> {"OVERRIDE", "FINAL"},
                     NOEXCEPT |-> {"NOEXCEPT", "NOEXCEPT_EXPR", "NOTHROW"},
                     DEFAULT_MEMBERS |-> {"EPCTK_DEFAULT", "EPCTK_DEFAULT_FUNC"},
                     DELETE_MEMBERS |-> {"EPCTK_DELETE", "EPCTK_DELETE_FUNC"},
                     ALIGNAS |-> {"ALIGN"}, RVALUE_REFS |-> {"DISABLE_MOVE"}]
           has == {g \in DOMAIN names : value(a, Feature(g)) = 1}
           given == UNION {names[f] : f \in has}
           all == As(UNION {names[f] : f \in DOMAIN names}, "plain")
<1>1. Keywords(a) = Join(all, As(given, "cxx11"))
    BY DEF Keywords
<1>2. DOMAIN names \subseteq KeywordFeatures
    BY DEF KeywordFeatures
<1> HIDE DEF names
<1>3. given # {} => "cxx11" \in languages
    BY <1>2 DEF Talks
<1>4. "plain" \in languages
    BY DEF Talks
<1>5. Within(As(given, "cxx11"), languages, lacks)
    BY <1>3, WithinAs
<1>6. Within(all, languages, lacks)
    BY <1>4, WithinAs
<1> HIDE DEF given, all
<1>7. Within(Keywords(a), languages, lacks)
    BY <1>1, <1>5, <1>6, WithinJoin
<1>8. Within(AlignOf(a), languages, lacks)
  <2>1. "ALIGNOF" \in KeywordFeatures
    BY DEF KeywordFeatures
  <2>2. CASE value(a, Feature("ALIGNOF")) = 1
    <3>1. "cxx11" \in languages
      BY <2>1, <2>2 DEF Talks
    <3>2. QED
      BY <2>2, <3>1, WithinAs DEF AlignOf
  <2>3. CASE value(a, Feature("ALIGNOF")) # 1 /\ defined(a, {"_MSC_VER"})
    <3>1. AlignOf(a) = As({"ALIGNOF"}, "msvc")
      BY <2>3, TalksCxx DEF AlignOf
    <3>2. QED
      BY <2>3, <3>1, TalksMsvc, WithinAs
  <2>4. CASE value(a, Feature("ALIGNOF")) # 1 /\ ~defined(a, {"_MSC_VER"})
    <3>1. "gnu" \in languages
      BY <2>4, TalksGnu DEF defined
    <3>2. \/ AlignOf(a) = As({"ALIGNOF"}, "gnu")
          \/ AlignOf(a) = [x \in {"UTK_C_ALIGNOF"} |-> "gnu"]
          \/ AlignOf(a) = As({"ALIGNOF"}, "plain")
      BY <2>4, TalksCxx DEF AlignOf
    <3>3. Within([x \in {"UTK_C_ALIGNOF"} |-> "gnu"], languages, lacks)
      BY <3>1 DEF Within
    <3>4. QED
      BY <1>4, <3>1, <3>2, <3>3, WithinAs
  <2>5. QED
    BY <2>2, <2>3, <2>4
<1>9. QED
    BY <1>7, <1>8

LEMMA StaticAssertWithin ==
    ASSUME NEW a, NEW languages, Talks(a, languages), FeatureBits(a)
    PROVE  Within(StaticAssert(a), languages,
                  IF a[Feature("STATIC_ASSERT")] = 1 THEN {} ELSE Cxx98Lacks)
<1>1. StaticAssert(a) = As({"STATIC_ASSERT", "STATIC_ASSERT_X"}, "cxx11")
    BY TalksCxx DEF StaticAssert
<1>2. CASE a[Feature("STATIC_ASSERT")] = 1
  <2>1. "STATIC_ASSERT" \in KeywordFeatures /\ "STATIC_ASSERT" \in Defaulted
    BY DEF KeywordFeatures, Defaulted
  <2>2. value(a, Feature("STATIC_ASSERT")) = 1
    BY <1>2, <2>1 DEF FeatureBits, value
  <2>3. "cxx11" \in languages
    BY <2>1, <2>2 DEF Talks
  <2>4. QED
    BY <1>1, <2>3, WithinAs
<1>3. CASE a[Feature("STATIC_ASSERT")] # 1
  <2>1. \A n \in {"STATIC_ASSERT", "STATIC_ASSERT_X"} : "PCTK_" \o n \in Cxx98Lacks
    BY SpellingsNamed DEF Cxx98Lacks
  <2>2. DOMAIN StaticAssert(a) \subseteq Cxx98Lacks
    BY <1>1, <2>1 DEF As
  <2>3. QED
    BY <1>3, <2>2 DEF Within
<1>4. QED
    BY <1>2, <1>3

LEMMA StatementsWithin ==
    ASSUME NEW a, NEW languages, Talks(a, languages), NEW lacks
    PROVE  Within(Statements(a), languages, lacks)
<1> DEFINE strfunc == IF value(a, "__STDC_VERSION__") >= 199901 THEN "c99"
                      ELSE IF defined(a, {"__GNUC__"}) THEN "gnu"
                      ELSE If(Msvc(a, 1301), "msvc")
           optimized == Version(a, "GNU") >= 200 /\ defined(a, {"__OPTIMIZE__"})
           new == Msvc(a, 1500)
           newer == Msvc(a, 1301)
           end == As({"STMT_END"}, If(new, "msvc"))
           func == As({"STRFUNC"}, strfunc)
           likely == As({"LIKELY", "UNLIKELY"}, If(optimized, "gnu"))
<1>1. Statements(a) = Join(Join(end, func), likely)
    BY SMT DEF Statements
<1>2. "plain" \in languages
    BY DEF Talks
<1>3. new \/ newer => "msvc" \in languages
    BY TalksMsvc
<1>4. optimized => "gnu" \in languages
    BY VersionIs, TalksGnu, SMT
<1>5. defined(a, {"__GNUC__"}) => "gnu" \in languages
  <2>1. "__GNUC__" \in GnuNames
    BY DEF GnuNames
  <2>2. QED
    BY <2>1, TalksGnu DEF defined
<1>6. strfunc \in languages
  <2>1. strfunc = IF defined(a, {"__GNUC__"}) THEN "gnu" ELSE If(newer, "msvc")
    BY TalksCxx, SMT
  <2>2. If(newer, "msvc") \in languages
    BY <1>2, <1>3, SMT DEF If
  <2>3. QED
    BY <1>5, <2>1, <2>2
<1>7. If(new, "msvc") \in languages /\ If(optimized, "gnu") \in languages
    BY <1>2, <1>3, <1>4, SMT DEF If
<1> HIDE DEF strfunc, optimized, new, newer
<1>8. Within(end, languages, lacks) /\ Within(func, languages, lacks) /\ Within(likely, languages, lacks)
    BY <1>6, <1>7, WithinAs
<1> HIDE DEF end, func, likely
<1>9. QED
    BY <1>1, <1>8, WithinJoin

LEMMA DeclarationsWithin ==
    ASSUME NEW a, NEW languages, Talks(a, languages), NEW lacks
    PROVE  /\ Within(TypeOf(a), languages, lacks) /\ Within(CAlignOf(a), languages, lacks)
           /\ Within(CStaticAssert(a), languages, lacks) /\ Within(Visibility(a), languages, lacks)
           /\ Within(ExternVar(a), languages, lacks) /\ Within(Inline(a), languages, lacks)
           /\ Within(Extension(a), languages, lacks) /\ Within(Aligned(a), languages, lacks)
<1>1. "plain" \in languages
    BY DEF Talks
<1>2. defined(a, {"__GNUC__"}) \/ defined(a, {"__clang__"}) => "gnu" \in languages
  <2>1. "__GNUC__" \in GnuNames /\ "__clang__" \in GnuNames
    BY DEF GnuNames
  <2>2. QED
    BY <2>1, TalksGnu DEF defined
<1>3. Within(TypeOf(a), languages, lacks)
  <2> DEFINE known == GnucCheckVersion(a, 4, 8) \/ defined(a, {"__clang__"}) \/ XlcOrSun(a)
  <2>1. GnucCheckVersion(a, 4, 8) \/ XlcOrSun(a) => "gnu" \in languages
    BY TalksGnu, SMT
  <2>2. known => "gnu" \in languages
    BY <1>2, <2>1
  <2>3. TypeOf(a) = As({"TYPEOF"}, If(known, "gnu"))
    BY DEF TypeOf
  <2> HIDE DEF known
  <2>4. If(known, "gnu") \in languages
    BY <1>1, <2>2 DEF If
  <2>5. QED
    BY <2>3, <2>4, WithinAs
<1>4. Within(CAlignOf(a), languages, lacks)
  <2> DEFINE known == defined(a, {"__GNUC__"}) \/ XlcOrSun(a)
             language == IF defined(a, {"_MSC_VER"}) THEN "msvc" ELSE If(known, "gnu")
  <2>1. CAlignOf(a) = As({"C_ALIGNOF"}, language)
    BY TalksCxx DEF CAlignOf
  <2>2. known => "gnu" \in languages
    BY <1>2, TalksGnu
  <2> HIDE DEF known
  <2>3. If(known, "gnu") \in languages
    BY <1>1, <2>2 DEF If
  <2>4. language \in languages
    BY <2>3, TalksMsvc
  <2> HIDE DEF language
  <2>5. QED
    BY <2>1, <2>4, WithinAs
<1>5. Within(CStaticAssert(a), languages, lacks)
  <2>1. CStaticAssert(a) = << >> \/ CStaticAssert(a) = As({"C_STATIC_ASSERT", "C_STATIC_ASSERT_X"}, "plain")
    BY TalksCxx DEF CStaticAssert, If
  <2>2. QED
    BY <1>1, <2>1, WithinAs, WithinNothing
<1>6. Within(Visibility(a), languages, lacks)
  <2> DEFINE windows == Is(a, "MINGW") \/ Is(a, "MSVC")
             gnu == Version(a, "GNU") > 400 \/ Is(a, "CLANG")
             export == IF windows THEN "declspec" ELSE If(gnu, "gnu")
             hidden == If(~windows /\ gnu, "gnu")
  <2>1. Visibility(a) = Join(As({"DECL_EXPORT", "DECL_IMPORT"}, export), As({"DECL_HIDDEN"}, hidden))
    BY DEF Visibility
  <2>2. windows => "declspec" \in languages
    BY TalksMsvc DEF Talks
  <2>3. gnu => "gnu" \in languages
    <3>1. Version(a, "GNU") > 400 => Is(a, "GNU")
      <4>1. \A x : value(a, x) > 400 => x \in DOMAIN a
        BY SMT DEF value
      <4>2. QED
        BY <4>1 DEF Version, Is, defined
    <3>2. QED
      BY <3>1, TalksGnu
  <2> HIDE DEF windows, gnu
  <2>4. export \in languages /\ hidden \in languages
    BY <1>1, <2>2, <2>3 DEF If
  <2> HIDE DEF export, hidden
  <2>5. QED
    BY <2>1, <2>4, WithinAs, WithinJoin
<1>7. Within(ExternVar(a), languages, lacks)
  <2> DEFINE shared == defined(a, {"PCTK_OS_WIN32"}) /\ defined(a, {"PCTK_SHARED"})
  <2>1. ExternVar(a) = As({"EXTERN_VAR"}, If(shared, "declspec"))
    BY DEF ExternVar
  <2>2. shared => "declspec" \in languages
    BY DEF Talks, defined
  <2> HIDE DEF shared
  <2>3. If(shared, "declspec") \in languages
    BY <1>1, <2>2 DEF If
  <2>4. QED
    BY <2>1, <2>3, WithinAs
<1>8. Within(Inline(a), languages, lacks)
  <2> DEFINE inline == {"FORCE_INLINE", "ALWAYS_INLINE"}
             All3(language) == As(inline \cup {"NO_INLINE"}, language)
             mixed == Join(As(inline, "gnu"), As({"NO_INLINE"}, "plain"))
  <2>1. Is(a, "MSVC") => Within(All3("msvc"), languages, lacks)
    BY TalksMsvc, WithinAs
  <2>2. Is(a, "GNU") => Within(All3("gnu"), languages, lacks)
    BY TalksGnu, WithinAs
  <2>3. Is(a, "CLANG") => Within(mixed, languages, lacks)
    <3>1. Is(a, "CLANG") => "gnu" \in languages
      BY TalksGnu
    <3>2. QED
      BY <1>1, <3>1, WithinAs, WithinJoin
  <2>4. Within(All3("plain"), languages, lacks)
    BY <1>1, WithinAs
  <2>5. \/ Is(a, "MSVC") /\ Inline(a) = All3("msvc")
        \/ Is(a, "GNU") /\ Inline(a) = All3("gnu")
        \/ Is(a, "CLANG") /\ Inline(a) = mixed
        \/ Inline(a) = All3("plain")
    BY DEF Inline
  <2>6. QED
    BY <2>1, <2>2, <2>3, <2>4, <2>5
<1>9. Within(Extension(a), languages, lacks)
  <2> DEFINE known == GnucCheckVersion(a, 2, 8)
  <2>1. Extension(a) = As({"EXTENSION"}, If(known, "gnu"))
    BY DEF Extension
  <2>2. known => "gnu" \in languages
    BY TalksGnu, SMT
  <2> HIDE DEF known
  <2>3. If(known, "gnu") \in languages
    BY <1>1, <2>2 DEF If
  <2>4. QED
    BY <2>1, <2>3, WithinAs
<1>10. Within(Aligned(a), languages, lacks)
  <2> DEFINE known == Is(a, "GNU")
  <2>1. Aligned(a) = As({"ATTR_ALIGNED"}, If(known, "gnu"))
    BY DEF Aligned
  <2>2. known => "gnu" \in languages
    BY TalksGnu
  <2> HIDE DEF known
  <2>3. If(known, "gnu") \in languages
    BY <1>1, <2>2 DEF If
  <2>4. QED
    BY <2>1, <2>3, WithinAs
<1>11. QED
    BY <1>3, <1>4, <1>5, <1>6, <1>7, <1>8, <1>9, <1>10

LEMMA ToldWithin ==
    ASSUME NEW a, NEW languages, Talks(a, languages), NEW lacks, NEW names, NEW n
    PROVE  Within(As(names, If(HasAttribute(a, n), "gnu")), languages, lacks)
<1> DEFINE has == HasAttribute(a, n)
<1>1. "plain" \in languages
    BY DEF Talks
<1>2. has => "gnu" \in languages
    BY TalksGnu
<1> HIDE DEF has
<1>3. If(has, "gnu") \in languages
    BY <1>1, <1>2 DEF If
<1>4. Within(As(names, If(has, "gnu")), languages, lacks)
    BY <1>3, WithinAs
<1>5. QED
    BY <1>4 DEF has

LEMMA AttributesWithin ==
    ASSUME NEW a, NEW languages, Talks(a, languages), NEW lacks
    PROVE  /\ Within(FunctionAttributes(a), languages, lacks)
           /\ Within(FormatAttributes(a), languages, lacks)
           /\ Within(OtherAttributes(a), languages, lacks)
           /\ Within(TypeAttributes(a), languages, lacks)
<1>1. "plain" \in languages
    BY DEF Talks
<1>2. Within(FunctionAttributes(a), languages, lacks)
  <2> DEFINE attribute == [ATTR_PURE |-> "__pure__", ATTR_MALLOC |-> "__malloc__",
                      ATTR_NULL_TERMINATED |-> "__sentinel__", ATTR_ALLOC_SIZE |-> "__alloc_size__",
                      ATTR_ALLOC_SIZE2 |-> "__alloc_size__"]
             names == {"PCTK_" \o n : n \in DOMAIN attribute}
             Has1(x) == \E n \in DOMAIN attribute : x = "PCTK_" \o n /\ HasAttribute(a, attribute[n])
  <2>1. FunctionAttributes(a) = [x \in names |-> If(Has1(x), "gnu")]
    BY DEF FunctionAttributes
  <2>2. \A x : Has1(x) => "gnu" \in languages
    BY TalksGnu
  <2> HIDE DEF Has1, names
  <2>3. \A x : If(Has1(x), "gnu") \in languages
    BY <1>1, <2>2 DEF If
  <2>4. QED
    BY <2>1, <2>3 DEF Within
<1>3. Within(FormatAttributes(a), languages, lacks)
    BY ToldWithin, WithinJoin DEF FormatAttributes
<1>4. Within(OtherAttributes(a), languages, lacks)
    BY ToldWithin, WithinJoin DEF OtherAttributes
<1>5. Within(TypeAttributes(a), languages, lacks)
    BY ToldWithin, WithinJoin DEF TypeAttributes
<1>6. QED
    BY <1>2, <1>3, <1>4, <1>5

LEMMA NoReturnWithin ==
    ASSUME NEW a, NEW languages, Talks(a, languages), NEW lacks
    PROVE  Within(NoReturn(a), languages, lacks)
<1> DEFINE names == {"ATTR_NORETURN", "ATTR_NORETURN_FUNCPTR"}
           new == value(a, "__cplusplus") >= 201103
           own == IF HasAttribute(a, "__noreturn__") THEN As(names, "gnu")
                  ELSE IF Msvc(a, 1200) THEN As(names, "msvc")
                  ELSE IF new THEN As(names, "cxx11")
                  ELSE << >>
           first == As({"ATTR_NORETURN"}, "plain")
           pointer == As({"ATTR_NORETURN_FUNCPTR"}, "plain")
<1>1. NoReturn(a) = Join(first, Join(pointer, own))
    BY TalksCxx, SMT DEF NoReturn, If
<1>2. "plain" \in languages /\ (new => "cxx11" \in languages)
    BY DEF Talks
<1> HIDE DEF new
<1>3. HasAttribute(a, "__noreturn__") => "gnu" \in languages
    BY TalksGnu
<1>4. Msvc(a, 1200) => "msvc" \in languages
    BY TalksMsvc
<1> HIDE DEF names
<1>5. \/ own = As(names, "gnu") /\ "gnu" \in languages
      \/ own = As(names, "msvc") /\ "msvc" \in languages
      \/ own = As(names, "cxx11") /\ "cxx11" \in languages
      \/ own = << >>
    BY <1>2, <1>3, <1>4
<1> HIDE DEF own
<1>6. Within(own, languages, lacks)
    BY <1>5, WithinAs, WithinNothing
<1>7. Within(first, languages, lacks) /\ Within(pointer, languages, lacks)
    BY <1>2, WithinAs
<1> HIDE DEF first, pointer
<1>8. QED
    BY <1>1, <1>6, <1>7, WithinJoin

(* Both names of Deprecated have the language it is written in.            *)
LEMMA DeprecatedWithin ==
    ASSUME NEW a, NEW languages, Talks(a, languages), NEW lacks
    PROVE  Within(Deprecated(a), languages, lacks) /\ Within(DeprecatedFor(a), languages, lacks)
<1> DEFINE names == {"ATTR_DEPRECATED", "ATTR_DEPRECATED_X"}
           gnu == \/ GnucCheckVersion(a, 3, 1) \/ defined(a, {"__clang__"})
                  \/ HasAttribute(a, "__deprecated__")
           msvc == Msvc(a, 1300)
           intel == Version(a, "INTEL") >= 1300 /\ ~defined(a, {"__APPLE__"})
           language == IF gnu THEN "gnu" ELSE IF msvc THEN "msvc" ELSE If(intel, "gnu")
           since == GnucCheckVersion(a, 4, 5) \/ defined(a, {"__clang__"})
           other == Deprecated(a)["PCTK_ATTR_DEPRECATED"]
<1>1. Deprecated(a) = As(names, language)
    BY DEF Deprecated
<1>2. "plain" \in languages
    BY DEF Talks
<1>3. defined(a, {"__clang__"}) => "gnu" \in languages
  <2>1. "__clang__" \in GnuNames
    BY DEF GnuNames
  <2>2. QED
    BY <2>1, TalksGnu DEF defined
<1>4. GnucCheckVersion(a, 3, 1) \/ GnucCheckVersion(a, 4, 5) => "gnu" \in languages
    BY TalksGnu, SMT
<1>5. (gnu => "gnu" \in languages) /\ (since => "gnu" \in languages)
    BY <1>3, <1>4, TalksGnu
<1>6. msvc => "msvc" \in languages
    BY TalksMsvc
<1>7. intel => "gnu" \in languages
  <2>1. intel => Is(a, "INTEL")
    BY VersionIs, SMT
  <2>2. intel => "_MSC_VER" \notin DOMAIN a
    BY <2>1 DEF Talks
  <2>3. QED
    BY <2>2, TalksGnu
<1> HIDE DEF gnu, msvc, intel, since
<1>8. language \in languages
    BY <1>2, <1>5, <1>6, <1>7 DEF If
<1> HIDE DEF language
<1>9. Within(Deprecated(a), languages, lacks)
    BY <1>1, <1>8, WithinAs
<1>10. other \in languages
  <2>1. "PCTK_" \o "ATTR_DEPRECATED" = "PCTK_ATTR_DEPRECATED"
    BY SpellingsNamed
  <2>2. QED
    BY <1>1, <1>8, <2>1 DEF As
<1>11. DeprecatedFor(a) = As({"ATTR_DEPRECATED_FOR"}, IF since THEN "gnu" ELSE other)
    BY DEF DeprecatedFor, since
<1> HIDE DEF other
<1>12. Within(DeprecatedFor(a), languages, lacks)
    BY <1>5, <1>10, <1>11, WithinAs
<1>13. QED
    BY <1>9, <1>12

(* There is a pragma, as no compiler is Intel's and Microsoft's at once.   *)
LEMMA PragmaWithin ==
    ASSUME NEW a, NEW languages, Talks(a, languages), NEW lacks
    PROVE  Within(Pragma(a), languages, lacks) /\ Within(Warnings(a), languages, lacks)
<1> DEFINE language == IF defined(a, {"_MSC_VER"}) THEN "msvc" ELSE "c99"
           pragma == IF Pragma(a) = << >> THEN "undefined" ELSE Pragma(a)["PCTK_PRAGMA"]
           known == Is(a, "INTEL") \/ Is(a, "MSVC") \/ Is(a, "CLANG") \/ Version(a, "GNU") >= 406
           floats == known /\ (Is(a, "INTEL") \/ ~Is(a, "MSVC"))
           offsets == ~Is(a, "INTEL") /\ ~Is(a, "MSVC")
           always == As({"WARNING_PUSH", "WARNING_POP", "WARNING_DISABLE_DEPRECATED",
                         "IGNORE_DEPRECATIONS"}, If(known, pragma))
           float == As({"WARNING_DISABLE_FLOAT_COMPARE"}, If(floats, pragma))
           offset == As({"WARNING_DISABLE_INVALID_OFFSETOF"}, If(offsets, pragma))
<1>1. "plain" \in languages
    BY DEF Talks
<1>2. language \in languages
    BY TalksGnu, TalksMsvc DEF defined
<1>3. Pragma(a) = As({"PRAGMA"}, language)
    BY DEF Pragma, Talks
<1>4. pragma = language
  <2>1. "PCTK_" \o "PRAGMA" = "PCTK_PRAGMA"
    BY SpellingsNamed
  <2>2. "PCTK_PRAGMA" \in DOMAIN Pragma(a) /\ Pragma(a)["PCTK_PRAGMA"] = language
    BY <1>3, <2>1 DEF As
  <2>3. DOMAIN << >> = {}
    OBVIOUS
  <2>4. Pragma(a) # << >>
    BY <2>2, <2>3
  <2>5. QED
    BY <2>2, <2>4
<1>5. Warnings(a) = Join(always, Join(float, IF ~known THEN << >> ELSE offset))
    BY DEF Warnings
<1> HIDE DEF language, pragma, known, floats, offsets
<1>6. Within(Pragma(a), languages, lacks)
    BY <1>2, <1>3, WithinAs
<1>7. If(known, pragma) \in languages /\ If(floats, pragma) \in languages
      /\ If(offsets, pragma) \in languages
    BY <1>1, <1>2, <1>4 DEF If
<1>8. Within(always, languages, lacks) /\ Within(float, languages, lacks)
      /\ Within(offset, languages, lacks)
    BY <1>7, WithinAs
<1> HIDE DEF always, float, offset
<1>9. Within(Warnings(a), languages, lacks)
    BY <1>5, <1>8, WithinJoin, WithinNothing
<1>10. QED
    BY <1>6, <1>9

LEMMA RestWithin ==
    ASSUME NEW a, NEW languages, Talks(a, languages), NEW lacks
    PROVE  /\ Within(IgnoreDeprecations(a), languages, lacks)
           /\ Within(Analyzer(a), languages, lacks)
           /\ Within(Constructors(a), languages, lacks)
<1>1. "plain" \in languages
    BY DEF Talks
<1>2. \A x \in {"__ICC", "__clang__", "__COVERITY__", "__SUNPRO_C"} :
          defined(a, {x}) => "gnu" \in languages /\ "c99" \in languages
  <2>1. {"__ICC", "__clang__", "__COVERITY__", "__SUNPRO_C"} \subseteq GnuNames
    BY DEF GnuNames
  <2>2. QED
    BY <2>1, TalksGnu DEF defined
<1>3. GnucCheckVersion(a, 4, 6) \/ GnucCheckVersion(a, 2, 7) => "gnu" \in languages /\ "c99" \in languages
    BY TalksGnu, SMT
<1>4. Msvc(a, 1500) \/ defined(a, {"_MSC_VER"}) => "msvc" \in languages
    BY TalksMsvc
<1>5. Within(IgnoreDeprecations(a), languages, lacks)
  <2> DEFINE icc == defined(a, {"__ICC"}) \/ GnucCheckVersion(a, 4, 6)
             msvc == Msvc(a, 1500) /\ ~defined(a, {"__clang__"})
             clang == defined(a, {"__clang__"})
             language == IF icc THEN "c99" ELSE IF msvc THEN "msvc" ELSE If(clang, "c99")
  <2>1. IgnoreDeprecations(a) = As({"BEGIN_IGNORE_DEPRECATIONS", "END_IGNORE_DEPRECATIONS"}, language)
    BY DEF IgnoreDeprecations
  <2>2. (icc => "c99" \in languages) /\ (msvc => "msvc" \in languages) /\ (clang => "c99" \in languages)
    BY <1>2, <1>3, <1>4
  <2> HIDE DEF icc, msvc, clang
  <2>3. language \in languages
    BY <1>1, <2>2 DEF If
  <2> HIDE DEF language
  <2>4. QED
    BY <2>1, <2>3, WithinAs
<1>6. Within(Analyzer(a), languages, lacks)
  <2> DEFINE known == \/ Has(a, "feature", "attribute_analyzer_noreturn") /\ defined(a, {"__clang_analyzer__"})
                      \/ defined(a, {"__COVERITY__"})
  <2>1. Analyzer(a) = As({"ANALYZER_NORETURN"}, If(known, "gnu"))
    BY DEF Analyzer
  <2>2. known => "gnu" \in languages
    BY <1>2, TalksGnu
  <2> HIDE DEF known
  <2>3. If(known, "gnu") \in languages
    BY <1>1, <2>2 DEF If
  <2>4. QED
    BY <2>1, <2>3, WithinAs
<1>7. Within(Constructors(a), languages, lacks)
  <2> DEFINE names == {"DECL_CONSTRUCTOR", "DECL_DESTRUCTOR"}
  <2>1. \/ GnucCheckVersion(a, 2, 7) /\ Constructors(a) = As(names, "gnu")
        \/ defined(a, {"_MSC_VER"}) /\ Constructors(a) = As(names, "msvc")
        \/ defined(a, {"__SUNPRO_C"}) /\ Constructors(a) = As(names, "c99")
        \/ Constructors(a) = << >>
    BY DEF Constructors
  <2>2. QED
    BY <1>2, <1>3, <1>4, <2>1, WithinAs, WithinNothing
<1>8. QED
    BY <1>5, <1>6, <1>7

LEMMA SpellingsWithin ==
    ASSUME NEW a, NEW languages, Talks(a, languages), FeatureBits(a)
    PROVE  Within(Spellings(a), languages,
                  IF a[Feature("STATIC_ASSERT")] = 1 THEN {} ELSE Cxx98Lacks)
<1> DEFINE lacks == IF a[Feature("STATIC_ASSERT")] = 1 THEN {} ELSE Cxx98Lacks
           Fits(f) == Within(f, languages, lacks)
<1>1. \A f, g : Fits(f) /\ Fits(g) => Fits(Join(f, g))
    BY WithinJoin
<1>2. Fits(StaticAssert(a))
    BY StaticAssertWithin
<1> HIDE DEF lacks
<1>3. /\ Fits(Keywords(a)) /\ Fits(AlignOf(a)) /\ Fits(Statements(a))
      /\ Fits(TypeOf(a)) /\ Fits(CAlignOf(a)) /\ Fits(CStaticAssert(a)) /\ Fits(Visibility(a))
      /\ Fits(ExternVar(a)) /\ Fits(Inline(a)) /\ Fits(Extension(a)) /\ Fits(Aligned(a))
    BY KeywordsWithin, StatementsWithin, DeclarationsWithin
<1>4. /\ Fits(FunctionAttributes(a)) /\ Fits(FormatAttributes(a)) /\ Fits(OtherAttributes(a))
      /\ Fits(TypeAttributes(a)) /\ Fits(NoReturn(a)) /\ Fits(Deprecated(a)) /\ Fits(Pragma(a))
      /\ Fits(Warnings(a)) /\ Fits(DeprecatedFor(a)) /\ Fits(IgnoreDeprecations(a))
      /\ Fits(Analyzer(a)) /\ Fits(Constructors(a))
    BY AttributesWithin, NoReturnWithin, DeprecatedWithin, PragmaWithin, RestWithin
<1> HIDE DEF Fits
<1> DEFINE one == Join(Join(Join(Keywords(a), AlignOf(a)), Join(StaticAssert(a), Statements(a))),
                       Join(Join(TypeOf(a), CAlignOf(a)), Join(CStaticAssert(a), Visibility(a))))
           two == Join(Join(Join(ExternVar(a), Inline(a)), Join(Extension(a), Aligned(a))),
                       Join(Join(FunctionAttributes(a), FormatAttributes(a)),
                            Join(OtherAttributes(a), TypeAttributes(a))))
           three == Join(Join(Join(NoReturn(a), Deprecated(a)), Join(Pragma(a), Warnings(a))),
                         Join(Join(DeprecatedFor(a), IgnoreDeprecations(a)),
                              Join(Analyzer(a), Constructors(a))))
<1>5. Fits(one)
    BY <1>1, <1>2, <1>3
<1>6. Fits(two)
    BY <1>1, <1>3, <1>4
<1>7. Fits(three)
    BY <1>1, <1>4
<1>8. Spellings(a) = Join(one, Join(two, three))
    BY DEF Spellings
<1> HIDE DEF one, two, three
<1>9. Fits(Spellings(a))
    BY <1>1, <1>5, <1>6, <1>7, <1>8
<1>10. QED
    BY <1>9 DEF Fits, lacks

(* A macro of pctkMacros.h never expands to what the compiler does not     *)
(* understand, static assertions in C++98 aside, for any compiler that     *)
(* understands what its own macros say (pctkMacros.h:156).                 *)
THEOREM SpellingsAlwaysUnderstood == Spec => []SpellingsUnderstood
<1>1. ASSUME IncludesInv
      PROVE  SpellingsUnderstood
  <2> SUFFICES ASSUME Seen("_PCTKMACROS_H_")
               PROVE  SpellingsUnderstood
    BY DEF SpellingsUnderstood
  <2> DEFINE n == LevelOf(Range(includes))
             languages == target.understood \cup {"plain"}
             lacks == IF m[Feature("STATIC_ASSERT")] = 1 THEN {} ELSE Cxx98Lacks
  <2>1. target \in Targets /\ After(target, Range(includes), m)
    BY <1>1 DEF IncludesInv
  <2>2. ~Fails(m) /\ Guard(3) \in DOMAIN m
    BY DEF Seen, defined, Guard, GuardOf
  <2>3. Ready(target, 9, n, m)
    BY <2>1, <2>2 DEF After, Gives
  <2>4. n \in 3..9
    BY <2>2, <2>3, LevelRange DEF Ready
  <2> HIDE DEF n
  <2>5. Reached(target, n, m)
    BY <2>3 DEF Ready
  <2>6. Talks(m, languages)
    BY <2>1, <2>4, <2>5, TalksReached
  <2>7. FeatureBits(m)
    BY <2>1, <2>4, <2>5, BitsReached, SMT
  <2>8. Within(Spellings(m), languages, lacks)
    BY <2>6, <2>7, SpellingsWithin
  <2>9. QED
    BY <2>8 DEF Within, SpellingsUnderstood
<1>2. QED
    BY <1>1, IncludesAlways, PTL

-----------------------------------------------------------------------------
(* The types.  A type's declarators, the leading ones of heads left out.   *)
LEMMA StripIs ==
    ASSUME NEW S, NEW t \in Seq(S), NEW heads, NEW k \in 1..Len(t), t[k] \notin heads,
           \A j \in 1..(k - 1) : t[j] \in heads,
           NEW u \in Seq(S), Len(u) = Len(t) - k + 1, \A i \in 1..Len(u) : u[i] = t[k + i - 1]
    PROVE  Strip(t, heads) = u
<1> DEFINE P(i) == t[i + 1] \notin heads /\ \A j \in 1..i : t[j] \in heads
           n == CHOOSE i \in 0..(Len(t) - 1) : P(i)
<1>1. Len(t) \in Nat /\ Len(u) \in Nat
    BY LenProperties
<1>2. P(k - 1) /\ k - 1 \in 0..(Len(t) - 1)
    BY <1>1
<1>3. \A i \in 0..(Len(t) - 1) : P(i) => i = k - 1
    BY <1>1
<1>4. n = k - 1
  <2> HIDE DEF P
  <2>1. QED
    BY <1>2, <1>3
<1>5. Strip(t, heads) = SubSeq(t, n + 1, Len(t))
    BY DEF Strip
<1> HIDE DEF n, P
<1>6. Strip(t, heads) = SubSeq(t, k, Len(t))
    BY <1>4, <1>5
<1>7. \A i \in k..Len(t) : t[i] \in S
    BY <1>1, ElementOfSeq
<1>8. /\ SubSeq(t, k, Len(t)) \in Seq(S) /\ Len(SubSeq(t, k, Len(t))) = Len(t) - k + 1
      /\ \A i \in 1..(Len(t) - k + 1) : SubSeq(t, k, Len(t))[i] = t[k + i - 1]
    BY <1>1, <1>7, SubSeqProperties
<1>9. SubSeq(t, k, Len(t)) = u
    BY <1>8, SeqEqual
<1>10. QED
    BY <1>6, <1>9

LEMMA StripOne == ASSUME NEW a, NEW heads, a \notin heads PROVE Strip(<<a>>, heads) = <<a>>
<1> DEFINE t == <<a>>
<1>1. t \in Seq({a}) /\ Len(t) = 1 /\ t[1] = a
    OBVIOUS
<1> HIDE DEF t
<1>2. \A i \in 1..Len(t) : t[i] = t[1 + i - 1]
    BY <1>1
<1>3. Strip(t, heads) = t
    BY <1>1, <1>2, StripIs
<1>4. QED
    BY <1>3 DEF t

LEMMA StripTwo ==
    ASSUME NEW a, NEW b, NEW heads, b \notin heads
    PROVE  Strip(<<a, b>>, heads) = IF a \in heads THEN <<b>> ELSE <<a, b>>
<1> DEFINE S == {a, b}
           t == <<a, b>>
           u == <<b>>
<1>1. t \in Seq(S) /\ t[1] = a /\ t[2] = b /\ Len(t) = 2
    OBVIOUS
<1>2. u \in Seq(S) /\ Len(u) = 1 /\ u[1] = b
    OBVIOUS
<1> HIDE DEF t, u, S
<1>3. CASE a \notin heads
  <2>1. \A i \in 1..Len(t) : t[i] = t[1 + i - 1]
    BY <1>1
  <2>2. Strip(t, heads) = t
    BY <1>1, <1>3, <2>1, StripIs
  <2>3. QED
    BY <1>3, <2>2 DEF t
<1>4. CASE a \in heads
  <2>1. \A i \in 1..Len(u) : u[i] = t[2 + i - 1]
    BY <1>1, <1>2
  <2>2. \A j \in 1..(2 - 1) : t[j] \in heads
    BY <1>1, <1>4
  <2>3. 2 \in 1..Len(t) /\ t[2] \notin heads /\ Len(u) = Len(t) - 2 + 1
    BY <1>1, <1>2
  <2>4. Strip(t, heads) = u
    BY <1>1, <1>2, <2>1, <2>2, <2>3, StripIs
  <2>5. QED
    BY <1>4, <2>4 DEF t, u
<1>5. QED
    BY <1>3, <1>4

LEMMA StripThree ==
    ASSUME NEW a, NEW b, NEW c, NEW heads, c \notin heads
    PROVE  Strip(<<a, b, c>>, heads) =
               IF a \notin heads THEN <<a, b, c>> ELSE IF b \notin heads THEN <<b, c>> ELSE <<c>>
<1> DEFINE S == {a, b, c}
           t == <<a, b, c>>
           u == <<b, c>>
           v == <<c>>
<1>1. t \in Seq(S) /\ t[1] = a /\ t[2] = b /\ t[3] = c /\ Len(t) = 3
    OBVIOUS
<1>2. u \in Seq(S) /\ Len(u) = 2 /\ u[1] = b /\ u[2] = c
    OBVIOUS
<1>3. v \in Seq(S) /\ Len(v) = 1 /\ v[1] = c
    OBVIOUS
<1> HIDE DEF t, u, v, S
<1>4. CASE a \notin heads
  <2>1. \A i \in 1..Len(t) : t[i] = t[1 + i - 1]
    BY <1>1
  <2>2. Strip(t, heads) = t
    BY <1>1, <1>4, <2>1, StripIs
  <2>3. QED
    BY <1>4, <2>2 DEF t
<1>5. CASE a \in heads /\ b \notin heads
  <2>1. \A i \in 1..Len(u) : u[i] = t[2 + i - 1]
    BY <1>1, <1>2
  <2>2. \A j \in 1..(2 - 1) : t[j] \in heads
    BY <1>1, <1>5
  <2>3. 2 \in 1..Len(t) /\ t[2] \notin heads /\ Len(u) = Len(t) - 2 + 1
    BY <1>1, <1>2, <1>5
  <2>4. Strip(t, heads) = u
    BY <1>1, <1>2, <2>1, <2>2, <2>3, StripIs
  <2>5. QED
    BY <1>5, <2>4 DEF t, u
<1>6. CASE a \in heads /\ b \in heads
  <2>1. \A i \in 1..Len(v) : v[i] = t[3 + i - 1]
    BY <1>1, <1>3
  <2>2. \A j \in 1..(3 - 1) : t[j] \in heads
    BY <1>1, <1>6
  <2>3. Strip(t, heads) = v
    BY <1>1, <1>3, <1>6, <2>1, <2>2, StripIs
  <2>4. QED
    BY <1>6, <2>3 DEF t, v
<1>7. QED
    BY <1>4, <1>5, <1>6

(* What a type may begin with, and the heads that are left out somewhere.  *)
Marks == {"const", "volatile", "*", "&", "[]", "pair"}
CV == {"const", "volatile"}
ConstArray == {"const", "[]"}
Arrays == {"[]"}
CVArray == {"const", "volatile", "[]"}

LEMMA MarkHeads ==
    /\ "const" \in CV /\ "volatile" \in CV /\ "*" \notin CV /\ "&" \notin CV /\ "[]" \notin CV
    /\ "const" \in ConstArray /\ "volatile" \notin ConstArray /\ "*" \notin ConstArray
    /\ "&" \notin ConstArray /\ "[]" \in ConstArray
    /\ "const" \notin Arrays /\ "volatile" \notin Arrays /\ "*" \notin Arrays
    /\ "&" \notin Arrays /\ "[]" \in Arrays
    /\ "const" \in CVArray /\ "volatile" \in CVArray /\ "*" \notin CVArray
    /\ "&" \notin CVArray /\ "[]" \in CVArray
    BY DEF CV, ConstArray, Arrays, CVArray

(* Types by their number of declarators.                                   *)
One(b) == <<b>>
Two(a, b) == <<a, b>>
Three(a, c, b) == <<a, c, b>>

LEMMA Strips ==
    ASSUME NEW b, b \notin Marks, NEW heads \in {CV, ConstArray, Arrays, CVArray}
    PROVE  /\ Strip(One(b), heads) = One(b)
           /\ \A a : Strip(Two(a, b), heads) = IF a \in heads THEN One(b) ELSE Two(a, b)
           /\ \A a, c : Strip(Three(a, c, b), heads) =
                 IF a \notin heads THEN Three(a, c, b) ELSE IF c \notin heads THEN Two(c, b) ELSE One(b)
<1>1. b \notin heads
    BY DEF Marks, CV, ConstArray, Arrays, CVArray
<1>2. Strip(<<b>>, heads) = <<b>>
    BY <1>1, StripOne
<1>3. ASSUME NEW a
      PROVE  Strip(<<a, b>>, heads) = IF a \in heads THEN <<b>> ELSE <<a, b>>
    BY <1>1, StripTwo
<1>4. ASSUME NEW a, NEW c
      PROVE  Strip(<<a, c, b>>, heads) =
                 IF a \notin heads THEN <<a, c, b>> ELSE IF c \notin heads THEN <<c, b>> ELSE <<b>>
    BY <1>1, StripThree
<1>5. QED
    BY <1>2, <1>3, <1>4 DEF One, Two, Three

(* T is what is left of t without its qualifiers, U of it without the      *)
(* arrays' as well, whichever of them are left out first.                  *)
Comes(t, T, U) ==
    /\ RemoveCV(t) = T /\ RemoveCV(T) = T /\ RemoveCV(U) = U
    /\ \A heads \in {ConstArray, Arrays, CVArray} :
          RemoveCV(Strip(t, heads)) = U /\ Head(Strip(t, heads)) # "pair"

LEMMA Begins ==
    \A a, b, c : /\ Head(One(b)) = b /\ Head(Two(a, b)) = a /\ Head(Three(a, c, b)) = a
                /\ Len(One(b)) = 1 /\ Len(Two(a, b)) = 2 /\ Len(Three(a, c, b)) = 3
                /\ One(b)[1] = b
    BY DEF One, Two, Three

LEMMA ComesQualified ==
    ASSUME NEW b, b \notin Marks,
           NEW t \in {One(b), Two("const", b), Two("volatile", b), Three("const", "volatile", b)}
    PROVE  Comes(t, One(b), One(b))
<1> DEFINE all == {One(b), Two("const", b), Two("volatile", b), Three("const", "volatile", b)}
<1>1. ASSUME NEW heads \in {CV, ConstArray, Arrays, CVArray}, NEW u \in all
      PROVE  Strip(u, heads) \in all
    BY Strips
<1>2. ASSUME NEW u \in all
      PROVE  Strip(u, CV) = One(b)
    BY Strips, MarkHeads
<1>3. \A u : RemoveCV(u) = Strip(u, CV)
    BY DEF RemoveCV, CV
<1>4. One(b) \in all /\ t \in all
    OBVIOUS
<1>5. \A u \in all : Head(u) # "pair"
    BY Begins DEF Marks
<1> HIDE DEF all
<1>6. QED
    BY <1>1, <1>2, <1>3, <1>4, <1>5 DEF Comes

(* The pointers, references and arrays of the family.                      *)
LEMMA ComesDerived ==
    ASSUME NEW b, b \notin Marks
    PROVE  /\ \A a \in {"*", "&"} : Comes(Two(a, b), Two(a, b), Two(a, b))
           /\ \A a \in {"*", "&"} : \A c : Comes(Three(a, c, b), Three(a, c, b), Three(a, c, b))
           /\ Comes(Three("const", "*", b), Two("*", b), Two("*", b))
           /\ Comes(Two("[]", b), Two("[]", b), One(b))
           /\ Comes(Three("[]", "[]", b), Three("[]", "[]", b), One(b))
<1> DEFINE Heads == {CV, ConstArray, Arrays, CVArray}
<1>1. \A u : RemoveCV(u) = Strip(u, CV)
    BY DEF RemoveCV, CV
<1>2. ASSUME NEW u, \A heads \in Heads : Strip(u, heads) = u, Head(u) # "pair"
      PROVE  Comes(u, u, u)
    BY <1>1, <1>2 DEF Comes
<1>3. \A heads \in Heads : "*" \notin heads /\ "&" \notin heads
    BY MarkHeads
<1>4. ASSUME NEW a \in {"*", "&"}
      PROVE  Comes(Two(a, b), Two(a, b), Two(a, b))
  <2>1. \A heads \in Heads : Strip(Two(a, b), heads) = Two(a, b)
    BY <1>3, Strips
  <2>2. Head(Two(a, b)) # "pair"
    BY Begins
  <2> HIDE DEF Heads
  <2>3. QED
    BY <1>2, <2>1, <2>2
<1>5. ASSUME NEW a \in {"*", "&"}, NEW c
      PROVE  Comes(Three(a, c, b), Three(a, c, b), Three(a, c, b))
  <2>1. \A heads \in Heads : Strip(Three(a, c, b), heads) = Three(a, c, b)
    BY <1>3, Strips
  <2>2. Head(Three(a, c, b)) # "pair"
    BY Begins
  <2> HIDE DEF Heads
  <2>3. QED
    BY <1>2, <2>1, <2>2
<1>6. Comes(Three("const", "*", b), Two("*", b), Two("*", b))
  <2> DEFINE p == Two("*", b)
             t == Three("const", "*", b)
  <2>1. \A heads \in Heads : Strip(p, heads) = p /\ Strip(t, heads) = IF "const" \in heads THEN p ELSE t
    BY <1>3, Strips
  <2>2. Head(p) # "pair" /\ Head(t) # "pair"
    BY Begins
  <2> HIDE DEF p, t
  <2>3. Strip(t, CV) = p /\ Strip(p, CV) = p
    BY <2>1, MarkHeads
  <2>4. Comes(t, p, p)
    BY <1>1, <2>1, <2>2, <2>3 DEF Comes
  <2>5. QED
    BY <2>4 DEF p, t
<1>7. Comes(Two("[]", b), Two("[]", b), One(b)) /\ Comes(Three("[]", "[]", b), Three("[]", "[]", b), One(b))
  <2> DEFINE T == One(b)
             t == Two("[]", b)
             u == Three("[]", "[]", b)
  <2>1. \A heads \in Heads :
           /\ Strip(T, heads) = T
           /\ Strip(t, heads) = IF "[]" \in heads THEN T ELSE t
           /\ Strip(u, heads) = IF "[]" \in heads THEN T ELSE u
    BY Strips
  <2>6. Head(T) # "pair"
    BY Begins DEF Marks
  <2> HIDE DEF T, t, u
  <2>2. Strip(T, CV) = T /\ Strip(t, CV) = t /\ Strip(u, CV) = u
    BY <2>1, MarkHeads
  <2>3. \A heads \in {ConstArray, Arrays, CVArray} : Strip(t, heads) = T /\ Strip(u, heads) = T
    BY <2>1, MarkHeads
  <2>4. Comes(t, t, T) /\ Comes(u, u, T)
    BY <1>1, <2>2, <2>3, <2>6 DEF Comes
  <2>5. QED
    BY <2>4 DEF T, t, u
<1>8. QED
    BY <1>4, <1>5, <1>6, <1>7

LEMMA Joined ==
    \A a, b, c : << >> \o <<b>> = One(b) /\ <<a>> \o <<b>> = Two(a, b) /\ <<a, c>> \o <<b>> = Three(a, c, b)
<1> TAKE a, b, c
<1> DEFINE S == {a, b, c}
<1>1. << >> \o <<b>> = One(b)
    BY DEF One
<1>2. <<a>> \o <<b>> = Two(a, b)
  <2> DEFINE s == <<a>>
             t == <<b>>
             u == <<a, b>>
  <2>1. /\ s \in Seq(S) /\ Len(s) = 1 /\ s[1] = a
        /\ t \in Seq(S) /\ Len(t) = 1 /\ t[1] = b
        /\ u \in Seq(S) /\ Len(u) = 2 /\ u[1] = a /\ u[2] = b
    OBVIOUS
  <2> HIDE DEF s, t, u, S
  <2>2. /\ s \o t \in Seq(S) /\ Len(s \o t) = 2
        /\ \A i \in 1..2 : (s \o t)[i] = IF i <= 1 THEN s[i] ELSE t[i - 1]
    BY <2>1, ConcatProperties
  <2>3. \A i \in 1..2 : (s \o t)[i] = u[i]
    BY <2>1, <2>2
  <2>4. s \o t = u
    BY <2>1, <2>2, <2>3, SeqEqual
  <2>5. QED
    BY <2>4 DEF s, t, u, Two
<1>3. <<a, c>> \o <<b>> = Three(a, c, b)
  <2> DEFINE s == <<a, c>>
             t == <<b>>
             u == <<a, c, b>>
  <2>1. /\ s \in Seq(S) /\ Len(s) = 2 /\ s[1] = a /\ s[2] = c
        /\ t \in Seq(S) /\ Len(t) = 1 /\ t[1] = b
        /\ u \in Seq(S) /\ Len(u) = 3 /\ u[1] = a /\ u[2] = c /\ u[3] = b
    OBVIOUS
  <2> HIDE DEF s, t, u, S
  <2>5. /\ s \o t \in Seq(S) /\ Len(s \o t) = Len(s) + Len(t)
        /\ \A i \in 1..(Len(s) + Len(t)) : (s \o t)[i] = IF i <= Len(s) THEN s[i] ELSE t[i - Len(s)]
    BY <2>1, ConcatProperties
  <2>2. /\ s \o t \in Seq(S) /\ Len(s \o t) = 3
        /\ \A i \in 1..3 : (s \o t)[i] = IF i <= 2 THEN s[i] ELSE t[i - 2]
    BY <2>1, <2>5
  <2>3. \A i \in 1..3 : (s \o t)[i] = u[i]
    BY <2>1, <2>2
  <2>4. s \o t = u
    BY <2>1, <2>2, <2>3, SeqEqual
  <2>6. QED
    BY <2>4 DEF s, t, u, Three
<1>4. QED
    BY <1>1, <1>2, <1>3

(* The types of the family by their form.                                  *)
QualifiedForms(b) == {One(b), Two("const", b), Two("volatile", b), Three("const", "volatile", b)}

DerivedForms(b) ==
    {Two("*", b), Three("const", "*", b), Three("*", "const", b), Two("&", b), Three("&", "const", b),
     Two("[]", b), Three("[]", "[]", b), Three("&", "*", b), Three("*", "*", b)}

Ended(p, b) == p \o <<b>>
Qualifiers == {<< >>, <<"const">>, <<"volatile">>, <<"const", "volatile">>}
Derivations ==
    {<<"*">>, <<"const", "*">>, <<"*", "const">>, <<"&">>, <<"&", "const">>, <<"[]">>, <<"[]", "[]">>,
     <<"&", "*">>, <<"*", "*">>}

Qualified(types) == {Ended(cv, b) : cv \in Qualifiers, b \in Bases(types) \ {"function", "void"}}
Alone == {<<"void">>, <<"function">>}
Derived == {Ended(p, b) : p \in Derivations, b \in Arithmetic}

LEMMA FamilyForms ==
    ASSUME NEW types, NEW t \in TypeFamily(types)
    PROVE  \/ \E b \in Bases(types) :
                 t \in QualifiedForms(b) /\ (b \in {"void", "function"} => t = One(b))
           \/ \E b \in Arithmetic : t \in DerivedForms(b)
<1>1. \A b : \A cv \in Qualifiers : Ended(cv, b) \in QualifiedForms(b)
    BY Joined DEF QualifiedForms, Qualifiers, Ended
<1>2. \A b : \A p \in Derivations : Ended(p, b) \in DerivedForms(b)
    BY Joined DEF DerivedForms, Derivations, Ended
<1>3. TypeFamily(types) = Qualified(types) \cup Alone \cup Derived
    BY DEF TypeFamily, Qualified, Qualifiers, Alone, Derived, Derivations, Ended
<1>4. CASE t \in Qualified(types)
  <2>1. \E cv \in Qualifiers, b \in Bases(types) \ {"function", "void"} : t = Ended(cv, b)
    BY <1>4 DEF Qualified
  <2>2. QED
    BY <1>1, <2>1
<1>5. CASE t \in Derived
  <2>1. \E p \in Derivations, b \in Arithmetic : t = Ended(p, b)
    BY <1>5 DEF Derived
  <2>2. QED
    BY <1>2, <2>1
<1>6. CASE t \in Alone
  <2>1. {"void", "function"} \subseteq Bases(types)
    BY DEF Bases
  <2>2. t = One("void") \/ t = One("function")
    BY <1>6 DEF One, Alone
  <2>3. \A b : One(b) \in QualifiedForms(b)
    BY DEF QualifiedForms
  <2>4. QED
    BY <2>1, <2>2, <2>3
<1>7. QED
    BY <1>3, <1>4, <1>5, <1>6

(* A type without its qualifiers is a name, or begins with a declarator.   *)
CharTypes == {"char16_t", "char32_t"}
Declared(T) == Len(T) \in {2, 3} /\ Head(T) \in {"*", "&", "[]"}
Shape(types, T) == (\E b \in Bases(types) : T = One(b)) \/ Declared(T)

Stripped(types, t, T, U) ==
    /\ Comes(t, T, U) /\ Shape(types, T) /\ Shape(types, U)
    /\ Head(t) = "&" <=> Head(T) = "&"
    /\ TypeIsVoid(t) <=> T = One("void")
    /\ Len(t) = 1 => t = T

LEMMA BaseNames ==
    ASSUME NEW types \in SUBSET CharTypes
    PROVE  Bases(types) \cap Marks = {} /\ Arithmetic \subseteq Bases(types)
    BY DEF Bases, Marks, CharTypes, Arithmetic

LEMMA VoidIs ==
    /\ \A b : TypeIsVoid(One(b)) <=> b = "void"
    /\ \A a, b, c : ~TypeIsVoid(Two(a, b)) /\ ~TypeIsVoid(Three(a, c, b))
    BY Begins DEF TypeIsVoid, Base

LEMMA FamilyStripped ==
    ASSUME NEW types \in SUBSET CharTypes, NEW t \in TypeFamily(types)
    PROVE  \E T, U : Stripped(types, t, T, U)
<1>1. CASE \E b \in Bases(types) :
              t \in QualifiedForms(b) /\ (b \in {"void", "function"} => t = One(b))
  <2>1. PICK b \in Bases(types) : t \in QualifiedForms(b) /\ (b \in {"void", "function"} => t = One(b))
    BY <1>1
  <2>2. b \notin Marks
    BY BaseNames
  <2>3. Comes(t, One(b), One(b))
    BY <2>1, <2>2, ComesQualified DEF QualifiedForms
  <2>4. Shape(types, One(b))
    BY DEF Shape
  <2>5. Head(t) # "&" /\ Head(One(b)) # "&"
    BY <2>1, <2>2, Begins DEF QualifiedForms, Marks
  <2>6. One(b) = One("void") <=> b = "void"
    BY Begins
  <2>7. TypeIsVoid(t) <=> One(b) = One("void")
    BY <2>1, <2>6, VoidIs DEF QualifiedForms
  <2>8. Len(t) = 1 => t = One(b)
    BY <2>1, Begins DEF QualifiedForms
  <2>9. QED
    BY <2>3, <2>4, <2>5, <2>7, <2>8 DEF Stripped
<1>2. CASE \E b \in Arithmetic : t \in DerivedForms(b)
  <2>1. PICK b \in Arithmetic : t \in DerivedForms(b)
    BY <1>2
  <2>2. b \notin Marks /\ b \in Bases(types)
    BY BaseNames
  <2>3. ASSUME NEW T, NEW U, Comes(t, T, U), Declared(T), Declared(U) \/ U = One(b),
               Head(t) = "&" <=> Head(T) = "&", ~TypeIsVoid(t), Len(t) # 1
        PROVE  Stripped(types, t, T, U)
    <3>1. T # One("void")
      BY <2>3, Begins DEF Declared
    <3>2. QED
      BY <2>2, <2>3, <3>1 DEF Stripped, Shape
  <2>4. ~TypeIsVoid(t) /\ Len(t) # 1
    BY <2>1, VoidIs, Begins DEF DerivedForms
  <2>5. \A a \in {"*", "&", "[]"} : \A c : Declared(Two(a, b)) /\ Declared(Three(a, c, b))
    BY Begins DEF Declared
  <2>6. CASE t \in {Two("*", b), Two("&", b), Three("*", "const", b), Three("&", "const", b),
                    Three("&", "*", b), Three("*", "*", b)}
    <3>1. Comes(t, t, t) /\ Declared(t)
      BY <2>2, <2>5, <2>6, ComesDerived
    <3>2. QED
      BY <2>3, <2>4, <3>1
  <2>7. CASE t = Three("const", "*", b)
    <3>1. Comes(t, Two("*", b), Two("*", b)) /\ Declared(Two("*", b))
      BY <2>2, <2>5, <2>7, ComesDerived
    <3>2. Head(t) # "&" /\ Head(Two("*", b)) # "&"
      BY <2>7, Begins
    <3>3. QED
      BY <2>3, <2>4, <3>1, <3>2
  <2>8. CASE t \in {Two("[]", b), Three("[]", "[]", b)}
    <3>1. Comes(t, t, One(b)) /\ Declared(t)
      BY <2>2, <2>5, <2>8, ComesDerived
    <3>2. QED
      BY <2>3, <2>4, <3>1
  <2>9. QED
    BY <2>1, <2>6, <2>7, <2>8 DEF DerivedForms
<1>3. QED
    BY <1>1, <1>2, FamilyForms

-----------------------------------------------------------------------------
(* What a type is judged to be, by its name or by its first declarator.    *)
Knows(a, types) == types \in SUBSET CharTypes /\ (types # {} => value(a, Feature("UNICODE_STRINGS")) = 1)

LEMMA BaseIs ==
    /\ \A b, names : Base(One(b), names) <=> b \in names
    /\ \A T, names : Declared(T) => ~Base(T, names)
    BY Begins DEF Base, Declared

IntegralNames == {"bool", "char", "signed char", "wchar_t", "short", "int", "long", "long long"}

IntegralOf(a) ==
    IntegralNames \cup IF value(a, Feature("UNICODE_STRINGS")) = 1 THEN CharTypes ELSE {}

LEMMA IntegralIs == \A a, t : TypeIsIntegral(a, t) <=> Base(RemoveCV(t), IntegralOf(a))
    BY DEF TypeIsIntegral, IntegralOf, IntegralNames, CharTypes

NoEnum == {"void", "float", "double", "long double", "class", "union", "pair", "enum class", "function", "member pointer"}

LEMMA NamesJudged ==
    ASSUME NEW a, NEW types, Knows(a, types), NEW b \in Bases(types)
    PROVE  /\ b \in IntegralOf(a) <=> b \in Kinds.integral
           /\ b \notin IntegralOf(a) \cup NoEnum <=> b = "enum"
           /\ b \in {"enum", "enum class"} <=> b = "enum"
           /\ b \in {"float", "double", "long double"} <=> b \in Kinds.floating
           /\ b \in {"class", "union", "pair"} <=> b \in Kinds.class
           /\ b \notin {"*", "&", "[]"}
<1>1. types \in SUBSET CharTypes /\ (types # {} => IntegralOf(a) = IntegralNames \cup CharTypes)
    BY DEF Knows, IntegralOf
<1>2. IntegralNames \subseteq IntegralOf(a) /\ IntegralOf(a) \subseteq IntegralNames \cup CharTypes
    BY DEF IntegralOf
<1>3. b \in {"bool", "char", "wchar_t", "int", "long", "long long", "double", "long double", "enum",
             "class", "union", "void", "function", "member pointer"} \/ b \in types
    BY DEF Bases
<1> HIDE DEF IntegralOf
<1>4. CASE b \in types
  <2>1. b \in CharTypes /\ b \in IntegralOf(a)
    BY <1>1, <1>4
  <2>2. QED
    BY <2>1 DEF CharTypes, Kinds, NoEnum
<1>5. CASE b \in {"bool", "char", "wchar_t", "int", "long", "long long"}
  <2>1. b \in IntegralOf(a)
    BY <1>2, <1>5 DEF IntegralNames
  <2>2. QED
    BY <1>5, <2>1 DEF Kinds, NoEnum
<1>6. CASE b \in {"double", "long double", "enum", "class", "union", "void", "function", "member pointer"}
  <2>1. b \notin IntegralOf(a)
    BY <1>2, <1>6 DEF IntegralNames, CharTypes
  <2>2. QED
    BY <1>6, <2>1 DEF Kinds, NoEnum
<1>7. QED
    BY <1>3, <1>4, <1>5, <1>6

KindNames == {"integral", "floating", "enum", "class", "void", "other"}

LEMMA KindsApart ==
    /\ DOMAIN Kinds = KindNames
    /\ \A k, l \in KindNames : k # l => Kinds[k] \cap Kinds[l] = {}
<1>1. DOMAIN Kinds = KindNames
    BY DEF Kinds, KindNames
<1>2. /\ Kinds["integral"] = IntegralNames \cup CharTypes
      /\ Kinds["floating"] = {"float", "double", "long double"} /\ Kinds["enum"] = {"enum"}
      /\ Kinds["class"] = {"class", "union"} /\ Kinds["void"] = {"void"}
      /\ Kinds["other"] = {"function", "member pointer"}
    BY DEF Kinds, IntegralNames, CharTypes
<1> DEFINE K(k) == Kinds[k]
<1>3. /\ K("integral") \cap K("floating") = {} /\ K("integral") \cap K("enum") = {}
      /\ K("integral") \cap K("class") = {} /\ K("integral") \cap K("void") = {}
      /\ K("integral") \cap K("other") = {}
    BY <1>2 DEF IntegralNames, CharTypes
<1>4. /\ K("floating") \cap K("enum") = {} /\ K("floating") \cap K("class") = {}
      /\ K("floating") \cap K("void") = {} /\ K("floating") \cap K("other") = {}
      /\ K("enum") \cap K("class") = {} /\ K("enum") \cap K("void") = {}
      /\ K("enum") \cap K("other") = {} /\ K("class") \cap K("void") = {}
      /\ K("class") \cap K("other") = {} /\ K("void") \cap K("other") = {}
    BY <1>2
<1> HIDE DEF K
<1>5. \A k, l \in KindNames : k # l => K(k) \cap K(l) = {}
    BY <1>3, <1>4 DEF KindNames
<1>6. QED
    BY <1>1, <1>5 DEF K

LEMMA KindIs ==
    ASSUME NEW t, NEW T, RemoveCV(t) = T
    PROVE  /\ Head(T) = "*" => Kind(t) = "pointer"
           /\ Head(T) = "&" => Kind(t) = "reference"
           /\ Head(T) = "[]" => Kind(t) = "other"
           /\ Head(T) \notin {"*", "&", "[]"} =>
                 \A k \in KindNames : Head(T) \in Kinds[k] => Kind(t) = k
<1>1. Kind(t) = CASE Head(T) = "*" -> "pointer"
                  [] Head(T) = "&" -> "reference"
                  [] Head(T) = "[]" -> "other"
                  [] OTHER -> CHOOSE k \in DOMAIN Kinds : Head(T) \in Kinds[k]
    BY DEF Kind
<1>2. ASSUME NEW k \in KindNames, Head(T) \in Kinds[k]
      PROVE  (CHOOSE l \in DOMAIN Kinds : Head(T) \in Kinds[l]) = k
  <2>1. \A l \in DOMAIN Kinds : Head(T) \in Kinds[l] => l = k
    BY <1>2, KindsApart
  <2>2. k \in DOMAIN Kinds
    BY KindsApart
  <2>3. QED
    BY <1>2, <2>1, <2>2
<1>3. Head(T) = "*" => Kind(t) = "pointer"
    BY <1>1
<1>4. Head(T) = "&" => Kind(t) = "reference"
    BY <1>1
<1>5. Head(T) = "[]" => Kind(t) = "other"
    BY <1>1
<1>6. ASSUME Head(T) \notin {"*", "&", "[]"}
      PROVE  Kind(t) = CHOOSE l \in DOMAIN Kinds : Head(T) \in Kinds[l]
    BY <1>1, <1>6
<1>7. QED
    BY <1>2, <1>3, <1>4, <1>5, <1>6

(* The judgements of one named type.                                       *)
LEMMA NameJudged ==
    ASSUME NEW a, NEW types, Knows(a, types), NEW b \in Bases(types), NEW t,
           RemoveCV(t) = One(b), RemoveCV(One(b)) = One(b)
    PROVE  /\ TypeIsIntegral(a, t) <=> b \in Kinds.integral
           /\ TypeIsFloatingPoint(t) <=> b \in Kinds.floating
           /\ ~TypeIsPointer(t)
           /\ TypeIsClassOrUnion(t) <=> b \in Kinds.class
           /\ TypeIsEnum(a, t) <=> b = "enum"
           /\ IsEnum(a, t) <=> b = "enum"
           /\ \A k \in KindNames : b \in Kinds[k] => Kind(t) = k
<1> DEFINE T == One(b)
<1>1. \A names : Base(T, names) <=> b \in names
    BY BaseIs
<1>2. /\ b \in IntegralOf(a) <=> b \in Kinds.integral
      /\ b \notin IntegralOf(a) \cup NoEnum <=> b = "enum"
      /\ b \in {"enum", "enum class"} <=> b = "enum"
      /\ b \in {"float", "double", "long double"} <=> b \in Kinds.floating
      /\ b \in {"class", "union", "pair"} <=> b \in Kinds.class
      /\ b \notin {"*", "&", "[]"}
    BY NamesJudged
<1>3. Head(T) = b /\ Len(T) = 1
    BY Begins
<1> HIDE DEF T
<1>4. RemoveCV(t) = T /\ RemoveCV(T) = T
    BY DEF T
<1>5. ASSUME NEW u \in {t, T}
      PROVE  /\ TypeIsIntegral(a, u) <=> b \in IntegralOf(a)
             /\ TypeIsFloatingPoint(u) <=> b \in {"float", "double", "long double"}
             /\ TypeIsPointer(u) <=> b = "*"
             /\ TypeIsClassOrUnion(u) <=> b \in {"class", "union", "pair"}
    BY <1>1, <1>3, <1>4, IntegralIs DEF TypeIsFloatingPoint, TypeIsPointer, TypeIsClassOrUnion
<1>6. TypeIsVoid(T) <=> b = "void"
    BY <1>1 DEF TypeIsVoid
<1>7. ~TypeIsReference(T)
    BY <1>2, <1>3 DEF TypeIsReference
<1>8. TypeIsConvertibleToInt(T) <=>
          b \notin {"void", "enum class", "class", "union", "function", "member pointer"}
    BY <1>1, <1>3, <1>4, <1>7 DEF TypeIsConvertibleToInt
<1>9. TypeIsEnum(a, t) <=> b \notin IntegralOf(a) \cup NoEnum
  <2>1. TypeIsEnum(a, t) <=>
           /\ ~(\/ TypeIsVoid(T) \/ TypeIsIntegral(a, T) \/ TypeIsFloatingPoint(T)
                \/ TypeIsReference(T) \/ TypeIsClassOrUnion(T))
           /\ TypeIsConvertibleToInt(T)
    BY <1>4 DEF TypeIsEnum
  <2>2. QED
    BY <1>5, <1>6, <1>7, <1>8, <2>1 DEF NoEnum
<1>10. IsEnum(a, t) <=> b = "enum"
    BY <1>1, <1>2, <1>4, <1>9 DEF IsEnum
<1>11. \A k \in KindNames : b \in Kinds[k] => Kind(t) = k
    BY <1>2, <1>3, <1>4, KindIs
<1>12. QED
    BY <1>2, <1>5, <1>9, <1>10, <1>11

(* The judgements of a pointer, a reference or an array.                   *)
LEMMA DeclaratorJudged ==
    ASSUME NEW a, NEW t, NEW T, RemoveCV(t) = T, RemoveCV(T) = T, Declared(T)
    PROVE  /\ ~TypeIsIntegral(a, t) /\ ~TypeIsFloatingPoint(t) /\ ~TypeIsClassOrUnion(t)
           /\ TypeIsPointer(t) <=> Head(T) = "*"
           /\ ~TypeIsEnum(a, t) /\ ~IsEnum(a, t)
           /\ Kind(t) = IF Head(T) = "*" THEN "pointer" ELSE IF Head(T) = "&" THEN "reference" ELSE "other"
<1>1. \A names : ~Base(T, names)
    BY BaseIs
<1>2. Head(T) \in {"*", "&", "[]"} /\ Len(T) # 1
    BY DEF Declared
<1>3. ~TypeIsIntegral(a, t) /\ ~TypeIsFloatingPoint(t) /\ ~TypeIsClassOrUnion(t)
    BY <1>1, <1>2, IntegralIs DEF TypeIsFloatingPoint, TypeIsClassOrUnion
<1>4. TypeIsPointer(t) <=> Head(T) = "*"
    BY DEF TypeIsPointer
<1>5. ~TypeIsReference(T) => ~TypeIsConvertibleToInt(T)
    BY <1>2 DEF TypeIsConvertibleToInt
<1>6. ~TypeIsEnum(a, t)
    BY <1>5 DEF TypeIsEnum
<1>7. ~IsEnum(a, t)
    BY <1>1, <1>6 DEF IsEnum
<1>8. QED
    BY <1>2, <1>3, <1>4, <1>6, <1>7, KindIs

LEMMA JudgedIs ==
    ASSUME NEW t
    PROVE  /\ Judged(t) \subseteq {"void", "integral", "floating", "pointer", "reference", "enum", "class"}
           /\ "void" \in Judged(t) <=> TypeIsVoid(t)
           /\ "integral" \in Judged(t) <=> TypeIsIntegral(m, t)
           /\ "floating" \in Judged(t) <=> TypeIsFloatingPoint(t)
           /\ "pointer" \in Judged(t) <=> TypeIsPointer(t)
           /\ "reference" \in Judged(t) <=> TypeIsReference(t)
           /\ "enum" \in Judged(t) <=> IF HasTypeIsEnum(m) THEN TypeIsEnum(m, t) ELSE IsEnum(m, t)
           /\ "class" \in Judged(t) <=> TypeIsClassOrUnion(t)
<1> DEFINE all == {"void", "integral", "floating", "pointer", "reference", "enum", "class"}
           P(k) == CASE k = "void" -> TypeIsVoid(t)
                     [] k = "integral" -> TypeIsIntegral(m, t)
                     [] k = "floating" -> TypeIsFloatingPoint(t)
                     [] k = "pointer" -> TypeIsPointer(t)
                     [] k = "reference" -> TypeIsReference(t)
                     [] k = "enum" -> IF HasTypeIsEnum(m) THEN TypeIsEnum(m, t) ELSE IsEnum(m, t)
                     [] k = "class" -> TypeIsClassOrUnion(t)
<1>1. Judged(t) = {k \in all : P(k)}
    BY DEF Judged
<1>2. /\ P("void") <=> TypeIsVoid(t)
      /\ P("integral") <=> TypeIsIntegral(m, t)
      /\ P("floating") <=> TypeIsFloatingPoint(t)
      /\ P("pointer") <=> TypeIsPointer(t)
      /\ P("reference") <=> TypeIsReference(t)
      /\ P("enum") <=> IF HasTypeIsEnum(m) THEN TypeIsEnum(m, t) ELSE IsEnum(m, t)
      /\ P("class") <=> TypeIsClassOrUnion(t)
    OBVIOUS
<1> HIDE DEF P
<1>3. \A k \in all : k \in Judged(t) <=> P(k)
    BY <1>1
<1>4. Judged(t) \subseteq all
    BY <1>1
<1>5. QED
    BY <1>2, <1>3, <1>4

LEMMA NameHasKind ==
    ASSUME NEW types \in SUBSET CharTypes, NEW b \in Bases(types)
    PROVE  /\ \E k \in KindNames : b \in Kinds[k]
           /\ b = "enum" <=> b \in Kinds.enum
           /\ b = "void" <=> b \in Kinds.void
<1>1. /\ Kinds["integral"] = IntegralNames \cup CharTypes
      /\ Kinds["floating"] = {"float", "double", "long double"} /\ Kinds["enum"] = {"enum"}
      /\ Kinds["class"] = {"class", "union"} /\ Kinds["void"] = {"void"}
      /\ Kinds["other"] = {"function", "member pointer"}
    BY DEF Kinds, IntegralNames, CharTypes
<1>2. \/ b \in {"bool", "char", "wchar_t", "int", "long", "long long"} \cup CharTypes
      \/ b \in {"double", "long double"} \/ b = "enum" \/ b \in {"class", "union"}
      \/ b = "void" \/ b \in {"function", "member pointer"}
    BY DEF Bases
<1>3. QED
    BY <1>1, <1>2 DEF KindNames, IntegralNames

LEMMA FamilyJudged ==
    ASSUME NEW types, Knows(m, types), NEW t, NEW T, NEW U, Stripped(types, t, T, U)
    PROVE  Judged(t) = {Kind(t)} \ {"other"}
<1>1. RemoveCV(t) = T /\ RemoveCV(T) = T
    BY DEF Stripped, Comes
<1>2. TypeIsReference(t) <=> Head(T) = "&"
    BY DEF Stripped, TypeIsReference
<1>3. TypeIsVoid(t) <=> T = One("void")
    BY DEF Stripped
<1>4. CASE \E b \in Bases(types) : T = One(b)
  <2>1. PICK b \in Bases(types) : T = One(b)
    BY <1>4
  <2>2. /\ TypeIsIntegral(m, t) <=> b \in Kinds.integral
        /\ TypeIsFloatingPoint(t) <=> b \in Kinds.floating
        /\ ~TypeIsPointer(t)
        /\ TypeIsClassOrUnion(t) <=> b \in Kinds.class
        /\ TypeIsEnum(m, t) <=> b = "enum"
        /\ IsEnum(m, t) <=> b = "enum"
        /\ \A k \in KindNames : b \in Kinds[k] => Kind(t) = k
    BY <1>1, <2>1, NameJudged
  <2>3. /\ types \in SUBSET CharTypes
        /\ b = "enum" <=> b \in Kinds.enum
        /\ b = "void" <=> b \in Kinds.void
    BY NameHasKind DEF Knows
  <2>4. TypeIsVoid(t) <=> b = "void"
    BY <1>3, <2>1, Begins
  <2>5. ~TypeIsReference(t)
    BY <1>2, <2>1, <2>3, BaseNames, Begins DEF Marks
  <2>6. PICK k \in KindNames : b \in Kinds[k]
    BY <2>3, NameHasKind
  <2>7. Kind(t) = k /\ \A l \in KindNames : b \in Kinds[l] <=> l = k
    BY <2>2, <2>6, KindsApart
  <2>8. \A l \in {"void", "integral", "floating", "enum", "class"} : l \in Judged(t) <=> l = k
    BY <2>2, <2>3, <2>4, <2>7, JudgedIs DEF KindNames
  <2>9. "pointer" \notin Judged(t) /\ "reference" \notin Judged(t)
    BY <2>2, <2>5, JudgedIs
  <2>10. QED
    BY <2>7, <2>8, <2>9, JudgedIs DEF KindNames
<1>5. CASE Declared(T)
  <2>1. /\ ~TypeIsIntegral(m, t) /\ ~TypeIsFloatingPoint(t) /\ ~TypeIsClassOrUnion(t)
        /\ TypeIsPointer(t) <=> Head(T) = "*"
        /\ ~TypeIsEnum(m, t) /\ ~IsEnum(m, t)
        /\ Kind(t) = IF Head(T) = "*" THEN "pointer" ELSE IF Head(T) = "&" THEN "reference" ELSE "other"
    BY <1>1, <1>5, DeclaratorJudged
  <2>2. ~TypeIsVoid(t)
    BY <1>3, <1>5, Begins DEF Declared
  <2>3. QED
    BY <1>2, <2>1, <2>2, JudgedIs
<1>6. QED
    BY <1>4, <1>5 DEF Stripped, Shape

(* What is copied by its bytes is a scalar.                                *)
LEMMA PodOf ==
    ASSUME NEW types, Knows(m, types), NEW t, NEW T,
           RemoveCV(t) = T, RemoveCV(T) = T, Shape(types, T), TypeIsPod(m, t)
    PROVE  Kind(t) \in Scalar
<1>1. CASE \E b \in Bases(types) : T = One(b)
  <2>1. PICK b \in Bases(types) : T = One(b)
    BY <1>1
  <2>2. /\ TypeIsIntegral(m, t) <=> b \in Kinds.integral
        /\ TypeIsFloatingPoint(t) <=> b \in Kinds.floating
        /\ ~TypeIsPointer(t)
        /\ TypeIsEnum(m, t) <=> b = "enum"
        /\ \A k \in KindNames : b \in Kinds[k] => Kind(t) = k
    BY <2>1, NameJudged
  <2>3. b = "enum" <=> b \in Kinds.enum
    BY NameHasKind DEF Knows
  <2>4. QED
    BY <2>2, <2>3 DEF TypeIsPod, KindNames, Scalar
<1>2. CASE Declared(T)
  <2>1. /\ ~TypeIsIntegral(m, t) /\ ~TypeIsFloatingPoint(t) /\ ~TypeIsEnum(m, t)
        /\ TypeIsPointer(t) <=> Head(T) = "*"
        /\ Kind(t) = IF Head(T) = "*" THEN "pointer" ELSE IF Head(T) = "&" THEN "reference" ELSE "other"
    BY <1>2, DeclaratorJudged
  <2>2. QED
    BY <2>1 DEF TypeIsPod, Scalar
<1>3. QED
    BY <1>1, <1>2 DEF Shape

LEMMA PodSame ==
    ASSUME NEW a, NEW t, NEW u, RemoveCV(t) = RemoveCV(u)
    PROVE  TypeIsPod(a, t) <=> TypeIsPod(a, u)
    BY DEF TypeIsPod, TypeIsIntegral, TypeIsFloatingPoint, TypeIsPointer, TypeIsEnum

LEMMA KindSame ==
    ASSUME NEW t, NEW u, RemoveCV(t) = RemoveCV(u)
    PROVE  Kind(t) = Kind(u)
    BY DEF Kind

LEMMA CopiedOne ==
    ASSUME NEW types, Knows(m, types), NEW t, NEW T, NEW U, Stripped(types, t, T, U)
    PROVE  /\ TypeIsPod(m, t) => Kind(t) \in Scalar
           /\ TypeHasTrivialAssign(m, t) => TypeHasTrivial(m, t)
           /\ TypeHasTrivial(m, t) => Kind(Strip(t, {"const", "volatile", "[]"})) \in Scalar
<1> DEFINE x == Strip(t, ConstArray)
           y == Strip(t, Arrays)
           z == Strip(t, CVArray)
<1>1. /\ RemoveCV(t) = T /\ RemoveCV(T) = T /\ Shape(types, T)
      /\ RemoveCV(U) = U /\ Shape(types, U)
    BY DEF Stripped, Comes
<1>2. /\ RemoveCV(x) = U /\ RemoveCV(y) = U /\ RemoveCV(z) = U
      /\ Head(x) # "pair" /\ Head(y) # "pair"
    BY DEF Stripped, Comes
<1>3. TypeHasTrivial(m, t) <=> TypeIsPod(m, x)
    BY <1>2 DEF TypeHasTrivial, Trivial, ConstArray
<1>4. TypeHasTrivialAssign(m, t) <=> TypeIsPod(m, y)
    BY <1>2 DEF TypeHasTrivialAssign, Trivial, Arrays
<1> HIDE DEF x, y
<1>5. TypeIsPod(m, t) => Kind(t) \in Scalar
    BY <1>1, PodOf
<1>6. TypeIsPod(m, x) <=> TypeIsPod(m, y)
    BY <1>2, PodSame
<1>7. TypeIsPod(m, x) => Kind(x) \in Scalar
    BY <1>1, <1>2, PodOf
<1>8. Kind(x) = Kind(z)
    BY <1>2, KindSame
<1>9. QED
    BY <1>3, <1>4, <1>5, <1>6, <1>7, <1>8 DEF CVArray

(* The types TypeInfo has a specialisation for.                            *)
Specialised(a) == {Typedef(a, p) : p \in Primitives(a)}

LEMMA PairIs == \A t, u : Strip(<<"pair", t, u>>, ConstArray) = <<"pair", t, u>>
<1> TAKE t, u
<1>1. "pair" \notin ConstArray
    BY DEF ConstArray
<1> DEFINE p == <<"pair", t, u>>
           S == {"pair", t, u}
<1>2. p \in Seq(S) /\ Len(p) = 3 /\ p[1] = "pair"
    OBVIOUS
<1> HIDE DEF p, S
<1>3. \A i \in 1..Len(p) : p[i] = p[1 + i - 1]
    BY <1>2
<1>4. Strip(p, ConstArray) = p
    BY <1>1, <1>2, <1>3, StripIs
<1>5. QED
    BY <1>4 DEF p

LEMMA RelocatableIs ==
    ASSUME NEW types, Knows(m, types), Specialised(m) \subseteq BaseTypes,
           NEW b \in Bases(types), RemoveCV(One(b)) = One(b),
           TypeInfo(m, One(b)).isRelocatable
    PROVE  Kind(One(b)) \in Scalar
<1> DEFINE t == One(b)
           primitive == DeclaredInfo({"PRIMITIVE"})
<1>1. Len(t) = 1 /\ t[1] = b /\ Head(t) = b
    BY Begins
<1>2. b # "*"
    BY BaseNames DEF Knows, Marks
<1>3. /\ IsEnum(m, t) <=> b = "enum"
      /\ \A k \in KindNames : b \in Kinds[k] => Kind(t) = k
    BY NameJudged
<1>4. b = "enum" <=> b \in Kinds.enum
    BY NameHasKind DEF Knows
<1>5. b \in Specialised(m) \/ IsEnum(m, t)
  <2> HIDE DEF t
  <2>1. TypeInfo(m, t) =
           IF b \in Specialised(m) THEN primitive
           ELSE IF TypeIsVoid(t) THEN [isComplex |-> FALSE, isStatic |-> FALSE, isRelocatable |-> FALSE]
           ELSE [isComplex |-> TRUE, isStatic |-> TRUE, isRelocatable |-> IsEnum(m, t)]
    BY <1>1, <1>2 DEF TypeInfo, Specialised
  <2>2. CASE b \in Specialised(m)
    BY <2>2
  <2>3. CASE b \notin Specialised(m) /\ TypeIsVoid(t)
    <3>1. TypeInfo(m, t) = [isComplex |-> FALSE, isStatic |-> FALSE, isRelocatable |-> FALSE]
      BY <2>1, <2>3
    <3>2. ~TypeInfo(m, t).isRelocatable
      BY <3>1
    <3>3. QED
      BY <3>2 DEF t
  <2>4. CASE b \notin Specialised(m) /\ ~TypeIsVoid(t)
    <3>1. TypeInfo(m, t) = [isComplex |-> TRUE, isStatic |-> TRUE, isRelocatable |-> IsEnum(m, t)]
      BY <2>1, <2>4
    <3>2. \A e : [isComplex |-> TRUE, isStatic |-> TRUE, isRelocatable |-> e].isRelocatable = e
      OBVIOUS
    <3>3. TypeInfo(m, t).isRelocatable = IsEnum(m, t)
      BY <3>1, <3>2, Zenon
    <3>4. QED
      BY <3>3, Zenon DEF t
  <2>5. QED
    BY <2>2, <2>3, <2>4
<1>6. CASE b \in BaseTypes
  <2>1. b \in Kinds.integral \/ b \in Kinds.floating
    BY <1>6 DEF BaseTypes, Kinds
  <2>2. QED
    BY <1>3, <2>1 DEF KindNames, Scalar
<1>7. CASE b = "enum"
    BY <1>3, <1>4, <1>7 DEF KindNames, Scalar
<1>8. QED
    BY <1>3, <1>5, <1>6, <1>7

LEMMA CopiedPair ==
    ASSUME NEW types, Knows(m, types), Specialised(m) \subseteq BaseTypes,
           NEW t, NEW u, NEW T, NEW U, NEW V, NEW W, Len(t) = 1, Len(u) = 1,
           Stripped(types, t, T, U), Stripped(types, u, V, W),
           \/ TypeHasTrivial(m, <<"pair", t, u>>)
           \/ TypeInfoMerger({TypeInfo(m, t), TypeInfo(m, u)}).isRelocatable
    PROVE  {Kind(t), Kind(u)} \subseteq Scalar
<1>1. ASSUME NEW v, NEW X, NEW Y, Len(v) = 1, Stripped(types, v, X, Y),
             TypeIsPod(m, v) \/ TypeInfo(m, v).isRelocatable
      PROVE  Kind(v) \in Scalar
  <2>1. v = X /\ RemoveCV(v) = v /\ Shape(types, v)
    BY <1>1 DEF Stripped, Comes
  <2>2. PICK b \in Bases(types) : v = One(b)
    BY <1>1, <2>1 DEF Shape, Declared
  <2>3. TypeIsPod(m, v) => Kind(v) \in Scalar
    BY <2>1, PodOf
  <2>4. TypeInfo(m, v).isRelocatable => Kind(v) \in Scalar
    BY <2>1, <2>2, RelocatableIs
  <2>5. QED
    BY <1>1, <2>3, <2>4
<1>2. CASE TypeHasTrivial(m, <<"pair", t, u>>)
  <2> DEFINE p == <<"pair", t, u>>
  <2>1. Strip(p, ConstArray) = p /\ Head(p) = "pair" /\ p[2] = t /\ p[3] = u
    BY PairIs
  <2> HIDE DEF p
  <2>2. ASSUME NEW v, NEW X, NEW Y, Len(v) = 1, Stripped(types, v, X, Y)
        PROVE  Strip(v, ConstArray) = v
    <3>1. Shape(types, v)
      BY <2>2 DEF Stripped
    <3>2. PICK b \in Bases(types) : v = One(b)
      BY <2>2, <3>1, Begins DEF Shape, Declared
    <3>3. b \notin Marks
      BY BaseNames DEF Knows
    <3>4. QED
      BY <3>2, <3>3, Strips
  <2>3. Strip(t, ConstArray) = t /\ Strip(u, ConstArray) = u
    BY <2>2
  <2>4. TypeHasTrivial(m, p) <=> TypeIsPod(m, t) /\ TypeIsPod(m, u)
    BY <2>1, <2>3 DEF TypeHasTrivial, Trivial, ConstArray
  <2>5. TypeIsPod(m, t) /\ TypeIsPod(m, u)
    BY <1>2, <2>4 DEF p
  <2>6. QED
    BY <1>1, <2>5
<1>3. CASE TypeInfoMerger({TypeInfo(m, t), TypeInfo(m, u)}).isRelocatable
  <2> DEFINE i == TypeInfo(m, t)
             j == TypeInfo(m, u)
  <2> HIDE DEF i, j
  <2>1. TypeInfoMerger({i, j}).isRelocatable = (\A x \in {i, j} : x.isRelocatable)
    BY DEF TypeInfoMerger
  <2>2. i.isRelocatable /\ j.isRelocatable
    BY <1>3, <2>1 DEF i, j
  <2>3. QED
    BY <1>1, <2>2 DEF i, j
<1>4. QED
    BY <1>2, <1>3

-----------------------------------------------------------------------------
(* A compiler that tells of char16_t has the feature.                      *)
LEMMA SinceHas ==
    ASSUME NEW table, NEW row \in table, NEW version, version >= row[1], NEW f \in row[2]
    PROVE  f \in Since(table, version)
    BY DEF Since

LEMMA MsvcUnicode ==
    ASSUME NEW c, Version(c, "MSVC") \in Nat, Version(c, "MSVC") >= 1900
    PROVE  "UNICODE_STRINGS" \in MsvcFeatures(c)
<1> DEFINE f == "UNICODE_STRINGS"
           version == Version(c, "MSVC")
<1>1. \E row \in MsvcBrought : row[1] = 1900 /\ f \in row[2]
    BY DEF MsvcBrought
<1>2. f \in Since(MsvcBrought, version)
    BY <1>1, SinceHas
<1> HIDE DEF f
<1>3. QED
    BY <1>2 DEF MsvcFeatures, f

LEMMA GnuUnicode ==
    ASSUME NEW c, Cxx11(c), Version(c, "GNU") \in Nat, Version(c, "GNU") >= 404
    PROVE  "UNICODE_STRINGS" \in GnuFeatures(c)
<1> DEFINE f == "UNICODE_STRINGS"
           version == Version(c, "GNU")
<1>1. \E row \in GnuCxx11 : row[1] = 404 /\ f \in row[2]
    BY DEF GnuCxx11
<1>2. f \in Since(GnuCxx11, version)
    BY <1>1, SinceHas
<1> HIDE DEF f
<1>3. QED
    BY <1>2 DEF GnuFeatures, f

LEMMA IntelUnicode ==
    ASSUME NEW c, IntelCxx11Mode(c), Version(c, "INTEL") \in Nat,
           \/ Version(c, "INTEL") >= 1400
           \/ Version(c, "INTEL") >= 1210 /\ ~defined(c, {"_CHAR16T"})
    PROVE  "UNICODE_STRINGS" \in IntelFeatures(c)
<1> DEFINE f == "UNICODE_STRINGS"
           version == Version(c, "INTEL")
           told == version >= 1210 /\ ~defined(c, {"_CHAR16T"})
           update == 100 * version + value(c, "__INTEL_COMPILER_UPDATE")
           later == Given({<<told, {f}>>, <<version >= 1500 /\ update >= 150001, {"CONSTEXPR"}>>})
<1>1. Since(IntelCxx11, version) \cup later \subseteq IntelFeatures(c)
    BY DEF IntelFeatures, IntelCxx11Mode
<1>2. CASE version >= 1400
  <2>1. \E row \in IntelCxx11 : row[1] = 1400 /\ f \in row[2]
    BY DEF IntelCxx11
  <2>2. f \in Since(IntelCxx11, version)
    BY <1>2, <2>1, SinceHas
  <2>3. QED
    BY <1>1, <2>2
<1>3. CASE told
  <2> DEFINE constexpr == version >= 1500 /\ update >= 150001
  <2> HIDE DEF told, constexpr
  <2>1. f \in {f} /\ later = Given({<<told, {f}>>, <<constexpr, {"CONSTEXPR"}>>})
    BY DEF constexpr
  <2> HIDE DEF later
  <2>2. f \in later
    BY <1>3, <2>1, GivenTwo
  <2>3. QED
    BY <1>1, <2>2
<1>4. QED
    BY <1>2, <1>3

LEMMA ClangUnicode ==
    ASSUME NEW c, Cxx11(c), defined(c, {"cxx_" \o "unicode_literals"})
    PROVE  "UNICODE_STRINGS" \in ClangFeatures(c)
<1> DEFINE f == "UNICODE_STRINGS"
           has(name) == defined(c, {"cxx_" \o name})
           NamesTold(names) == UNION {pair[2] : pair \in {p \in names : has(p[1])}}
           told == NamesTold(Cxx11Names)
           since209 == Version(c, "CLANG") >= 209
           freebsd == defined(c, {"__FreeBSD__"})
           rest == Given({<<has("atomic") /\ defined(c, {"<atomic>"}), {"ATOMICS"}>>,
                          <<has("constexpr") /\ Version(c, "CLANG") > 302, {"CONSTEXPR"}>>,
                          <<has("thread_local") /\ ~freebsd, {"THREAD_LOCAL"}>>,
                          <<since209, {"EXTERN_TEMPLATES"}>>})
           cxx11 == told \cup rest
           cxx14 == NamesTold(Cxx14Names) \cup
               Given({<<has("decltype_auto") /\ has("return_type_deduction"),
                        {"RETURN_TYPE_DEDUCTION"}>>})
           inC == Given({<<defined(c, {"c_static_assert"}), {"STATIC_ASSERT"}>>,
                         <<defined(c, {"c_thread_local"}) /\ HasThreads(c) /\ ~freebsd,
                           {"THREAD_LOCAL"}>>})
           since11 == Cxx11(c)
           q == <<has("binary_literals"), {"BINARY_LITERALS"}>>
           r == <<since209 /\ NotStrict(c), {"VARIADIC_MACROS"}>>
           s == <<since11, cxx11>>
           t == <<value(c, "__cplusplus") > 201103, cxx14>>
           u == <<defined(c, {"__STDC_VERSION__"}), inC>>
<1>1. ClangFeatures(c) = {"RESTRICTED_VLA", "THREADSAFE_STATICS"} \cup Given({q, r, s, t, u})
    BY DEF ClangFeatures
<1>2. \E p \in Cxx11Names : p[1] = "unicode_literals" /\ f \in p[2]
    BY DEF Cxx11Names
<1>3. f \in told
    BY <1>2
<1> HIDE DEF told, rest, since11, f
<1>4. f \in cxx11 /\ since11
    BY <1>3 DEF since11
<1> HIDE DEF cxx11, q, r, t, u
<1>5. f \in Given({s})
    BY <1>4, GivenOne
<1> HIDE DEF s
<1>6. f \in Given({q, r, s, t, u})
  <2>1. {q, r, s, t, u} = {s} \cup {q, r, t, u}
    OBVIOUS
  <2>2. QED
    BY <1>5, <2>1, GivenBoth
<1>7. QED
    BY <1>1, <1>6 DEF f

LEMMA UnicodeGiven ==
    ASSUME NEW c, NEW p, Tells(c, p), TellsUnicode(p), \A x \in Numbers \cup Grown : value(p, x) \in Nat
    PROVE  "UNICODE_STRINGS" \in Features(c)
<1> DEFINE f == "UNICODE_STRINGS"
           gnu == Is(c, "GNU") /\ ~Is(c, "INTEL") /\ ~Is(c, "CLANG")
           msvc == Is(c, "MSVC")
           clang == Is(c, "CLANG") /\ ~Is(c, "INTEL") /\ ~Is(c, "MSVC")
           intel == Is(c, "INTEL") /\ ~Is(c, "MSVC")
           G == GnuFeatures(c)
           M == MsvcFeatures(c)
           C == ClangFeatures(c)
           I == IntelFeatures(c)
           unicode == "cxx_" \o "unicode_literals"
           told == {"__cplusplus", "__GXX_EXPERIMENTAL_CXX0X__", "__INTEL_CXX11_MODE__", "_CHAR16T", unicode}
<1>1. \A x \in told : Same(p, c, x)
  <2>1. {"__cplusplus", "__GXX_EXPERIMENTAL_CXX0X__", "__INTEL_CXX11_MODE__", "_CHAR16T"} \subseteq LaterNames
    BY DEF LaterNames, Grown, Modes, Obstacles
  <2>2. \E pair \in Cxx11Names : pair[1] = "unicode_literals"
    BY DEF Cxx11Names
  <2>3. unicode \in {"cxx_" \o pair[1] : pair \in Cxx11Names \cup Cxx14Names}
    BY <2>2
  <2>4. unicode \in Abilities
    BY <2>3 DEF Abilities
  <2> HIDE DEF unicode
  <2>5. unicode \in LaterNames
    BY <2>4 DEF LaterNames
  <2>6. QED
    BY <2>1, <2>5 DEF Tells
<1>2. \A x \in told : value(c, x) = value(p, x) /\ (defined(c, {x}) <=> defined(p, {x}))
    BY <1>1 DEF Same, value, defined
<1>3. /\ Cxx11(c) <=> Cxx11(p)
      /\ IntelCxx11Mode(c) <=> IntelCxx11Mode(p)
      /\ defined(c, {"_CHAR16T"}) <=> defined(p, {"_CHAR16T"})
      /\ defined(c, {unicode}) <=> defined(p, {unicode})
  <2>1. value(c, "__cplusplus") = value(p, "__cplusplus")
    BY <1>2
  <2>2. /\ defined(c, {"__GXX_EXPERIMENTAL_CXX0X__"}) <=> defined(p, {"__GXX_EXPERIMENTAL_CXX0X__"})
        /\ defined(c, {"__INTEL_CXX11_MODE__"}) <=> defined(p, {"__INTEL_CXX11_MODE__"})
        /\ defined(c, {"_CHAR16T"}) <=> defined(p, {"_CHAR16T"})
    BY <1>2
  <2> HIDE DEF unicode
  <2>3. defined(c, {unicode}) <=> defined(p, {unicode})
    BY <1>2
  <2>4. QED
    BY <2>1, <2>2, <2>3 DEF Cxx11, IntelCxx11Mode
<1>4. /\ value(p, "_MSC_VER") \in Nat /\ value(p, "__INTEL_COMPILER") \in Nat
      /\ value(p, "__GNUC__") \in Nat /\ value(p, "__GNUC_MINOR__") \in Nat
    BY DEF Numbers, Grown
<1>5. /\ Is(c, "GNU") <=> defined(p, {"__GNUC__"})
      /\ Is(c, "MSVC") <=> defined(p, {"_MSC_VER"})
      /\ Is(c, "CLANG") <=> defined(p, {"__clang__"})
      /\ Is(c, "INTEL") <=> defined(p, {"__INTEL_COMPILER"})
    BY DEF Tells, defined
<1>6. /\ Is(c, "GNU") => Version(c, "GNU") = 100 * value(p, "__GNUC__") + value(p, "__GNUC_MINOR__")
      /\ Is(c, "MSVC") => Version(c, "MSVC") = value(p, "_MSC_VER")
      /\ Is(c, "INTEL") => Version(c, "INTEL") = value(p, "__INTEL_COMPILER")
    BY DEF Tells
<1>7. \A x, y : ~defined(p, {x, y}) => ~defined(p, {x}) /\ ~defined(p, {y})
    BY DEF defined
<1>8. (msvc /\ f \in M) \/ (gnu /\ f \in G) \/ (clang /\ f \in C) \/ (intel /\ f \in I)
  <2>1. CASE value(p, "_MSC_VER") >= 1900
    <3>1. msvc
      BY <1>4, <1>5, <2>1 DEF value, defined
    <3>2. QED
      BY <1>4, <1>6, <2>1, <3>1, MsvcUnicode
  <2>2. CASE /\ defined(p, {"__INTEL_COMPILER"}) /\ ~defined(p, {"_MSC_VER"})
             /\ IntelCxx11Mode(p)
             /\ \/ value(p, "__INTEL_COMPILER") >= 1400
                \/ value(p, "__INTEL_COMPILER") >= 1210 /\ ~defined(p, {"_CHAR16T"})
    BY <1>3, <1>4, <1>5, <1>6, <2>2, IntelUnicode
  <2>3. CASE /\ defined(p, {"__clang__"}) /\ ~defined(p, {"__INTEL_COMPILER", "_MSC_VER"})
             /\ Cxx11(p) /\ defined(p, {unicode})
    BY <1>3, <1>5, <1>7, <2>3, ClangUnicode
  <2>4. CASE /\ defined(p, {"__GNUC__"}) /\ ~defined(p, {"__INTEL_COMPILER", "__clang__"})
             /\ Cxx11(p) /\ 100 * value(p, "__GNUC__") + value(p, "__GNUC_MINOR__") >= 404
    <3>1. gnu /\ Cxx11(c)
      BY <1>3, <1>5, <1>7, <2>4
    <3>2. Version(c, "GNU") \in Nat /\ Version(c, "GNU") >= 404
      BY <1>4, <1>6, <2>4, <3>1
    <3>3. QED
      BY <3>1, <3>2, GnuUnicode
  <2>5. QED
    BY <2>1, <2>2, <2>3, <2>4 DEF TellsUnicode, IntelCxx11Mode
<1>9. Features(c) = Given({<<gnu, G>>, <<msvc, M>>, <<clang, C>>, <<intel, I>>})
    BY DEF Features
<1> HIDE DEF f, gnu, msvc, clang, intel, G, M, C, I
<1> DEFINE all == Given({<<gnu, G>>, <<msvc, M>>, <<clang, C>>, <<intel, I>>})
<1>10. /\ gnu => G \subseteq all
       /\ msvc => M \subseteq all
       /\ clang => C \subseteq all
       /\ intel => I \subseteq all
    BY FourGiven
<1> HIDE DEF all
<1>11. f \in all
    BY <1>8, <1>10
<1>12. QED
    BY <1>9, <1>11 DEF all, f

LEMMA UnicodeReached ==
    ASSUME NEW t \in Targets, NEW n \in 3..9, NEW a, Reached(t, n, a)
    PROVE  Knows(a, t.types)
<1> DEFINE p == Predefined(t)
           b == Compilers(Chain(t, 1))
           c == DefineAs(b, Standards(b))
<1>1. t.types \in SUBSET CharTypes /\ (t.types # {} /\ defined(p, {"__cplusplus"}) => TellsUnicode(p))
    BY TypesTold DEF CharTypes
<1>2. defined(p, {"__cplusplus"})
  <2>1. "__cplusplus" \in DOMAIN a
    BY TalksReached DEF Talks
  <2>2. Same(p, a, "__cplusplus")
    BY ToldReached DEF SpokenNames
  <2>3. QED
    BY <2>1, <2>2 DEF Same, defined
<1>3. FeatureSet(a) = FeatureSet(Chain(t, 2)) /\ ~Fails(Chain(t, 2))
    BY FeaturesReached, SMT
<1>4. /\ Tells(c, p) /\ FeatureMacros \cap DOMAIN c = {} /\ Chain(t, 2) = FeatureTests(c, Features(c))
    BY <1>3, ChainTells
<1> HIDE DEF c, p
<1>5. Features(c) \in SUBSET FeatureNames
    BY FeaturesNames
<1>6. "UNICODE_STRINGS" \in Defaulted
    BY DEF Defaulted
<1>7. SUFFICES ASSUME t.types # {}
               PROVE  value(a, Feature("UNICODE_STRINGS")) = 1
    BY <1>1 DEF Knows
<1>8. \A x \in Numbers \cup Grown : value(p, x) \in Nat
    BY TargetsSpeak DEF p
<1>9. "UNICODE_STRINGS" \in Features(c)
    BY <1>1, <1>2, <1>4, <1>7, <1>8, UnicodeGiven
<1>10. value(Chain(t, 2), Feature("UNICODE_STRINGS")) = 1
    BY <1>4, <1>5, <1>6, <1>9, FeatureTold
<1>11. QED
    BY <1>3, <1>6, <1>10 DEF FeatureSet

(* The types TypeInfo is specialised for are C's.                          *)
LEMMA SpecialisedReached ==
    ASSUME NEW t \in Targets, NEW n \in 4..9, NEW a, Reached(t, n, a)
    PROVE  Specialised(a) \subseteq BaseTypes
<1>1. Typedef(a, "pctk_int64_t") \in IntegerTypes
  <2>1. Typedef(a, "pctk_int64_t") = Standard(t.data, "int64_t", LongLong)
    BY WidthsReached
  <2>2. Means(t.data, "int64_t", 8)
    BY TargetsAssumption, TypesStand
  <2>3. QED
    BY <2>1, <2>2, Words DEF Means, Standard
<1>2. IntegerTypes \subseteq BaseTypes
    BY DEF IntegerTypes, BaseTypes
<1>3. BaseTypes \cap DOMAIN a = {}
  <2>1. BaseTypes \subseteq TypeNames \ {"pctk_int64_t"}
    BY DEF TypeNames, BaseTypes
  <2>2. BaseTypes \subseteq Foreign \ {Error}
    BY <2>1, ErrorNoType DEF Foreign
  <2>3. \A x \in BaseTypes : Same(Predefined(t), Chain(t, n), x)
    BY <2>2, ChainTypes
  <2>4. BaseTypes \cap Unseen = {}
    <3>1. /\ Definitions[1] = GuardNames /\ Definitions[9] = ProcessorMacros
          /\ Definitions[11] = {"PCTK_POINTER_SIZE"} /\ Definitions[13] = TypeNames \ {"pctk_int64_t"}
          /\ 1 \in DOMAIN Definitions /\ 9 \in DOMAIN Definitions
          /\ 11 \in DOMAIN Definitions /\ 13 \in DOMAIN Definitions
      BY DEF Definitions
    <3>2. QED
      BY <2>1, <3>1, DefinedOnce DEF Unseen
  <2>5. \A x \in BaseTypes : Same(a, Chain(t, n), x)
    BY <2>4 DEF Reached, Alike, AgreeBut
  <2>6. DOMAIN Predefined(t) \cap BaseTypes = {}
    BY TargetsBare
  <2>7. QED
    BY <2>3, <2>5, <2>6 DEF Same
<1>4. \A p \in Primitives(a) : p = "pctk_int64_t" \/ p \in BaseTypes
    BY DEF Primitives, BaseTypes
<1>5. \A p \in BaseTypes : Typedef(a, p) = p
    BY <1>3 DEF Typedef
<1>6. QED
    BY <1>1, <1>2, <1>4, <1>5 DEF Specialised

(* The templates that match a type by its form judge each type to be what  *)
(* it is and nothing else, and let only scalars be copied as if they were  *)
(* bytes, for every compiler whose char16_t and char32_t are types of their*)
(* own where it says so (pctkTypeTraits.h:361-376).                        *)
THEOREM TypesAlwaysClassifiedOnce == Spec => []TypesClassifiedOnce
<1>1. ASSUME IncludesInv
      PROVE  TypesClassifiedOnce
  <2> SUFFICES ASSUME Seen("_PCTKTYPETRAITS_H")
               PROVE  TypesClassifiedOnce
    BY DEF TypesClassifiedOnce
  <2> DEFINE n == LevelOf(Range(includes))
             types == target.types
             family == TypeFamily(types)
  <2>1. target \in Targets /\ After(target, Range(includes), m)
    BY <1>1 DEF IncludesInv
  <2>2. ~Fails(m) /\ Guard(7) \in DOMAIN m
    BY DEF Seen, defined, Guard, GuardOf
  <2>3. Ready(target, 9, n, m)
    BY <2>1, <2>2 DEF After, Gives
  <2>4. n \in 7..9
    BY <2>2, <2>3, LevelRange DEF Ready
  <2> HIDE DEF n
  <2>5. n \in 3..9 /\ n \in 4..9 /\ Reached(target, n, m)
    BY <2>3, <2>4 DEF Ready
  <2>6. Knows(m, types) /\ Specialised(m) \subseteq BaseTypes
    BY <2>1, <2>5, UnicodeReached, SpecialisedReached
  <2> HIDE DEF types, family
  <2>7. \A t \in family : \E T, U : Stripped(types, t, T, U)
    BY <2>6, FamilyStripped DEF Knows, family
  <2>8. \A t \in family : Judged(t) = {Kind(t)} \ {"other"}
    BY <2>6, <2>7, FamilyJudged
  <2>9. \A t \in family :
           /\ TypeIsPod(m, t) => Kind(t) \in Scalar
           /\ TypeHasTrivialAssign(m, t) => TypeHasTrivial(m, t)
           /\ TypeHasTrivial(m, t) => Kind(Strip(t, {"const", "volatile", "[]"})) \in Scalar
    BY <2>6, <2>7, CopiedOne
  <2>10. \A t, u \in {v \in family : Len(v) = 1} :
           (\/ TypeHasTrivial(m, <<"pair", t, u>>)
            \/ TypeInfoMerger({TypeInfo(m, t), TypeInfo(m, u)}).isRelocatable)
             => {Kind(t), Kind(u)} \subseteq Scalar
    BY <2>6, <2>7, CopiedPair
  <2>11. CopiedRight(family)
    BY <2>9, <2>10 DEF CopiedRight
  <2>12. QED
    BY <2>8, <2>11 DEF TypesClassifiedOnce, family, types
<1>2. QED
    BY <1>1, IncludesAlways, PTL
=============================================================================
