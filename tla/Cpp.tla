-------------------------------- MODULE Cpp --------------------------------
(***************************************************************************)
(* The C preprocessor, as the headers of libs/core/source/global use it.   *)
(* The macros defined at a point of a translation unit are a function from *)
(* their names to their values; a macro without a value has the value 1.   *)
(* What a compiler can tell without a macro (__has_feature(cxx_nullptr),   *)
(* __has_include(<threads.h>)) is a name of that function too.             *)
(***************************************************************************)
EXTENDS Integers, Sequences, FiniteSets

(* defined(a) || defined(b) || ...                                         *)
defined(m, names) == names \cap DOMAIN m # {}

(* The value of an identifier in #if: 0 when it is not defined.            *)
value(m, name) == IF name \in DOMAIN m THEN m[name] ELSE 0

(* #define, of several names or of several names with values.              *)
DefineAs(m, f) ==
    [x \in DOMAIN m \cup DOMAIN f |-> IF x \in DOMAIN f THEN f[x] ELSE m[x]]

Define(m, names) == DefineAs(m, [x \in names |-> 1])

undef(m, names) == [x \in DOMAIN m \ names |-> m[x]]

(* #ifndef X / #define X value / #endif, for each X of f.                  *)
DefineMissing(m, f) == DefineAs(f, m)

(* #error, and what the compiler refuses.                                  *)
Error == "#error"
Fails(m) == Error \in DOMAIN m

(* The names given by those rows of a table whose condition holds.         *)
Given(table) == UNION {row[2] : row \in {r \in table : r[1]}}

(* A header: nothing if its guard is defined, its lines otherwise.  No line*)
(* is read after an error.                                                 *)
Header(guard, m, Lines(_)) ==
    IF defined(m, {guard, Error}) THEN m ELSE Lines(Define(m, {guard}))

UnlessFailed(m, Lines(_)) == IF Fails(m) THEN m ELSE Lines(m)
=============================================================================
