----------------------------- MODULE Configure -----------------------------
(***************************************************************************)
(* The features of the Core library over repeated configurations of one    *)
(* build directory.  CMake keeps the results of compile tests and the      *)
(* values of features in a cache; between two configurations the user      *)
(* gives or withdraws INPUT_ variables, edits the cache, or changes what   *)
(* the compile tests and find_package() find.  A configuration runs the    *)
(* compile tests (configure.cmake), then evaluates the features in the     *)
(* order they were declared (pctk_configure_library_end), and may stop     *)
(* with a fatal error in between; the cache is saved all the same.         *)
(*                                                                         *)
(* The features are ICU, whose condition is what is found, and the two     *)
(* that choose the back end of AtomicInt and AtomicPointer.                *)
(***************************************************************************)
EXTENDS Naturals, Sequences, FiniteSets

CONSTANTS
    Unix, Gcc, Msvc,     \* the platform and the compiler
    Inputs               \* Inputs[f]: the values given to INPUT_PCTK_FEATURE_f

Tests == {"STDCXX_ATOMIC", "STDC_ATOMIC"}
Features == Tests \cup {"ICU"}

InputValues == {"none", "ON", "OFF", "bad"}

ASSUME PlatformAssumption == {Unix, Gcc, Msvc} \subseteq BOOLEAN
ASSUME InputsAssumption == Inputs \in [Features -> SUBSET InputValues]

VARIABLES
    compiles,      \* compiles[t]: whether the source of test t compiles now
    icu,           \* ICU_FOUND
    input,         \* input[f]: INPUT_PCTK_FEATURE_f
    test,          \* test[t]: TEST_t in the cache
    value,         \* value[f]: PCTK_FEATURE_f in the cache
    oldForce,      \* oldForce[f]: _feature_old_force_f in the cache
    reset,         \* __pctk_configure_reset of the configuration
    next,          \* the next feature to evaluate; 0 between configurations
    complete,      \* the last configuration reached its end and nothing
                   \* changed since
    edited         \* edited[f]: value[f] is the user's edit of the cache

world == <<compiles, icu, input>>
cache == <<test, value, oldForce>>
vars == <<world, cache, reset, next, complete, edited>>

TypeOK ==
    /\ compiles \in [Tests -> BOOLEAN]
    /\ icu \in BOOLEAN
    /\ input \in [Features -> InputValues]
    /\ test \in [Tests -> {"undefined", "0", "1"}]
    /\ value \in [Features -> {"undefined", "ON", "OFF"}]
    /\ oldForce \in [Features -> BOOLEAN]
    /\ reset \in BOOLEAN
    /\ next \in 0..Cardinality(Features)
    /\ complete \in BOOLEAN
    /\ edited \in [Features -> BOOLEAN]

-----------------------------------------------------------------------------
(* The declarations of configure.cmake.                                    *)

(* Mutant: STDC_ATOMIC is declared before STDCXX_ATOMIC.                   *)
SwappedDeclarations == <<"ICU", "STDC_ATOMIC", "STDCXX_ATOMIC">>

Declared == <<"ICU", "STDCXX_ATOMIC", "STDC_ATOMIC">>

Condition(f) == IF f = "ICU" THEN icu ELSE test[f] = "1"

(* ICU's is NOT WIN32.  Where WIN32 is not defined                         *)
(* pctk_evaluate_expression() drops it and tests a lone NOT, which CMake   *)
(* takes for the name of a variable nobody set.                            *)
AutoDetect(f) ==
    CASE f = "ICU" -> FALSE
      [] f = "STDCXX_ATOMIC" -> test[f] = "1"
      [] f = "STDC_ATOMIC" -> test[f] = "1" /\ value["STDCXX_ATOMIC"] # "ON"

-----------------------------------------------------------------------------
(* pctk_configure_evaluate_feature().  None of these features has DISABLE, *)
(* ENABLE or EMIT_IF.                                                      *)
OnOff(b) == IF b THEN "ON" ELSE "OFF"

(* Mutant: the result of the test is taken as it is.                       *)
RawComputed(f) ==
    IF AutoDetect(f) /\ f \in Tests THEN test[f] ELSE OnOff(AutoDetect(f) /\ Condition(f))

computed(f) == OnOff(AutoDetect(f) /\ Condition(f))

UsesInput(f) == input[f] = "OFF" \/ (input[f] = "ON" /\ Condition(f))

result(f) == IF UsesInput(f) THEN input[f] ELSE computed(f)

force(f) == ~AutoDetect(f) \/ input[f] # "none"

(* Mutant: the value is kept whatever forced it.                           *)
KeepsForcedValue(f) == ~force(f) /\ ~reset /\ value[f] # "undefined"

(* The value is kept that an earlier configuration or the user left there. *)
KeepsValue(f) == ~force(f) /\ ~oldForce[f] /\ ~reset /\ value[f] # "undefined"

-----------------------------------------------------------------------------
Init ==
    /\ compiles \in [Tests -> BOOLEAN]
    /\ icu \in BOOLEAN
    /\ input = [f \in Features |-> IF f = "STDCXX_ATOMIC" THEN "ON" ELSE "none"]
    /\ test = [t \in Tests |-> "undefined"]
    /\ value = [f \in Features |-> "undefined"]
    /\ oldForce = [f \in Features |-> FALSE]
    /\ reset = FALSE
    /\ next = 0
    /\ complete = FALSE
    /\ edited = [f \in Features |-> FALSE]

(* Other compiler flags, other packages.                                   *)
ChangeWorld ==
    /\ next = 0
    /\ compiles' \in [Tests -> BOOLEAN]
    /\ icu' \in BOOLEAN
    /\ complete' = FALSE
    /\ UNCHANGED <<input, cache, reset, next, edited>>

ChangeInput(f) ==
    /\ next = 0
    /\ input' \in {[input EXCEPT ![f] = v] : v \in Inputs[f]}
    /\ complete' = FALSE
    /\ UNCHANGED <<compiles, icu, cache, reset, next, edited>>

EditCache(f) ==
    /\ next = 0
    /\ value' \in {[value EXCEPT ![f] = v] : v \in {"ON", "OFF"}}
    /\ edited' = [edited EXCEPT ![f] = TRUE]
    /\ complete' = FALSE
    /\ UNCHANGED <<world, test, oldForce, reset, next>>

(* Mutant: compile tests are not repeated on a reset.                      *)
TestOnce(t, resets) ==
    IF test[t] = "undefined" THEN (IF compiles[t] THEN "1" ELSE "0") ELSE test[t]

(* pctk_configure_compile_test().                                          *)
TestResult(t, resets) ==
    IF test[t] = "undefined" \/ resets
    THEN (IF compiles[t] THEN "1" ELSE "0")
    ELSE test[t]

(* pctk_configure_reset(), and the compile tests of configure.cmake.       *)
BeginConfigure(resets) ==
    /\ next = 0
    /\ reset' = resets
    /\ test' = [t \in Tests |-> TestResult(t, resets)]
    /\ next' = 1
    /\ complete' = FALSE
    /\ UNCHANGED <<world, value, oldForce, edited>>

ValidInput(f) == input[f] # "bad"

Evaluate ==
    LET f == Declared[next]
    IN  /\ next # 0
        /\ ValidInput(f)
        /\ value' = [value EXCEPT ![f] = IF KeepsValue(f) THEN @ ELSE result(f)]
        /\ oldForce' = [oldForce EXCEPT ![f] = force(f)]
        /\ edited' = [edited EXCEPT ![f] = @ /\ KeepsValue(f)]
        /\ next' = IF next = Len(Declared) THEN 0 ELSE next + 1
        /\ complete' = (next = Len(Declared))
        /\ UNCHANGED <<world, test, reset>>

(* The configuration ends with a fatal error.                              *)
EvaluateFails ==
    /\ next # 0
    /\ ~ValidInput(Declared[next])
    /\ next' = 0
    /\ UNCHANGED <<world, cache, reset, complete, edited>>

Next ==
    \/ ChangeWorld
    \/ \E f \in Features : ChangeInput(f) \/ EditCache(f)
    \/ \E resets \in BOOLEAN : BeginConfigure(resets)
    \/ Evaluate
    \/ EvaluateFails

Spec == Init /\ [][Next]_vars

-----------------------------------------------------------------------------
(* The back ends that are compiled (src/libs/core/CMakeLists.txt).         *)
Chosen(f) == value[f] = "ON"

Compiled(backend) ==
    CASE backend = "cxx11" -> Chosen("STDCXX_ATOMIC")
      [] backend = "c11" -> Chosen("STDC_ATOMIC")
      [] backend = "gcc" -> Gcc
      [] backend = "msvc" -> Msvc
      [] backend = "posix" ->
            Unix /\ ~Chosen("STDCXX_ATOMIC") /\ ~Chosen("STDC_ATOMIC") /\ ~Gcc

BackEnds == {b \in {"cxx11", "c11", "gcc", "msvc", "posix"} : Compiled(b)}

(* All back ends define the methods of the same classes.  Whatever was     *)
(* configured before, edited and withdrawn, a configuration that completes *)
(* leaves exactly one, unless INPUT_PCTK_FEATURE_STDC_ATOMIC asks for the  *)
(* C one by name.  (On Unix, with a compiler that is not GCC: with GCC its *)
(* own back end is always added to the chosen one.)                        *)
OneBackEnd ==
    complete /\ input["STDC_ATOMIC"] # "ON" => Cardinality(BackEnds) = 1

(* A build directory does not remember: unless the user edited the cache,  *)
(* the features are what the same findings and the same INPUT_ variables   *)
(* would give without the earlier configurations; an INPUT_                *)
(* variable that was withdrawn, and a value it or an earlier test forced,  *)
(* leave no trace.                                                         *)
SameAsFresh ==
    complete => \A f \in Features : edited[f] \/ value[f] = result(f)

(* A configuration with CONFIGURE_RESET gives what an empty build          *)
(* directory would give: the tests are repeated, edits are dropped, and    *)
(* all features follow from what is found now.                             *)
ResetIsFresh ==
    complete /\ reset =>
        /\ \A t \in Tests : (test[t] = "1") = compiles[t]
        /\ \A f \in Features : value[f] = result(f)
=============================================================================
