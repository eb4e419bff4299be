-------------------------- MODULE ConfigureProofs --------------------------
(***************************************************************************)
(* For every platform, every compiler and every choice of inputs: what a   *)
(* completed configuration leaves behind.                                  *)
(*                                                                         *)
(* A value can only be kept if no earlier evaluation forced it.  Then it   *)
(* is the user's edit, or it was computed while its feature was detected,  *)
(* and a detected feature is computed ON; if the feature is detected       *)
(* still, that is what it would be computed now (KeptIsOn).  So the        *)
(* features evaluated so far are up to date (Evaluated).                   *)
(***************************************************************************)
EXTENDS Configure, FiniteSetTheorems, TLAPS

IsEvaluated(k) == k < next \/ complete

UpToDate(f) ==
    /\ value[f] # "undefined"
    /\ reset \/ force(f) \/ ~edited[f] => value[f] = result(f)

Evaluated == \A k \in 1..3 : IsEvaluated(k) => UpToDate(Declared[k])

KeptIsOn ==
    \A f \in Features :
        value[f] # "undefined" /\ ~oldForce[f] /\ ~edited[f] => value[f] = "ON"

TestsRepeated ==
    reset /\ (next # 0 \/ complete) => \A t \in Tests : (test[t] = "1") = compiles[t]

IInv ==
    /\ TypeOK
    /\ next \in 0..3
    /\ complete => next = 0
    /\ KeptIsOn
    /\ TestsRepeated
    /\ Evaluated

(* Configure declares three features.                                      *)
LEMMA DeclaredFeatures ==
    /\ Len(Declared) = 3
    /\ Cardinality(Features) = 3
    /\ Declared[1] = "ICU"
    /\ Declared[2] = "STDCXX_ATOMIC"
    /\ Declared[3] = "STDC_ATOMIC"
  <1>1. Features = {"ICU", "STDCXX_ATOMIC", "STDC_ATOMIC"}
    BY DEF Features, Tests
  <1>2. IsFiniteSet({"ICU", "STDCXX_ATOMIC", "STDC_ATOMIC"})
           /\ Cardinality({"ICU", "STDCXX_ATOMIC", "STDC_ATOMIC"}) = 3
    <2>1. IsFiniteSet({}) /\ Cardinality({}) = 0
      BY FS_EmptySet
    <2>2. IsFiniteSet({"ICU"}) /\ Cardinality({"ICU"}) = 1
      BY FS_Singleton
    <2>3. IsFiniteSet({"ICU"} \cup {"STDCXX_ATOMIC"})
             /\ Cardinality({"ICU"} \cup {"STDCXX_ATOMIC"}) = 2
      BY <2>2, FS_AddElement
    <2>4. IsFiniteSet(({"ICU"} \cup {"STDCXX_ATOMIC"}) \cup {"STDC_ATOMIC"})
             /\ Cardinality(({"ICU"} \cup {"STDCXX_ATOMIC"}) \cup {"STDC_ATOMIC"}) = 3
      BY <2>3, FS_AddElement
    <2>5. ({"ICU"} \cup {"STDCXX_ATOMIC"}) \cup {"STDC_ATOMIC"}
             = {"ICU", "STDCXX_ATOMIC", "STDC_ATOMIC"}
      OBVIOUS
    <2> QED
      BY <2>4, <2>5
  <1> QED
    BY <1>1, <1>2 DEF Declared

(* A detected feature meets its condition.                                 *)
LEMMA DetectedIsComputedOn ==
    ASSUME NEW f \in Features, AutoDetect(f)
    PROVE  computed(f) = "ON"
  BY DEF AutoDetect, Condition, computed, OnOff, Features, Tests

(* The outcome of an evaluation is a value.                                *)
LEMMA ResultType ==
    ASSUME NEW f \in Features, input \in [Features -> InputValues]
    PROVE  result(f) \in {"ON", "OFF"}
  BY DEF result, UsesInput, computed, OnOff, InputValues

LEMMA InitInvariant == Init => IInv
  <1> SUFFICES ASSUME Init PROVE IInv
    OBVIOUS
  <1>1. TypeOK
    <2>1. input \in [Features -> InputValues]
      BY DEF Init, InputValues
    <2>2. next \in 0..Cardinality(Features)
      BY DeclaredFeatures DEF Init
    <2> QED
      BY <2>1, <2>2 DEF Init, TypeOK
  <1> QED
    BY <1>1 DEF Init, IInv, KeptIsOn, TestsRepeated, Evaluated, IsEvaluated

(* What the evaluation of a feature depends on besides the cached values   *)
(* of the features.                                                        *)
LEMMA Unchanged ==
    ASSUME UNCHANGED <<icu, input, test, value>>
    PROVE  \A f \in Features : result(f)' = result(f) /\ force(f)' = force(f)
  BY DEF result, force, UsesInput, computed, AutoDetect, Condition

(* An evaluation changes the outcome of no feature declared before.        *)
LEMMA EvaluatedEarlier ==
    ASSUME TypeOK, Evaluate, NEW k \in 1..3, k <= next
    PROVE  /\ result(Declared[k])' = result(Declared[k])
           /\ force(Declared[k])' = force(Declared[k])
  <1> DEFINE f == Declared[k]
  <1>1. k = 1 \/ k = 2 \/ k = 3
    OBVIOUS
  <1>2. UNCHANGED <<icu, input, test>>
    BY DEF Evaluate, world, cache
  <1>3. next \in 1..3 /\ next \in Nat
    BY DeclaredFeatures DEF Evaluate, TypeOK
  <1>4. f = "STDC_ATOMIC" => value'["STDCXX_ATOMIC"] = value["STDCXX_ATOMIC"]
    <2> SUFFICES ASSUME f = "STDC_ATOMIC"
                 PROVE  value'["STDCXX_ATOMIC"] = value["STDCXX_ATOMIC"]
      OBVIOUS
    <2>1. k = 3
      BY <1>1, DeclaredFeatures
    <2>2. next = 3
      BY <2>1, <1>3
    <2> QED
      BY <2>2, DeclaredFeatures DEF Evaluate, TypeOK, Features, Tests
  <1>5. AutoDetect(f)' = AutoDetect(f) /\ Condition(f)' = Condition(f)
    BY <1>1, <1>2, <1>4, DeclaredFeatures DEF AutoDetect, Condition
  <1> QED
    BY <1>2, <1>5 DEF result, force, UsesInput, computed

(* The feature just evaluated is up to date: its value was computed, or it *)
(* was kept because nothing forced it and it is ON.                        *)
LEMMA EvaluateUpdates ==
    ASSUME IInv, Evaluate
    PROVE  LET f == Declared[next]
           IN  /\ value'[f] # "undefined"
               /\ reset \/ force(f) \/ ~edited'[f] => value'[f] = result(f)
               /\ ~oldForce'[f] /\ ~edited'[f] => value'[f] = "ON"
  <1> DEFINE f == Declared[next]
  <1>1. f \in Features /\ next \in 1..3
    BY DeclaredFeatures DEF Evaluate, IInv, Features, Tests
  <1>2. /\ value'[f] = IF KeepsValue(f) THEN value[f] ELSE result(f)
        /\ oldForce'[f] = force(f)
        /\ edited'[f] = (edited[f] /\ KeepsValue(f))
    BY <1>1 DEF Evaluate, IInv, TypeOK
  <1>3. result(f) \in {"ON", "OFF"}
    BY <1>1, ResultType DEF IInv, TypeOK
  <1>4. ~force(f) => result(f) = "ON"
    <2> SUFFICES ASSUME ~force(f) PROVE result(f) = "ON"
      OBVIOUS
    <2>1. AutoDetect(f) /\ input[f] = "none"
      BY DEF force
    <2>2. computed(f) = "ON"
      BY <1>1, <2>1, DetectedIsComputedOn
    <2> QED
      BY <2>1, <2>2 DEF result, UsesInput
  <1>5. CASE KeepsValue(f)
    <2>1. ~force(f) /\ ~oldForce[f] /\ ~reset /\ value[f] # "undefined"
      BY <1>5 DEF KeepsValue
    <2>2. ~edited[f] => value[f] = "ON"
      BY <1>1, <2>1 DEF IInv, KeptIsOn
    <2> QED
      BY <1>2, <1>4, <1>5, <2>1, <2>2
  <1>6. CASE ~KeepsValue(f)
    BY <1>2, <1>3, <1>4, <1>6
  <1> QED
    BY <1>5, <1>6

LEMMA EvaluateInvariant ==
    ASSUME IInv, Evaluate
    PROVE  IInv'
  <1> DEFINE f == Declared[next]
  <1>1. f \in Features /\ next \in 1..3
    BY DeclaredFeatures DEF Evaluate, IInv, Features, Tests
  <1>2. UNCHANGED <<compiles, icu, input, test, reset>>
    BY DEF Evaluate, world
  <1>3. /\ value' = [value EXCEPT ![f] = IF KeepsValue(f) THEN @ ELSE result(f)]
        /\ oldForce' = [oldForce EXCEPT ![f] = force(f)]
        /\ edited' = [edited EXCEPT ![f] = @ /\ KeepsValue(f)]
    BY DEF Evaluate
  <1>4. /\ next' = IF next = 3 THEN 0 ELSE next + 1
        /\ complete' <=> next = 3
    BY DeclaredFeatures DEF Evaluate
  <1>5. TypeOK'
    <2>1. result(f) \in {"ON", "OFF"}
      BY <1>1, ResultType DEF IInv, TypeOK
    <2>2. value' \in [Features -> {"undefined", "ON", "OFF"}]
      BY <1>3, <2>1 DEF IInv, TypeOK
    <2>3. oldForce' \in [Features -> BOOLEAN]
      <3>1. force(f) \in BOOLEAN
        BY DEF force
      <3> QED
        BY <1>3, <3>1 DEF IInv, TypeOK
    <2>4. edited' \in [Features -> BOOLEAN]
      <3>1. (edited[f] /\ KeepsValue(f)) \in BOOLEAN
        OBVIOUS
      <3> QED
        BY <1>3, <3>1 DEF IInv, TypeOK
    <2>5. next' \in 0..Cardinality(Features) /\ complete' \in BOOLEAN
      BY <1>1, <1>4, DeclaredFeatures DEF Evaluate
    <2> QED
      BY <1>2, <2>2, <2>3, <2>4, <2>5 DEF IInv, TypeOK
  <1>6. next' \in 0..3 /\ (complete' => next' = 0)
    BY <1>1, <1>4
  <1>7. KeptIsOn'
    <2> SUFFICES ASSUME NEW g \in Features,
                        value'[g] # "undefined", ~oldForce'[g], ~edited'[g]
                 PROVE  value'[g] = "ON"
      BY DEF KeptIsOn
    <2>1. CASE g = f
      BY <2>1, EvaluateUpdates
    <2>2. CASE g # f
      <3>1. value'[g] = value[g] /\ oldForce'[g] = oldForce[g] /\ edited'[g] = edited[g]
        BY <1>3, <2>2 DEF IInv, TypeOK
      <3> QED
        BY <3>1 DEF IInv, KeptIsOn
    <2> QED
      BY <2>1, <2>2
  <1>8. TestsRepeated'
    <2>1. next # 0
      BY DEF Evaluate
    <2> QED
      BY <1>2, <2>1 DEF IInv, TestsRepeated
  <1>9. Evaluated'
    <2> SUFFICES ASSUME NEW k \in 1..3, IsEvaluated(k)'
                 PROVE  UpToDate(Declared[k])'
      BY DEF Evaluated
    <2>1. k <= next
      BY <1>1, <1>4 DEF IsEvaluated
    <2>2. /\ result(Declared[k])' = result(Declared[k])
          /\ force(Declared[k])' = force(Declared[k])
      BY <2>1, EvaluatedEarlier DEF IInv
    <2>3. CASE k = next
      BY <1>2, <2>2, <2>3, EvaluateUpdates DEF UpToDate
    <2>4. CASE k < next
      <3>1. UpToDate(Declared[k])
        BY <2>4 DEF IInv, Evaluated, IsEvaluated
      <3>2. Declared[k] \in Features /\ Declared[k] # f
        BY <1>1, <2>4, DeclaredFeatures DEF Features, Tests
      <3>3. value'[Declared[k]] = value[Declared[k]] /\ edited'[Declared[k]] = edited[Declared[k]]
        BY <1>3, <3>2 DEF IInv, TypeOK
      <3> QED
        BY <1>2, <2>2, <3>1, <3>3 DEF UpToDate
    <2> QED
      BY <1>1, <2>1, <2>3, <2>4
  <1> QED
    BY <1>5, <1>6, <1>7, <1>8, <1>9 DEF IInv

LEMMA StepInvariant == IInv /\ [Next]_vars => IInv'
  <1> SUFFICES ASSUME IInv, [Next]_vars PROVE IInv'
    OBVIOUS
  <1>1. CASE ChangeWorld
    <2>1. TypeOK'
      BY <1>1 DEF ChangeWorld, IInv, TypeOK, cache
    <2> QED
      BY <1>1, <2>1
      DEF ChangeWorld, IInv, cache, KeptIsOn, TestsRepeated, Evaluated, IsEvaluated
  <1>2. ASSUME NEW f \in Features, ChangeInput(f) PROVE IInv'
    <2>1. TypeOK'
      <3>1. PICK v \in Inputs[f] : input' = [input EXCEPT ![f] = v]
        BY <1>2 DEF ChangeInput
      <3>2. input' \in [Features -> InputValues]
        BY <3>1, InputsAssumption DEF IInv, TypeOK
      <3> QED
        BY <1>2, <3>2 DEF ChangeInput, IInv, TypeOK, cache
    <2> QED
      BY <1>2, <2>1
      DEF ChangeInput, IInv, cache, KeptIsOn, TestsRepeated, Evaluated, IsEvaluated
  <1>3. ASSUME NEW f \in Features, EditCache(f) PROVE IInv'
    <2>1. PICK v \in {"ON", "OFF"} : value' = [value EXCEPT ![f] = v]
      BY <1>3 DEF EditCache
    <2>2. edited' = [edited EXCEPT ![f] = TRUE]
      BY <1>3 DEF EditCache
    <2>3. TypeOK'
      <3>1. edited' \in [Features -> BOOLEAN]
        BY <2>2 DEF IInv, TypeOK
      <3> QED
        BY <1>3, <2>1, <3>1 DEF EditCache, IInv, TypeOK, world
    <2>4. KeptIsOn'
      <3> SUFFICES ASSUME NEW g \in Features,
                          value'[g] # "undefined", ~oldForce'[g], ~edited'[g]
                   PROVE  value'[g] = "ON"
        BY DEF KeptIsOn
      <3>1. g # f
        BY <2>2 DEF IInv, TypeOK
      <3>2. value'[g] = value[g] /\ edited'[g] = edited[g] /\ oldForce'[g] = oldForce[g]
        BY <1>3, <2>1, <2>2, <3>1 DEF EditCache, IInv, TypeOK
      <3> QED
        BY <3>2 DEF IInv, KeptIsOn
    <2> QED
      BY <1>3, <2>3, <2>4
      DEF EditCache, IInv, TestsRepeated, Evaluated, IsEvaluated
  <1>4. ASSUME NEW resets \in BOOLEAN, BeginConfigure(resets) PROVE IInv'
    <2>1. /\ reset' = resets /\ next' = 1 /\ ~complete'
          /\ test' = [t \in Tests |-> TestResult(t, resets)]
          /\ UNCHANGED <<compiles, icu, input, value, oldForce, edited>>
      BY <1>4 DEF BeginConfigure, world
    <2>2. TypeOK'
      <3>1. test' \in [Tests -> {"undefined", "0", "1"}]
        BY <2>1 DEF TestResult, IInv, TypeOK
      <3>2. next' \in 0..Cardinality(Features)
        BY <2>1, DeclaredFeatures
      <3>3. complete' \in BOOLEAN
        BY <1>4 DEF BeginConfigure
      <3> QED
        BY <2>1, <3>1, <3>2, <3>3 DEF IInv, TypeOK
    <2>3. TestsRepeated'
      BY <2>1 DEF TestsRepeated, TestResult, IInv, TypeOK
    <2>4. KeptIsOn'
      BY <2>1 DEF IInv, KeptIsOn
    <2>5. Evaluated'
      BY <2>1 DEF Evaluated, IsEvaluated
    <2> QED
      BY <2>1, <2>2, <2>3, <2>4, <2>5 DEF IInv
  <1>5. CASE Evaluate
    BY <1>5, EvaluateInvariant
  <1>6. CASE EvaluateFails
    <2>1. /\ next # 0 /\ next' = 0
          /\ UNCHANGED <<compiles, icu, input, test, value, oldForce, reset, complete, edited>>
      BY <1>6 DEF EvaluateFails, world, cache
    <2>2. ~complete
      BY <2>1 DEF IInv
    <2>3. TypeOK'
      BY <2>1, DeclaredFeatures DEF IInv, TypeOK
    <2> QED
      BY <2>1, <2>2, <2>3 DEF IInv, KeptIsOn, TestsRepeated, Evaluated, IsEvaluated
  <1>7. CASE UNCHANGED vars
    <2>1. UNCHANGED <<compiles, icu, input, test, value, oldForce, reset, next, complete, edited>>
      BY <1>7 DEF vars, world, cache
    <2>2. Evaluated'
      <3>1. \A k \in 1..3 : Declared[k] \in Features
        BY DeclaredFeatures DEF Features, Tests
      <3> QED
        BY <2>1, <3>1, Unchanged DEF IInv, Evaluated, IsEvaluated, UpToDate
    <2> QED
      BY <2>1, <2>2 DEF IInv, TypeOK, KeptIsOn, TestsRepeated
  <1> QED
    BY <1>1, <1>2, <1>3, <1>4, <1>5, <1>6, <1>7 DEF Next

(* The parts of the argument hold in every reachable state.                *)
THEOREM Invariance == Spec => []IInv
  <1> QED
    BY InitInvariant, StepInvariant, PTL DEF Spec

(* The cache and the state of a configuration keep their types.            *)
THEOREM TypeCorrect == Spec => []TypeOK
  <1>1. IInv => TypeOK
    BY DEF IInv
  <1> QED
    BY <1>1, Invariance, PTL

(* When a configuration is complete every feature has been evaluated.      *)
LEMMA CompleteIsUpToDate ==
    ASSUME IInv, complete
    PROVE  \A f \in Features : UpToDate(f)
  <1>1. UpToDate("ICU") /\ UpToDate("STDCXX_ATOMIC") /\ UpToDate("STDC_ATOMIC")
    BY DeclaredFeatures DEF IInv, Evaluated, IsEvaluated
  <1> QED
    BY <1>1 DEF Features, Tests

(* A build directory does not remember: values an INPUT_ variable or an    *)
(* earlier test forced leave no trace once they are withdrawn.             *)
THEOREM NothingRemembered == Spec => []SameAsFresh
  <1>1. IInv => SameAsFresh
    BY CompleteIsUpToDate DEF SameAsFresh, UpToDate
  <1> QED
    BY <1>1, Invariance, PTL

(* A configuration with CONFIGURE_RESET gives what an empty build          *)
(* directory gives.                                                        *)
THEOREM ResetRefreshes == Spec => []ResetIsFresh
  <1>1. IInv => ResetIsFresh
    BY CompleteIsUpToDate DEF ResetIsFresh, UpToDate, IInv, TestsRepeated
  <1> QED
    BY <1>1, Invariance, PTL

(* On Unix, with neither GCC nor MSVC, exactly one back end is compiled,   *)
(* unless the C one was asked for by name.                                 *)
THEOREM ExactlyOneBackEnd ==
    ASSUME Unix, ~Gcc, ~Msvc
    PROVE  Spec => []OneBackEnd
  <1>1. ASSUME IInv, complete, input["STDC_ATOMIC"] # "ON"
        PROVE  Cardinality(BackEnds) = 1
    <2>1. UpToDate("STDC_ATOMIC")
      BY <1>1, CompleteIsUpToDate DEF Features, Tests
    <2>2. Chosen("STDCXX_ATOMIC") => ~Chosen("STDC_ATOMIC")
      <3> SUFFICES ASSUME Chosen("STDCXX_ATOMIC") PROVE ~Chosen("STDC_ATOMIC")
        OBVIOUS
      <3>1. ~AutoDetect("STDC_ATOMIC")
        BY DEF Chosen, AutoDetect
      <3>2. value["STDC_ATOMIC"] = result("STDC_ATOMIC")
        BY <2>1, <3>1 DEF UpToDate, force
      <3>3. result("STDC_ATOMIC") = "OFF"
        BY <1>1, <3>1 DEF result, UsesInput, computed, OnOff
      <3> QED
        BY <3>2, <3>3 DEF Chosen
    <2>3. \E b : BackEnds = {b}
      <3>1. CASE Chosen("STDCXX_ATOMIC")
        <4>1. BackEnds = {"cxx11"}
          BY <2>2, <3>1 DEF BackEnds, Compiled
        <4> QED
          BY <4>1
      <3>2. CASE Chosen("STDC_ATOMIC")
        <4>1. BackEnds = {"c11"}
          BY <2>2, <3>2 DEF BackEnds, Compiled
        <4> QED
          BY <4>1
      <3>3. CASE ~Chosen("STDCXX_ATOMIC") /\ ~Chosen("STDC_ATOMIC")
        <4>1. BackEnds = {"posix"}
          BY <3>3 DEF BackEnds, Compiled
        <4> QED
          BY <4>1
      <3> QED
        BY <3>1, <3>2, <3>3
    <2> QED
      BY <2>3, FS_Singleton
  <1>2. IInv => OneBackEnd
    BY <1>1 DEF OneBackEnd
  <1> QED
    BY <1>2, Invariance, PTL
=============================================================================
