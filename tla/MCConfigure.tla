---------------------------- MODULE MCConfigure ----------------------------
(***************************************************************************)
(* Model-checking instance of Configure.                                   *)
(***************************************************************************)
EXTENDS Configure

(* One feature may be given a value that is none.                          *)
SomeInputs ==
    [f \in Features |->
        CASE f = "ICU" -> {"none", "ON"}
          [] f = "STDCXX_ATOMIC" -> InputValues
          [] f = "STDC_ATOMIC" -> {"none", "ON", "OFF"}]
=============================================================================
