----------------------------- MODULE MCRefCount -----------------------------
(***************************************************************************)
(* Model-checking instance of RefCount.                                    *)
(***************************************************************************)
EXTENDS RefCount, TLC

Symmetry ==
    Permutations(Threads) \cup Permutations(Writes) \cup Permutations(Refs)
=============================================================================
