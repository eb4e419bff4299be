------------------------------ MODULE MCTools ------------------------------
(***************************************************************************)
(* Model-checking instance of Tools.  The program registers one id with a  *)
(* name it also makes tags of, so that both orders of the two occur.       *)
(***************************************************************************)
EXTENDS Tools, TLC

CONSTANTS a, b

MCLiterals == {<< >>, <<a>>, <<b>>}
MCReserved == {-1}
MCNameOf == [id \in MCReserved |-> <<a>>]

Symmetry == Permutations(Anys) \cup Permutations(Holders) \cup Permutations(Tags)
=============================================================================
