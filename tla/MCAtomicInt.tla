---------------------------- MODULE MCAtomicInt ----------------------------
(***************************************************************************)
(* Model-checking instance of AtomicInt: the two's complement bit          *)
(* operators on -Half .. Half - 1, and arguments at both ends of a one-bit *)
(* int so that every addition and subtraction of -1 to -1 wraps.  The      *)
(* behaviours of both back ends are explored: AtomicInt itself is given    *)
(* one of them, Other the other.                                           *)
(***************************************************************************)
EXTENDS AtomicInt, Bitwise, TLC

Unsigned(x) == x % (2 * Half)
Signed(x) == IF x >= Half THEN x - 2 * Half ELSE x

SignedOr(x, y) == Signed(Unsigned(x) | Unsigned(y))
SignedAnd(x, y) == Signed(Unsigned(x) & Unsigned(y))
SignedXor(x, y) == Signed(Unsigned(x) ^^ Unsigned(y))

MCArgs == {-1, 0}

(* The back end this program was built with.                               *)
VARIABLE backend

Other == INSTANCE AtomicInt WITH Backend <- "c11"

MCInit == Init /\ backend \in Backends

MCNext ==
    /\ \/ backend = Backend /\ Next
       \/ backend # Backend /\ Other!Next
    /\ UNCHANGED backend

MCSpec == MCInit /\ [][MCNext]_<<vars, backend>>

Symmetry == Permutations(Threads) \cup Permutations(Writes)
=============================================================================
