-------------------------- MODULE MCAtomicPointer --------------------------
(***************************************************************************)
(* Model-checking instance of AtomicPointer.                               *)
(***************************************************************************)
EXTENDS AtomicPointer

(* The instance respects the discipline the passing runs are about.        *)
ASSUME Disciplined == SoleUpdater
=============================================================================
