------------------------- MODULE MCThreadSafeDeque -------------------------
(***************************************************************************)
(* Instances of ThreadSafeDeque for TLC.                                   *)
(***************************************************************************)
EXTENDS ThreadSafeDeque, TLC

CONSTANTS p1, p2

MCSymmetry == Permutations({p1, p2})
=============================================================================
