----------------------------- MODULE MCEcbCoverage -----------------------------
(* Instances of EcbCoverage for TLC. *)
EXTENDS EcbCoverage, TLC

CONSTANTS p1, p2, b1, b2, v1, v2

Symmetry == Permutations({b1, b2}) \cup Permutations({p1, p2})
=============================================================================
