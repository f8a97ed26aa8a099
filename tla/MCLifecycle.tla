---------------------------- MODULE MCLifecycle ----------------------------
(***************************************************************************)
(* TLC instance of Lifecycle.                                              *)
(***************************************************************************)
EXTENDS Lifecycle, TLC

CONSTANTS r1, r2, s1, s2, d1

Symmetry == Permutations({r1, r2}) \cup Permutations({s1, s2})
=============================================================================
