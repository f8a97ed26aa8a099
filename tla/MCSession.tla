----------------------------- MODULE MCSession -----------------------------
(***************************************************************************)
(* TLC instances of Session.                                               *)
(***************************************************************************)
EXTENDS Session, TLC

Symmetry == Permutations(Handlers) \cup Permutations(Loops)
=============================================================================
