----------------------------- MODULE MCAccounts -----------------------------
(***************************************************************************)
(* TLC instance of Accounts.                                               *)
(***************************************************************************)
EXTENDS Accounts, TLC

CONSTANTS r1, r2, i1, i2, i3

Symmetry == Permutations({r1, r2}) \cup Permutations({i1, i2, i3})
=============================================================================
