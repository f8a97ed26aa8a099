----------------------------- MODULE MCHistory -----------------------------
(***************************************************************************)
(* TLC instance of History.                                                *)
(***************************************************************************)
EXTENDS History
=============================================================================
