------------------------------ MODULE MCMedia ------------------------------
(***************************************************************************)
(* TLC instance of Media.                                                  *)
(***************************************************************************)
EXTENDS Media
=============================================================================
