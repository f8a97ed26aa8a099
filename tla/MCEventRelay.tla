---------------------------- MODULE MCEventRelay ----------------------------
(***************************************************************************)
(* TLC instances of EventRelay.                                            *)
(***************************************************************************)
EXTENDS EventRelay, TLC

CONSTANTS e1, e2, e3
=============================================================================
