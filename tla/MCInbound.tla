----------------------------- MODULE MCInbound -----------------------------
(***************************************************************************)
(* TLC instance of Inbound.                                                *)
(***************************************************************************)
EXTENDS Inbound, TLC

\* A reply with attachments, a plain one.
MCAttachments == [m \in Replies |-> IF m = "r1" THEN <<"a", "b">> ELSE <<>>]

CONSTANTS q1, q2

Symmetry == Permutations(Requests)
=============================================================================
