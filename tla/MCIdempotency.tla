--------------------------- MODULE MCIdempotency ---------------------------
(***************************************************************************)
(* TLC instances of Idempotency: three repeats of one content and a        *)
(* request that reuses the key for another.                                *)
(***************************************************************************)
EXTENDS Idempotency, TLC

CONSTANTS r1, r2, r3, r4, f1, f2

Contents == [r \in Requests |-> IF r = r4 THEN f2 ELSE f1]

Symmetry == Permutations({r1, r2, r3})
=============================================================================
