------------------------------ MODULE MCOutbox ------------------------------
(***************************************************************************)
(* TLC instances of Outbox.                                                *)
(***************************************************************************)
EXTENDS Outbox, TLC

CONSTANTS m1, m2, i1, i2, w1, w2

\* Both messages through one instance: its lock is contended.
SameInstance == [m \in Msgs |-> CHOOSE i \in Instances : TRUE]
\* One message per instance: workers send in parallel.
ApartInstance == [m \in Msgs |-> IF m = m1 THEN i1 ELSE i2]

Symmetry == Permutations(Workers)
=============================================================================
