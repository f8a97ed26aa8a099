------------------------------- MODULE Faults -------------------------------
(***************************************************************************)
(* The bound on what goes wrong in a behaviour.  The components that share *)
(* it, Session and Accounts, Webhook and Lifecycle, and Media and Mirror,  *)
(* are proved about in one module each.                                    *)
(***************************************************************************)
EXTENDS Naturals

CONSTANT MaxFaults

VARIABLE faults

\* A step that fails, or a crash, takes one.
Fault == faults < MaxFaults /\ faults' = faults + 1
=============================================================================
