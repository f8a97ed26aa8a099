-------------------------- MODULE DeliveryContract --------------------------
(***************************************************************************)
(* What the outbound queue promises its clients, without workers, locks,   *)
(* batches, retries or restarts: an accepted message stays pending until   *)
(* it settles once, as sent or failed; its settlement is announced at most *)
(* once and truthfully; deleting an instance forgets its messages.         *)
(*                                                                         *)
(* Outbox.tla implements it (Outbox!Contract).                             *)
(***************************************************************************)
EXTENDS Integers

CONSTANT Msgs

VARIABLES
    status,    \* "none", "pending", "sent", "failed" or "deleted"
    announced  \* number of announcements of each final status

cvars == <<status, announced>>

Settled == {"sent", "failed"}

Init ==
    /\ status = [m \in Msgs |-> "none"]
    /\ announced = [m \in Msgs |-> [s \in Settled |-> 0]]

Accept(m) ==
    /\ status[m] = "none"
    /\ status' = [status EXCEPT ![m] = "pending"]
    /\ UNCHANGED announced

Settle(m) ==
    /\ status[m] = "pending"
    /\ \E s \in Settled : status' = [status EXCEPT ![m] = s]
    /\ UNCHANGED announced

\* The announcement may come after the message was deleted.
Announce(m, s) ==
    /\ status[m] \in {s, "deleted"}
    /\ announced[m] = [t \in Settled |-> 0]
    /\ announced' = [announced EXCEPT ![m][s] = 1]
    /\ UNCHANGED status

\* Messages are deleted with their instance, all at once.
Forget(S) ==
    /\ status' = [m \in Msgs |-> IF m \in S /\ status[m] # "none"
                                 THEN "deleted" ELSE status[m]]
    /\ UNCHANGED announced

Next ==
    \/ \E m \in Msgs : Accept(m) \/ Settle(m)
    \/ \E m \in Msgs, s \in Settled : Announce(m, s)
    \/ \E S \in SUBSET Msgs : Forget(S)

Spec == Init /\ [][Next]_cvars

\* A pending message does not stay pending.
FairSpec == Spec /\ \A m \in Msgs : WF_cvars(Settle(m))
=============================================================================
