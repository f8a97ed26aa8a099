----------------------------- MODULE Idempotency -----------------------------
(***************************************************************************)
(* The Idempotency-Key middleware of the send POSTs: the requests that     *)
(* carry one key of one instance, the key's row, and what the handler and  *)
(* the store answer.                                                       *)
(*                                                                         *)
(* Source: internal/httpapi/idempotency.go and                             *)
(* internal/storage/postgres/idempotency.go.  Acquire is three statements  *)
(* without a transaction, so requests interleave between them.  A          *)
(* fingerprint stands for the method, route and body it hashes.            *)
(***************************************************************************)
EXTENDS Integers, FiniteSets

CONSTANTS
    Requests,      \* requests with the key, repeats included
    Fingerprints,  \* contents
    FingerprintOf, \* the content of each request
    NoRequest,     \* the request of an absent key
    MaxFaults      \* bound: store errors, crashes

ASSUME IdempotencyAssumption ==
    /\ IsFiniteSet(Requests)
    /\ FingerprintOf \in [Requests -> Fingerprints]
    /\ NoRequest \notin Requests
    /\ MaxFaults \in Nat

VARIABLES
    key,      \* idempotency_keys: the row and who inserted it
    pc,       \* where each request is
    owner,    \* requests whose INSERT took the key
    outcome,  \* what the handler wrote
    answer,   \* what the client got
    \* History, not stored by the program
    enqueued, \* requests whose message was stored
    exposed,  \* requests that ran without the key
    lapses,   \* times the key expired
    faults

vars == <<key, pc, owner, outcome, answer, enqueued, exposed, lapses, faults>>

-----------------------------------------------------------------------------
(* Values                                                                  *)

\* "rejected": a 4xx or a 503.  "error": any other 5xx.  "nothing": a panic.
Outcome == {"none", "accepted", "rejected", "error", "nothing"}

\* by: the request whose fingerprint the row holds; from: the request whose
\* response it holds.
Absent == [st |-> "absent", by |-> NoRequest, from |-> NoRequest, expired |-> FALSE]
Key == [st: {"absent", "in_progress", "completed"}, by: Requests \cup {NoRequest},
        from: Requests \cup {NoRequest}, expired: BOOLEAN]

Done(how, q) == [how |-> how, from |-> q]
Answer == [how: {"none", "handled", "cut", "conflict", "mismatch", "replay"},
           from: Requests \cup {NoRequest}]

TypeOK ==
    /\ key \in Key
    /\ pc \in [Requests -> {"new", "insert", "read", "run", "settle", "done"}]
    /\ owner \in SUBSET Requests
    /\ outcome \in [Requests -> Outcome]
    /\ answer \in [Requests -> Answer]
    /\ enqueued \in SUBSET Requests
    /\ exposed \in SUBSET Requests
    /\ lapses \in Nat
    /\ faults \in 0..MaxFaults

Init ==
    /\ key = Absent
    /\ pc = [r \in Requests |-> "new"]
    /\ owner = {}
    /\ outcome = [r \in Requests |-> "none"]
    /\ answer = [r \in Requests |-> Done("none", NoRequest)]
    /\ enqueued = {}
    /\ exposed = {}
    /\ lapses = 0
    /\ faults = 0

-----------------------------------------------------------------------------
(* Helpers                                                                 *)

Fault == faults < MaxFaults /\ faults' = faults + 1

Goto(r, step) == pc' = [pc EXCEPT ![r] = step]

Reply(r, how, q) ==
    /\ Goto(r, "done")
    /\ answer' = [answer EXCEPT ![r] = Done(how, q)]

\* The store did not answer: the request runs without the key.
RunExposed(r) ==
    /\ Goto(r, "run")
    /\ exposed' = exposed \cup {r}

\* The row an INSERT by r leaves.
Inserted(r) == [Absent EXCEPT !.st = "in_progress", !.by = r]

-----------------------------------------------------------------------------
(* Acquire                                                                 *)

\* DELETE the row if it expired.
DropExpired(r) ==
    /\ pc[r] = "new"
    /\ key' = IF key.expired THEN Absent ELSE key
    /\ Goto(r, "insert")
    /\ UNCHANGED <<owner, outcome, answer, enqueued, exposed, lapses, faults>>

\* Mutant: the conflicting row is overwritten.
Insert_Overwrites(r) ==
    /\ pc[r] = "insert"
    /\ key' = Inserted(r)
    /\ owner' = owner \cup {r}
    /\ Goto(r, "run")
    /\ UNCHANGED <<outcome, answer, enqueued, exposed, lapses, faults>>

\* INSERT ... ON CONFLICT DO NOTHING.
Insert(r) ==
    /\ pc[r] = "insert"
    /\ IF key.st = "absent"
       THEN key' = Inserted(r) /\ owner' = owner \cup {r} /\ Goto(r, "run")
       ELSE UNCHANGED <<key, owner>> /\ Goto(r, "read")
    /\ UNCHANGED <<outcome, answer, enqueued, exposed, lapses, faults>>

\* Mutant: the fingerprint is not compared.
Differs_Never(r) == FALSE
\* The row holds another content.
Differs(r) == FingerprintOf[key.by] # FingerprintOf[r]

\* SELECT the row that was in the way.  If it is gone by now the repository
\* reports ErrNotFound, which the middleware takes for an unavailable store.
Read(r) ==
    /\ pc[r] = "read"
    /\ \/ /\ key.st = "absent"
          /\ RunExposed(r)
          /\ UNCHANGED answer
       \/ /\ key.st # "absent"
          /\ UNCHANGED exposed
          /\ IF Differs(r) THEN Reply(r, "mismatch", NoRequest)
             ELSE IF key.st = "in_progress" THEN Reply(r, "conflict", NoRequest)
             ELSE Reply(r, "replay", key.from)
    /\ UNCHANGED <<key, owner, outcome, enqueued, lapses, faults>>

\* A statement of Acquire fails; an INSERT may have taken effect.
StoreFails(r) ==
    /\ pc[r] \in {"new", "insert", "read"}
    /\ Fault
    /\ RunExposed(r)
    /\ key' \in IF pc[r] = "insert" /\ key.st = "absent" THEN {key, Inserted(r)} ELSE {key}
    /\ UNCHANGED <<owner, outcome, answer, enqueued, lapses>>

-----------------------------------------------------------------------------
(* The handler and its deferred clean-up                                   *)

\* The handler stores the message and answers 202, or stores nothing and
\* answers 4xx, 503, 5xx or not at all; a 5xx may also hide a stored message.
Handle(r) ==
    /\ pc[r] = "run"
    /\ \E o \in Outcome \ {"none"}, stored \in BOOLEAN :
          /\ o = "accepted" => stored
          /\ o \in {"rejected", "nothing"} => ~stored
          /\ outcome' = [outcome EXCEPT ![r] = o]
          /\ enqueued' = IF stored THEN enqueued \cup {r} ELSE enqueued
    /\ answer' = [answer EXCEPT ![r] = Done("handled", r)]
    /\ Goto(r, IF r \in owner THEN "settle" ELSE "done")
    /\ UNCHANGED <<key, owner, exposed, lapses, faults>>

\* Mutant: every failure frees the key.
Frees_AnyFailure(o) == o # "accepted"
\* The outcomes after which no message can have been stored.
Frees(o) == o \in {"rejected", "nothing"}

\* The deferred clean-up: Release deletes the row; Complete stores the
\* response in it, if it is still there.  Neither asks who owns the row.
Settle(r) ==
    /\ pc[r] = "settle"
    /\ key' = IF Frees(outcome[r]) THEN Absent
              ELSE IF key.st = "absent" THEN key
              ELSE [key EXCEPT !.st = "completed", !.from = r]
    /\ owner' = owner \ {r}
    /\ Goto(r, "done")
    /\ UNCHANGED <<outcome, answer, enqueued, exposed, lapses, faults>>

\* Release or Complete fails: logged, and the key stays in progress.
SettleFails(r) ==
    /\ pc[r] = "settle"
    /\ Fault
    /\ owner' = owner \ {r}
    /\ Goto(r, "done")
    /\ UNCHANGED <<key, outcome, answer, enqueued, exposed, lapses>>

-----------------------------------------------------------------------------
(* Time and crashes                                                        *)

\* The TTL of the row passes; 24 hours outlive any request.
Expire ==
    /\ key.st # "absent"
    /\ ~key.expired
    /\ owner = {}
    /\ key' = [key EXCEPT !.expired = TRUE]
    /\ lapses' = lapses + 1
    /\ UNCHANGED <<pc, owner, outcome, answer, enqueued, exposed, faults>>

\* The process dies: requests under way are cut and their clean-up never runs.
Crash ==
    /\ Fault
    /\ owner' = {}
    /\ pc' = [r \in Requests |-> IF pc[r] = "new" THEN "new" ELSE "done"]
    /\ answer' = [r \in Requests |->
                     IF pc[r] \in {"insert", "read", "run"} THEN Done("cut", NoRequest)
                     ELSE answer[r]]
    /\ UNCHANGED <<key, outcome, enqueued, exposed, lapses>>

-----------------------------------------------------------------------------

Next ==
    \/ \E r \in Requests :
          \/ DropExpired(r) \/ Insert(r) \/ Read(r) \/ StoreFails(r)
          \/ Handle(r) \/ Settle(r) \/ SettleFails(r)
    \/ Expire \/ Crash

Spec == Init /\ [][Next]_vars

-----------------------------------------------------------------------------
(* Properties                                                              *)

\* At most one request runs under the key, and the row is its own until it
\* settles it: this is why Complete and Release need not ask who owns the
\* row (postgres/idempotency.go, the comment of Acquire).
OwnerHoldsKey ==
    \A r \in owner : key.st = "in_progress" /\ key.by = r

\* Repeats store a second message only when a request ran without the key or
\* the key expired: a failure that may have stored a message keeps the key
\* (httpapi/idempotency.go, the comment of Idempotency).
DuplicatesExcused ==
    Cardinality(enqueued) <= 1 + Cardinality(exposed) + lapses

\* A replay is the response of an earlier request with the same content that
\* may have stored its message, never of one that may be repeated.
ReplayIsOriginal ==
    \A r \in Requests : answer[r].how = "replay" =>
        LET q == answer[r].from IN
        /\ q \in Requests
        /\ FingerprintOf[q] = FingerprintOf[r]
        /\ outcome[q] \in {"accepted", "error"}

\* With a working store, repeats within the TTL store one message.
RepeatsStoreOnce == faults = 0 /\ lapses = 0 => Cardinality(enqueued) <= 1
=============================================================================
