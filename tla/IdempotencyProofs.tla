-------------------------- MODULE IdempotencyProofs --------------------------
(***************************************************************************)
(* Proofs about Idempotency, for any finite set of requests, any contents  *)
(* and any number of faults.                                               *)
(***************************************************************************)
EXTENDS Idempotency, FiniteSetTheorems, TLAPS

-----------------------------------------------------------------------------
(* The inductive invariant                                                 *)

\* The request that took the key is running or settling, and the row is its
\* own and alive.
OwnerRuns ==
    \A r \in owner : /\ key.st = "in_progress" /\ key.by = r /\ ~key.expired
                     /\ pc[r] \in {"run", "settle"}

\* A request runs with the key or is counted as running without it; only the
\* owner settles; a stored message belongs to a request that was handled, and
\* to none whose outcome frees the key.
Progress ==
    \A r \in Requests :
        /\ pc[r] = "run" => r \in owner \cup exposed
        /\ pc[r] = "settle" => r \in owner /\ outcome[r] # "none"
        /\ r \in enqueued => pc[r] \in {"settle", "done"}
        /\ pc[r] = "settle" /\ Frees(outcome[r]) => r \notin enqueued

\* The messages stored under the key.
Kept == enqueued \ exposed

\* The row stands for one of them while it is alive.
Charge ==
    IF key.st # "absent" /\ ~key.expired /\ key.by \in Kept THEN 1 ELSE 0

\* Each other one needs an expiry.
KeptBounded == Cardinality(Kept) <= lapses + Charge

\* The requests whose response may be stored: handled, and the key was kept.
Answered == {q \in Requests : pc[q] = "done" /\ outcome[q] \in {"accepted", "error"}}

SameContent(q, r) == FingerprintOf[q] = FingerprintOf[r]

\* A completed row holds the response of a request with its own fingerprint,
\* and so does each replay.
RowOriginal ==
    key.st = "completed" =>
        key.by \in Requests /\ key.from \in Answered /\ SameContent(key.from, key.by)
RepliesOriginal ==
    \A r \in Requests : answer[r].how = "replay" =>
        answer[r].from \in Answered /\ SameContent(answer[r].from, r)

-----------------------------------------------------------------------------
(* The type invariant                                                      *)

\* No request was made yet.
LEMMA InitType == Init => TypeOK
  BY IdempotencyAssumption DEF Init, TypeOK, Key, Absent, Outcome, Answer, Done

\* The rows the statements of Acquire, Complete and the clock leave.
LEMMA KeyUpdates ==
    ASSUME NEW k \in Key, NEW r \in Requests
    PROVE  /\ Absent \in Key
           /\ Inserted(r) \in Key
           /\ [k EXCEPT !.st = "completed", !.from = r] \in Key
           /\ [k EXCEPT !.expired = TRUE] \in Key
  BY DEF Key, Absent, Inserted

\* The answers the middleware and the handler give.
LEMMA AnswerTypes ==
    ASSUME NEW q \in Requests \cup {NoRequest},
           NEW how \in {"none", "handled", "cut", "conflict", "mismatch", "replay"}
    PROVE  Done(how, q) \in Answer
  BY DEF Done, Answer

\* Every statement, handler, expiry and crash preserves the types.
LEMMA NextType == TypeOK /\ [Next]_vars => TypeOK'
<1> SUFFICES ASSUME TypeOK, [Next]_vars PROVE TypeOK'
  OBVIOUS
<1> USE DEF Goto
<1>1. ASSUME NEW r \in Requests, DropExpired(r) PROVE TypeOK'
  BY <1>1, KeyUpdates DEF TypeOK, DropExpired
<1>2. ASSUME NEW r \in Requests, Insert(r) PROVE TypeOK'
  BY <1>2, KeyUpdates DEF TypeOK, Insert
<1>3. ASSUME NEW r \in Requests, Read(r) PROVE TypeOK'
  <2>1. CASE key.st = "absent"
    BY <1>3, <2>1 DEF TypeOK, Read, RunExposed
  <2>2. CASE key.st # "absent"
    <3>1. key.from \in Requests \cup {NoRequest}
      BY DEF TypeOK, Key
    <3>2. /\ Done("mismatch", NoRequest) \in Answer
          /\ Done("conflict", NoRequest) \in Answer
          /\ Done("replay", key.from) \in Answer
      BY <3>1, AnswerTypes
    <3>3. answer' \in [Requests -> Answer] /\ pc' = [pc EXCEPT ![r] = "done"]
      BY <1>3, <2>2, <3>2 DEF TypeOK, Read, Reply
    <3> QED
      BY <1>3, <2>2, <3>3 DEF TypeOK, Read
  <2> QED
    BY <2>1, <2>2
<1>4. ASSUME NEW r \in Requests, StoreFails(r) PROVE TypeOK'
  <2>1. key' \in Key
    BY <1>4, KeyUpdates DEF TypeOK, StoreFails
  <2>2. faults' \in 0..MaxFaults
    BY <1>4, IdempotencyAssumption DEF TypeOK, StoreFails, Fault
  <2>3. /\ pc' \in [Requests -> {"new", "insert", "read", "run", "settle", "done"}]
        /\ exposed' \in SUBSET Requests
    BY <1>4 DEF TypeOK, StoreFails, RunExposed
  <2> QED
    BY <1>4, <2>1, <2>2, <2>3 DEF TypeOK, StoreFails
<1>5. ASSUME NEW r \in Requests, Handle(r) PROVE TypeOK'
  <2>1. Done("handled", r) \in Answer
    BY AnswerTypes
  <2>2. answer' \in [Requests -> Answer]
    BY <1>5, <2>1 DEF TypeOK, Handle
  <2>3. outcome' \in [Requests -> Outcome] /\ enqueued' \in SUBSET Requests
    BY <1>5 DEF TypeOK, Handle
  <2>4. pc' \in [Requests -> {"new", "insert", "read", "run", "settle", "done"}]
    BY <1>5 DEF TypeOK, Handle
  <2> QED
    BY <1>5, <2>2, <2>3, <2>4 DEF TypeOK, Handle
<1>6. ASSUME NEW r \in Requests, Settle(r) PROVE TypeOK'
  BY <1>6, KeyUpdates DEF TypeOK, Settle
<1>7. ASSUME NEW r \in Requests, SettleFails(r) PROVE TypeOK'
  BY <1>7, IdempotencyAssumption DEF TypeOK, SettleFails, Fault
<1>8. CASE Expire
  <2>1. key' \in Key
    BY <1>8 DEF TypeOK, Expire, Key
  <2> QED
    BY <1>8, <2>1 DEF TypeOK, Expire
<1>9. CASE Crash
  <2>1. Done("cut", NoRequest) \in Answer
    BY AnswerTypes
  <2>2. answer' \in [Requests -> Answer]
    BY <1>9, <2>1 DEF TypeOK, Crash
  <2> QED
    BY <1>9, <2>2, IdempotencyAssumption DEF TypeOK, Crash, Fault
<1>10. CASE UNCHANGED vars
  BY <1>10 DEF TypeOK, vars
<1> QED
  BY <1>1, <1>2, <1>3, <1>4, <1>5, <1>6, <1>7, <1>8, <1>9, <1>10 DEF Next

\* The variables of every reachable state have their types.
THEOREM TypeCorrect == Spec => []TypeOK
  BY InitType, NextType, PTL DEF Spec

-----------------------------------------------------------------------------
(* The owner and its row                                                   *)

\* Acquire inserts only where there is no row, and a row under an owner is
\* neither dropped, replaced nor expired by anyone else.
LEMMA NextOwner == TypeOK /\ OwnerRuns /\ Progress /\ [Next]_vars => OwnerRuns'
<1> SUFFICES ASSUME TypeOK, OwnerRuns, Progress, [Next]_vars PROVE OwnerRuns'
  OBVIOUS
<1> USE DEF OwnerRuns, TypeOK, Goto
<1>1. ASSUME NEW r \in Requests, DropExpired(r) PROVE OwnerRuns'
  BY <1>1 DEF DropExpired
<1>2. ASSUME NEW r \in Requests, Insert(r) PROVE OwnerRuns'
  BY <1>2 DEF Insert, Inserted, Absent
<1>3. ASSUME NEW r \in Requests, Read(r) PROVE OwnerRuns'
  BY <1>3 DEF Read, RunExposed, Reply
<1>4. ASSUME NEW r \in Requests, StoreFails(r) PROVE OwnerRuns'
  BY <1>4 DEF StoreFails, RunExposed
<1>5. ASSUME NEW r \in Requests, Handle(r) PROVE OwnerRuns'
  BY <1>5 DEF Handle
<1>6. ASSUME NEW r \in Requests, Settle(r) PROVE OwnerRuns'
  BY <1>6 DEF Settle, Progress
<1>7. ASSUME NEW r \in Requests, SettleFails(r) PROVE OwnerRuns'
  BY <1>7 DEF SettleFails, Progress
<1>8. CASE Expire
  BY <1>8 DEF Expire
<1>9. CASE Crash
  BY <1>9 DEF Crash
<1>10. CASE UNCHANGED vars
  BY <1>10 DEF vars
<1> QED
  BY <1>1, <1>2, <1>3, <1>4, <1>5, <1>6, <1>7, <1>8, <1>9, <1>10 DEF Next

\* A request moves through the middleware in one direction, and a crash ends
\* it where it is.
LEMMA NextProgress == TypeOK /\ OwnerRuns /\ Progress /\ [Next]_vars => Progress'
<1> SUFFICES ASSUME TypeOK, OwnerRuns, Progress, [Next]_vars PROVE Progress'
  OBVIOUS
<1> USE DEF Progress, TypeOK, Goto
<1>1. ASSUME NEW r \in Requests, DropExpired(r) PROVE Progress'
  BY <1>1 DEF DropExpired
<1>2. ASSUME NEW r \in Requests, Insert(r) PROVE Progress'
  BY <1>2 DEF Insert
<1>3. ASSUME NEW r \in Requests, Read(r) PROVE Progress'
  BY <1>3 DEF Read, RunExposed, Reply
<1>4. ASSUME NEW r \in Requests, StoreFails(r) PROVE Progress'
  BY <1>4 DEF StoreFails, RunExposed
<1>5. ASSUME NEW r \in Requests, Handle(r) PROVE Progress'
  BY <1>5 DEF Handle, Frees
<1>6. ASSUME NEW r \in Requests, Settle(r) PROVE Progress'
  BY <1>6 DEF Settle, OwnerRuns
<1>7. ASSUME NEW r \in Requests, SettleFails(r) PROVE Progress'
  BY <1>7 DEF SettleFails, OwnerRuns
<1>8. CASE Expire
  BY <1>8 DEF Expire
<1>9. CASE Crash
  BY <1>9 DEF Crash
<1>10. CASE UNCHANGED vars
  BY <1>10 DEF vars
<1> QED
  BY <1>1, <1>2, <1>3, <1>4, <1>5, <1>6, <1>7, <1>8, <1>9, <1>10 DEF Next

\* At most one request runs under the key, and the row is its own until it
\* settles it, so Complete and Release need not ask who owns the row.
THEOREM OwnerSafe == Spec => []OwnerHoldsKey
<1>1. Init => TypeOK /\ OwnerRuns /\ Progress
  BY InitType DEF Init, OwnerRuns, Progress
<1>2. OwnerRuns => OwnerHoldsKey
  BY DEF OwnerRuns, OwnerHoldsKey
<1> QED
  BY <1>1, <1>2, NextType, NextOwner, NextProgress, PTL DEF Spec

-----------------------------------------------------------------------------
(* Duplicates                                                              *)

\* One more member is at most one more.
LEMMA AddOne ==
    ASSUME NEW S, IsFiniteSet(S), NEW x
    PROVE  /\ IsFiniteSet(S \cup {x})
           /\ Cardinality(S) \in Nat
           /\ Cardinality(S \cup {x}) <= Cardinality(S) + 1
<1>1. Cardinality(S) \in Nat
  BY FS_CardinalityType
<1>2. /\ IsFiniteSet(S \cup {x})
      /\ Cardinality(S \cup {x}) =
             IF x \in S THEN Cardinality(S) ELSE Cardinality(S) + 1
  BY FS_AddElement
<1> QED
  BY <1>1, <1>2

\* A step that adds nothing to what the key kept, and takes no charge away,
\* keeps the bound.
LEMMA BoundKept ==
    ASSUME TypeOK, KeptBounded, Kept' = Kept,
           lapses' \in Nat, lapses + Charge <= lapses' + Charge'
    PROVE  KeptBounded'
<1>1. Cardinality(Kept) \in Nat
  BY IdempotencyAssumption, FS_CardinalityType, FS_Subset DEF TypeOK, Kept
<1>2. Charge \in 0..1 /\ Charge' \in 0..1
  BY DEF Charge
<1>3. lapses \in Nat
  BY DEF TypeOK
<1>4. Cardinality(Kept) <= lapses + Charge /\ Cardinality(Kept') = Cardinality(Kept)
  BY DEF KeptBounded
<1>5. ASSUME NEW n \in Nat, NEW a \in Nat, NEW b \in Nat, NEW c \in 0..1,
             NEW d \in 0..1, n <= a + c, a + c <= b + d
      PROVE  n <= b + d
  BY <1>5
<1>6. Cardinality(Kept') <= lapses' + Charge'
  BY <1>1, <1>2, <1>3, <1>4, <1>5
<1> QED
  BY <1>6 DEF KeptBounded

\* Only the owner adds to what the key kept, and its row then stands for the
\* message; a row that stands for one goes only as it expires.
LEMMA NextKept ==
    TypeOK /\ OwnerRuns /\ Progress /\ KeptBounded /\ [Next]_vars => KeptBounded'
<1> SUFFICES ASSUME TypeOK, OwnerRuns, Progress, KeptBounded, [Next]_vars
             PROVE  KeptBounded'
  OBVIOUS
<1>0. lapses \in Nat
  BY DEF TypeOK
<1>1. ASSUME NEW r \in Requests, DropExpired(r) PROVE KeptBounded'
  BY <1>0, <1>1, BoundKept DEF DropExpired, Kept, Charge, Absent
<1>2. ASSUME NEW r \in Requests, Insert(r) PROVE KeptBounded'
  <2>1. r \notin Kept
    BY <1>2 DEF Insert, Progress, Kept
  <2> QED
    BY <1>0, <1>2, <2>1, BoundKept DEF Insert, Kept, Charge
<1>3. ASSUME NEW r \in Requests, Read(r) PROVE KeptBounded'
  <2>1. r \notin enqueued
    BY <1>3 DEF Read, Progress
  <2>2. Kept' = Kept
    BY <1>3, <2>1 DEF Read, RunExposed, Kept
  <2> QED
    BY <1>0, <1>3, <2>2, BoundKept DEF Read, Charge
<1>4. ASSUME NEW r \in Requests, StoreFails(r) PROVE KeptBounded'
  <2>1. r \notin enqueued
    BY <1>4 DEF StoreFails, Progress
  <2>2. Kept' = Kept
    BY <1>4, <2>1 DEF StoreFails, RunExposed, Kept
  <2> QED
    BY <1>0, <1>4, <2>2, BoundKept DEF StoreFails, Charge
<1>5. ASSUME NEW r \in Requests, Handle(r) PROVE KeptBounded'
  <2>1. CASE Kept' = Kept
    BY <1>0, <1>5, <2>1, BoundKept DEF Handle, Charge
  <2>2. CASE Kept' # Kept
    <3>1. r \notin exposed /\ Kept' = Kept \cup {r}
      BY <1>5, <2>2 DEF Handle, Kept
    <3>2. r \in owner /\ r \notin Kept
      BY <1>5, <3>1 DEF Handle, Progress, Kept
    <3>3. Charge = 0 /\ Charge' = 1
      BY <1>5, <3>1, <3>2 DEF OwnerRuns, Handle, Charge
    <3>4. IsFiniteSet(Kept)
      BY IdempotencyAssumption, FS_Subset DEF TypeOK, Kept
    <3>5. lapses' = lapses
      BY <1>5 DEF Handle
    <3>6. /\ Cardinality(Kept) \in Nat
          /\ Cardinality(Kept \cup {r}) <= Cardinality(Kept) + 1
          /\ Cardinality(Kept \cup {r}) \in Nat
      BY <3>4, AddOne, FS_CardinalityType
    <3> QED
      BY <1>0, <3>1, <3>3, <3>5, <3>6 DEF KeptBounded
  <2> QED
    BY <2>1, <2>2
<1>6. ASSUME NEW r \in Requests, Settle(r) PROVE KeptBounded'
  <2>1. r \in owner /\ key.by = r
    BY <1>6 DEF Settle, Progress, OwnerRuns
  <2>2. Kept' = Kept /\ lapses' = lapses
    BY <1>6 DEF Settle, Kept
  <2>3. CASE Frees(outcome[r])
    <3>1. Charge = 0
      BY <1>6, <2>1, <2>3 DEF Settle, Progress, Kept, Charge
    <3>2. Charge' \in 0..1
      BY DEF Charge
    <3>3. lapses + Charge <= lapses' + Charge'
      BY <1>0, <2>2, <3>1, <3>2 DEF Charge
    <3> QED
      BY <1>0, <2>2, <3>3, BoundKept
  <2>4. CASE ~Frees(outcome[r])
    <3>1. /\ key' = [key EXCEPT !.st = "completed", !.from = r]
          /\ key.st # "absent"
      BY <1>6, <2>1, <2>4 DEF Settle, OwnerRuns
    <3>2. key'.by = key.by /\ key'.expired = key.expired /\ key'.st # "absent"
      BY <3>1 DEF TypeOK, Key
    <3>3. Charge' = Charge
      BY <2>2, <3>1, <3>2 DEF Charge
    <3> QED
      BY <1>0, <2>2, <3>3, BoundKept DEF Charge
  <2> QED
    BY <2>3, <2>4
<1>7. ASSUME NEW r \in Requests, SettleFails(r) PROVE KeptBounded'
  BY <1>0, <1>7, BoundKept DEF SettleFails, Kept, Charge
<1>8. CASE Expire
  <2>1. lapses' = lapses + 1 /\ Kept' = Kept
    BY <1>8 DEF Expire, Kept
  <2>2. Charge \in 0..1 /\ Charge' \in 0..1
    BY DEF Charge
  <2>3. lapses' \in Nat /\ lapses + Charge <= lapses' + Charge'
    BY <1>0, <2>1, <2>2 DEF Charge
  <2> QED
    BY <2>1, <2>3, BoundKept
<1>9. CASE Crash
  BY <1>0, <1>9, BoundKept DEF Crash, Kept, Charge
<1>10. CASE UNCHANGED vars
  BY <1>0, <1>10, BoundKept DEF vars, Kept, Charge
<1> QED
  BY <1>1, <1>2, <1>3, <1>4, <1>5, <1>6, <1>7, <1>8, <1>9, <1>10 DEF Next

\* The messages stored are those kept under the key and those of requests that
\* ran without it.
LEMMA KeptExcuses == TypeOK /\ KeptBounded => DuplicatesExcused
<1> SUFFICES ASSUME TypeOK, KeptBounded PROVE DuplicatesExcused
  OBVIOUS
<1>1. IsFiniteSet(Kept) /\ IsFiniteSet(exposed) /\ IsFiniteSet(enqueued)
  BY IdempotencyAssumption, FS_Subset DEF TypeOK, Kept
<1>2. IsFiniteSet(Kept \cup exposed)
  BY <1>1, FS_Union
<1>3. Cardinality(enqueued) <= Cardinality(Kept \cup exposed)
  BY <1>2, FS_Subset DEF Kept
<1>4. Cardinality(Kept \cup exposed) =
          Cardinality(Kept) + Cardinality(exposed) - Cardinality(Kept \cap exposed)
  BY <1>1, FS_Union
<1>5. Kept \cap exposed = {}
  BY DEF Kept
<1>6. Cardinality(Kept \cap exposed) = 0
  BY <1>5, FS_EmptySet
<1>7. /\ Cardinality(Kept) \in Nat /\ Cardinality(exposed) \in Nat
      /\ Cardinality(enqueued) \in Nat /\ Cardinality(Kept \cup exposed) \in Nat
  BY <1>1, <1>2, FS_CardinalityType
<1>8. Charge \in 0..1 /\ lapses \in Nat
  BY DEF Charge, TypeOK
<1> QED
  BY <1>3, <1>4, <1>6, <1>7, <1>8 DEF KeptBounded, DuplicatesExcused

\* Every message stored beyond the first has its cause: a request that ran
\* without the key, or an expiry.
THEOREM DuplicatesHaveCause == Spec => []DuplicatesExcused
<1>1. Init => TypeOK /\ OwnerRuns /\ Progress
  BY InitType DEF Init, OwnerRuns, Progress
<1>2. Init => KeptBounded
  BY FS_EmptySet DEF Init, KeptBounded, Kept, Charge, Absent
<1> QED
  BY <1>1, <1>2, NextType, NextOwner, NextProgress, NextKept, KeptExcuses, PTL
  DEF Spec

-----------------------------------------------------------------------------
(* Replays                                                                 *)

\* A request that was answered stays so.
LEMMA AnsweredStays == TypeOK /\ [Next]_vars => Answered \subseteq Answered'
  BY DEF TypeOK, Next, vars, DropExpired, Insert, Read, StoreFails, Handle, Settle,
         SettleFails, Expire, Crash, RunExposed, Reply, Goto, Answered

\* Complete stores the response of the owner in the owner's row.
LEMMA NextRow ==
    TypeOK /\ OwnerRuns /\ Progress /\ RowOriginal /\ [Next]_vars => RowOriginal'
<1> SUFFICES ASSUME TypeOK, OwnerRuns, Progress, RowOriginal, [Next]_vars,
                    key'.st = "completed"
             PROVE  /\ key'.by \in Requests
                    /\ key'.from \in Answered'
                    /\ SameContent(key'.from, key'.by)
  BY DEF RowOriginal, SameContent
<1>0. Answered \subseteq Answered'
  BY AnsweredStays
<1>1. ASSUME key'.st = key.st, key'.by = key.by, key'.from = key.from
      PROVE  /\ key'.by \in Requests
             /\ key'.from \in Answered'
             /\ SameContent(key'.from, key'.by)
  BY <1>0, <1>1 DEF RowOriginal
<1>2. ASSUME NEW r \in Requests, Settle(r), key' # key
      PROVE  /\ key'.by \in Requests
             /\ key'.from \in Answered'
             /\ SameContent(key'.from, key'.by)
  <2>1. r \in owner /\ key.by = r /\ outcome[r] \in Outcome \ {"none"}
    BY <1>2 DEF Settle, Progress, OwnerRuns, TypeOK
  <2>2. ~Frees(outcome[r]) /\ key' = [key EXCEPT !.st = "completed", !.from = r]
    BY <1>2 DEF Settle, Absent
  <2>3. key'.from = r /\ key'.by = r
    BY <2>1, <2>2 DEF TypeOK, Key
  <2>4. outcome[r] \in {"accepted", "error"}
    BY <2>1, <2>2 DEF Frees, Outcome
  <2>5. pc'[r] = "done" /\ outcome' = outcome
    BY <1>2 DEF Settle, Goto, TypeOK
  <2> QED
    BY <2>3, <2>4, <2>5 DEF Answered, SameContent
<1>3. ASSUME NEW r \in Requests, DropExpired(r) \/ Insert(r) \/ StoreFails(r), key' # key
      PROVE  FALSE
  <2>1. Absent.st = "absent" /\ Inserted(r).st = "in_progress"
    BY DEF Absent, Inserted
  <2>2. key' = Absent \/ key' = Inserted(r)
    BY <1>3 DEF DropExpired, Insert, StoreFails
  <2> QED
    BY <2>1, <2>2
<1>4. ASSUME Expire
      PROVE  key'.st = key.st /\ key'.by = key.by /\ key'.from = key.from
  BY <1>4 DEF Expire, TypeOK, Key
<1>5. ASSUME NEW r \in Requests, Read(r) \/ Handle(r) \/ SettleFails(r)
      PROVE  key' = key
  BY <1>5 DEF Read, Handle, SettleFails
<1>6. Crash \/ UNCHANGED vars => key' = key
  BY DEF Crash, vars
<1> QED
  BY <1>1, <1>2, <1>3, <1>4, <1>5, <1>6 DEF Next

\* Read replays the response of the row to requests with its fingerprint.
LEMMA NextReplies ==
    TypeOK /\ RowOriginal /\ RepliesOriginal /\ [Next]_vars => RepliesOriginal'
<1> SUFFICES ASSUME TypeOK, RowOriginal, RepliesOriginal, [Next]_vars,
                    NEW r \in Requests, answer'[r].how = "replay"
             PROVE  answer'[r].from \in Answered' /\ SameContent(answer'[r].from, r)
  BY DEF RepliesOriginal, SameContent
<1>0. Answered \subseteq Answered'
  BY AnsweredStays
<1>1. CASE answer'[r] = answer[r]
  BY <1>0, <1>1 DEF RepliesOriginal
<1>2. ASSUME answer'[r] # answer[r], NEW s \in Requests, Read(s)
      PROVE  answer'[r].from \in Answered' /\ SameContent(answer'[r].from, r)
  <2>1. s = r /\ key.st # "absent"
    BY <1>2 DEF Read, Reply, TypeOK
  <2>2. ~Differs(r) /\ key.st # "in_progress" /\ answer'[r] = Done("replay", key.from)
    BY <1>2, <2>1 DEF Read, Reply, TypeOK, Done
  <2>3. key.st = "completed" /\ answer'[r].from = key.from
    BY <2>1, <2>2 DEF TypeOK, Key, Done
  <2> QED
    BY <1>0, <2>2, <2>3 DEF RowOriginal, SameContent, Differs
<1>3. ASSUME NEW s \in Requests, Handle(s), answer'[r] # answer[r] PROVE FALSE
  BY <1>3 DEF Handle, TypeOK, Done
<1>4. ASSUME Crash, answer'[r] # answer[r] PROVE FALSE
  BY <1>4 DEF Crash, TypeOK, Done
<1>5. ASSUME \/ \E s \in Requests : \/ DropExpired(s) \/ Insert(s) \/ StoreFails(s)
                                    \/ Settle(s) \/ SettleFails(s)
             \/ Expire \/ UNCHANGED vars
      PROVE  answer' = answer
  BY <1>5 DEF DropExpired, Insert, StoreFails, Settle, SettleFails, Expire, vars
<1> QED
  BY <1>1, <1>2, <1>3, <1>4, <1>5 DEF Next

\* A replay is the response of a request with the same content that may have
\* stored its message.
THEOREM ReplaysGenuine == Spec => []ReplayIsOriginal
<1>1. Init => TypeOK /\ OwnerRuns /\ Progress
  BY InitType DEF Init, OwnerRuns, Progress
<1>2. Init => RowOriginal /\ RepliesOriginal
  BY DEF Init, RowOriginal, RepliesOriginal, Absent, Done
<1>3. RepliesOriginal => ReplayIsOriginal
  BY DEF RepliesOriginal, ReplayIsOriginal, Answered, SameContent
<1> QED
  BY <1>1, <1>2, <1>3, NextType, NextOwner, NextProgress, NextRow, NextReplies, PTL
  DEF Spec
=============================================================================
