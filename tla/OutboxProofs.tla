---------------------------- MODULE OutboxProofs ----------------------------
(***************************************************************************)
(* Proofs about Outbox, for any messages, instances, workers, batch size   *)
(* and bounds.                                                             *)
(*                                                                         *)
(* The first part needs no hypothesis.  The second is the safety of the    *)
(* queue as long as no live worker holds a message past stuckThreshold     *)
(* (~SlowBatches): claims are exclusive, duplicates have a cause, events   *)
(* are true, final states are final, retries are bounded, and the queue    *)
(* implements DeliveryContract.                                            *)
(***************************************************************************)
EXTENDS Outbox, FiniteSetTheorems, TLAPS

-----------------------------------------------------------------------------
(* The inductive invariant                                                 *)

\* A worker inside process works on a message of its batch and holds the
\* lock of its instance.
LockHeld ==
    \A w \in Workers : pc[w] # "loop" =>
        cur[w] \in batch[w] /\ lock[InstanceOf[cur[w]]] = w

-----------------------------------------------------------------------------
(* The type invariant                                                      *)

USE DEF Final

\* The empty queue of a new process is well typed.
LEMMA InitType == Init => TypeOK
  BY OutboxAssumption
  DEF Init, TypeOK, NoRow, Row, Status, WorkerStep

\* Assigning columns keeps a row well typed.
LEMMA RowFields ==
    ASSUME NEW r \in Row, NEW s \in Status, NEW b \in BOOLEAN, NEW n \in Nat
    PROVE  /\ [r EXCEPT !.st = s] \in Row
           /\ [r EXCEPT !.stale = b] \in Row
           /\ [r EXCEPT !.due = b] \in Row
           /\ [r EXCEPT !.delivered = b] \in Row
           /\ [r EXCEPT !.read = b] \in Row
           /\ [r EXCEPT !.retries = n] \in Row
           /\ [r EXCEPT !.createdAt = n] \in Row
           /\ [r EXCEPT !.wa = n] \in Row
  BY DEF Row

\* The updates of one row the model performs.
LEMMA RowUpdates ==
    ASSUME NEW r \in Row, NEW n \in Nat, NEW kind
    PROVE  /\ [NoRow EXCEPT !.st = "queued", !.createdAt = n] \in Row
           /\ [r EXCEPT !.due = TRUE] \in Row
           /\ [r EXCEPT !.stale = TRUE] \in Row
           /\ [r EXCEPT !.st = "deleted"] \in Row
           /\ [r EXCEPT !.st = "queued", !.stale = FALSE] \in Row
           /\ [r EXCEPT !.st = "sending", !.stale = FALSE] \in Row
           /\ [r EXCEPT !.st = "sent", !.wa = n, !.stale = FALSE] \in Row
           /\ [r EXCEPT !.st = "failed", !.stale = FALSE] \in Row
           /\ [r EXCEPT !.st = "queued", !.retries = @ + 1,
                        !.due = FALSE, !.stale = FALSE] \in Row
           /\ UpdateReceipt(r, kind) \in Row
<1>1. NoRow \in Row
  BY DEF NoRow, Row, Status
<1>2. r.retries + 1 \in Nat
  BY DEF Row
<1>3. {"queued", "deleted", "sending", "sent", "failed"} \subseteq Status
  BY DEF Status
<1>4. [NoRow EXCEPT !.st = "queued", !.createdAt = n] \in Row
  BY <1>1, <1>3, RowFields
<1>5. /\ [r EXCEPT !.due = TRUE] \in Row
      /\ [r EXCEPT !.stale = TRUE] \in Row
      /\ [r EXCEPT !.st = "deleted"] \in Row
  BY <1>3, RowFields
<1>6. /\ [r EXCEPT !.st = "queued", !.stale = FALSE] \in Row
      /\ [r EXCEPT !.st = "sending", !.stale = FALSE] \in Row
      /\ [r EXCEPT !.st = "failed", !.stale = FALSE] \in Row
  BY <1>3, RowFields
<1>7. [r EXCEPT !.st = "sent", !.wa = n, !.stale = FALSE] \in Row
  BY <1>3, RowFields
<1>8. [r EXCEPT !.st = "queued", !.retries = @ + 1, !.due = FALSE, !.stale = FALSE] \in Row
  BY <1>2, <1>3, RowFields
<1>9. UpdateReceipt(r, kind) \in Row
  <2>1. /\ [r EXCEPT !.delivered = TRUE, !.stale = FALSE] \in Row
        /\ [r EXCEPT !.delivered = TRUE, !.read = TRUE, !.stale = FALSE] \in Row
    BY DEF Row
  <2> QED
    BY <2>1 DEF UpdateReceipt
<1> QED
  BY <1>4, <1>5, <1>6, <1>7, <1>8, <1>9

\* A recovery pass leaves well-typed rows.
LEMMA RequeueType == TypeOK => RequeueStuck \in [Msgs -> Row]
  BY RowUpdates DEF TypeOK, RequeueStuck

\* What a returning process does to its worker.
LEMMA FinishType ==
    ASSUME TypeOK, NEW w \in Workers, NEW m \in Msgs, Finish(w, m)
    PROVE  /\ lock' \in [Instances -> Workers \cup {Nobody}]
           /\ pc' \in [Workers -> WorkerStep]
           /\ batch' \in [Workers -> SUBSET Msgs]
           /\ cur' \in [Workers -> Msgs \cup {NoMsg}]
           /\ attempts' \in [Workers -> [Msgs -> Nat]]
           /\ waId' \in [Workers -> Nat]
  BY OutboxAssumption DEF TypeOK, Finish, WorkerStep

\* The fault counter stays within its bound.
LEMMA FaultType == TypeOK /\ Fault => faults' \in 0..MaxFaults
  BY OutboxAssumption DEF TypeOK, Fault

\* Workers that lose their memory only add excuses.
LEMMA ForgottenType ==
    ASSUME TypeOK, NEW ws \in SUBSET Workers
    PROVE  Forgotten(ws) \in [Msgs -> Nat]
  BY DEF TypeOK, Forgotten

\* The actions that touch rows and the environment but no worker.
LEMMA StoreType ==
    ASSUME TypeOK,
           \/ \E m \in Msgs : Enqueue(m) \/ BackoffElapses(m) \/ Age(m)
           \/ \E i \in Instances : SessionMoves(i) \/ DeleteInstance(i)
           \/ SomeReceipt \/ Recover \/ Stop \/ Stopped \/ Boot
    PROVE  TypeOK'
<1>1. ASSUME NEW m \in Msgs, Enqueue(m) PROVE TypeOK'
  <2>1. Cardinality({n \in Msgs : row[n].st # "none"}) \in Nat
    BY OutboxAssumption, FS_CardinalityType, FS_Subset
  <2>2. row' \in [Msgs -> Row]
    BY <1>1, <2>1, RowUpdates DEF TypeOK, Enqueue, Update
  <2> QED
    BY <1>1, <2>2 DEF TypeOK, Enqueue, procVars, history
<1>2. ASSUME NEW m \in Msgs, BackoffElapses(m) PROVE TypeOK'
  BY <1>2, RowUpdates DEF TypeOK, BackoffElapses, Update, procVars, history
<1>3. ASSUME NEW m \in Msgs, Age(m) PROVE TypeOK'
  <2>1. row' \in [Msgs -> Row]
    BY <1>3, RowUpdates DEF TypeOK, Age, Update
  <2>2. faults' \in 0..MaxFaults
    BY <1>3, FaultType DEF TypeOK, Age
  <2> QED
    BY <1>3, <2>1, <2>2 DEF TypeOK, Age, procVars, history
<1>4. ASSUME NEW i \in Instances, SessionMoves(i) PROVE TypeOK'
  BY <1>4 DEF TypeOK, SessionMoves, dbVars, procVars, history
<1>5. ASSUME NEW i \in Instances, DeleteInstance(i) PROVE TypeOK'
  <2>1. row' \in [Msgs -> Row]
    BY <1>5, RowUpdates DEF TypeOK, DeleteInstance
  <2> QED
    BY <1>5, <2>1 DEF TypeOK, DeleteInstance, procVars, history
<1>6. CASE SomeReceipt
  <2>0. PICK m \in Msgs : \E k, kind : Receipt(m, k, kind)
    BY <1>6 DEF SomeReceipt
  <2>1. PICK k, kind : Receipt(m, k, kind)
    BY <2>0
  <2>2. row' \in [Msgs -> Row]
    <3>1. UpdateReceipt(row[m], kind) \in Row
      BY RowUpdates DEF TypeOK
    <3> QED
      BY <2>1, <3>1 DEF TypeOK, Receipt, Update
  <2> QED
    BY <2>1, <2>2 DEF TypeOK, Receipt, procVars
<1>7. CASE Recover
  BY <1>7, RequeueType DEF TypeOK, Recover, procVars, history
<1>8. CASE Stop
  BY <1>8, FaultType DEF TypeOK, Stop, dbVars, procVars, history
<1>9. CASE Stopped
  BY <1>9 DEF TypeOK, Stopped, dbVars, procVars, history
<1>10. CASE Boot
  <2>1. row' \in [Msgs -> Row]
    BY <1>10, RequeueType DEF TypeOK, Boot
  <2>2. session' \in [Instances -> {"none", "down", "up"}]
    BY <1>10 DEF Boot
  <2> QED
    BY <1>10, <2>1, <2>2 DEF TypeOK, Boot, procVars, history
<1> QED
  BY <1>1, <1>2, <1>3, <1>4, <1>5, <1>6, <1>7, <1>8, <1>9, <1>10

\* A worker inside process has a message.
LEMMA CurType ==
    ASSUME TypeOK, LockHeld, NEW w \in Workers, pc[w] # "loop"
    PROVE  cur[w] \in Msgs
  BY DEF TypeOK, LockHeld

\* The actions of a worker, and the crash of all of them.
LEMMA WorkerType ==
    ASSUME TypeOK, LockHeld,
           \/ \E w \in Workers : Work(w) \/ ClaimLost(w) \/ RecordFails(w)
                                    \/ EmitFails(w) \/ Exit(w)
           \/ Crash
    PROVE  TypeOK'
<1>1. ASSUME NEW w \in Workers, Claim(w) PROVE TypeOK'
  <2>1. PICK claimed \in SUBSET Due :
           /\ batch' = [batch EXCEPT ![w] = claimed]
           /\ attempts' = [attempts EXCEPT ![w] =
                 [m \in Msgs |-> IF m \in claimed THEN row[m].retries ELSE 0]]
           /\ row' = [m \in Msgs |->
                 IF m \in claimed
                 THEN [row[m] EXCEPT !.st = "sending", !.stale = FALSE]
                 ELSE row[m]]
    BY <1>1 DEF Claim
  <2>2. row' \in [Msgs -> Row]
    BY <2>1, RowUpdates DEF TypeOK
  <2>3. batch' \in [Workers -> SUBSET Msgs]
    BY <2>1 DEF TypeOK, Due
  <2>4. attempts' \in [Workers -> [Msgs -> Nat]]
    BY <2>1 DEF TypeOK, Row
  <2> QED
    BY <1>1, <2>2, <2>3, <2>4 DEF TypeOK, Claim, history
<1>2. ASSUME NEW w \in Workers, ClaimLost(w) PROVE TypeOK'
  <2>1. PICK claimed \in SUBSET Due :
           row' = [m \in Msgs |->
                      IF m \in claimed
                      THEN [row[m] EXCEPT !.st = "sending", !.stale = FALSE]
                      ELSE row[m]]
    BY <1>2 DEF ClaimLost
  <2>2. row' \in [Msgs -> Row]
    BY <2>1, RowUpdates DEF TypeOK
  <2> QED
    BY <1>2, <2>2, FaultType DEF TypeOK, ClaimLost, procVars, history
<1>3. ASSUME NEW w \in Workers, Acquire(w) PROVE TypeOK'
  <2>1. PICK m \in batch[w] : /\ lock' = [lock EXCEPT ![InstanceOf[m]] = w]
                              /\ cur' = [cur EXCEPT ![w] = m]
    BY <1>3 DEF Acquire
  <2>2. m \in Msgs
    BY DEF TypeOK
  <2>3. pc' \in [Workers -> WorkerStep]
    BY <1>3 DEF TypeOK, Acquire, Step, WorkerStep
  <2>4. /\ lock' \in [Instances -> Workers \cup {Nobody}]
        /\ cur' \in [Workers -> Msgs \cup {NoMsg}]
    BY <2>1, <2>2 DEF TypeOK
  <2> QED
    BY <1>3, <2>3, <2>4 DEF TypeOK, Acquire, dbVars, history
<1>4. ASSUME NEW w \in Workers, SendAccepted(w) PROVE TypeOK'
  <2>1. cur[w] \in Msgs
    BY <1>4, CurType DEF SendAccepted, Step
  <2>2. accepted[cur[w]] + 1 \in Nat
    BY <2>1 DEF TypeOK
  <2>3. accepted' \in [Msgs -> Nat] /\ waId' \in [Workers -> Nat]
    BY <1>4, <2>1, <2>2 DEF TypeOK, SendAccepted
  <2>4. pc' \in [Workers -> WorkerStep]
    BY <1>4 DEF TypeOK, SendAccepted, Step, WorkerStep
  <2> QED
    BY <1>4, <2>3, <2>4 DEF TypeOK, SendAccepted, dbVars
<1>5. ASSUME NEW w \in Workers, SendTransient(w) PROVE TypeOK'
  <2>1. cur[w] \in Msgs
    BY <1>5, CurType DEF SendTransient, Step
  <2>2. pc' \in [Workers -> WorkerStep]
    BY <1>5 DEF TypeOK, SendTransient, AfterTransient, Step, WorkerStep
  <2>3. accepted[cur[w]] + 1 \in Nat /\ excuses[cur[w]] + 1 \in Nat
    BY <2>1 DEF TypeOK
  <2>4. accepted' \in [Msgs -> Nat] /\ excuses' \in [Msgs -> Nat]
    <3>1. CASE UNCHANGED <<accepted, excuses>>
      BY <3>1 DEF TypeOK
    <3>2. CASE /\ accepted' = [accepted EXCEPT ![cur[w]] = @ + 1]
               /\ excuses' = [excuses EXCEPT ![cur[w]] = @ + 1]
      BY <3>2, <2>1, <2>3 DEF TypeOK
    <3> QED
      BY <1>5, <3>1, <3>2 DEF SendTransient, Excuse
  <2> QED
    BY <1>5, <2>2, <2>4 DEF TypeOK, SendTransient, dbVars
<1>6. ASSUME NEW w \in Workers, SendDefinitive(w) PROVE TypeOK'
  BY <1>6 DEF TypeOK, SendDefinitive, Step, WorkerStep, dbVars, history
<1>7. ASSUME NEW w \in Workers, RecordSent(w) PROVE TypeOK'
  <2>1. cur[w] \in Msgs
    BY <1>7, CurType DEF RecordSent
  <2>2. CASE Stored(cur[w])
    <3>0. [row[cur[w]] EXCEPT !.st = "sent", !.wa = waId[w], !.stale = FALSE] \in Row
      BY <2>1, RowUpdates DEF TypeOK
    <3>1. row' \in [Msgs -> Row]
      BY <1>7, <2>1, <2>2, <3>0 DEF TypeOK, RecordSent, MarkSent, Update
    <3> QED
      BY <1>7, <2>2, <3>1 DEF TypeOK, RecordSent, WorkerStep
  <2>3. CASE ~Stored(cur[w])
    <3>1. excuses' \in [Msgs -> Nat]
      BY <1>7, <2>1, <2>3 DEF TypeOK, RecordSent, Excuse
    <3> QED
      BY <1>7, <2>1, <2>3, <3>1, FinishType DEF TypeOK, RecordSent
  <2> QED
    BY <2>2, <2>3
<1>8. ASSUME NEW w \in Workers, RecordFailed(w) PROVE TypeOK'
  <2>1. cur[w] \in Msgs
    BY <1>8, CurType DEF RecordFailed
  <2>2. CASE Stored(cur[w])
    <3>0. [row[cur[w]] EXCEPT !.st = "failed", !.stale = FALSE] \in Row
      BY <2>1, RowUpdates DEF TypeOK
    <3>1. row' \in [Msgs -> Row]
      BY <1>8, <2>1, <2>2, <3>0 DEF TypeOK, RecordFailed, MarkFailed, Update
    <3> QED
      BY <1>8, <2>2, <3>1 DEF TypeOK, RecordFailed, WorkerStep, history
  <2>3. CASE ~Stored(cur[w])
    BY <1>8, <2>1, <2>3, FinishType DEF TypeOK, RecordFailed, history
  <2> QED
    BY <2>2, <2>3
<1>9. ASSUME NEW w \in Workers, RecordRetrying(w) PROVE TypeOK'
  <2>1. cur[w] \in Msgs
    BY <1>9, CurType DEF RecordRetrying
  <2>2. row' \in [Msgs -> Row]
    <3>1. [row[cur[w]] EXCEPT !.st = "queued", !.retries = @ + 1,
                              !.due = FALSE, !.stale = FALSE] \in Row
      BY <2>1, RowUpdates DEF TypeOK
    <3> QED
      BY <1>9, <2>1, <3>1 DEF TypeOK, RecordRetrying, MarkRetrying, Update
  <2> QED
    BY <1>9, <2>1, <2>2, FinishType DEF TypeOK, RecordRetrying, history
<1>10. ASSUME NEW w \in Workers, RecordFails(w) PROVE TypeOK'
  <2>1. cur[w] \in Msgs
    BY <1>10, CurType DEF RecordFails
  <2>2. excuses' \in [Msgs -> Nat]
    BY <1>10, <2>1 DEF TypeOK, RecordFails, Excuse
  <2>3. /\ [row[cur[w]] EXCEPT !.st = "sent", !.wa = waId[w], !.stale = FALSE] \in Row
        /\ [row[cur[w]] EXCEPT !.st = "failed", !.stale = FALSE] \in Row
        /\ [row[cur[w]] EXCEPT !.st = "queued", !.retries = @ + 1,
                               !.due = FALSE, !.stale = FALSE] \in Row
    BY <2>1, RowUpdates DEF TypeOK
  <2>4. row' \in [Msgs -> Row]
    BY <1>10, <2>1, <2>3
    DEF TypeOK, RecordFails, MarkSent, MarkFailed, MarkRetrying, Update
  <2> QED
    BY <1>10, <2>1, <2>2, <2>4, FinishType, FaultType DEF TypeOK, RecordFails
<1>11. ASSUME NEW w \in Workers, Emit(w) PROVE TypeOK'
  <2>1. cur[w] \in Msgs
    BY <1>11, CurType DEF Emit
  <2>2. events' \in [Msgs -> [Final -> Nat]]
    BY <1>11, <2>1 DEF TypeOK, Emit
  <2> QED
    BY <1>11, <2>1, <2>2, FinishType DEF TypeOK, Emit, dbVars
<1>12. ASSUME NEW w \in Workers, EmitFails(w) PROVE TypeOK'
  <2>1. cur[w] \in Msgs
    BY <1>12, CurType DEF EmitFails
  <2> QED
    BY <1>12, <2>1, FinishType, FaultType DEF TypeOK, EmitFails, dbVars, history
<1>13. ASSUME NEW w \in Workers, Exit(w) PROVE TypeOK'
  <2>1. excuses' \in [Msgs -> Nat]
    BY <1>13, ForgottenType DEF Exit
  <2> QED
    BY <1>13, <2>1 DEF TypeOK, Exit, WorkerStep, dbVars
<1>14. CASE Crash
  <2>1. excuses' \in [Msgs -> Nat]
    BY <1>14, ForgottenType DEF Crash
  <2> QED
    BY <1>14, <2>1, FaultType DEF TypeOK, Crash, WorkerStep, dbVars
<1> QED
  BY <1>1, <1>2, <1>3, <1>4, <1>5, <1>6, <1>7, <1>8, <1>9, <1>10, <1>11,
     <1>12, <1>13, <1>14 DEF Work

\* Every step of workers, recovery, receipts and restarts preserves the types.
LEMMA NextType == TypeOK /\ LockHeld /\ [Next]_vars => TypeOK'
<1>1. ASSUME TypeOK, UNCHANGED vars PROVE TypeOK'
  BY <1>1 DEF TypeOK, vars, dbVars, procVars, history
<1> QED
  BY <1>1, StoreType, WorkerType DEF Next

-----------------------------------------------------------------------------
(* One worker per instance                                                 *)

\* A worker gives its lock back only as it leaves process (the deferred
\* release of Outbox.process), so every step keeps the lock invariant.
LEMMA NextLockHeld == TypeOK /\ LockHeld /\ [Next]_vars => LockHeld'
<1> SUFFICES ASSUME TypeOK, LockHeld, [Next]_vars PROVE LockHeld'
  OBVIOUS
<1>1. CASE UNCHANGED procVars
  BY <1>1 DEF LockHeld, procVars
<1>2. ASSUME NEW w \in Workers, cur[w] \in Msgs, Finish(w, cur[w]), pc[w] # "loop"
      PROVE  LockHeld'
  BY <1>2, OutboxAssumption DEF TypeOK, LockHeld, Finish
<1>3. ASSUME NEW w \in Workers, Claim(w) PROVE LockHeld'
  BY <1>3 DEF TypeOK, LockHeld, Claim
<1>4. ASSUME NEW w \in Workers, Acquire(w) PROVE LockHeld'
  BY <1>4, OutboxAssumption DEF TypeOK, LockHeld, Acquire, LockFree, Step
<1>5. ASSUME NEW w \in Workers, pc[w] # "loop",
             UNCHANGED <<lock, batch, cur>>,
             \E s \in WorkerStep : pc' = [pc EXCEPT ![w] = s]
      PROVE  LockHeld'
  BY <1>5 DEF TypeOK, LockHeld
<1>6. ASSUME NEW w \in Workers, Exit(w) PROVE LockHeld'
  BY <1>6, CurType, OutboxAssumption DEF TypeOK, LockHeld, Exit
<1>7. CASE Crash
  BY <1>7 DEF LockHeld, Crash
<1>8. ASSUME NEW w \in Workers, Work(w) \/ RecordFails(w) \/ EmitFails(w)
      PROVE  LockHeld'
  <2>1. CASE Claim(w) \/ Acquire(w)
    BY <2>1, <1>3, <1>4
  <2>2. CASE SendAccepted(w) \/ SendTransient(w) \/ SendDefinitive(w)
    BY <2>2, <1>5
    DEF SendAccepted, SendTransient, SendDefinitive, AfterTransient, Step, WorkerStep
  <2>3. CASE RecordSent(w)
    BY <2>3, <1>2, <1>5, CurType DEF RecordSent, WorkerStep
  <2>4. CASE RecordFailed(w)
    BY <2>4, <1>2, <1>5, CurType DEF RecordFailed, WorkerStep
  <2>5. CASE RecordRetrying(w)
    BY <2>5, <1>2, CurType DEF RecordRetrying
  <2>6. CASE RecordFails(w)
    BY <2>6, <1>2, CurType DEF RecordFails
  <2>7. CASE Emit(w) \/ EmitFails(w)
    BY <2>7, <1>2, CurType DEF Emit, EmitFails
  <2> QED
    BY <1>8, <2>1, <2>2, <2>3, <2>4, <2>5, <2>6, <2>7 DEF Work
<1>9. ASSUME NEW m \in Msgs, Enqueue(m) \/ BackoffElapses(m) \/ Age(m)
      PROVE  UNCHANGED procVars
  BY <1>9 DEF Enqueue, BackoffElapses, Age
<1>10. ASSUME NEW i \in Instances, SessionMoves(i) \/ DeleteInstance(i)
       PROVE  UNCHANGED procVars
  BY <1>10 DEF SessionMoves, DeleteInstance
<1>11. ASSUME \/ \E w \in Workers : ClaimLost(w)
              \/ SomeReceipt \/ Recover \/ Stop \/ Stopped \/ Boot
              \/ UNCHANGED vars
       PROVE  UNCHANGED procVars
  BY <1>11 DEF ClaimLost, SomeReceipt, Receipt, Recover, Stop, Stopped, Boot, vars
<1> QED
  BY <1>1, <1>6, <1>7, <1>8, <1>9, <1>10, <1>11 DEF Next

\* The variables of every reachable state have their types.
THEOREM TypeCorrect == Spec => []TypeOK
<1>1. Init => TypeOK /\ LockHeld
  BY InitType DEF Init, LockHeld
<1> QED
  BY <1>1, NextType, NextLockHeld, PTL DEF Spec

\* A worker inside process always holds the lock of the instance of the
\* message it works on, and that message is of its batch (Outbox.process).
THEOREM LockSafe == Spec => []LockHeld
<1>1. Init => TypeOK /\ LockHeld
  BY InitType DEF Init, LockHeld
<1> QED
  BY <1>1, NextType, NextLockHeld, PTL DEF Spec

\* Two workers never send for the same instance at once, because each one
\* inside process holds the lock of the instance of its message.
THEOREM SendsSerialized == Spec => []InstanceSerialized
<1>1. LockHeld => InstanceSerialized
  BY DEF LockHeld, InstanceSerialized
<1> QED
  BY <1>1, LockSafe, PTL

-----------------------------------------------------------------------------
(* The inductive invariant of the claims                                   *)

\* What the row of a message in a live worker's batch may be.
HeldRow(w, m) ==
    \/ /\ row[m].st = "sending"
       /\ ~row[m].stale
       /\ ~(m = cur[w] /\ pc[w] \in {"emitSent", "emitFailed"})
    \/ row[m].st = "deleted"
    \/ m = cur[w] /\ pc[w] = "emitSent" /\ row[m].st = "sent"
    \/ m = cur[w] /\ pc[w] = "emitFailed" /\ row[m].st = "failed"

\* A message is in one batch at most, and recovery does not see its row.
Claims ==
    /\ \A v, w \in Workers : v # w => batch[v] \cap batch[w] = {}
    /\ \A w \in Workers : \A m \in batch[w] : HeldRow(w, m)

\* Events are true, single, and not written while a worker holds the message
\* (the event ends the processing).
Events ==
    \A m \in Msgs :
        /\ events[m]["sent"] + events[m]["failed"] <= 1
        /\ \A s \in Final : events[m][s] > 0 => row[m].st \in {s, "deleted"}
        /\ Owned(m) => events[m]["sent"] = 0 /\ events[m]["failed"] = 0

\* A worker holds the id of an accepted send its row does not have yet.
InFlight(m) == \E w \in Workers : pc[w] = "markSent" /\ cur[w] = m

\* Every accepted send beyond the recorded one is excused; a message that may
\* be sent again has none.
Sends ==
    /\ \A m \in Msgs : accepted[m] <= excuses[m] + 1
    /\ \A m \in Msgs : row[m].st \notin {"sent", "deleted"} /\ ~InFlight(m) =>
          accepted[m] <= excuses[m]
    /\ \A w \in Workers : \A m \in batch[w] :
          ~(m = cur[w] /\ pc[w] \in {"markSent", "emitSent"}) =>
              accepted[m] <= excuses[m]

-----------------------------------------------------------------------------
(* What the steps do to a row                                              *)

\* The row of m gets status s and the other rows stay.
Wrote(m, s) ==
    /\ row'[m].st = s
    /\ \A n \in Msgs \ {m} : row'[n] = row[n]

\* MarkSent, MarkFailed and MarkRetrying write one row.
LEMMA OutcomeWrites ==
    ASSUME TypeOK, NEW m \in Msgs, NEW id
    PROVE  /\ MarkSent(m, id) => Wrote(m, "sent")
           /\ MarkFailed(m) => Wrote(m, "failed")
           /\ MarkRetrying(m) => Wrote(m, "queued")
<1>1. row[m] \in Row
  BY DEF TypeOK
<1>2. /\ [row[m] EXCEPT !.st = "sent", !.wa = id, !.stale = FALSE].st = "sent"
      /\ [row[m] EXCEPT !.st = "failed", !.stale = FALSE].st = "failed"
      /\ [row[m] EXCEPT !.st = "queued", !.retries = @ + 1,
                        !.due = FALSE, !.stale = FALSE].st = "queued"
  BY <1>1 DEF Row
<1>3. ASSUME NEW new, Update(m, new) PROVE Wrote(m, new.st)
  BY <1>3 DEF Update, Wrote, TypeOK
<1> QED
  BY <1>2, <1>3 DEF MarkSent, MarkFailed, MarkRetrying

\* Nothing a worker holds and no history changes.
WorkersRest == UNCHANGED <<pc, batch, cur, events, accepted, excuses>>

\* What the clients, the clock, the receipts, the deletions and the recovery
\* may do to a row.
Drifts(m) ==
    \/ row'[m].st = row[m].st /\ (row'[m].stale => row[m].stale \/ ~Owned(m))
    \/ row[m].st # "none" /\ row'[m].st = "deleted"
    \/ row[m].st = "none" /\ row'[m].st = "queued"
    \/ row[m].st = "queued" /\ row'[m].st = "sending"
    \/ row[m].st = "sending" /\ row[m].stale /\ row'[m].st = "queued"

\* One recovery pass drifts.
LEMMA RequeueDrifts ==
    ASSUME TypeOK, NEW m \in Msgs, row' \in {row, RequeueStuck} PROVE Drifts(m)
<1>1. row[m] \in Row
  BY DEF TypeOK
<1>2. CASE row' = row
  BY <1>2 DEF Drifts
<1>3. CASE row' = RequeueStuck
  BY <1>1, <1>3 DEF RequeueStuck, Drifts, Row
<1> QED
  BY <1>2, <1>3

\* The steps outside the workers drift.
LEMMA StoreSteps ==
    ASSUME TypeOK, ~SlowBatches,
           \/ \E m \in Msgs : Enqueue(m) \/ BackoffElapses(m) \/ Age(m)
           \/ \E i \in Instances : SessionMoves(i) \/ DeleteInstance(i)
           \/ \E w \in Workers : ClaimLost(w)
           \/ SomeReceipt \/ Recover \/ Stop \/ Stopped \/ Boot
           \/ UNCHANGED vars
    PROVE  WorkersRest /\ \A m \in Msgs : Drifts(m)
<1>0. \A m \in Msgs : row[m] \in Row
  BY DEF TypeOK
<1>1. ASSUME NEW m \in Msgs, Enqueue(m)
      PROVE  WorkersRest /\ \A n \in Msgs : Drifts(n)
  <2>1. Wrote(m, "queued")
    BY <1>1 DEF Enqueue, Update, NoRow, Wrote, TypeOK
  <2> QED
    BY <1>0, <1>1, <2>1 DEF Enqueue, Wrote, Drifts, WorkersRest, procVars, history
<1>2. ASSUME NEW m \in Msgs, BackoffElapses(m)
      PROVE  WorkersRest /\ \A n \in Msgs : Drifts(n)
  <2>1. row'[m].st = row[m].st /\ row'[m].stale = row[m].stale
    BY <1>0, <1>2 DEF BackoffElapses, Update, TypeOK, Row
  <2>2. \A n \in Msgs \ {m} : row'[n] = row[n]
    BY <1>2 DEF BackoffElapses, Update, TypeOK
  <2> QED
    BY <1>2, <2>1, <2>2 DEF BackoffElapses, Drifts, WorkersRest, procVars, history
<1>3. ASSUME NEW m \in Msgs, Age(m)
      PROVE  WorkersRest /\ \A n \in Msgs : Drifts(n)
  <2>1. ~Owned(m) /\ row'[m].st = row[m].st
    BY <1>0, <1>3 DEF Age, Update, TypeOK, Row
  <2>2. \A n \in Msgs \ {m} : row'[n] = row[n]
    BY <1>3 DEF Age, Update, TypeOK
  <2> QED
    BY <1>3, <2>1, <2>2 DEF Age, Drifts, WorkersRest, procVars, history
<1>4. ASSUME NEW i \in Instances, DeleteInstance(i)
      PROVE  WorkersRest /\ \A n \in Msgs : Drifts(n)
  <2>1. ASSUME NEW m \in Msgs PROVE Drifts(m)
    BY <1>0, <1>4, <2>1 DEF DeleteInstance, Stored, Drifts, Row
  <2> QED
    BY <1>4, <2>1 DEF DeleteInstance, WorkersRest, procVars, history
<1>5. ASSUME NEW w \in Workers, ClaimLost(w)
      PROVE  WorkersRest /\ \A n \in Msgs : Drifts(n)
  <2>1. PICK claimed \in SUBSET Due :
           row' = [m \in Msgs |->
                      IF m \in claimed
                      THEN [row[m] EXCEPT !.st = "sending", !.stale = FALSE]
                      ELSE row[m]]
    BY <1>5 DEF ClaimLost
  <2>2. ASSUME NEW m \in Msgs PROVE Drifts(m)
    BY <1>0, <2>1 DEF Due, Drifts, Row
  <2> QED
    BY <1>5, <2>2 DEF ClaimLost, WorkersRest, procVars, history
<1>6. CASE SomeReceipt
  <2>0. PICK m \in Msgs : \E k, kind : Receipt(m, k, kind)
    BY <1>6 DEF SomeReceipt
  <2>1. PICK k, kind : Receipt(m, k, kind)
    BY <2>0
  <2>2. /\ UpdateReceipt(row[m], kind).st = row[m].st
        /\ ~UpdateReceipt(row[m], kind).stale
    BY <1>0 DEF UpdateReceipt, Row
  <2>3. /\ row'[m].st = row[m].st /\ (row'[m].stale => row[m].stale)
        /\ \A n \in Msgs \ {m} : row'[n] = row[n]
    BY <2>1, <2>2 DEF Receipt, Update, TypeOK
  <2> QED
    BY <2>1, <2>3 DEF Receipt, Drifts, WorkersRest, procVars
<1>7. CASE Recover \/ Boot
  <2>1. row' \in {row, RequeueStuck}
    BY <1>7 DEF Recover, Boot
  <2> QED
    BY <1>7, <2>1, RequeueDrifts DEF Recover, Boot, WorkersRest, procVars, history
<1>8. ASSUME \/ \E i \in Instances : SessionMoves(i)
             \/ Stop \/ Stopped \/ UNCHANGED vars
      PROVE  WorkersRest /\ \A n \in Msgs : Drifts(n)
  BY <1>8 DEF SessionMoves, Stop, Stopped, vars, dbVars, procVars, history,
              Drifts, WorkersRest
<1> QED
  BY <1>1, <1>2, <1>3, <1>4, <1>5, <1>6, <1>7, <1>8

-----------------------------------------------------------------------------
(* Claims are exclusive                                                    *)

\* No one else's batch has a message of w.
LEMMA Unshared ==
    ASSUME Claims, NEW v \in Workers, NEW w \in Workers, v # w, NEW m \in batch[w]
    PROVE  m \notin batch[v]
  BY DEF Claims

\* A returning process leaves the other batches and their rows alone.
LEMMA ReturnKeepsClaims ==
    ASSUME TypeOK, LockHeld, Claims, NEW w \in Workers, pc[w] # "loop",
           Finish(w, cur[w]),
           \A n \in Msgs \ {cur[w]} : row'[n] = row[n]
    PROVE  Claims'
<1>1. cur[w] \in batch[w]
  BY DEF LockHeld
<1>2. /\ batch' = [batch EXCEPT ![w] = @ \ {cur[w]}]
      /\ pc' = [pc EXCEPT ![w] = "loop"]
      /\ cur' = [cur EXCEPT ![w] = NoMsg]
  BY DEF Finish
<1>3. \A v \in Workers : batch'[v] \subseteq batch[v] /\ cur[w] \notin batch'[v]
  BY <1>1, <1>2, Unshared DEF TypeOK
<1>4. \A u, v \in Workers : u # v => batch'[u] \cap batch'[v] = {}
  BY <1>3 DEF Claims
<1>5. ASSUME NEW v \in Workers, NEW m \in batch'[v] PROVE HeldRow(v, m)'
  <2>1. m \in batch[v] /\ m \in Msgs /\ row'[m] = row[m] /\ m # cur[w]
    BY <1>3, <1>5 DEF TypeOK
  <2>2. HeldRow(v, m)
    BY <2>1 DEF Claims
  <2>3. CASE v = w
    <3>1. row[m].st \in {"sending", "deleted"} /\ (row[m].st = "sending" => ~row[m].stale)
      BY <2>1, <2>2, <2>3 DEF HeldRow
    <3>2. pc'[v] = "loop"
      BY <1>2, <2>3 DEF TypeOK
    <3> QED
      BY <2>1, <3>1, <3>2 DEF HeldRow
  <2>4. CASE v # w
    <3>1. pc'[v] = pc[v] /\ cur'[v] = cur[v]
      BY <1>2, <2>4 DEF TypeOK
    <3> QED
      BY <2>1, <2>2, <3>1 DEF HeldRow
  <2> QED
    BY <2>3, <2>4
<1> QED
  BY <1>4, <1>5 DEF Claims

\* A step inside process changes at most the row of the worker's message c.
LEMMA MoveKeepsClaims ==
    ASSUME TypeOK, Claims, NEW w \in Workers, NEW to, NEW c \in batch[w],
           pc' = [pc EXCEPT ![w] = to], UNCHANGED batch,
           cur' = [cur EXCEPT ![w] = c],
           \A n \in Msgs \ {c} : row'[n] = row[n],
           pc[w] = "loop" \/ cur[w] = c,
           HeldRow(w, c)'
    PROVE  Claims'
<1>1. ASSUME NEW v \in Workers, NEW m \in batch'[v] PROVE HeldRow(v, m)'
  <2>1. m \in Msgs /\ m \in batch[v] /\ HeldRow(v, m)
    BY <1>1 DEF TypeOK, Claims
  <2>2. CASE v = w /\ m = c
    BY <2>2
  <2>3. CASE v = w /\ m # c
    <3>1. row'[m] = row[m] /\ cur'[v] = c
      BY <2>1, <2>3 DEF TypeOK
    <3>2. ~(m = cur[w] /\ pc[w] \in {"emitSent", "emitFailed"})
      BY <2>3
    <3> QED
      BY <2>1, <2>3, <3>1, <3>2 DEF HeldRow
  <2>4. CASE v # w
    <3>1. m # c
      BY <2>1, <2>4, Unshared
    <3>2. row'[m] = row[m] /\ pc'[v] = pc[v] /\ cur'[v] = cur[v]
      BY <2>1, <2>4, <3>1 DEF TypeOK
    <3> QED
      BY <2>1, <3>2 DEF HeldRow
  <2> QED
    BY <2>2, <2>3, <2>4
<1> QED
  BY <1>1 DEF Claims

\* Recovery takes no row a worker holds, a claim takes only rows no worker
\* holds, and a worker writes only the row of its own message.
LEMMA NextClaims ==
    ~SlowBatches /\ TypeOK /\ LockHeld /\ Claims /\ [Next]_vars => Claims'
<1> SUFFICES ASSUME ~SlowBatches, TypeOK, LockHeld, Claims, [Next]_vars PROVE Claims'
  OBVIOUS
<1>1. ASSUME WorkersRest, \A m \in Msgs : Drifts(m) PROVE Claims'
  <2>1. ASSUME NEW w \in Workers, NEW m \in batch[w] PROVE HeldRow(w, m)'
    <3>1. HeldRow(w, m) /\ Owned(m) /\ Drifts(m) /\ m \in Msgs
      BY <1>1 DEF Claims, Owned, TypeOK
    <3>2. pc' = pc /\ cur' = cur
      BY <1>1 DEF WorkersRest
    <3> QED
      BY <3>1, <3>2 DEF HeldRow, Drifts
  <2>2. batch' = batch
    BY <1>1 DEF WorkersRest
  <2> QED
    BY <2>1, <2>2 DEF Claims
<1>2. ASSUME NEW w \in Workers, Claim(w) PROVE Claims'
  <2>1. PICK claimed \in SUBSET Due :
           /\ batch' = [batch EXCEPT ![w] = claimed]
           /\ row' = [m \in Msgs |->
                 IF m \in claimed
                 THEN [row[m] EXCEPT !.st = "sending", !.stale = FALSE]
                 ELSE row[m]]
    BY <1>2 DEF Claim
  <2>2. /\ pc[w] = "loop" /\ pc' = pc /\ cur' = cur
        /\ batch'[w] = claimed
        /\ \A v \in Workers \ {w} : batch'[v] = batch[v]
    BY <1>2, <2>1 DEF Claim, TypeOK
  <2>3. ASSUME NEW v \in Workers, NEW m \in batch[v] PROVE m \notin claimed /\ m \in Msgs
    <3>1. HeldRow(v, m) /\ m \in Msgs
      BY DEF Claims, TypeOK
    <3> QED
      BY <3>1 DEF HeldRow, Due
  <2>4. ASSUME NEW m \in claimed PROVE HeldRow(w, m)'
    <3>1. m \in Msgs /\ row[m] \in Row
      BY <2>4 DEF Due, TypeOK
    <3>2. row'[m].st = "sending" /\ ~row'[m].stale
      BY <2>1, <3>1 DEF Row
    <3> QED
      BY <2>2, <3>2 DEF HeldRow
  <2>5. ASSUME NEW v \in Workers \ {w}, NEW m \in batch[v] PROVE HeldRow(v, m)'
    <3>1. HeldRow(v, m) /\ row'[m] = row[m]
      BY <2>1, <2>3 DEF Claims
    <3> QED
      BY <2>2, <3>1 DEF HeldRow
  <2>6. \A u, v \in Workers : u # v => batch'[u] \cap batch'[v] = {}
    BY <2>2, <2>3 DEF Claims
  <2> QED
    BY <2>2, <2>4, <2>5, <2>6 DEF Claims
<1>3. ASSUME NEW w \in Workers, Acquire(w) PROVE Claims'
  <2>1. PICK m \in batch[w] : cur' = [cur EXCEPT ![w] = m]
    BY <1>3 DEF Acquire
  <2>2. /\ pc[w] = "loop" /\ pc' = [pc EXCEPT ![w] = "locked"]
        /\ batch' = batch /\ row' = row
    BY <1>3 DEF Acquire, Step, dbVars
  <2>3. HeldRow(w, m) /\ pc'[w] = "locked"
    BY <2>2 DEF Claims, TypeOK
  <2>4. HeldRow(w, m)'
    BY <2>2, <2>3 DEF HeldRow
  <2> QED
    BY <2>1, <2>2, <2>4, MoveKeepsClaims
<1>4. ASSUME NEW w \in Workers, SendAccepted(w) \/ SendTransient(w) \/ SendDefinitive(w)
      PROVE  Claims'
  <2>1. /\ pc[w] = "locked"
        /\ \E to \in {"markSent", "markRetrying", "markFailed"} : pc' = [pc EXCEPT ![w] = to]
        /\ UNCHANGED <<row, batch, cur>>
    BY <1>4 DEF SendAccepted, SendTransient, SendDefinitive, Step, AfterTransient, dbVars
  <2>2. PICK to \in {"markSent", "markRetrying", "markFailed"} : pc' = [pc EXCEPT ![w] = to]
    BY <2>1
  <2>3. cur[w] \in batch[w] /\ cur' = [cur EXCEPT ![w] = cur[w]]
    BY <2>1 DEF LockHeld, TypeOK
  <2>4. HeldRow(w, cur[w]) /\ pc'[w] = to
    BY <2>2, <2>3 DEF Claims, TypeOK
  <2>5. HeldRow(w, cur[w])'
    BY <2>1, <2>4 DEF HeldRow
  <2> QED
    BY <2>1, <2>2, <2>3, <2>5, MoveKeepsClaims
<1>5. ASSUME NEW w \in Workers, NEW s \in Final, pc[w] # "loop", Wrote(cur[w], s),
             pc' = [pc EXCEPT ![w] = IF s = "sent" THEN "emitSent" ELSE "emitFailed"],
             UNCHANGED <<batch, cur>>
      PROVE  Claims'
  <2>1. PICK c \in batch[w] : c = cur[w]
    BY <1>5 DEF LockHeld
  <2>2. cur' = [cur EXCEPT ![w] = c]
    BY <1>5, <2>1 DEF TypeOK
  <2>3. /\ pc'[w] = IF s = "sent" THEN "emitSent" ELSE "emitFailed"
        /\ cur'[w] = c /\ row'[c].st = s
    BY <1>5, <2>1 DEF TypeOK, Wrote
  <2>4. HeldRow(w, c)'
    BY <2>3 DEF HeldRow
  <2>5. \A n \in Msgs \ {c} : row'[n] = row[n]
    BY <1>5, <2>1 DEF Wrote
  <2> QED
    BY <1>5, <2>1, <2>2, <2>4, <2>5, MoveKeepsClaims
<1>6. ASSUME NEW w \in Workers, pc[w] # "loop", Finish(w, cur[w]),
             \A n \in Msgs \ {cur[w]} : row'[n] = row[n]
      PROVE  Claims'
  BY <1>6, ReturnKeepsClaims
<1>7. ASSUME NEW w \in Workers,
             \/ RecordSent(w) \/ RecordFailed(w) \/ RecordRetrying(w)
             \/ RecordFails(w) \/ Emit(w) \/ EmitFails(w)
      PROVE  Claims'
  <2>1. pc[w] # "loop"
    BY <1>7 DEF RecordSent, RecordFailed, RecordRetrying, RecordFails, Emit, EmitFails
  <2>2. cur[w] \in Msgs
    BY <2>1, CurType
  <2>3. CASE RecordSent(w)
    <3>1. CASE Stored(cur[w])
      <4>1. Wrote(cur[w], "sent")
        BY <2>2, <2>3, <3>1, OutcomeWrites DEF RecordSent
      <4> QED
        BY <1>5, <2>1, <2>3, <3>1, <4>1 DEF RecordSent
    <3>2. CASE ~Stored(cur[w])
      BY <1>6, <2>1, <2>3, <3>2 DEF RecordSent
    <3> QED
      BY <3>1, <3>2
  <2>4. CASE RecordFailed(w)
    <3>1. CASE Stored(cur[w])
      <4>1. Wrote(cur[w], "failed")
        BY <2>2, <2>4, <3>1, OutcomeWrites DEF RecordFailed
      <4> QED
        BY <1>5, <2>1, <2>4, <3>1, <4>1 DEF RecordFailed
    <3>2. CASE ~Stored(cur[w])
      BY <1>6, <2>1, <2>4, <3>2 DEF RecordFailed
    <3> QED
      BY <3>1, <3>2
  <2>5. CASE RecordRetrying(w)
    BY <1>6, <2>1, <2>2, <2>5, OutcomeWrites DEF RecordRetrying, Wrote
  <2>6. CASE RecordFails(w)
    BY <1>6, <2>1, <2>2, <2>6, OutcomeWrites DEF RecordFails, Wrote
  <2>7. CASE Emit(w) \/ EmitFails(w)
    BY <1>6, <2>1, <2>7 DEF Emit, EmitFails, dbVars
  <2> QED
    BY <1>7, <2>3, <2>4, <2>5, <2>6, <2>7
<1>8. ASSUME UNCHANGED row, NEW ws \in SUBSET Workers,
             \A w \in Workers : IF w \in ws THEN batch'[w] = {}
                                ELSE UNCHANGED <<batch[w], pc[w], cur[w]>>
      PROVE  Claims'
  BY <1>8 DEF Claims, HeldRow
<1>9. ASSUME NEW w \in Workers, Exit(w) PROVE Claims'
  <2>1. UNCHANGED row /\ \A v \in Workers : IF v \in {w} THEN batch'[v] = {}
                                ELSE UNCHANGED <<batch[v], pc[v], cur[v]>>
    BY <1>9 DEF Exit, TypeOK, dbVars
  <2> QED
    BY <1>8, <2>1
<1>10. CASE Crash
  <2>1. UNCHANGED row /\ \A v \in Workers : batch'[v] = {}
    BY <1>10 DEF Crash, dbVars
  <2> QED
    BY <1>8, <2>1
<1> QED
  BY <1>1, <1>2, <1>3, <1>4, <1>7, <1>9, <1>10, StoreSteps DEF Next, Work

\* A message belongs to the memory of at most one worker, and a worker only
\* holds messages whose row is the one it moved to sending, was deleted, or
\* is the outcome it just recorded (StartRecovery never takes a row from a
\* live worker, as long as batches are faster than stuckThreshold).
THEOREM ClaimsExclusive == ~SlowBatches => (Spec => []ExclusiveClaim)
<1> SUFFICES ASSUME ~SlowBatches PROVE Spec => []ExclusiveClaim
  OBVIOUS
<1>1. Init => TypeOK /\ LockHeld /\ Claims
  BY InitType DEF Init, LockHeld, Claims
<1>2. TypeOK /\ LockHeld /\ Claims /\ [Next]_vars => TypeOK' /\ LockHeld' /\ Claims'
  BY NextType, NextLockHeld, NextClaims
<1>3. Claims => ExclusiveClaim
  BY DEF Claims, HeldRow, ExclusiveClaim
<1> QED
  BY <1>1, <1>2, <1>3, PTL DEF Spec

-----------------------------------------------------------------------------
(* Final states are final                                                  *)

\* A worker that is about to record an outcome holds a row in sending, or one
\* that was deleted.
LEMMA RecordsSending ==
    ASSUME LockHeld, Claims, NEW w \in Workers,
           pc[w] \in {"markSent", "markFailed", "markRetrying"}
    PROVE  row[cur[w]].st \in {"sending", "deleted"}
<1>1. HeldRow(w, cur[w])
  BY DEF LockHeld, Claims
<1> QED
  BY <1>1 DEF HeldRow

\* Only the row of the worker's message changes, and only if it is stored.
LEMMA RecordEffect ==
    ASSUME TypeOK, LockHeld, NEW w \in Workers,
           RecordSent(w) \/ RecordFailed(w) \/ RecordRetrying(w) \/ RecordFails(w)
    PROVE  /\ pc[w] \in {"markSent", "markFailed", "markRetrying"}
           /\ cur[w] \in Msgs
           /\ \A n \in Msgs \ {cur[w]} : row'[n] = row[n]
           /\ ~Stored(cur[w]) => row'[cur[w]] = row[cur[w]]
           /\ row'[cur[w]].st \in {row[cur[w]].st, "sent", "failed", "queued"}
<1>1. pc[w] \in {"markSent", "markFailed", "markRetrying"}
  BY DEF RecordSent, RecordFailed, RecordRetrying, RecordFails
<1>2. cur[w] \in Msgs
  BY <1>1, CurType
<1>3. \/ row' = row
      \/ Stored(cur[w]) /\ \E s \in {"sent", "failed", "queued"} : Wrote(cur[w], s)
  BY <1>2, OutcomeWrites DEF RecordSent, RecordFailed, RecordRetrying, RecordFails
<1> QED
  BY <1>1, <1>2, <1>3 DEF Wrote

\* The rows of the other steps of a worker.
LEMMA NoRecordEffect ==
    ASSUME \/ \E w \in Workers : \/ Acquire(w) \/ SendAccepted(w) \/ SendTransient(w)
                                 \/ SendDefinitive(w) \/ Emit(w) \/ EmitFails(w)
                                 \/ Exit(w)
           \/ Crash
    PROVE  row' = row
  BY DEF Acquire, SendAccepted, SendTransient, SendDefinitive, Emit, EmitFails,
         Exit, Crash, dbVars

\* A claim only touches rows in queued.
LEMMA ClaimEffect ==
    ASSUME TypeOK, NEW w \in Workers, Claim(w)
    PROVE  /\ \A m \in Msgs :
                 row'[m] = row[m] \/ (row[m].st = "queued" /\ row'[m].st = "sending")
           /\ batch'[w] \subseteq Due
           /\ \A v \in Workers \ {w} : batch'[v] = batch[v]
<1>1. PICK claimed \in SUBSET Due :
         /\ batch' = [batch EXCEPT ![w] = claimed]
         /\ row' = [m \in Msgs |->
               IF m \in claimed
               THEN [row[m] EXCEPT !.st = "sending", !.stale = FALSE]
               ELSE row[m]]
  BY DEF Claim
<1>2. \A m \in Msgs : row[m] \in Row
  BY DEF TypeOK
<1>3. \A m \in claimed : row[m].st = "queued"
  BY DEF Due
<1>4. \A m \in Msgs : m \in claimed => row'[m].st = "sending"
  BY <1>1, <1>2 DEF Row
<1>5. \A m \in Msgs : m \notin claimed => row'[m] = row[m]
  BY <1>1
<1>6. batch'[w] = claimed /\ \A v \in Workers \ {w} : batch'[v] = batch[v]
  BY <1>1 DEF TypeOK
<1> QED
  BY <1>3, <1>4, <1>5, <1>6

\* No step takes a settled or deleted row anywhere but to deleted.
LEMMA SettledStays ==
    ASSUME ~SlowBatches, TypeOK, LockHeld, Claims, [Next]_vars, NEW m \in Msgs,
           row[m].st \in {"sent", "failed", "deleted"}
    PROVE  row'[m].st \in {row[m].st, "deleted"}
<1>1. CASE Drifts(m)
  BY <1>1 DEF Drifts
<1>2. ASSUME NEW w \in Workers, Claim(w) PROVE row'[m] = row[m]
  BY <1>2, ClaimEffect
<1>3. ASSUME NEW w \in Workers,
             RecordSent(w) \/ RecordFailed(w) \/ RecordRetrying(w) \/ RecordFails(w)
      PROVE  row'[m] = row[m]
  <2>1. row[cur[w]].st \in {"sending", "deleted"}
    BY <1>3, RecordEffect, RecordsSending
  <2>2. m = cur[w] => ~Stored(m)
    BY <2>1 DEF Stored
  <2> QED
    BY <1>3, <2>2, RecordEffect
<1>4. ASSUME \/ \E w \in Workers : \/ Acquire(w) \/ SendAccepted(w) \/ SendTransient(w)
                                   \/ SendDefinitive(w) \/ Emit(w) \/ EmitFails(w)
                                   \/ Exit(w)
             \/ Crash
      PROVE  row'[m] = row[m]
  BY <1>4, NoRecordEffect
<1> QED
  BY <1>1, <1>2, <1>3, <1>4, StoreSteps DEF Next, Work

\* The inductive invariant of the claims, as one temporal fact.
LEMMA ClaimsHold == ~SlowBatches => (Spec => [](TypeOK /\ LockHeld /\ Claims))
<1> SUFFICES ASSUME ~SlowBatches PROVE Spec => [](TypeOK /\ LockHeld /\ Claims)
  OBVIOUS
<1>1. Init => TypeOK /\ LockHeld /\ Claims
  BY InitType DEF Init, LockHeld, Claims
<1>2. TypeOK /\ LockHeld /\ Claims /\ [Next]_vars => TypeOK' /\ LockHeld' /\ Claims'
  BY NextType, NextLockHeld, NextClaims
<1> QED
  BY <1>1, <1>2, PTL DEF Spec

\* sent and failed are final: no stale worker, recovery or retry takes a
\* settled row back (MarkSent, MarkFailed and MarkRetrying do not look at the
\* status, so this rests on the exclusive claims).
THEOREM FinalStatesFinal == ~SlowBatches => (Spec => FinalIsFinal)
<1> SUFFICES ASSUME ~SlowBatches PROVE Spec => FinalIsFinal
  OBVIOUS
<1>1. TypeOK /\ LockHeld /\ Claims /\ [Next]_vars =>
          [\A m \in Msgs : row[m].st \in Final => row'[m].st \in {row[m].st, "deleted"}]_vars
  BY SettledStays
<1> QED
  BY <1>1, ClaimsHold, PTL DEF Spec, FinalIsFinal

-----------------------------------------------------------------------------
(* Events                                                                  *)

\* A batch grows by claims only.
LEMMA BatchSteps ==
    ASSUME TypeOK, LockHeld, [Next]_vars, NEW m \in Msgs, Owned(m)'
    PROVE  Owned(m) \/ m \in Due
<1>1. PICK w \in Workers : m \in batch'[w]
  BY DEF Owned
<1>2. ASSUME NEW v \in Workers, Claim(v) PROVE Owned(m) \/ m \in Due
  BY <1>1, <1>2, ClaimEffect DEF Owned
<1>3. ASSUME batch' = batch PROVE Owned(m)
  BY <1>1, <1>3 DEF Owned
<1>4. ASSUME NEW v \in Workers, NEW n, Finish(v, n) PROVE Owned(m)
  BY <1>1, <1>4 DEF Finish, Owned, TypeOK
<1>5. ASSUME NEW v \in Workers, Exit(v) PROVE Owned(m)
  BY <1>1, <1>5 DEF Exit, Owned, TypeOK
<1>6. CASE Crash
  BY <1>1, <1>6 DEF Crash
<1>7. ASSUME NEW v \in Workers, Work(v) \/ RecordFails(v) \/ EmitFails(v) \/ ClaimLost(v)
      PROVE  Claim(v) \/ batch' = batch \/ \E n : Finish(v, n)
  BY <1>7 DEF Work, Acquire, SendAccepted, SendTransient, SendDefinitive, RecordSent,
              RecordFailed, RecordRetrying, RecordFails, Emit, EmitFails, ClaimLost, procVars
<1>8. ASSUME \/ \E n \in Msgs : Enqueue(n) \/ BackoffElapses(n) \/ Age(n)
             \/ \E i \in Instances : SessionMoves(i) \/ DeleteInstance(i)
             \/ SomeReceipt \/ Recover \/ Stop \/ Stopped \/ Boot
             \/ UNCHANGED vars
      PROVE  batch' = batch
  BY <1>8 DEF Enqueue, BackoffElapses, Age, SessionMoves, DeleteInstance, SomeReceipt,
              Receipt, Recover, Stop, Stopped, Boot, vars, procVars
<1> QED
  BY <1>2, <1>3, <1>4, <1>5, <1>6, <1>7, <1>8 DEF Next

\* Events are written by Emit only.
LEMMA EventSteps ==
    ASSUME [Next]_vars, events' # events
    PROVE  \E w \in Workers : Emit(w)
  BY DEF Next, Work, Enqueue, BackoffElapses, Age, SessionMoves, DeleteInstance,
         Claim, ClaimLost, Acquire, SendAccepted, SendTransient, SendDefinitive,
         RecordSent, RecordFailed, RecordRetrying, RecordFails, EmitFails, Exit,
         Crash, SomeReceipt, Receipt, Recover, Stop, Stopped, Boot, vars, history

\* The events invariant is kept: Emit tells what the row says and lets the
\* message go.
LEMMA NextEvents ==
    ~SlowBatches /\ TypeOK /\ LockHeld /\ Claims /\ Events /\ [Next]_vars => Events'
<1> SUFFICES ASSUME ~SlowBatches, TypeOK, LockHeld, Claims, Events, [Next]_vars,
                    NEW m \in Msgs
             PROVE  /\ events'[m]["sent"] + events'[m]["failed"] <= 1
                    /\ \A s \in Final : events'[m][s] > 0 => row'[m].st \in {s, "deleted"}
                    /\ Owned(m)' => events'[m]["sent"] = 0 /\ events'[m]["failed"] = 0
  BY DEF Events
<1>0. /\ events[m]["sent"] \in Nat /\ events[m]["failed"] \in Nat
      /\ events[m]["sent"] + events[m]["failed"] <= 1
      /\ \A s \in Final : events[m][s] > 0 => row[m].st \in {s, "deleted"}
      /\ Owned(m) => events[m]["sent"] = 0 /\ events[m]["failed"] = 0
  BY DEF TypeOK, Events
<1>1. CASE events'[m] = events[m]
  <2>1. \A s \in Final : events'[m][s] > 0 => row'[m].st \in {s, "deleted"}
    BY <1>0, <1>1, SettledStays
  <2>2. ASSUME Owned(m)' PROVE events[m]["sent"] = 0 /\ events[m]["failed"] = 0
    <3>1. m \in Due => row[m].st = "queued"
      BY DEF Due
    <3> QED
      BY <1>0, <2>2, <3>1, BatchSteps
  <2> QED
    BY <1>0, <1>1, <2>1, <2>2
<1>2. CASE events'[m] # events[m]
  <2>1. PICK w \in Workers : Emit(w)
    BY <1>2, EventSteps
  <2>2. /\ pc[w] \in {"emitSent", "emitFailed"} /\ cur[w] = m
        /\ row' = row /\ Finish(w, m)
    BY <1>2, <2>1 DEF Emit, TypeOK, dbVars
  <2>3. m \in batch[w] /\ Owned(m) /\ HeldRow(w, m)
    BY <2>2 DEF LockHeld, Claims, Owned
  <2>4. PICK s \in Final : /\ s = IF pc[w] = "emitSent" THEN "sent" ELSE "failed"
                           /\ events'[m] = [events[m] EXCEPT ![s] = @ + 1]
    BY <2>1, <2>2 DEF Emit, TypeOK
  <2>5. events[m] \in [Final -> Nat]
    BY DEF TypeOK
  <2>6. /\ events'[m][s] = 1
        /\ \A t \in Final \ {s} : events'[m][t] = 0
    BY <1>0, <2>3, <2>4, <2>5
  <2>7. row'[m].st \in {s, "deleted"}
    BY <2>2, <2>3, <2>4 DEF HeldRow
  <2>8. ~Owned(m)'
    BY <2>2, <2>3, Unshared DEF Owned, Finish, TypeOK
  <2> QED
    BY <2>4, <2>6, <2>7, <2>8
<1> QED
  BY <1>1, <1>2

\* At most one message.status event is written per message, and it tells what
\* the row says (Outbox.emit after MarkSent or MarkFailed).
THEOREM EventsTrue == ~SlowBatches => (Spec => []OneTrueFinalEvent)
<1> SUFFICES ASSUME ~SlowBatches PROVE Spec => []OneTrueFinalEvent
  OBVIOUS
<1>1. Init => Events
  BY DEF Init, Events, Owned
<1>2. Events => OneTrueFinalEvent
  BY DEF Events, OneTrueFinalEvent
<1> QED
  BY <1>1, <1>2, ClaimsHold, NextEvents, PTL DEF Spec

-----------------------------------------------------------------------------
(* Duplicates                                                              *)

\* A step of w inside process that may change the counters of its message c
\* and writes no other row.
LEMMA MoveKeepsSends ==
    ASSUME TypeOK, Claims, Sends, NEW w \in Workers, NEW to, NEW c \in batch[w],
           pc' = [pc EXCEPT ![w] = to], UNCHANGED batch,
           cur' = [cur EXCEPT ![w] = c],
           pc[w] = "loop" \/ cur[w] = c,
           \A n \in Msgs \ {c} :
               row'[n] = row[n] /\ accepted'[n] = accepted[n] /\ excuses'[n] = excuses[n],
           accepted'[c] <= excuses'[c] + 1,
           \/ accepted'[c] <= excuses'[c]
           \/ to = "markSent"
           \/ to = "emitSent" /\ row'[c].st \in {"sent", "deleted"}
    PROVE  Sends'
<1>0. c \in Msgs /\ pc'[w] = to /\ cur'[w] = c
  BY DEF TypeOK
<1>1. \A m \in Msgs : accepted'[m] <= excuses'[m] + 1
  BY DEF Sends
<1>2. ASSUME NEW m \in Msgs, row'[m].st \notin {"sent", "deleted"}, ~InFlight(m)'
      PROVE  accepted'[m] <= excuses'[m]
  <2>1. CASE m = c
    BY <1>0, <1>2, <2>1 DEF InFlight
  <2>2. CASE m # c
    <3>1. ~InFlight(m)
      BY <1>0, <1>2, <2>2 DEF InFlight, TypeOK
    <3> QED
      BY <1>2, <2>2, <3>1 DEF Sends
  <2> QED
    BY <2>1, <2>2
<1>3. ASSUME NEW v \in Workers, NEW m \in batch'[v],
             ~(m = cur'[v] /\ pc'[v] \in {"markSent", "emitSent"})
      PROVE  accepted'[m] <= excuses'[m]
  <2>1. m \in Msgs /\ m \in batch[v]
    BY <1>3 DEF TypeOK
  <2>2. CASE m = c
    <3>1. v = w
      BY <2>1, <2>2, Unshared
    <3> QED
      BY <1>0, <1>3, <2>2, <3>1
  <2>3. CASE m # c
    <3>1. ~(m = cur[v] /\ pc[v] \in {"markSent", "emitSent"})
      BY <1>0, <1>3, <2>3 DEF TypeOK
    <3> QED
      BY <2>1, <2>3, <3>1 DEF Sends
  <2> QED
    BY <2>2, <2>3
<1> QED
  BY <1>1, <1>2, <1>3 DEF Sends

\* A returning process whose message is recorded, excused or was not accepted.
LEMMA ReturnKeepsSends ==
    ASSUME TypeOK, LockHeld, Claims, Sends, NEW w \in Workers, pc[w] # "loop",
           NEW c \in Msgs, cur[w] = c, Finish(w, c), accepted' = accepted,
           \A n \in Msgs \ {c} : row'[n] = row[n] /\ excuses'[n] = excuses[n],
           \/ accepted[c] <= excuses'[c]
           \/ row'[c].st \in {"sent", "deleted"} /\ excuses'[c] = excuses[c],
           excuses'[c] \in Nat
    PROVE  Sends'
<1>0. c \in batch[w]
  BY DEF LockHeld
<1>1. \A m \in Msgs : accepted[m] \in Nat /\ excuses[m] \in Nat
  BY DEF TypeOK
<1>2. \A m \in Msgs : accepted'[m] <= excuses'[m] + 1
  BY <1>1 DEF Sends
<1>3. ASSUME NEW m \in Msgs, row'[m].st \notin {"sent", "deleted"}, ~InFlight(m)'
      PROVE  accepted'[m] <= excuses'[m]
  <2>1. CASE m = c
    BY <1>3, <2>1
  <2>2. CASE m # c
    <3>1. ~InFlight(m)
      BY <1>3, <2>2 DEF InFlight, Finish, TypeOK
    <3> QED
      BY <1>3, <2>2, <3>1 DEF Sends
  <2> QED
    BY <2>1, <2>2
<1>4. ASSUME NEW v \in Workers, NEW m \in batch'[v],
             ~(m = cur'[v] /\ pc'[v] \in {"markSent", "emitSent"})
      PROVE  accepted'[m] <= excuses'[m]
  <2>1. m \in Msgs /\ m \in batch[v] /\ m # c
    BY <1>0, <1>4, Unshared DEF Finish, TypeOK
  <2>2. ~(m = cur[v] /\ pc[v] \in {"markSent", "emitSent"})
    BY <1>4, <2>1 DEF Finish, TypeOK
  <2> QED
    BY <2>1, <2>2 DEF Sends
<1> QED
  BY <1>2, <1>3, <1>4 DEF Sends

\* Workers that lose their memory excuse what they had not recorded.
LEMMA ForgetKeepsSends ==
    ASSUME TypeOK, Sends, NEW ws \in SUBSET Workers,
           excuses' = Forgotten(ws), accepted' = accepted, row' = row,
           \A v \in Workers : IF v \in ws THEN batch'[v] = {}
                              ELSE UNCHANGED <<batch[v], pc[v], cur[v]>>
    PROVE  Sends'
<1>1. \A m \in Msgs : accepted[m] \in Nat /\ excuses[m] \in Nat
  BY DEF TypeOK
<1>2. \A m \in Msgs : excuses'[m] \in {excuses[m], excuses[m] + 1}
  BY DEF Forgotten
<1>3. \A m \in Msgs : accepted'[m] <= excuses'[m] + 1
  BY <1>1, <1>2 DEF Sends
<1>4. ASSUME NEW m \in Msgs, row'[m].st \notin {"sent", "deleted"}, ~InFlight(m)'
      PROVE  accepted'[m] <= excuses'[m]
  <2>1. CASE InFlight(m)
    <3>1. excuses'[m] = excuses[m] + 1
      BY <1>4, <2>1 DEF InFlight, Forgotten
    <3> QED
      BY <1>1, <3>1 DEF Sends
  <2>2. CASE ~InFlight(m)
    BY <1>1, <1>2, <1>4, <2>2 DEF Sends
  <2> QED
    BY <2>1, <2>2
<1>5. ASSUME NEW v \in Workers, NEW m \in batch'[v],
             ~(m = cur'[v] /\ pc'[v] \in {"markSent", "emitSent"})
      PROVE  accepted'[m] <= excuses'[m]
  <2>1. v \notin ws /\ m \in batch[v] /\ m \in Msgs
    BY <1>5 DEF TypeOK
  <2>2. accepted[m] <= excuses[m]
    BY <1>5, <2>1 DEF Sends
  <2> QED
    BY <1>1, <1>2, <2>1, <2>2
<1> QED
  BY <1>3, <1>4, <1>5 DEF Sends

\* Every send, record, receipt, recovery, stop and crash keeps the count.
LEMMA NextSends ==
    ~SlowBatches /\ TypeOK /\ LockHeld /\ Claims /\ Sends /\ [Next]_vars => Sends'
<1> SUFFICES ASSUME ~SlowBatches, TypeOK, LockHeld, Claims, Sends, [Next]_vars
             PROVE  Sends'
  OBVIOUS
<1>0. \A m \in Msgs : accepted[m] \in Nat /\ excuses[m] \in Nat
  BY DEF TypeOK
<1>1. ASSUME WorkersRest, \A m \in Msgs : Drifts(m) PROVE Sends'
  <2>1. /\ pc' = pc /\ batch' = batch /\ cur' = cur
        /\ accepted' = accepted /\ excuses' = excuses
    BY <1>1 DEF WorkersRest
  <2>2. \A m \in Msgs : row[m].st \in {"sent", "deleted"} => row'[m].st \in {"sent", "deleted"}
    BY <1>1 DEF Drifts
  <2>3. \A m \in Msgs : InFlight(m)' <=> InFlight(m)
    BY <2>1 DEF InFlight
  <2> QED
    BY <2>1, <2>2, <2>3 DEF Sends
<1>2. ASSUME NEW w \in Workers, Claim(w) PROVE Sends'
  <2>1. /\ pc' = pc /\ cur' = cur /\ accepted' = accepted /\ excuses' = excuses
    BY <1>2 DEF Claim, history
  <2>2. /\ \A m \in Msgs :
              row'[m] = row[m] \/ (row[m].st = "queued" /\ row'[m].st = "sending")
        /\ batch'[w] \subseteq Due
        /\ \A v \in Workers \ {w} : batch'[v] = batch[v]
    BY <1>2, ClaimEffect
  <2>3. \A m \in Msgs : InFlight(m)' <=> InFlight(m)
    BY <2>1 DEF InFlight
  <2>4. ASSUME NEW m \in Due PROVE accepted[m] <= excuses[m]
    <3>1. m \in Msgs /\ row[m].st = "queued"
      BY DEF Due
    <3>2. ~InFlight(m)
      BY <3>1, RecordsSending DEF InFlight
    <3> QED
      BY <3>1, <3>2 DEF Sends
  <2> QED
    BY <2>1, <2>2, <2>3, <2>4 DEF Sends
<1>3. ASSUME NEW w \in Workers, pc[w] \in {"loop", "locked", "markFailed", "markRetrying", "emitFailed"},
             NEW c \in batch[w]
      PROVE  accepted[c] <= excuses[c]
  BY <1>3 DEF Sends
<1>4. ASSUME NEW w \in Workers, Acquire(w) PROVE Sends'
  <2>1. PICK c \in batch[w] : cur' = [cur EXCEPT ![w] = c]
    BY <1>4 DEF Acquire
  <2>2. /\ pc[w] = "loop" /\ pc' = [pc EXCEPT ![w] = "locked"] /\ batch' = batch
        /\ row' = row /\ accepted' = accepted /\ excuses' = excuses
    BY <1>4 DEF Acquire, Step, dbVars, history
  <2>3. c \in Msgs /\ accepted[c] <= excuses[c]
    BY <1>3, <2>2 DEF TypeOK
  <2>4. accepted'[c] <= excuses'[c] /\ accepted'[c] <= excuses'[c] + 1
    BY <1>0, <2>2, <2>3
  <2> QED
    BY <2>1, <2>2, <2>4, MoveKeepsSends
<1>5. ASSUME NEW w \in Workers, SendAccepted(w) \/ SendTransient(w) \/ SendDefinitive(w)
      PROVE  Sends'
  <2>1. pc[w] = "locked"
    BY <1>5 DEF SendAccepted, SendTransient, SendDefinitive, Step
  <2>2. PICK c \in batch[w] : c = cur[w]
    BY <2>1 DEF LockHeld
  <2>3. /\ c \in Msgs /\ accepted[c] <= excuses[c]
        /\ cur' = [cur EXCEPT ![w] = c] /\ batch' = batch /\ row' = row
    BY <1>3, <1>5, <2>1, <2>2 DEF TypeOK, SendAccepted, SendTransient, SendDefinitive, dbVars
  <2>4. CASE SendAccepted(w)
    <3>1. /\ pc' = [pc EXCEPT ![w] = "markSent"] /\ excuses' = excuses
          /\ accepted' = [accepted EXCEPT ![c] = @ + 1]
      BY <2>2, <2>4 DEF SendAccepted, Step
    <3>2. accepted'[c] = accepted[c] + 1 /\ \A n \in Msgs \ {c} : accepted'[n] = accepted[n]
      BY <2>3, <3>1 DEF TypeOK
    <3>3. accepted'[c] <= excuses'[c] + 1
      BY <1>0, <2>3, <3>1, <3>2
    <3> QED
      BY <2>1, <2>2, <2>3, <3>1, <3>2, <3>3, MoveKeepsSends
  <2>5. CASE SendTransient(w)
    <3>1. PICK to : pc' = [pc EXCEPT ![w] = to]
      BY <2>5 DEF SendTransient, Step
    <3>2. \/ accepted' = accepted /\ excuses' = excuses
          \/ /\ accepted' = [accepted EXCEPT ![c] = @ + 1]
             /\ excuses' = [excuses EXCEPT ![c] = @ + 1]
      BY <2>2, <2>5 DEF SendTransient, Excuse
    <3>3. /\ \A n \in Msgs \ {c} : accepted'[n] = accepted[n] /\ excuses'[n] = excuses[n]
          /\ \/ accepted'[c] = accepted[c] /\ excuses'[c] = excuses[c]
             \/ accepted'[c] = accepted[c] + 1 /\ excuses'[c] = excuses[c] + 1
      BY <2>3, <3>2 DEF TypeOK
    <3>4. accepted'[c] <= excuses'[c] /\ accepted'[c] <= excuses'[c] + 1
      BY <1>0, <2>3, <3>3
    <3> QED
      BY <2>1, <2>2, <2>3, <3>1, <3>3, <3>4, MoveKeepsSends
  <2>6. CASE SendDefinitive(w)
    <3>1. pc' = [pc EXCEPT ![w] = "markFailed"] /\ accepted' = accepted /\ excuses' = excuses
      BY <2>6 DEF SendDefinitive, Step, history
    <3>2. accepted'[c] <= excuses'[c] + 1
      BY <1>0, <2>3, <3>1
    <3> QED
      BY <2>1, <2>2, <2>3, <3>1, <3>2, MoveKeepsSends
  <2> QED
    BY <1>5, <2>4, <2>5, <2>6
<1>6. ASSUME NEW w \in Workers, RecordSent(w) \/ RecordFailed(w), Stored(cur[w])
      PROVE  Sends'
  <2>1. PICK c \in batch[w] : c = cur[w]
    BY <1>6 DEF RecordSent, RecordFailed, LockHeld
  <2>2. /\ c \in Msgs /\ cur' = [cur EXCEPT ![w] = c] /\ batch' = batch
        /\ accepted' = accepted /\ excuses' = excuses
    BY <1>6, <2>1 DEF RecordSent, RecordFailed, TypeOK, history
  <2>3. /\ \A n \in Msgs \ {c} : row'[n] = row[n]
        /\ pc[w] # "loop"
    BY <1>6, <2>1, RecordEffect
  <2>4. CASE RecordSent(w)
    <3>1. pc' = [pc EXCEPT ![w] = "emitSent"] /\ row'[c].st = "sent"
      BY <1>6, <2>1, <2>2, <2>4, OutcomeWrites DEF RecordSent, Wrote
    <3>2. accepted'[c] <= excuses'[c] + 1
      BY <2>2 DEF Sends
    <3> QED
      BY <2>1, <2>2, <2>3, <3>1, <3>2, MoveKeepsSends
  <2>5. CASE RecordFailed(w)
    <3>1. pc' = [pc EXCEPT ![w] = "emitFailed"] /\ pc[w] = "markFailed"
      BY <1>6, <2>5 DEF RecordFailed
    <3>2. accepted'[c] <= excuses'[c] + 1 /\ accepted'[c] <= excuses'[c]
      BY <1>0, <1>3, <2>2, <3>1
    <3> QED
      BY <2>1, <2>2, <2>3, <3>1, <3>2, MoveKeepsSends
  <2> QED
    BY <1>6, <2>4, <2>5
<1>7. ASSUME NEW w \in Workers, RecordSent(w) \/ RecordFailed(w), ~Stored(cur[w])
      PROVE  Sends'
  <2>1. PICK c \in batch[w] : c = cur[w]
    BY <1>7 DEF RecordSent, RecordFailed, LockHeld
  <2>2. /\ c \in Msgs /\ Finish(w, c) /\ accepted' = accepted /\ row' = row /\ pc[w] # "loop"
    BY <1>7, <2>1 DEF RecordSent, RecordFailed, TypeOK, history
  <2>3. CASE RecordSent(w)
    <3>1. excuses' = [excuses EXCEPT ![c] = @ + 1]
      BY <1>7, <2>1, <2>3 DEF RecordSent, Excuse
    <3>2. excuses'[c] = excuses[c] + 1 /\ \A n \in Msgs \ {c} : excuses'[n] = excuses[n]
      BY <2>2, <3>1 DEF TypeOK
    <3>3. accepted[c] <= excuses'[c] /\ excuses'[c] \in Nat
      BY <1>0, <2>2, <3>2 DEF Sends
    <3> QED
      BY <2>1, <2>2, <3>2, <3>3, ReturnKeepsSends
  <2>4. CASE RecordFailed(w)
    <3>1. excuses' = excuses /\ pc[w] = "markFailed"
      BY <2>4 DEF RecordFailed, history
    <3> QED
      BY <1>0, <1>3, <2>1, <2>2, <3>1, ReturnKeepsSends
  <2> QED
    BY <1>7, <2>3, <2>4
<1>8. ASSUME NEW w \in Workers, RecordRetrying(w) PROVE Sends'
  <2>1. PICK c \in batch[w] : c = cur[w]
    BY <1>8 DEF RecordRetrying, LockHeld
  <2>2. /\ c \in Msgs /\ Finish(w, c) /\ accepted' = accepted /\ excuses' = excuses
        /\ pc[w] = "markRetrying"
    BY <1>8, <2>1 DEF RecordRetrying, TypeOK, history
  <2>3. \A n \in Msgs \ {c} : row'[n] = row[n]
    BY <1>8, <2>1, RecordEffect
  <2> QED
    BY <1>0, <1>3, <2>1, <2>2, <2>3, ReturnKeepsSends
<1>9. ASSUME NEW w \in Workers, RecordFails(w) PROVE Sends'
  <2>1. PICK c \in batch[w] : c = cur[w]
    BY <1>9 DEF RecordFails, LockHeld
  <2>2. /\ c \in Msgs /\ Finish(w, c) /\ accepted' = accepted
        /\ pc[w] \in {"markSent", "markFailed", "markRetrying"}
    BY <1>9, <2>1 DEF RecordFails, TypeOK
  <2>3. \A n \in Msgs \ {c} : row'[n] = row[n]
    BY <1>9, <2>1, RecordEffect
  <2>4. CASE pc[w] = "markSent" /\ excuses' = [excuses EXCEPT ![c] = @ + 1]
    <3>1. excuses'[c] = excuses[c] + 1 /\ \A n \in Msgs \ {c} : excuses'[n] = excuses[n]
      BY <2>2, <2>4 DEF TypeOK
    <3>2. accepted[c] <= excuses'[c] /\ excuses'[c] \in Nat
      BY <1>0, <2>2, <3>1 DEF Sends
    <3> QED
      BY <2>1, <2>2, <2>3, <3>1, <3>2, ReturnKeepsSends
  <2>5. CASE pc[w] = "markSent" /\ excuses' = excuses /\ row'[c].st = "sent"
    BY <1>0, <2>1, <2>2, <2>3, <2>5, ReturnKeepsSends
  <2>6. CASE pc[w] # "markSent" /\ excuses' = excuses
    <3>1. accepted[c] <= excuses[c]
      BY <1>3, <2>2, <2>6
    <3> QED
      BY <1>0, <2>1, <2>2, <2>3, <2>6, <3>1, ReturnKeepsSends
  <2>7. \/ pc[w] = "markSent" /\ excuses' = [excuses EXCEPT ![c] = @ + 1]
        \/ pc[w] = "markSent" /\ excuses' = excuses /\ row'[c].st = "sent"
        \/ pc[w] # "markSent" /\ excuses' = excuses
    BY <1>9, <2>1, <2>2, OutcomeWrites DEF RecordFails, Excuse, Wrote
  <2> QED
    BY <2>4, <2>5, <2>6, <2>7
<1>10. ASSUME NEW w \in Workers, Emit(w) \/ EmitFails(w) PROVE Sends'
  <2>1. PICK c \in batch[w] : c = cur[w]
    BY <1>10 DEF Emit, EmitFails, LockHeld
  <2>2. /\ c \in Msgs /\ Finish(w, c) /\ accepted' = accepted /\ excuses' = excuses
        /\ row' = row /\ pc[w] \in {"emitSent", "emitFailed"}
    BY <1>10, <2>1 DEF Emit, EmitFails, TypeOK, dbVars, history
  <2>3. pc[w] = "emitSent" => row[c].st \in {"sent", "deleted"}
    BY <2>1 DEF Claims, HeldRow
  <2>4. pc[w] = "emitFailed" => accepted[c] <= excuses[c]
    BY <1>3
  <2> QED
    BY <1>0, <2>1, <2>2, <2>3, <2>4, ReturnKeepsSends
<1>11. ASSUME NEW w \in Workers, Exit(w) PROVE Sends'
  <2>1. /\ excuses' = Forgotten({w}) /\ accepted' = accepted /\ row' = row
        /\ \A v \in Workers : IF v \in {w} THEN batch'[v] = {}
                              ELSE UNCHANGED <<batch[v], pc[v], cur[v]>>
    BY <1>11 DEF Exit, TypeOK, dbVars
  <2> QED
    BY <2>1, ForgetKeepsSends
<1>12. CASE Crash
  <2>1. /\ excuses' = Forgotten(Workers) /\ accepted' = accepted /\ row' = row
        /\ \A v \in Workers : batch'[v] = {}
    BY <1>12 DEF Crash, dbVars
  <2> QED
    BY <2>1, ForgetKeepsSends
<1> QED
  BY <1>1, <1>2, <1>4, <1>5, <1>6, <1>7, <1>8, <1>9, <1>10, <1>11, <1>12, StoreSteps
  DEF Next, Work

\* A recipient gets a message more than once only when an accepted send lost
\* its answer before MarkSent committed.
THEOREM DuplicatesHaveCause == ~SlowBatches => (Spec => []DuplicatesExcused)
<1> SUFFICES ASSUME ~SlowBatches PROVE Spec => []DuplicatesExcused
  OBVIOUS
<1>1. Init => Sends
  BY DEF Init, Sends
<1>2. Sends => DuplicatesExcused
  BY DEF Sends, DuplicatesExcused
<1> QED
  BY <1>1, <1>2, ClaimsHold, NextSends, PTL DEF Spec

-----------------------------------------------------------------------------
(* The contract                                                            *)

\* What the contract sees of the rows: Contract's `status`.
Shown == [m \in Msgs |->
             IF row[m].st \in {"queued", "sending"} THEN "pending" ELSE row[m].st]

\* One row at most changes for the contract: a message is accepted or settles.
LEMMA OneRowKeepsContract ==
    ASSUME NEW m \in Msgs, events' = events,
           \A n \in Msgs \ {m} : Shown'[n] = Shown[n],
           \/ Shown'[m] = Shown[m]
           \/ Shown[m] = "none" /\ Shown'[m] = "pending"
           \/ Shown[m] = "pending" /\ Shown'[m] \in Final
    PROVE  [Contract!Next]_(Contract!cvars)
<1>0. /\ Shown = [n \in Msgs |-> Shown[n]]
      /\ Shown' = [n \in Msgs |-> Shown'[n]]
  BY DEF Shown
<1>1. CASE Shown'[m] = Shown[m]
  <2>1. Shown' = Shown
    BY <1>0, <1>1
  <2> QED
    BY <2>1 DEF Contract!cvars, Shown
<1>2. CASE Shown[m] = "none" /\ Shown'[m] = "pending"
  <2>1. Shown' = [Shown EXCEPT ![m] = "pending"]
    BY <1>0, <1>2
  <2>2. Contract!Accept(m)
    BY <1>2, <2>1 DEF Contract!Accept, Shown
  <2> QED
    BY <2>2 DEF Contract!Next
<1>3. CASE Shown[m] = "pending" /\ Shown'[m] \in Final
  <2>1. Shown' = [Shown EXCEPT ![m] = Shown'[m]]
    BY <1>0, <1>3
  <2>2. \E s \in Final : Shown' = [Shown EXCEPT ![m] = s]
    BY <1>3, <2>1
  <2>3. Contract!Settle(m)
    BY <1>3, <2>2 DEF Contract!Settle, Contract!Settled, Shown
  <2> QED
    BY <2>3 DEF Contract!Next
<1> QED
  BY <1>1, <1>2, <1>3

\* Writing an outcome settles the row or returns it to the queue.
LEMMA RecordKeepsContract ==
    ASSUME TypeOK, LockHeld, Claims, NEW w \in Workers, events' = events,
           RecordSent(w) \/ RecordFailed(w) \/ RecordRetrying(w) \/ RecordFails(w)
    PROVE  [Contract!Next]_(Contract!cvars)
<1>1. /\ cur[w] \in Msgs
      /\ \A n \in Msgs \ {cur[w]} : row'[n] = row[n]
      /\ ~Stored(cur[w]) => row'[cur[w]] = row[cur[w]]
      /\ row'[cur[w]].st \in {row[cur[w]].st, "sent", "failed", "queued"}
      /\ row[cur[w]].st \in {"sending", "deleted"}
  BY RecordEffect, RecordsSending
<1>2. PICK m \in Msgs : m = cur[w]
  BY <1>1
<1>3. \A n \in Msgs \ {m} : Shown'[n] = Shown[n]
  BY <1>1, <1>2 DEF Shown
<1>4. \/ Shown'[m] = Shown[m]
      \/ Shown[m] = "pending" /\ Shown'[m] \in Final
  <2>1. CASE row[m].st = "deleted"
    BY <1>1, <1>2, <2>1 DEF Stored, Shown
  <2>2. CASE row[m].st = "sending" /\ row'[m].st \in {"sending", "queued"}
    BY <2>2 DEF Shown
  <2>3. CASE row[m].st = "sending" /\ row'[m].st \in Final
    BY <2>3 DEF Shown
  <2> QED
    BY <1>1, <1>2, <2>1, <2>2, <2>3
<1> QED
  BY <1>3, <1>4, OneRowKeepsContract

\* Emit is the only announcement the contract allows for its message.
LEMMA EmitKeepsContract ==
    ASSUME TypeOK, LockHeld, Claims, Events, NEW w \in Workers, Emit(w)
    PROVE  [Contract!Next]_(Contract!cvars)
<1>1. pc[w] \in {"emitSent", "emitFailed"} /\ row' = row
  BY DEF Emit, dbVars
<1>2. PICK m \in batch[w] : m = cur[w]
  BY <1>1 DEF LockHeld
<1>3. m \in Msgs /\ Owned(m) /\ HeldRow(w, m)
  BY <1>2 DEF TypeOK, Owned, Claims
<1>4. PICK s \in Final : /\ s = IF pc[w] = "emitSent" THEN "sent" ELSE "failed"
                         /\ events' = [events EXCEPT ![m][s] = @ + 1]
  BY <1>2 DEF Emit
<1>5. Shown[m] \in {s, "deleted"} /\ Shown' = Shown
  BY <1>1, <1>2, <1>3, <1>4 DEF HeldRow, Shown
<1>6. events[m] \in [Final -> Nat] /\ \A t \in Final : events[m][t] = 0
  BY <1>3 DEF TypeOK, Events
<1>7. events[m] = [t \in Final |-> 0]
  BY <1>6
<1>8. events' = [events EXCEPT ![m][s] = 1]
  <2>1. events[m][s] + 1 = 1
    BY <1>6
  <2> QED
    BY <1>4, <2>1
<1>9. Contract!Announce(m, s)
  BY <1>5, <1>7, <1>8 DEF Contract!Announce, Contract!Settled, Shown
<1> QED
  BY <1>3, <1>9 DEF Contract!Next, Contract!Settled

\* The deletion of an instance forgets the messages of the instance.
LEMMA DeleteKeepsContract ==
    ASSUME TypeOK, NEW i \in Instances, DeleteInstance(i)
    PROVE  [Contract!Next]_(Contract!cvars)
<1> DEFINE S == {m \in Msgs : InstanceOf[m] = i}
<1>1. events' = events
  BY DEF DeleteInstance, history
<1>2. ASSUME NEW m \in Msgs
      PROVE  row'[m].st = IF m \in S /\ Stored(m) THEN "deleted" ELSE row[m].st
  <2>1. row[m] \in Row
    BY DEF TypeOK
  <2> QED
    BY <2>1 DEF DeleteInstance, Row
<1>3. \A m \in Msgs : Shown'[m] =
         IF m \in S /\ Shown[m] # "none" THEN "deleted" ELSE Shown[m]
  BY <1>2 DEF Shown, Stored
<1>4. Shown' = [m \in Msgs |->
         IF m \in S /\ Shown[m] # "none" THEN "deleted" ELSE Shown[m]]
  BY <1>3 DEF Shown
<1>5. Contract!Forget(S)
  BY <1>1, <1>4 DEF Contract!Forget, Shown
<1> QED
  BY <1>5 DEF Contract!Next

\* A claim whose answer was lost touches only rows in queued, too.
LEMMA LostClaimEffect ==
    ASSUME TypeOK, NEW w \in Workers, ClaimLost(w)
    PROVE  \A m \in Msgs :
               row'[m] = row[m] \/ (row[m].st = "queued" /\ row'[m].st = "sending")
<1>1. PICK claimed \in SUBSET Due :
         row' = [m \in Msgs |->
               IF m \in claimed
               THEN [row[m] EXCEPT !.st = "sending", !.stale = FALSE]
               ELSE row[m]]
  BY DEF ClaimLost
<1>2. \A m \in Msgs : row[m] \in Row
  BY DEF TypeOK
<1>3. \A m \in claimed : row[m].st = "queued"
  BY DEF Due
<1>4. \A m \in Msgs : m \in claimed => row'[m].st = "sending"
  BY <1>1, <1>2 DEF Row
<1>5. \A m \in Msgs : m \notin claimed => row'[m] = row[m]
  BY <1>1
<1> QED
  BY <1>3, <1>4, <1>5

\* Recovery moves rows from sending to queued, or not at all.
LEMMA RequeueEffect ==
    ASSUME TypeOK, row' = RequeueStuck, NEW m \in Msgs
    PROVE  row'[m].st = row[m].st \/ (row[m].st = "sending" /\ row'[m].st = "queued")
<1>1. row[m] \in Row
  BY DEF TypeOK
<1> QED
  BY <1>1 DEF RequeueStuck, Row

\* The clock, the receipts, claims and recovery move rows inside pending.
LEMMA HiddenSteps ==
    ASSUME TypeOK,
           \/ \E m \in Msgs : BackoffElapses(m) \/ Age(m)
           \/ \E w \in Workers : Claim(w) \/ ClaimLost(w)
           \/ SomeReceipt \/ Recover \/ Boot
    PROVE  Shown' = Shown
<1>0. \A m \in Msgs : row[m] \in Row
  BY DEF TypeOK
<1>1. ASSUME NEW m \in Msgs, BackoffElapses(m) \/ Age(m) PROVE Shown' = Shown
  <2>1. row'[m].st = row[m].st /\ \A n \in Msgs \ {m} : row'[n] = row[n]
    BY <1>0, <1>1 DEF BackoffElapses, Age, Update, TypeOK, Row
  <2> QED
    BY <2>1 DEF Shown
<1>2. ASSUME NEW w \in Workers, Claim(w) PROVE Shown' = Shown
  BY <1>2, ClaimEffect DEF Shown
<1>3. CASE SomeReceipt
  <2>0. PICK m \in Msgs : \E k, kind : Receipt(m, k, kind)
    BY <1>3 DEF SomeReceipt
  <2>1. PICK k, kind : Receipt(m, k, kind)
    BY <2>0
  <2>2. UpdateReceipt(row[m], kind).st = row[m].st
    BY <1>0 DEF UpdateReceipt, Row
  <2>3. row'[m].st = row[m].st /\ \A n \in Msgs \ {m} : row'[n] = row[n]
    BY <2>1, <2>2 DEF Receipt, Update, TypeOK
  <2> QED
    BY <2>3 DEF Shown
<1>4. CASE Recover \/ Boot
  <2>1. row' \in {row, RequeueStuck}
    BY <1>4 DEF Recover, Boot
  <2>2. CASE row' = row
    BY <2>2 DEF Shown
  <2>3. CASE row' = RequeueStuck
    BY <2>3, RequeueEffect DEF Shown
  <2> QED
    BY <2>1, <2>2, <2>3
<1>5. ASSUME NEW w \in Workers, ClaimLost(w) PROVE Shown' = Shown
  BY <1>5, LostClaimEffect DEF Shown
<1> QED
  BY <1>1, <1>2, <1>3, <1>4, <1>5

\* Every step of the queue is a step of the contract or invisible to it.
LEMMA ContractStep ==
    ~SlowBatches /\ TypeOK /\ LockHeld /\ Claims /\ Events /\ [Next]_vars
        => [Contract!Next]_(Contract!cvars)
<1> SUFFICES ASSUME ~SlowBatches, TypeOK, LockHeld, Claims, Events, [Next]_vars
             PROVE  [Contract!Next]_(Contract!cvars)
  OBVIOUS
<1>1. CASE events' # events
  BY <1>1, EventSteps, EmitKeepsContract
<1>2. ASSUME events' = events, Shown' = Shown PROVE [Contract!Next]_(Contract!cvars)
  BY <1>2 DEF Contract!cvars, Shown
<1>3. ASSUME NEW m \in Msgs, Enqueue(m) PROVE [Contract!Next]_(Contract!cvars)
  <2>1. events' = events /\ row[m].st = "none" /\ Wrote(m, "queued")
    BY <1>3 DEF Enqueue, Update, NoRow, Wrote, TypeOK, history
  <2>2. Shown[m] = "none" /\ Shown'[m] = "pending"
        /\ \A n \in Msgs \ {m} : Shown'[n] = Shown[n]
    BY <2>1 DEF Wrote, Shown
  <2> QED
    BY <2>1, <2>2, OneRowKeepsContract
<1>4. ASSUME NEW i \in Instances, DeleteInstance(i)
      PROVE  [Contract!Next]_(Contract!cvars)
  BY <1>4, DeleteKeepsContract
<1>5. ASSUME NEW w \in Workers, events' = events,
             RecordSent(w) \/ RecordFailed(w) \/ RecordRetrying(w) \/ RecordFails(w)
      PROVE  [Contract!Next]_(Contract!cvars)
  BY <1>5, RecordKeepsContract
<1>6. ASSUME \/ \E m \in Msgs : BackoffElapses(m) \/ Age(m)
             \/ \E w \in Workers : Claim(w) \/ ClaimLost(w)
             \/ SomeReceipt \/ Recover \/ Boot
      PROVE  Shown' = Shown
  BY <1>6, HiddenSteps
<1>7. ASSUME \/ \E w \in Workers : \/ Acquire(w) \/ SendAccepted(w) \/ SendTransient(w)
                                   \/ SendDefinitive(w) \/ Emit(w) \/ EmitFails(w)
                                   \/ Exit(w)
             \/ Crash
      PROVE  Shown' = Shown
  BY <1>7, NoRecordEffect DEF Shown
<1>8. ASSUME \/ \E i \in Instances : SessionMoves(i)
             \/ Stop \/ Stopped \/ UNCHANGED vars
      PROVE  Shown' = Shown
  BY <1>8 DEF SessionMoves, Stop, Stopped, vars, dbVars, Shown
<1> QED
  BY <1>1, <1>2, <1>3, <1>4, <1>5, <1>6, <1>7, <1>8 DEF Next, Work

\* The queue implements the delivery contract: a message is accepted once,
\* settles once, is announced at most once and as what it settled to, and is
\* only forgotten with its instance.
THEOREM ContractKept == ~SlowBatches => (Spec => KeepsContract)
<1> SUFFICES ASSUME ~SlowBatches PROVE Spec => KeepsContract
  OBVIOUS
<1>1. Init => Contract!Init
  BY DEF Init, NoRow, Contract!Init, Contract!Settled
<1>2. Init => Events
  BY DEF Init, Events, Owned
<1>3. TypeOK /\ LockHeld /\ Claims /\ Events /\ [Next]_vars
          => [Contract!Next]_(Contract!cvars)
  BY ContractStep
<1>4. TypeOK /\ LockHeld /\ Claims /\ Events /\ [Next]_vars => Events'
  BY NextEvents
<1> QED
  BY <1>1, <1>2, <1>3, <1>4, ClaimsHold, PTL DEF Spec, KeepsContract, Contract!Spec

-----------------------------------------------------------------------------
(* Retries                                                                 *)

\* The worker that holds a message read its retries when it claimed it, and no
\* one counts one since; it retries only below the limit.
Retries ==
    /\ \A m \in Msgs : row[m].retries <= MaxSendRetries
    /\ \A w \in Workers : \A m \in batch[w] : attempts[w][m] = row[m].retries
    /\ \A w \in Workers : pc[w] = "markRetrying" => attempts[w][cur[w]] < MaxSendRetries

\* One row is written.
LEMMA UpdateRetries ==
    ASSUME TypeOK, NEW m \in Msgs, NEW new, Update(m, new)
    PROVE  row'[m].retries = new.retries /\ \A n \in Msgs \ {m} : row'[n] = row[n]
  BY DEF Update, TypeOK

\* Only MarkRetrying counts, and a new message starts at zero.
LEMMA RetryRows ==
    ASSUME TypeOK, LockHeld, [Next]_vars, NEW m \in Msgs
    PROVE  \/ row'[m].retries = row[m].retries
           \/ row[m].st = "none" /\ row'[m].retries = 0
           \/ /\ row'[m].retries = row[m].retries + 1
              /\ \E w \in Workers : pc[w] = "markRetrying" /\ cur[w] = m /\ Finish(w, m)
<1>0. \A n \in Msgs : row[n] \in Row
  BY DEF TypeOK
<1>1. ASSUME NEW n \in Msgs, Enqueue(n)
      PROVE  row'[m].retries = row[m].retries \/ (row[m].st = "none" /\ row'[m].retries = 0)
  <2>1. \A k : [NoRow EXCEPT !.st = "queued", !.createdAt = k].retries = 0
    BY DEF NoRow
  <2>2. row[n].st = "none" /\ row'[n].retries = 0
        /\ \A o \in Msgs \ {n} : row'[o] = row[o]
    BY <1>1, <2>1, UpdateRetries DEF Enqueue
  <2> QED
    BY <2>2
<1>2. ASSUME NEW n \in Msgs, BackoffElapses(n) \/ Age(n)
      PROVE  row'[m].retries = row[m].retries
  <2>1. row'[n].retries = row[n].retries /\ \A o \in Msgs \ {n} : row'[o] = row[o]
    BY <1>0, <1>2 DEF BackoffElapses, Age, Update, TypeOK, Row
  <2> QED
    BY <2>1
<1>3. ASSUME NEW i \in Instances, DeleteInstance(i) PROVE row'[m].retries = row[m].retries
  <2>1. \/ row'[m] = row[m]
        \/ row'[m] = [row[m] EXCEPT !.st = "deleted"]
    BY <1>3 DEF DeleteInstance
  <2> QED
    BY <1>0, <2>1 DEF Row
<1>4. ASSUME NEW w \in Workers, Claim(w) \/ ClaimLost(w) PROVE row'[m].retries = row[m].retries
  <2>1. \/ row'[m] = row[m]
        \/ row'[m] = [row[m] EXCEPT !.st = "sending", !.stale = FALSE]
    BY <1>4 DEF Claim, ClaimLost
  <2> QED
    BY <1>0, <2>1 DEF Row
<1>5. CASE SomeReceipt
  <2>0. PICK n \in Msgs : \E k, kind : Receipt(n, k, kind)
    BY <1>5 DEF SomeReceipt
  <2>1. PICK k, kind : Receipt(n, k, kind)
    BY <2>0
  <2>2. UpdateReceipt(row[n], kind).retries = row[n].retries
    BY <1>0 DEF UpdateReceipt, Row
  <2>3. row'[n].retries = row[n].retries /\ \A o \in Msgs \ {n} : row'[o] = row[o]
    BY <2>1, <2>2, UpdateRetries DEF Receipt
  <2> QED
    BY <2>3
<1>6. CASE Recover \/ Boot
  <2>1. row' \in {row, RequeueStuck}
    BY <1>6 DEF Recover, Boot
  <2>2. \/ row'[m] = row[m]
        \/ row'[m] = [row[m] EXCEPT !.st = "queued", !.stale = FALSE]
    BY <2>1 DEF RequeueStuck
  <2> QED
    BY <1>0, <2>2 DEF Row
<1>7. ASSUME NEW w \in Workers,
             RecordSent(w) \/ RecordFailed(w) \/ RecordRetrying(w) \/ RecordFails(w)
      PROVE  \/ row'[m].retries = row[m].retries
             \/ /\ row'[m].retries = row[m].retries + 1
                /\ pc[w] = "markRetrying" /\ cur[w] = m /\ Finish(w, m)
  <2>1. PICK n \in Msgs : n = cur[w]
    BY <1>7, RecordEffect
  <2>2. \/ row' = row
        \/ MarkSent(n, waId[w]) \/ MarkFailed(n)
        \/ MarkRetrying(n) /\ pc[w] = "markRetrying" /\ Finish(w, n)
    BY <1>7, <2>1 DEF RecordSent, RecordFailed, RecordRetrying, RecordFails
  <2>3. ASSUME MarkSent(n, waId[w]) \/ MarkFailed(n) PROVE row'[m].retries = row[m].retries
    <3>1. row'[n].retries = row[n].retries /\ \A o \in Msgs \ {n} : row'[o] = row[o]
      <4>1. /\ [row[n] EXCEPT !.st = "sent", !.wa = waId[w], !.stale = FALSE].retries
                  = row[n].retries
            /\ [row[n] EXCEPT !.st = "failed", !.stale = FALSE].retries = row[n].retries
        BY <1>0 DEF Row
      <4> QED
        BY <2>3, <4>1, UpdateRetries DEF MarkSent, MarkFailed
    <3> QED
      BY <3>1
  <2>4. ASSUME MarkRetrying(n)
        PROVE  row'[n].retries = row[n].retries + 1 /\ \A o \in Msgs \ {n} : row'[o] = row[o]
    <3>1. [row[n] EXCEPT !.st = "queued", !.retries = @ + 1,
                         !.due = FALSE, !.stale = FALSE].retries = row[n].retries + 1
      BY <1>0 DEF Row
    <3> QED
      BY <2>4, <3>1, UpdateRetries DEF MarkRetrying
  <2> QED
    BY <2>1, <2>2, <2>3, <2>4
<1>8. ASSUME \/ \E w \in Workers : \/ Acquire(w) \/ SendAccepted(w) \/ SendTransient(w)
                                   \/ SendDefinitive(w) \/ Emit(w) \/ EmitFails(w)
                                   \/ Exit(w)
             \/ Crash
      PROVE  row' = row
  BY <1>8, NoRecordEffect
<1>9. ASSUME \/ \E i \in Instances : SessionMoves(i)
             \/ Stop \/ Stopped \/ UNCHANGED vars
      PROVE  row' = row
  BY <1>9 DEF SessionMoves, Stop, Stopped, vars, dbVars
<1> QED
  BY <1>1, <1>2, <1>3, <1>4, <1>5, <1>6, <1>7, <1>8, <1>9 DEF Next, Work

\* What a step does to the memory of a worker.
LEMMA MemorySteps ==
    ASSUME TypeOK, LockHeld, [Next]_vars, NEW w \in Workers
    PROVE  \/ batch'[w] = batch[w] /\ attempts'[w] = attempts[w]
           \/ batch'[w] = {}
           \/ \A m \in batch'[w] : m \in Due /\ attempts'[w][m] = row[m].retries
                                   /\ row'[m].retries = row[m].retries
           \/ /\ batch'[w] = batch[w] \ {cur[w]} /\ Finish(w, cur[w])
              /\ \A n \in Msgs \ {cur[w]} : attempts'[w][n] = attempts[w][n]
<1>1. ASSUME NEW v \in Workers, Claim(v)
      PROVE  \/ batch'[w] = batch[w] /\ attempts'[w] = attempts[w]
             \/ \A m \in batch'[w] : m \in Due /\ attempts'[w][m] = row[m].retries
                                     /\ row'[m].retries = row[m].retries
  <2>1. PICK claimed \in SUBSET Due :
           /\ batch' = [batch EXCEPT ![v] = claimed]
           /\ attempts' = [attempts EXCEPT ![v] =
                 [m \in Msgs |-> IF m \in claimed THEN row[m].retries ELSE 0]]
    BY <1>1 DEF Claim
  <2>2. CASE v # w
    BY <2>1, <2>2 DEF TypeOK
  <2>3. CASE v = w
    <3>1. batch'[w] = claimed /\ claimed \subseteq Msgs
          /\ \A m \in claimed : attempts'[w][m] = row[m].retries
      BY <2>1, <2>3 DEF TypeOK, Due
    <3>2. \A m \in claimed : row'[m].retries = row[m].retries
      <4>1. ASSUME NEW m \in claimed PROVE ~(row[m].st = "none")
                                     /\ ~\E u \in Workers : pc[u] = "markRetrying" /\ Finish(u, m)
        <5>1. ~(row[m].st = "none")
          BY DEF Due
        <5>2. ASSUME NEW u \in Workers, pc[u] = "markRetrying", Finish(u, m) PROVE FALSE
          <6>1. pc' = pc /\ pc'[u] = "loop"
            BY <1>1, <5>2 DEF Claim, Finish, TypeOK
          <6> QED
            BY <5>2, <6>1
        <5> QED
          BY <5>1, <5>2
      <4> QED
        BY <3>1, <4>1, RetryRows
    <3> QED
      BY <3>1, <3>2
  <2> QED
    BY <2>2, <2>3
<1>2. ASSUME NEW v \in Workers, Finish(v, cur[v]), cur[v] \in Msgs
      PROVE  \/ batch'[w] = batch[w] /\ attempts'[w] = attempts[w]
             \/ /\ batch'[w] = batch[w] \ {cur[w]} /\ Finish(w, cur[w])
                /\ \A n \in Msgs \ {cur[w]} : attempts'[w][n] = attempts[w][n]
  BY <1>2 DEF Finish, TypeOK
<1>3. ASSUME NEW v \in Workers, Exit(v)
      PROVE  (batch'[w] = batch[w] /\ attempts'[w] = attempts[w]) \/ batch'[w] = {}
  BY <1>3 DEF Exit, TypeOK
<1>4. CASE Crash
  BY <1>4 DEF Crash
<1>5. ASSUME NEW v \in Workers, Work(v) \/ RecordFails(v) \/ EmitFails(v) \/ ClaimLost(v)
      PROVE  \/ Claim(v) \/ UNCHANGED <<batch, attempts>>
             \/ Finish(v, cur[v]) /\ cur[v] \in Msgs
  <2>1. pc[v] # "loop" => cur[v] \in Msgs
    BY CurType
  <2> QED
    BY <1>5, <2>1 DEF Work, Acquire, SendAccepted, SendTransient, SendDefinitive,
       RecordSent, RecordFailed, RecordRetrying, RecordFails, Emit, EmitFails,
       ClaimLost, procVars
<1>6. ASSUME \/ \E n \in Msgs : Enqueue(n) \/ BackoffElapses(n) \/ Age(n)
             \/ \E i \in Instances : SessionMoves(i) \/ DeleteInstance(i)
             \/ SomeReceipt \/ Recover \/ Stop \/ Stopped \/ Boot
             \/ UNCHANGED vars
      PROVE  UNCHANGED <<batch, attempts>>
  BY <1>6 DEF Enqueue, BackoffElapses, Age, SessionMoves, DeleteInstance, SomeReceipt,
              Receipt, Recover, Stop, Stopped, Boot, vars, procVars
<1> QED
  BY <1>1, <1>2, <1>3, <1>4, <1>5, <1>6 DEF Next

\* The decision to retry is taken below the limit.
LEMMA DecisionSteps ==
    ASSUME TypeOK, LockHeld, [Next]_vars, NEW w \in Workers, pc'[w] = "markRetrying"
    PROVE  /\ cur'[w] = cur[w] /\ attempts'[w] = attempts[w]
           /\ pc[w] = "markRetrying" \/ attempts[w][cur[w]] < MaxSendRetries
<1>1. ASSUME NEW v \in Workers, NEW m, Finish(v, m)
      PROVE  pc[w] = "markRetrying" /\ v # w
  BY <1>1 DEF Finish, TypeOK
<1>2. ASSUME NEW v \in Workers, Finish(v, cur[v])
      PROVE  cur'[w] = cur[w] /\ attempts'[w] = attempts[w] /\ pc[w] = "markRetrying"
  BY <1>1, <1>2 DEF Finish, TypeOK
<1>3. ASSUME NEW v \in Workers, SendTransient(v)
      PROVE  /\ cur'[w] = cur[w] /\ attempts'[w] = attempts[w]
             /\ pc[w] = "markRetrying" \/ attempts[w][cur[w]] < MaxSendRetries
  BY <1>3 DEF SendTransient, Step, AfterTransient, TypeOK
<1>4. ASSUME NEW v \in Workers,
             \/ Claim(v) \/ Acquire(v) \/ SendAccepted(v) \/ SendDefinitive(v)
             \/ Exit(v) \/ ClaimLost(v)
             \/ RecordSent(v) /\ Stored(cur[v])
             \/ RecordFailed(v) /\ Stored(cur[v])
      PROVE  cur'[w] = cur[w] /\ attempts'[w] = attempts[w] /\ pc[w] = "markRetrying"
  <2>1. pc[w] = "markRetrying"
    BY <1>4 DEF Claim, Acquire, SendAccepted, SendDefinitive, Exit, ClaimLost, RecordSent,
       RecordFailed, Step, TypeOK, procVars
  <2>2. CASE Claim(v)
    <3>1. cur' = cur /\ (v # w => attempts'[w] = attempts[w]) /\ pc[v] = "loop"
      BY <2>2 DEF Claim, TypeOK
    <3> QED
      BY <2>1, <3>1
  <2>3. CASE Acquire(v) \/ Exit(v)
    <3>1. v # w
      BY <1>4, <2>1, <2>3 DEF Acquire, Exit, Step, TypeOK
    <3> QED
      BY <2>1, <2>3, <3>1 DEF Acquire, Exit, TypeOK
  <2>4. CASE \/ SendAccepted(v) \/ SendDefinitive(v) \/ ClaimLost(v)
             \/ RecordSent(v) /\ Stored(cur[v])
             \/ RecordFailed(v) /\ Stored(cur[v])
    BY <2>1, <2>4 DEF SendAccepted, SendDefinitive, ClaimLost, RecordSent, RecordFailed,
       procVars
  <2> QED
    BY <1>4, <2>2, <2>3, <2>4
<1>5. ASSUME NEW v \in Workers,
             \/ RecordSent(v) /\ ~Stored(cur[v])
             \/ RecordFailed(v) /\ ~Stored(cur[v])
             \/ RecordRetrying(v) \/ RecordFails(v) \/ Emit(v) \/ EmitFails(v)
      PROVE  Finish(v, cur[v])
  BY <1>5 DEF RecordSent, RecordFailed, RecordRetrying, RecordFails, Emit, EmitFails
<1>6. ASSUME \/ \E n \in Msgs : Enqueue(n) \/ BackoffElapses(n) \/ Age(n)
             \/ \E i \in Instances : SessionMoves(i) \/ DeleteInstance(i)
             \/ SomeReceipt \/ Recover \/ Stop \/ Stopped \/ Boot
             \/ UNCHANGED vars
      PROVE  cur'[w] = cur[w] /\ attempts'[w] = attempts[w] /\ pc[w] = "markRetrying"
  BY <1>6 DEF Enqueue, BackoffElapses, Age, SessionMoves, DeleteInstance, SomeReceipt,
              Receipt, Recover, Stop, Stopped, Boot, vars, procVars
<1>7. ~Crash
  BY DEF Crash
<1> QED
  BY <1>2, <1>3, <1>4, <1>5, <1>6, <1>7 DEF Next, Work

\* No other worker counts a retry of a message a worker holds.
LEMMA NextRetries ==
    TypeOK /\ LockHeld /\ Claims /\ Retries /\ [Next]_vars => Retries'
<1> SUFFICES ASSUME TypeOK, LockHeld, Claims, Retries, [Next]_vars
             PROVE  Retries'
  OBVIOUS
<1>1. ASSUME NEW m \in Msgs PROVE row'[m].retries <= MaxSendRetries
  <2>1. row[m].retries \in Nat /\ row[m].retries <= MaxSendRetries
    BY DEF TypeOK, Row, Retries
  <2>2. ASSUME NEW w \in Workers, pc[w] = "markRetrying", cur[w] = m
        PROVE  row[m].retries < MaxSendRetries
    BY <2>2 DEF LockHeld, Retries
  <2> QED
    BY <2>1, <2>2, RetryRows, OutboxAssumption
<1>2. ASSUME NEW w \in Workers, NEW m \in batch'[w] PROVE attempts'[w][m] = row'[m].retries
  <2>1. ASSUME m \in batch[w], attempts'[w][m] = attempts[w][m],
               ~(m = cur[w] /\ Finish(w, m))
        PROVE  attempts'[w][m] = row'[m].retries
    <3>1. m \in Msgs /\ row[m].st # "none" /\ attempts[w][m] = row[m].retries
      BY <2>1 DEF TypeOK, Claims, HeldRow, Retries
    <3>2. ASSUME NEW v \in Workers, pc[v] = "markRetrying", cur[v] = m, Finish(v, m)
          PROVE  FALSE
      <4>1. m \in batch[v]
        BY <3>2 DEF LockHeld
      <4>2. v = w
        BY <2>1, <4>1, Unshared
      <4> QED
        BY <2>1, <3>2, <4>2
    <3> QED
      BY <2>1, <3>1, <3>2, RetryRows
  <2>2. m = cur[w] => m \in Msgs /\ ~(batch'[w] = batch[w] \ {cur[w]})
    BY <1>2, NextType DEF TypeOK
  <2>3. CASE batch'[w] = batch[w] /\ attempts'[w] = attempts[w]
    <3>1. ~(m = cur[w] /\ Finish(w, m))
      BY <1>2 DEF Finish, TypeOK
    <3> QED
      BY <1>2, <2>1, <2>3, <3>1
  <2>4. CASE \A n \in batch'[w] : n \in Due /\ attempts'[w][n] = row[n].retries
                                  /\ row'[n].retries = row[n].retries
    BY <1>2, <2>4
  <2>5. CASE /\ batch'[w] = batch[w] \ {cur[w]} /\ Finish(w, cur[w])
             /\ \A n \in Msgs \ {cur[w]} : attempts'[w][n] = attempts[w][n]
    <3>1. m \in batch[w] /\ m # cur[w] /\ m \in Msgs
      BY <1>2, <2>5 DEF TypeOK
    <3> QED
      BY <2>1, <2>5, <3>1
  <2> QED
    BY <1>2, <2>3, <2>4, <2>5, MemorySteps
<1>3. ASSUME NEW w \in Workers, pc'[w] = "markRetrying"
      PROVE  attempts'[w][cur'[w]] < MaxSendRetries
  BY <1>3, DecisionSteps DEF Retries
<1> QED
  BY <1>1, <1>2, <1>3 DEF Retries

\* The retry counter of a row never exceeds the limit, although
\* handleSendError compares the count its claim read, not the row's.
THEOREM RetriesLimited == ~SlowBatches => (Spec => []RetriesBounded)
<1> SUFFICES ASSUME ~SlowBatches PROVE Spec => []RetriesBounded
  OBVIOUS
<1>1. Init => Retries
  BY OutboxAssumption DEF Init, NoRow, Retries
<1>2. Retries => RetriesBounded
  BY DEF Retries, RetriesBounded
<1> QED
  BY <1>1, <1>2, ClaimsHold, NextRetries, PTL DEF Spec
=============================================================================
