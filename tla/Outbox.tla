------------------------------- MODULE Outbox -------------------------------
(***************************************************************************)
(* The outbound message queue of wzap: message_queue rows, the outbox      *)
(* workers that claim and send them, the recovery of rows stuck in         *)
(* "sending", the receipts that come back, and process stops and restarts. *)
(*                                                                         *)
(* Source: internal/message/outbox.go, internal/message/receipts.go,       *)
(* internal/message/service.go, internal/storage/postgres/messages.go and  *)
(* internal/instancelock/locker.go.                                        *)
(*                                                                         *)
(* Time is abstracted to two facts of a row: `due` (next_attempt_at has    *)
(* passed) and `stale` (updated_at is older than stuckThreshold).          *)
(* WhatsApp is the environment: it accepts a send, refuses it, or accepts  *)
(* it and loses the answer.  The k-th accepted send of message m has the   *)
(* WhatsApp id k (ids are never reused).                                   *)
(***************************************************************************)
EXTENDS Integers, FiniteSets

CONSTANTS
    Msgs,           \* messages a client may ask to send
    Instances,      \* WhatsApp instances
    InstanceOf,     \* the instance each message is sent through
    Workers,        \* outbox worker goroutines
    BatchSize,      \* defaultOutboxBatchSize
    MaxSendRetries, \* maxSendRetries
    MaxFaults,      \* bound: stops, crashes, failed writes and slow batches
    SlowBatches,    \* may a live worker hold a message past stuckThreshold?
    Nobody,         \* owner of a free instance lock
    NoMsg           \* message of a worker that processes none

ASSUME OutboxAssumption ==
    /\ IsFiniteSet(Msgs)
    /\ InstanceOf \in [Msgs -> Instances]
    /\ BatchSize \in Nat \ {0}
    /\ MaxSendRetries \in Nat
    /\ MaxFaults \in Nat
    /\ SlowBatches \in BOOLEAN
    /\ Nobody \notin Workers
    /\ NoMsg \notin Msgs

VARIABLES
    row,      \* message_queue, one record per message
    exists,   \* instances that have a row in the instances table
    session,  \* live session of each instance: "none", "down" or "up"
    phase,    \* the process: "up", "stopping" (ctx cancelled) or "down"
    lock,     \* instancelock: the worker holding each instance
    pc,       \* where each worker is
    batch,    \* claimed and not yet finished messages of each worker
    cur,      \* the message of the batch each worker is processing
    attempts, \* model.OutboundMessage.Attempts as read by the claim
    waId,     \* the WhatsApp id the worker's last send returned
    \* History, not stored by the program
    accepted, \* sends of each message WhatsApp accepted
    excuses,  \* accepted sends whose answer was lost before MarkSent committed
    events,   \* message.status events written for each message
    missed,   \* messages for which a receipt matched no row
    faults    \* faults so far

dbVars   == <<row, exists>>
procVars == <<lock, pc, batch, cur, attempts, waId>>
history  == <<accepted, excuses, events, missed>>
vars     == <<dbVars, session, phase, procVars, history, faults>>

-----------------------------------------------------------------------------
(* Values                                                                  *)

Status     == {"none", "queued", "sending", "sent", "failed", "deleted"}
Final      == {"sent", "failed"}
WorkerStep == {"loop", "locked", "markSent", "markFailed", "markRetrying",
               "emitSent", "emitFailed"}

Row == [st: Status, createdAt: Nat, retries: Nat, due: BOOLEAN,
        stale: BOOLEAN, wa: Nat, delivered: BOOLEAN, read: BOOLEAN]

NoRow == [st |-> "none", createdAt |-> 0, retries |-> 0, due |-> TRUE,
          stale |-> FALSE, wa |-> 0, delivered |-> FALSE, read |-> FALSE]

TypeOK ==
    /\ row \in [Msgs -> Row]
    /\ exists \in SUBSET Instances
    /\ session \in [Instances -> {"none", "down", "up"}]
    /\ phase \in {"up", "stopping", "down"}
    /\ lock \in [Instances -> Workers \cup {Nobody}]
    /\ pc \in [Workers -> WorkerStep]
    /\ batch \in [Workers -> SUBSET Msgs]
    /\ cur \in [Workers -> Msgs \cup {NoMsg}]
    /\ attempts \in [Workers -> [Msgs -> Nat]]
    /\ waId \in [Workers -> Nat]
    /\ accepted \in [Msgs -> Nat]
    /\ excuses \in [Msgs -> Nat]
    /\ events \in [Msgs -> [Final -> Nat]]
    /\ missed \in SUBSET Msgs
    /\ faults \in 0..MaxFaults

Init ==
    /\ row = [m \in Msgs |-> NoRow]
    /\ exists = Instances
    /\ session = [i \in Instances |-> "up"]
    /\ phase = "up"
    /\ lock = [i \in Instances |-> Nobody]
    /\ pc = [w \in Workers |-> "loop"]
    /\ batch = [w \in Workers |-> {}]
    /\ cur = [w \in Workers |-> NoMsg]
    /\ attempts = [w \in Workers |-> [m \in Msgs |-> 0]]
    /\ waId = [w \in Workers |-> 0]
    /\ accepted = [m \in Msgs |-> 0]
    /\ excuses = [m \in Msgs |-> 0]
    /\ events = [m \in Msgs |-> [s \in Final |-> 0]]
    /\ missed = {}
    /\ faults = 0

-----------------------------------------------------------------------------
(* Helpers                                                                 *)

Stored(m) == row[m].st \notin {"none", "deleted"}
Owned(m)  == \E w \in Workers : m \in batch[w]

\* One more fault; the bound keeps the state space finite.
Fault == faults < MaxFaults /\ faults' = faults + 1

\* UPDATE message_queue SET ..., updated_at = now() WHERE id = $1
Update(m, new) == row' = [row EXCEPT ![m] = new]
MarkSent(m, id) ==
    Update(m, [row[m] EXCEPT !.st = "sent", !.wa = id, !.stale = FALSE])
MarkFailed(m) ==
    Update(m, [row[m] EXCEPT !.st = "failed", !.stale = FALSE])
MarkRetrying(m) ==
    Update(m, [row[m] EXCEPT !.st = "queued", !.retries = @ + 1,
                             !.due = FALSE, !.stale = FALSE])

\* Mutant: rows under way are requeued whatever their age.
RequeueStuck_Fresh ==
    [m \in Msgs |-> IF row[m].st = "sending"
                    THEN [row[m] EXCEPT !.st = "queued", !.stale = FALSE]
                    ELSE row[m]]
\* Mutant: rows that used up their retries are left out.
RequeueStuck_Exhausted ==
    [m \in Msgs |-> IF row[m].st = "sending" /\ row[m].stale
                       /\ row[m].retries < MaxSendRetries
                    THEN [row[m] EXCEPT !.st = "queued", !.stale = FALSE]
                    ELSE row[m]]
\* The rows left by one RequeueStuck: stale rows in sending return to queued.
RequeueStuck ==
    [m \in Msgs |-> IF row[m].st = "sending" /\ row[m].stale
                    THEN [row[m] EXCEPT !.st = "queued", !.stale = FALSE]
                    ELSE row[m]]

Step(w, from, to) == pc[w] = from /\ pc' = [pc EXCEPT ![w] = to]

\* process returns: the deferred release runs and the batch advances.
Finish(w, m) ==
    /\ pc' = [pc EXCEPT ![w] = "loop"]
    /\ lock' = [lock EXCEPT ![InstanceOf[m]] = Nobody]
    /\ batch' = [batch EXCEPT ![w] = @ \ {m}]
    /\ cur' = [cur EXCEPT ![w] = NoMsg]
    /\ attempts' = [attempts EXCEPT ![w][m] = 0]
    /\ waId' = [waId EXCEPT ![w] = 0]

\* An accepted send whose id never reaches its row may be sent again.
Excuse(m) == excuses' = [excuses EXCEPT ![m] = @ + 1]

-----------------------------------------------------------------------------
(* The API and the sessions                                                *)

\* service.Enqueue: a message of an existing instance is stored queued.  The
\* status the service checks is the projected one, so the live session may
\* be in any state.
Enqueue(m) ==
    /\ phase = "up"
    /\ row[m].st = "none"
    /\ InstanceOf[m] \in exists
    /\ Update(m, [NoRow EXCEPT !.st = "queued",
                               !.createdAt = Cardinality({n \in Msgs : row[n].st # "none"})])
    /\ UNCHANGED <<exists, session, phase, procVars, history, faults>>

\* The session of an instance comes, drops, returns or is removed.
SessionMoves(i) ==
    /\ phase # "down"
    /\ \E s \in {"none", "down", "up"} \ {session[i]} :
          /\ s # "none" => i \in exists
          /\ session' = [session EXCEPT ![i] = s]
    /\ UNCHANGED <<dbVars, phase, procVars, history, faults>>

\* service.Delete: the session is removed first, then the instance row goes
\* and its messages with it (ON DELETE CASCADE).
DeleteInstance(i) ==
    /\ phase = "up"
    /\ i \in exists
    /\ session[i] = "none"
    /\ exists' = exists \ {i}
    /\ row' = [m \in Msgs |-> IF InstanceOf[m] = i /\ Stored(m)
                              THEN [row[m] EXCEPT !.st = "deleted"]
                              ELSE row[m]]
    /\ UNCHANGED <<session, phase, procVars, history, faults>>

-----------------------------------------------------------------------------
(* The worker: claim, lock, send, record, announce                         *)

\* next_attempt_at passes.
BackoffElapses(m) ==
    /\ row[m].st = "queued"
    /\ ~row[m].due
    /\ Update(m, [row[m] EXCEPT !.due = TRUE])
    /\ UNCHANGED <<exists, session, phase, procVars, history, faults>>

Due == {m \in Msgs : row[m].st = "queued" /\ row[m].due}

\* ClaimQueued: the oldest due rows, at most BatchSize, move to sending.
Claim(w) ==
    /\ phase = "up"
    /\ pc[w] = "loop"
    /\ batch[w] = {}
    /\ \E claimed \in SUBSET Due :
          /\ claimed # {}
          /\ Cardinality(claimed) <= BatchSize
          /\ claimed # Due => Cardinality(claimed) = BatchSize
          /\ \A m \in claimed, n \in Due \ claimed :
                row[m].createdAt < row[n].createdAt
          /\ batch' = [batch EXCEPT ![w] = claimed]
          /\ attempts' = [attempts EXCEPT ![w] =
                [m \in Msgs |-> IF m \in claimed THEN row[m].retries ELSE 0]]
          /\ row' = [m \in Msgs |->
                IF m \in claimed
                THEN [row[m] EXCEPT !.st = "sending", !.stale = FALSE]
                ELSE row[m]]
    /\ UNCHANGED <<exists, session, phase, lock, pc, cur, waId, history, faults>>

\* The claim transaction commits and its answer is lost: nobody owns the rows.
ClaimLost(w) ==
    /\ phase = "up"
    /\ pc[w] = "loop"
    /\ batch[w] = {}
    /\ Fault
    /\ \E claimed \in SUBSET Due :
          /\ claimed # {}
          /\ Cardinality(claimed) <= BatchSize
          /\ row' = [m \in Msgs |->
                IF m \in claimed
                THEN [row[m] EXCEPT !.st = "sending", !.stale = FALSE]
                ELSE row[m]]
    /\ UNCHANGED <<exists, session, phase, procVars, history>>

\* The semaphore of an instance has one place.
LockFree_Buffered(i) == TRUE \* Mutant: it has more
LockFree(i) == lock[i] = Nobody

\* process takes the instance lock for the next message of the batch; a batch
\* is walked in the order it was claimed, which is creation order.
Acquire(w) ==
    /\ phase = "up"
    /\ Step(w, "loop", "locked")
    /\ \E m \in batch[w] :
          /\ \A n \in batch[w] : row[m].createdAt <= row[n].createdAt
          /\ LockFree(InstanceOf[m])
          /\ lock' = [lock EXCEPT ![InstanceOf[m]] = w]
          /\ cur' = [cur EXCEPT ![w] = m]
    /\ UNCHANGED <<dbVars, session, phase, batch, attempts, waId, history, faults>>

\* Send succeeds: WhatsApp accepted the message and returned its id.
SendAccepted(w) ==
    LET m == cur[w] IN
    /\ Step(w, "locked", "markSent")
    /\ session[InstanceOf[m]] = "up"
    /\ accepted' = [accepted EXCEPT ![m] = @ + 1]
    /\ waId' = [waId EXCEPT ![w] = accepted[m] + 1]
    /\ UNCHANGED <<dbVars, session, phase, lock, batch, cur, attempts,
                   excuses, events, missed, faults>>

\* handleSendError, the decision: retry while fewer than MaxSendRetries
\* retries were seen by the claim, fail otherwise.
AfterTransient(w, m) ==
    IF attempts[w][m] < MaxSendRetries THEN "markRetrying" ELSE "markFailed"

\* Send fails with ErrTransient; WhatsApp may have accepted it all the same.
\* With a cancelled context handleSendError returns instead (Exit).
SendTransient(w) ==
    LET m == cur[w] IN
    /\ phase = "up"
    /\ Step(w, "locked", AfterTransient(w, m))
    /\ session[InstanceOf[m]] = "up"
    /\ \/ UNCHANGED <<accepted, excuses>>
       \/ /\ accepted' = [accepted EXCEPT ![m] = @ + 1]
          /\ Excuse(m)
    /\ UNCHANGED <<dbVars, session, phase, lock, batch, cur, attempts, waId,
                   events, missed, faults>>

\* No session (manager.Get), ErrNotConnected, or an error that is not
\* transient: the message fails definitively, whatever its attempts.
SendDefinitive(w) ==
    /\ phase = "up"
    /\ Step(w, "locked", "markFailed")
    /\ UNCHANGED <<dbVars, session, phase, lock, batch, cur, attempts,
                   waId, history, faults>>

\* complete: MarkSent finds its row, or reports ErrNotFound and gives up.
RecordSent(w) ==
    LET m == cur[w] IN
    /\ pc[w] = "markSent"
    /\ IF Stored(m)
       THEN /\ MarkSent(m, waId[w])
            /\ pc' = [pc EXCEPT ![w] = "emitSent"]
            /\ UNCHANGED <<lock, batch, cur, attempts, waId, excuses>>
       ELSE Finish(w, m) /\ Excuse(m) /\ UNCHANGED row
    /\ UNCHANGED <<exists, session, phase, accepted, events, missed, faults>>

\* fail: MarkFailed finds its row, or gives up.
RecordFailed(w) ==
    LET m == cur[w] IN
    /\ pc[w] = "markFailed"
    /\ IF Stored(m)
       THEN /\ MarkFailed(m)
            /\ pc' = [pc EXCEPT ![w] = "emitFailed"]
            /\ UNCHANGED <<lock, batch, cur, attempts, waId>>
       ELSE Finish(w, m) /\ UNCHANGED row
    /\ UNCHANGED <<exists, session, phase, history, faults>>

\* handleSendError: MarkRetrying; no event either way.
RecordRetrying(w) ==
    LET m == cur[w] IN
    /\ pc[w] = "markRetrying"
    /\ IF Stored(m) THEN MarkRetrying(m) ELSE UNCHANGED row
    /\ Finish(w, m)
    /\ UNCHANGED <<exists, session, phase, history, faults>>

\* The write of the outcome reports an error: it is logged and process returns
\* without an event.  Either the row stays as it was, or the write committed
\* and only its answer was lost.
RecordFails(w) ==
    LET m == cur[w] IN
    /\ pc[w] \in {"markSent", "markFailed", "markRetrying"}
    /\ Fault
    /\ Finish(w, m)
    /\ \/ /\ UNCHANGED row
          /\ IF pc[w] = "markSent" THEN Excuse(m) ELSE UNCHANGED excuses
       \/ /\ Stored(m)
          /\ \/ pc[w] = "markSent" /\ MarkSent(m, waId[w])
             \/ pc[w] = "markFailed" /\ MarkFailed(m)
             \/ pc[w] = "markRetrying" /\ MarkRetrying(m)
          /\ UNCHANGED excuses
    /\ UNCHANGED <<exists, session, phase, accepted, events, missed>>

\* emit: the message.status event enters the event outbox.
Emit(w) ==
    LET m == cur[w]
        s == IF pc[w] = "emitSent" THEN "sent" ELSE "failed"
    IN
    /\ pc[w] \in {"emitSent", "emitFailed"}
    /\ events' = [events EXCEPT ![m][s] = @ + 1]
    /\ Finish(w, m)
    /\ UNCHANGED <<dbVars, session, phase, accepted, excuses, missed, faults>>

\* The event write fails: logged and dropped.
EmitFails(w) ==
    /\ pc[w] \in {"emitSent", "emitFailed"}
    /\ Fault
    /\ Finish(w, cur[w])
    /\ UNCHANGED <<dbVars, session, phase, history>>

-----------------------------------------------------------------------------
(* Recovery                                                                *)

\* stuckThreshold passes since the row was last written.  A row no worker
\* holds always ages; one a live worker holds only in a slow batch.
Age(m) ==
    /\ row[m].st = "sending"
    /\ ~row[m].stale
    /\ IF Owned(m) THEN SlowBatches /\ Fault ELSE UNCHANGED faults
    /\ Update(m, [row[m] EXCEPT !.stale = TRUE])
    /\ UNCHANGED <<exists, session, phase, procVars, history>>

\* recoveryLoop: one StartRecovery pass.
Recover ==
    /\ phase = "up"
    /\ RequeueStuck # row
    /\ row' = RequeueStuck
    /\ UNCHANGED <<exists, session, phase, procVars, history, faults>>

-----------------------------------------------------------------------------
(* Receipts                                                                *)

\* UpdateReceipt: delivered_at always, read_at only for a read receipt; the
\* first timestamps stay.
UpdateReceipt(r, kind) ==
    IF kind = "read"
    THEN [r EXCEPT !.delivered = TRUE, !.read = TRUE, !.stale = FALSE]
    ELSE [r EXCEPT !.delivered = TRUE, !.stale = FALSE]

\* Receipts.Apply for one WhatsApp id: the row holding the id is updated; a
\* receipt that matches no row is ignored.
Receipt(m, k, kind) ==
    /\ phase = "up"
    /\ IF Stored(m) /\ row[m].wa = k
       THEN /\ Update(m, UpdateReceipt(row[m], kind))
            /\ UNCHANGED missed
       ELSE missed' = missed \cup {m} /\ UNCHANGED row
    /\ UNCHANGED <<exists, session, phase, procVars, accepted, excuses,
                   events, faults>>

\* WhatsApp acknowledges any send it accepted, at any later time.
SomeReceipt ==
    \E m \in Msgs : \E k \in 1..accepted[m], kind \in {"delivered", "read"} :
        Receipt(m, k, kind)

-----------------------------------------------------------------------------
(* Stops, crashes, restarts                                                *)

\* The signal cancels the workers' context.
Stop ==
    /\ phase = "up"
    /\ Fault
    /\ phase' = "stopping"
    /\ UNCHANGED <<dbVars, session, procVars, history>>

\* Sends whose id only the memory of the workers ws held.
Forgotten(ws) ==
    [m \in Msgs |->
        IF \E w \in ws : pc[w] = "markSent" /\ cur[w] = m
        THEN excuses[m] + 1 ELSE excuses[m]]

Busy == {w \in Workers : batch[w] # {}}

\* A worker sees the cancelled context, wherever it is: the writes under way
\* fail with it, its message stays in sending and the rest of its batch too.
Exit(w) ==
    /\ phase = "stopping"
    /\ w \in Busy
    /\ excuses' = Forgotten({w})
    /\ pc' = [pc EXCEPT ![w] = "loop"]
    /\ batch' = [batch EXCEPT ![w] = {}]
    /\ cur' = [cur EXCEPT ![w] = NoMsg]
    /\ attempts' = [attempts EXCEPT ![w] = [m \in Msgs |-> 0]]
    /\ waId' = [waId EXCEPT ![w] = 0]
    /\ lock' = [i \in Instances |-> IF lock[i] = w THEN Nobody ELSE lock[i]]
    /\ UNCHANGED <<dbVars, session, phase, accepted, events, missed, faults>>

\* Run returns once every worker stopped.
Stopped ==
    /\ phase = "stopping"
    /\ Busy = {}
    /\ phase' = "down"
    /\ session' = [i \in Instances |-> "none"]
    /\ UNCHANGED <<dbVars, procVars, history, faults>>

\* The process dies: the memory of every worker is gone at once.
Crash ==
    /\ phase # "down"
    /\ Fault
    /\ phase' = "down"
    /\ session' = [i \in Instances |-> "none"]
    /\ excuses' = Forgotten(Workers)
    /\ pc' = [w \in Workers |-> "loop"]
    /\ batch' = [w \in Workers |-> {}]
    /\ cur' = [w \in Workers |-> NoMsg]
    /\ attempts' = [w \in Workers |-> [m \in Msgs |-> 0]]
    /\ waId' = [w \in Workers |-> 0]
    /\ lock' = [i \in Instances |-> Nobody]
    /\ UNCHANGED <<dbVars, accepted, events, missed>>

\* Boot: sessions are restored before the outbox starts (some may fail), and
\* Run begins with a StartRecovery pass (which may fail and is only logged).
Boot ==
    /\ phase = "down"
    /\ phase' = "up"
    /\ \E restored \in SUBSET exists :
          session' = [i \in Instances |-> IF i \in restored THEN "up" ELSE "none"]
    /\ row' \in {row, RequeueStuck}
    /\ UNCHANGED <<exists, procVars, history, faults>>

-----------------------------------------------------------------------------

Work(w) ==
    \/ Claim(w) \/ Acquire(w)
    \/ SendAccepted(w) \/ SendTransient(w) \/ SendDefinitive(w)
    \/ RecordSent(w) \/ RecordFailed(w) \/ RecordRetrying(w)
    \/ Emit(w)

Next ==
    \/ \E m \in Msgs : Enqueue(m) \/ BackoffElapses(m) \/ Age(m)
    \/ \E i \in Instances : SessionMoves(i) \/ DeleteInstance(i)
    \/ \E w \in Workers : Work(w) \/ ClaimLost(w) \/ RecordFails(w)
                             \/ EmitFails(w) \/ Exit(w)
    \/ SomeReceipt
    \/ Recover \/ Stop \/ Stopped \/ Crash \/ Boot

Spec == Init /\ [][Next]_vars

\* Workers, tickers and the clock keep running; a stopping process stops and
\* a stopped one is started again.  Of WhatsApp only that it does not send
\* receipts forever (each one postpones the recovery of its row); nothing of
\* the sessions or of the clients.
Fairness ==
    /\ \A w \in Workers : WF_vars(Work(w)) /\ WF_vars(Exit(w))
    /\ \A m \in Msgs : WF_vars(BackoffElapses(m)) /\ WF_vars(Age(m) /\ ~Owned(m))
    /\ WF_vars(Recover)
    /\ WF_vars(Stopped)
    /\ WF_vars(Boot)
    /\ <>[][~SomeReceipt]_vars

FairSpec == Spec /\ Fairness

-----------------------------------------------------------------------------
(* Properties                                                              *)

\* Two workers are never inside process for the same instance: sends of one
\* WhatsApp number are serialized (outbox.go, the comment of Outbox).
InstanceSerialized ==
    \A v, w \in Workers :
        pc[v] # "loop" /\ pc[w] # "loop" /\ v # w =>
            InstanceOf[cur[v]] # InstanceOf[cur[w]]

\* A message belongs to the memory of at most one worker, and a worker only
\* holds messages whose row it moved to sending (or that were deleted or
\* just recorded): RequeueStuck never hands a live worker's message to
\* another one.
ExclusiveClaim ==
    /\ \A v, w \in Workers : v # w => batch[v] \cap batch[w] = {}
    /\ \A w \in Workers : \A m \in batch[w] :
          \/ row[m].st \in {"sending", "deleted"}
          \/ m = cur[w] /\ pc[w] = "emitSent" /\ row[m].st = "sent"
          \/ m = cur[w] /\ pc[w] = "emitFailed" /\ row[m].st = "failed"

\* A recipient gets a message more than once only when an accepted send lost
\* its answer on the way back to the row: a timeout, a failed MarkSent, a
\* stop or a crash, each counted.
DuplicatesExcused ==
    \A m \in Msgs : accepted[m] <= excuses[m] + 1

\* At most one message.status event is written per message, and it tells
\* what the row says.
OneTrueFinalEvent ==
    \A m \in Msgs :
        /\ events[m]["sent"] + events[m]["failed"] <= 1
        /\ \A s \in Final :
              events[m][s] > 0 => row[m].st \in {s, "deleted"}

\* sent and failed are final: no stale worker, recovery or retry takes a
\* settled row back (spec wzap-outbound-messaging, "Ciclo de entrega").
FinalIsFinal ==
    [][\A m \in Msgs : row[m].st \in Final =>
          row'[m].st \in {row[m].st, "deleted"}]_vars

\* The retry counter of a row never exceeds the limit.
RetriesBounded == \A m \in Msgs : row[m].retries <= MaxSendRetries

\* The queue implements its contract: "pending" is queued or sending.
Contract == INSTANCE DeliveryContract WITH
    status <- [m \in Msgs |->
                  IF row[m].st \in {"queued", "sending"} THEN "pending" ELSE row[m].st],
    announced <- events

\* Safety: every step of workers, recovery and restarts is a step of the
\* contract or invisible to it.
KeepsContract == Contract!Spec

\* And liveness: what it accepts, it settles.
FulfilsContract == Contract!FairSpec

\* A receipt of an accepted send is recorded by the row of its message.
ReceiptsRecorded == missed = {}
=============================================================================
