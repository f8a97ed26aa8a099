----------------------------- MODULE EventRelay -----------------------------
(***************************************************************************)
(* The event outbox of wzap: producers append events to event_outbox, one  *)
(* relay goroutine publishes the pending rows to the JetStream stream and  *)
(* stamps them, old published rows are cleaned up.                         *)
(*                                                                         *)
(* Source: internal/events/relay.go, internal/events/publisher.go and      *)
(* internal/storage/postgres/events.go.  The broker is modelled from how   *)
(* the publisher configures and calls it: an append-only stream that drops *)
(* a message whose id it stored within the duplicate window.               *)
(***************************************************************************)
EXTENDS Integers, Sequences, FiniteSets

CONSTANTS
    Events,     \* the events producers write
    Refused,    \* events the broker never stores (over its max_payload)
    BatchSize,  \* defaultRelayBatchSize
    MaxFaults,  \* bound: crashes, broker outages, lost answers, failed writes
    NoEvent     \* the event of a relay that processes none

ASSUME RelayAssumption ==
    /\ IsFiniteSet(Events)
    /\ Refused \subseteq Events
    /\ BatchSize \in Nat \ {0}
    /\ MaxFaults \in Nat
    /\ NoEvent \notin Events

VARIABLES
    row,      \* event_outbox: a record per event
    up,       \* is the process running?
    brokerUp, \* does the broker answer?
    stream,   \* the events the broker stored, in its order
    window,   \* the ids the broker still deduplicates
    pc,       \* where the relay is
    ensured,  \* Run's `ensured`: the stream is known to exist
    batch,    \* claimed events not attempted yet
    cur,      \* the event being published
    failed,   \* did a publish or a record of this batch fail?
    \* History, not stored by the program
    unrecorded, \* stored publishes of each event that were not recorded
    lapsed,     \* times the duplicate window of each event passed
    delayed,    \* events with a failed publish, or committed out of order
    faults

brokerVars == <<brokerUp, stream, window>>
relayVars  == <<pc, ensured, batch, cur, failed>>
history    == <<unrecorded, lapsed, delayed>>
vars       == <<row, up, brokerVars, relayVars, history, faults>>

-----------------------------------------------------------------------------
(* Values                                                                  *)

\* "open": the INSERT fixed created_at and is not committed yet.
Status == {"none", "open", "lost", "pending", "published", "deleted"}
Row    == [st: Status, createdAt: Nat]

TypeOK ==
    /\ row \in [Events -> Row]
    /\ up \in BOOLEAN
    /\ brokerUp \in BOOLEAN
    /\ stream \in Seq(Events)
    /\ window \in SUBSET Events
    /\ pc \in {"loop", "publish", "record", "attempt"}
    /\ ensured \in BOOLEAN
    /\ batch \in SUBSET Events
    /\ cur \in Events \cup {NoEvent}
    /\ failed \in BOOLEAN
    /\ unrecorded \in [Events -> Nat]
    /\ lapsed \in [Events -> Nat]
    /\ delayed \in SUBSET Events
    /\ faults \in 0..MaxFaults

Init ==
    /\ row = [e \in Events |-> [st |-> "none", createdAt |-> 0]]
    /\ up = TRUE
    /\ brokerUp = TRUE
    /\ stream = <<>>
    /\ window = {}
    /\ pc = "loop"
    /\ ensured = FALSE
    /\ batch = {}
    /\ cur = NoEvent
    /\ failed = FALSE
    /\ unrecorded = [e \in Events |-> 0]
    /\ lapsed = [e \in Events |-> 0]
    /\ delayed = {}
    /\ faults = 0

-----------------------------------------------------------------------------
(* Helpers                                                                 *)

Fault == faults < MaxFaults /\ faults' = faults + 1

Committed == {e \in Events : row[e].st \in {"pending", "published", "deleted"}}
Pending   == {e \in Events : row[e].st = "pending"}
SetStatus(e, s) == row' = [row EXCEPT ![e].st = s]

\* ORDER BY created_at
Before(e, f) == row[e].createdAt < row[f].createdAt

InStream(e) == \E k \in DOMAIN stream : stream[k] = e

\* Copies of an event in the stream.
Copies(e) == Cardinality({k \in DOMAIN stream : stream[k] = e})

-----------------------------------------------------------------------------
(* Producers                                                               *)

\* OutboxWriter.Write: the INSERT starts; created_at defaults to now().
Write(e) ==
    /\ up
    /\ row[e].st = "none"
    /\ row' = [row EXCEPT ![e] =
                 [st |-> "open",
                  createdAt |-> Cardinality({f \in Events : row[f].st # "none"})]]
    /\ UNCHANGED <<up, brokerVars, relayVars, history, faults>>

\* The INSERT commits; an event written later may have committed before it.
Commit(e) ==
    /\ up
    /\ row[e].st = "open"
    /\ SetStatus(e, "pending")
    /\ delayed' = IF \E f \in Committed : Before(e, f)
                  THEN delayed \cup {e} ELSE delayed
    /\ UNCHANGED <<up, brokerVars, relayVars, unrecorded, lapsed, faults>>

\* The INSERT fails: the producer logs it and the event is gone.
WriteFails(e) ==
    /\ row[e].st = "open"
    /\ Fault
    /\ SetStatus(e, "lost")
    /\ UNCHANGED <<up, brokerVars, relayVars, history>>

-----------------------------------------------------------------------------
(* The relay                                                               *)

\* EnsureStream succeeds; a failure only makes Run wait and try again.
EnsureStream ==
    /\ up
    /\ pc = "loop"
    /\ ~ensured
    /\ brokerUp
    /\ ensured' = TRUE
    /\ UNCHANGED <<row, up, brokerVars, pc, batch, cur, failed, history, faults>>

\* ClaimPending: the oldest pending rows, at most BatchSize.  The rows do not
\* change.
ClaimPending ==
    /\ up
    /\ pc = "loop"
    /\ ensured
    /\ \E claimed \in SUBSET Pending :
          /\ claimed # {}
          /\ Cardinality(claimed) <= BatchSize
          /\ claimed # Pending => Cardinality(claimed) = BatchSize
          /\ \A e \in claimed, f \in Pending \ claimed : Before(e, f)
          /\ batch' = claimed
    /\ pc' = "publish"
    /\ failed' = FALSE
    /\ UNCHANGED <<row, up, brokerVars, ensured, cur, history, faults>>

\* The loop of PublishNow: the oldest event of the batch not attempted yet.
Oldest_Unordered(e) == e \in batch \* Mutant: no ORDER BY
Oldest(e) == e \in batch /\ \A f \in batch \ {e} : Before(e, f)

\* The broker stores an event unless it remembers its id.
Store_NoMsgId(e) == \* Mutant: published without Nats-Msg-Id
    /\ stream' = Append(stream, e)
    /\ window' = window \cup {e}
Store(e) ==
    /\ stream' = IF e \in window THEN stream ELSE Append(stream, e)
    /\ window' = window \cup {e}

\* Publish is acknowledged.
Publish(e) ==
    /\ up
    /\ pc = "publish"
    /\ Oldest(e)
    /\ brokerUp
    /\ e \notin Refused
    /\ Store(e)
    /\ batch' = batch \ {e}
    /\ cur' = e
    /\ pc' = "record"
    /\ UNCHANGED <<row, up, brokerUp, ensured, failed, history, faults>>

\* Publish fails: the broker is away, refuses the event, or stores it and its
\* acknowledgement is lost.
PublishFails(e) ==
    /\ up
    /\ pc = "publish"
    /\ Oldest(e)
    /\ \/ /\ ~brokerUp \/ e \in Refused
          /\ UNCHANGED <<stream, window, unrecorded, faults>>
       \/ /\ brokerUp /\ e \notin Refused
          /\ Fault
          /\ Store(e)
          /\ unrecorded' = [unrecorded EXCEPT ![e] = @ + 1]
    /\ batch' = batch \ {e}
    /\ cur' = e
    /\ failed' = TRUE
    /\ delayed' = delayed \cup {e}
    /\ pc' = "attempt"
    /\ UNCHANGED <<row, up, brokerUp, ensured, lapsed>>

\* Mutant: PublishNow returns at the first failure.
Advance_StopsAtFailure(nowFailed) ==
    /\ cur' = NoEvent
    /\ failed' = FALSE
    /\ IF batch = {} \/ nowFailed
       THEN pc' = "loop" /\ ensured' = ~nowFailed /\ batch' = {}
       ELSE pc' = "publish" /\ UNCHANGED <<ensured, batch>>

\* The next event of the batch, or back to Run, which trusts the stream
\* again only when nothing failed.
Advance(nowFailed) ==
    /\ cur' = NoEvent
    /\ IF batch = {}
       THEN /\ pc' = "loop"
            /\ ensured' = ~nowFailed
            /\ failed' = FALSE
       ELSE /\ pc' = "publish"
            /\ failed' = nowFailed
            /\ UNCHANGED ensured
    /\ UNCHANGED batch

\* MarkPublished.
Record ==
    /\ up
    /\ pc = "record"
    /\ SetStatus(cur, "published")
    /\ Advance(failed)
    /\ UNCHANGED <<up, brokerVars, history, faults>>

\* MarkPublished fails: the row stays pending although the broker has it.
RecordFails ==
    /\ up
    /\ pc = "record"
    /\ Fault
    /\ unrecorded' = [unrecorded EXCEPT ![cur] = @ + 1]
    /\ Advance(TRUE)
    /\ UNCHANGED <<row, up, brokerVars, lapsed, delayed>>

\* Mutant: a failed publish falls through to MarkPublished.
MarkAttempt_FallsThrough ==
    /\ up
    /\ pc = "attempt"
    /\ SetStatus(cur, "published")
    /\ Advance(failed)
    /\ UNCHANGED <<up, brokerVars, history, faults>>

\* MarkAttempt only counts and explains: the row stays pending, whether the
\* write succeeds or not.
MarkAttempt ==
    /\ up
    /\ pc = "attempt"
    /\ Advance(failed)
    /\ UNCHANGED <<row, up, brokerVars, history, faults>>

\* cleanup: published rows past the retention are deleted.
Cleanup ==
    /\ up
    /\ pc = "loop"
    /\ \E old \in SUBSET {e \in Events : row[e].st = "published"} :
          /\ old # {}
          /\ row' = [e \in Events |-> IF e \in old
                                      THEN [row[e] EXCEPT !.st = "deleted"]
                                      ELSE row[e]]
    /\ UNCHANGED <<up, brokerVars, relayVars, history, faults>>

-----------------------------------------------------------------------------
(* The environment                                                         *)

\* duplicateWindow passes since the broker stored the event.
WindowPasses(e) ==
    /\ e \in window
    /\ window' = window \ {e}
    /\ lapsed' = [lapsed EXCEPT ![e] = @ + 1]
    /\ UNCHANGED <<row, up, brokerUp, stream, relayVars, unrecorded, delayed, faults>>

BrokerFails ==
    /\ brokerUp
    /\ Fault
    /\ brokerUp' = FALSE
    /\ UNCHANGED <<row, up, stream, window, relayVars, history>>

BrokerReturns ==
    /\ ~brokerUp
    /\ brokerUp' = TRUE
    /\ UNCHANGED <<row, up, stream, window, relayVars, history, faults>>

\* The process dies or is stopped: uncommitted inserts roll back, the relay
\* forgets its batch.
Crash ==
    /\ up
    /\ Fault
    /\ up' = FALSE
    /\ row' = [e \in Events |-> IF row[e].st = "open"
                                THEN [row[e] EXCEPT !.st = "lost"] ELSE row[e]]
    /\ unrecorded' = IF pc = "record" THEN [unrecorded EXCEPT ![cur] = @ + 1]
                     ELSE unrecorded
    /\ pc' = "loop"
    /\ ensured' = FALSE
    /\ batch' = {}
    /\ cur' = NoEvent
    /\ failed' = FALSE
    /\ UNCHANGED <<brokerVars, lapsed, delayed>>

Boot ==
    /\ ~up
    /\ up' = TRUE
    /\ UNCHANGED <<row, brokerVars, relayVars, history, faults>>

-----------------------------------------------------------------------------

Run ==
    \/ EnsureStream \/ ClaimPending
    \/ \E e \in Events : Publish(e) \/ PublishFails(e)
    \/ Record \/ MarkAttempt

Next ==
    \/ \E e \in Events : Write(e) \/ Commit(e) \/ WriteFails(e) \/ WindowPasses(e)
    \/ Run
    \/ RecordFails \/ Cleanup
    \/ BrokerFails \/ BrokerReturns \/ Crash \/ Boot

Spec == Init /\ [][Next]_vars

\* The relay goroutine keeps running, a dead process is started again and a
\* lost broker returns.
Fairness == WF_vars(Run) /\ WF_vars(Boot) /\ WF_vars(BrokerReturns)

FairSpec == Spec /\ Fairness

-----------------------------------------------------------------------------
(* Properties                                                              *)

\* No event leaves the outbox before the broker has it: a row is stamped, and
\* later cleaned up, only when its event is in the stream (README: no loss
\* when the broker or the process goes down).
NothingLost ==
    \A e \in Events : row[e].st \in {"published", "deleted"} => InStream(e)

\* The stream holds a second copy of an event only when an acknowledged or
\* stored publish went unrecorded, and only after the broker forgot its id:
\* retries inside the duplicate window are absorbed.
DuplicatesExcused ==
    \A e \in Events :
        /\ Copies(e) <= 1 + unrecorded[e]
        /\ Copies(e) <= 1 + lapsed[e]

\* Events enter the stream in creation order, but for those whose insert
\* committed late or whose publish failed: PublishNow goes on after a failure.
OrderExcused ==
    \A k, l \in DOMAIN stream :
        k < l /\ Before(stream[l], stream[k])
           /\ (\A j \in 1..(l - 1) : stream[j] # stream[l])
        => stream[l] \in delayed

\* Every committed event the broker would take is published
\* (spec wzap-inbound-events, "Durabilidade").
EveryEventPublished ==
    \A e \in Events \ Refused :
        row[e].st = "pending" ~> row[e].st \in {"published", "deleted"}
=============================================================================
