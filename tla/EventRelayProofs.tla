--------------------------- MODULE EventRelayProofs ---------------------------
(***************************************************************************)
(* Proofs about EventRelay, for any finite set of events, any batch size   *)
(* and any number of faults.                                               *)
(***************************************************************************)
EXTENDS EventRelay, FiniteSetTheorems, TLAPS

-----------------------------------------------------------------------------
(* The inductive invariant                                                 *)

\* The relay works on pending rows: the one being published left the batch,
\* and one about to be stamped is in the stream.
Relay ==
    /\ batch \subseteq Pending
    /\ pc \in {"record", "attempt"} => cur \in Pending \ batch
    /\ pc = "record" => InStream(cur)

\* The broker has committed events only, and remembers no other ids.
Broker ==
    /\ \A e \in Events : InStream(e) => e \in Committed
    /\ \A e \in window : InStream(e)

\* An event that was neither late nor failed is in the stream before any
\* younger one, and in a batch with any younger one.
Ordered ==
    \A f \in Committed \ delayed : \A e \in Committed : Before(f, e) =>
        /\ InStream(e) => InStream(f)
        /\ e \in batch => InStream(f) \/ f \in batch

\* Each copy beyond the first is one the broker had forgotten, and one whose
\* publish was not recorded.
Settling(e) == row[e].st \in {"published", "deleted"} \/ (pc = "record" /\ cur = e)
CopiesExcused ==
    \A e \in Events :
        /\ Copies(e) <= lapsed[e] + (IF e \in window THEN 1 ELSE 0)
        /\ Copies(e) <= unrecorded[e] + (IF Settling(e) THEN 1 ELSE 0)

-----------------------------------------------------------------------------
(* The type invariant                                                      *)

\* An empty outbox and an empty stream.
LEMMA InitType == Init => TypeOK
<1> SUFFICES ASSUME Init PROVE TypeOK
  OBVIOUS
<1>1. faults \in 0..MaxFaults
  BY RelayAssumption DEF Init
<1>2. row \in [Events -> Row]
  BY DEF Init, Row, Status
<1>3. stream \in Seq(Events)
  BY DEF Init
<1> QED
  BY <1>1, <1>2, <1>3 DEF Init, TypeOK

\* The fault counter stays within its bound.
LEMMA FaultType == TypeOK /\ Fault => faults' \in 0..MaxFaults
  BY RelayAssumption DEF TypeOK, Fault

\* A row keeps its type when its status changes.
LEMMA SetStatusType ==
    ASSUME TypeOK, NEW e \in Events, NEW s \in Status, SetStatus(e, s)
    PROVE  row' \in [Events -> Row]
  BY DEF TypeOK, SetStatus, Row

\* The broker stores events.
LEMMA StoreType ==
    ASSUME TypeOK, NEW e \in Events, Store(e)
    PROVE  stream' \in Seq(Events) /\ window' \in SUBSET Events
  BY DEF TypeOK, Store

\* The relay moves on.
LEMMA AdvanceType ==
    ASSUME TypeOK, NEW b \in BOOLEAN, Advance(b)
    PROVE  /\ pc' \in {"loop", "publish"} /\ ensured' \in BOOLEAN /\ failed' \in BOOLEAN
           /\ batch' \in SUBSET Events /\ cur' \in Events \cup {NoEvent}
  BY DEF TypeOK, Advance

\* The number of rows ever written.
LEMMA WrittenCount == Cardinality({f \in Events : row[f].st # "none"}) \in Nat
  BY RelayAssumption, FS_Subset, FS_CardinalityType

\* Producers, the clean-up and the environment.
LEMMA OutsideType ==
    ASSUME TypeOK,
           \/ \E e \in Events : Write(e) \/ Commit(e) \/ WriteFails(e) \/ WindowPasses(e)
           \/ Cleanup \/ BrokerFails \/ BrokerReturns \/ Boot
    PROVE  TypeOK'
<1>1. ASSUME NEW e \in Events, Write(e) PROVE TypeOK'
  <2>1. Cardinality({f \in Events : row[f].st # "none"}) \in Nat
    BY WrittenCount
  <2>2. row' \in [Events -> Row]
    BY <1>1, <2>1 DEF Write, TypeOK, Row, Status
  <2> QED
    BY <1>1, <2>2 DEF Write, TypeOK, brokerVars, relayVars, history
<1>2. ASSUME NEW e \in Events, Commit(e) PROVE TypeOK'
  <2>1. row' \in [Events -> Row]
    BY <1>2, SetStatusType DEF Commit, Status
  <2>2. delayed' \in SUBSET Events
    BY <1>2 DEF Commit, TypeOK
  <2> QED
    BY <1>2, <2>1, <2>2 DEF Commit, TypeOK, brokerVars, relayVars
<1>3. ASSUME NEW e \in Events, WriteFails(e) PROVE TypeOK'
  <2>1. row' \in [Events -> Row]
    BY <1>3, SetStatusType DEF WriteFails, Status
  <2>2. faults' \in 0..MaxFaults
    BY <1>3, FaultType DEF WriteFails
  <2> QED
    BY <1>3, <2>1, <2>2 DEF WriteFails, TypeOK, brokerVars, relayVars, history
<1>4. ASSUME NEW e \in Events, WindowPasses(e) PROVE TypeOK'
  BY <1>4 DEF WindowPasses, TypeOK, relayVars
<1>5. CASE Cleanup
  <2>1. PICK old \in SUBSET Events :
           row' = [e \in Events |-> IF e \in old
                                    THEN [row[e] EXCEPT !.st = "deleted"] ELSE row[e]]
    BY <1>5 DEF Cleanup
  <2>2. row' \in [Events -> Row]
    BY <2>1 DEF TypeOK, Row, Status
  <2> QED
    BY <1>5, <2>2 DEF Cleanup, TypeOK, brokerVars, relayVars, history
<1>6. CASE BrokerFails \/ BrokerReturns
  <2>1. faults' \in 0..MaxFaults
    BY <1>6, FaultType DEF BrokerFails, BrokerReturns, TypeOK
  <2> QED
    BY <1>6, <2>1 DEF BrokerFails, BrokerReturns, TypeOK, relayVars, history
<1>7. CASE Boot
  BY <1>7 DEF Boot, TypeOK, brokerVars, relayVars, history
<1> QED
  BY <1>1, <1>2, <1>3, <1>4, <1>5, <1>6, <1>7

\* The relay and the crash.
LEMMA RelayType ==
    ASSUME TypeOK, Relay, Run \/ RecordFails \/ Crash
    PROVE  TypeOK'
<1>1. CASE EnsureStream
  BY <1>1 DEF EnsureStream, TypeOK, brokerVars, history
<1>2. CASE ClaimPending
  <2>1. batch' \in SUBSET Events
    BY <1>2 DEF ClaimPending, Pending
  <2> QED
    BY <1>2, <2>1 DEF ClaimPending, TypeOK, brokerVars, history
<1>3. ASSUME NEW e \in Events, Publish(e) PROVE TypeOK'
  <2>1. stream' \in Seq(Events) /\ window' \in SUBSET Events
    BY <1>3, StoreType DEF Publish
  <2> QED
    BY <1>3, <2>1 DEF Publish, TypeOK, history
<1>4. ASSUME NEW e \in Events, PublishFails(e) PROVE TypeOK'
  <2>1. stream' \in Seq(Events) /\ window' \in SUBSET Events
    BY <1>4, StoreType DEF PublishFails, TypeOK
  <2>2. CASE UNCHANGED <<stream, window, unrecorded, faults>>
    BY <1>4, <2>1, <2>2 DEF PublishFails, TypeOK
  <2>3. CASE Fault /\ unrecorded' = [unrecorded EXCEPT ![e] = @ + 1]
    <3>1. faults' \in 0..MaxFaults /\ unrecorded' \in [Events -> Nat]
      BY <2>3, FaultType DEF TypeOK
    <3> QED
      BY <1>4, <2>1, <3>1 DEF PublishFails, TypeOK
  <2> QED
    BY <1>4, <2>2, <2>3 DEF PublishFails
<1>5. CASE Record
  <2>1. cur \in Events /\ failed \in BOOLEAN
    BY <1>5 DEF Record, Relay, Pending, TypeOK
  <2>2. row' \in [Events -> Row]
    BY <1>5, <2>1, SetStatusType DEF Record, Status
  <2> QED
    BY <1>5, <2>1, <2>2, AdvanceType DEF Record, TypeOK, brokerVars, history
<1>6. CASE RecordFails
  <2>1. unrecorded' \in [Events -> Nat]
    BY <1>6 DEF RecordFails, Relay, Pending, TypeOK
  <2>2. faults' \in 0..MaxFaults
    BY <1>6, FaultType DEF RecordFails
  <2>3. Advance(TRUE)
    BY <1>6 DEF RecordFails
  <2> QED
    BY <1>6, <2>1, <2>2, <2>3, AdvanceType DEF RecordFails, TypeOK, brokerVars
<1>7. CASE MarkAttempt
  <2>1. failed \in BOOLEAN /\ Advance(failed)
    BY <1>7 DEF MarkAttempt, TypeOK
  <2> QED
    BY <1>7, <2>1, AdvanceType DEF MarkAttempt, TypeOK, brokerVars, history
<1>8. CASE Crash
  <2>1. row' \in [Events -> Row]
    BY <1>8 DEF Crash, TypeOK, Row, Status
  <2>2. unrecorded' \in [Events -> Nat]
    BY <1>8 DEF Crash, Relay, Pending, TypeOK
  <2>3. faults' \in 0..MaxFaults
    BY <1>8, FaultType DEF Crash
  <2> QED
    BY <1>8, <2>1, <2>2, <2>3 DEF Crash, TypeOK, brokerVars
<1> QED
  BY <1>1, <1>2, <1>3, <1>4, <1>5, <1>6, <1>7, <1>8 DEF Run

\* Every step preserves the types.
LEMMA NextType == TypeOK /\ Relay /\ [Next]_vars => TypeOK'
<1> SUFFICES ASSUME TypeOK, Relay, [Next]_vars PROVE TypeOK'
  OBVIOUS
<1>1. CASE UNCHANGED vars
  BY <1>1 DEF TypeOK, vars, brokerVars, relayVars, history
<1> QED
  BY <1>1, OutsideType, RelayType DEF Next

-----------------------------------------------------------------------------
(* What the steps do                                                       *)

\* The life of a row.
LEMMA RowSteps ==
    ASSUME TypeOK, Relay, [Next]_vars, NEW e \in Events
    PROVE  \/ row'[e] = row[e]
           \/ row[e].st = "none" /\ Write(e)
           \/ /\ row'[e].createdAt = row[e].createdAt
              /\ \/ row[e].st = "open" /\ row'[e].st = "lost"
                 \/ row[e].st = "open" /\ row'[e].st = "pending" /\ Commit(e)
                 \/ row[e].st = "pending" /\ row'[e].st = "published" /\ Record /\ cur = e
                 \/ row[e].st = "published" /\ row'[e].st = "deleted"
<1>0. row[e] \in Row
  BY DEF TypeOK
<1>1. ASSUME NEW f \in Events, Write(f) PROVE row'[e] = row[e] \/ f = e
  BY <1>1 DEF Write, TypeOK
<1>2. ASSUME NEW f \in Events, Commit(f) \/ WriteFails(f)
      PROVE  \/ row'[e] = row[e]
             \/ /\ f = e /\ row'[e].createdAt = row[e].createdAt /\ row[e].st = "open"
                /\ row'[e].st = IF Commit(f) THEN "pending" ELSE "lost"
  <2>1. \/ Commit(f) /\ SetStatus(f, "pending")
        \/ ~Commit(f) /\ SetStatus(f, "lost")
    BY <1>2 DEF Commit, WriteFails
  <2>2. CASE f # e
    BY <2>1, <2>2 DEF SetStatus, TypeOK
  <2>3. CASE f = e
    BY <1>0, <1>2, <2>1, <2>3 DEF Commit, WriteFails, SetStatus, TypeOK, Row
  <2> QED
    BY <2>2, <2>3
<1>3. ASSUME Record
      PROVE  \/ row'[e] = row[e]
             \/ /\ cur = e /\ row'[e].createdAt = row[e].createdAt
                /\ row[e].st = "pending" /\ row'[e].st = "published"
  <2>1. cur \in Pending /\ SetStatus(cur, "published")
    BY <1>3 DEF Record, Relay
  <2> QED
    BY <1>0, <2>1 DEF SetStatus, Pending, TypeOK, Row
<1>4. ASSUME Cleanup
      PROVE  \/ row'[e] = row[e]
             \/ /\ row'[e].createdAt = row[e].createdAt
                /\ row[e].st = "published" /\ row'[e].st = "deleted"
  <2>1. PICK old \in SUBSET {f \in Events : row[f].st = "published"} :
           row' = [f \in Events |-> IF f \in old
                                    THEN [row[f] EXCEPT !.st = "deleted"] ELSE row[f]]
    BY <1>4 DEF Cleanup
  <2> QED
    BY <1>0, <2>1 DEF Row
<1>5. ASSUME Crash
      PROVE  \/ row'[e] = row[e]
             \/ /\ row'[e].createdAt = row[e].createdAt
                /\ row[e].st = "open" /\ row'[e].st = "lost"
  BY <1>0, <1>5 DEF Crash, Row
<1>6. ASSUME \/ \E f \in Events : WindowPasses(f) \/ Publish(f) \/ PublishFails(f)
             \/ EnsureStream \/ ClaimPending \/ RecordFails \/ MarkAttempt
             \/ BrokerFails \/ BrokerReturns \/ Boot \/ UNCHANGED vars
      PROVE  row' = row
  BY <1>6 DEF WindowPasses, Publish, PublishFails, EnsureStream, ClaimPending,
     RecordFails, MarkAttempt, BrokerFails, BrokerReturns, Boot, vars
<1>7. ASSUME NEW f \in Events, Write(f) PROVE row[f].st = "none"
  BY <1>7 DEF Write
<1> QED
  BY <1>1, <1>2, <1>3, <1>4, <1>5, <1>6, <1>7 DEF Next, Run

\* The stream grows by publishes.
LEMMA StreamSteps ==
    ASSUME [Next]_vars
    PROVE  \/ UNCHANGED <<stream, window>>
           \/ stream' = stream /\ \E e \in Events : WindowPasses(e)
           \/ \E e \in Events : /\ Publish(e) \/ PublishFails(e)
                                /\ pc = "publish" /\ Oldest(e) /\ Store(e)
  BY DEF Next, Run, Write, Commit, WriteFails, WindowPasses, Cleanup, EnsureStream,
     ClaimPending, Publish, PublishFails, Record, RecordFails, MarkAttempt, BrokerFails,
     BrokerReturns, Crash, Boot, vars, brokerVars

\* One publish adds its event, unless the broker has it.
LEMMA StoreEffect ==
    ASSUME TypeOK, Broker, NEW e \in Events, Store(e)
    PROVE  /\ window' = window \cup {e}
           /\ \A f \in Events : InStream(f)' <=> InStream(f) \/ f = e
<1>1. CASE e \in window
  <2>1. stream' = stream /\ InStream(e)
    BY <1>1 DEF Store, Broker
  <2> QED
    BY <2>1 DEF Store, InStream
<1>2. CASE e \notin window
  <2>1. stream' = Append(stream, e) /\ stream \in Seq(Events)
    BY <1>2 DEF Store, TypeOK
  <2>2. /\ Len(stream) \in Nat
        /\ DOMAIN stream = 1..Len(stream) /\ DOMAIN stream' = 1..(Len(stream) + 1)
        /\ \A k \in 1..Len(stream) : stream'[k] = stream[k]
        /\ stream'[Len(stream) + 1] = e
    BY <2>1
  <2> QED
    BY <2>2 DEF Store, InStream
<1> QED
  BY <1>1, <1>2

-----------------------------------------------------------------------------
(* Nothing is lost                                                         *)

\* Events leave the batch as they are published, and rows leave pending only
\* as the relay stamps them.
LEMMA NextRelay == TypeOK /\ Relay /\ Broker /\ [Next]_vars => Relay'
<1> SUFFICES ASSUME TypeOK, Relay, Broker, [Next]_vars PROVE Relay'
  OBVIOUS
<1>1. ASSUME NEW e \in Pending, ~(Record /\ cur = e) PROVE e \in Pending'
  <2>1. e \in Events /\ row[e].st = "pending"
    BY DEF Pending
  <2>2. ~Write(e)
    BY <2>1 DEF Write
  <2> QED
    BY <1>1, <2>1, <2>2, RowSteps DEF Pending
<1>2. \A e \in Events : InStream(e) => InStream(e)'
  BY StreamSteps, StoreEffect DEF InStream
<1>3. ASSUME UNCHANGED relayVars, ~Record PROVE Relay'
  BY <1>1, <1>2, <1>3 DEF Relay, relayVars, Pending
<1>4. CASE EnsureStream
  BY <1>1, <1>2, <1>4 DEF EnsureStream, Relay, Pending, Record
<1>5. CASE ClaimPending
  BY <1>1, <1>5 DEF ClaimPending, Relay, Record
<1>6. ASSUME NEW e \in Events, Publish(e) \/ PublishFails(e) PROVE Relay'
  <2>1. /\ pc = "publish" /\ batch' = batch \ {e} /\ cur' = e /\ e \in Pending
        /\ pc' = "record" => Store(e)
    BY <1>6 DEF Publish, PublishFails, Oldest, Relay
  <2>2. batch' \subseteq Pending' /\ e \in Pending'
    BY <1>1, <2>1 DEF Relay, Record
  <2>3. pc' = "record" => InStream(e)'
    BY <2>1, StoreEffect
  <2>4. pc' = "record" => InStream(cur)'
    BY <2>1, <2>3 DEF InStream
  <2> QED
    BY <2>1, <2>2, <2>4 DEF Relay
<1>7. CASE Record
  <2>1. pc = "record" /\ batch' = batch /\ pc' \in {"loop", "publish"}
    BY <1>7 DEF Record, Advance
  <2> QED
    BY <1>1, <2>1 DEF Relay
<1>8. CASE RecordFails \/ MarkAttempt
  <2>1. batch' = batch /\ pc' \in {"loop", "publish"} /\ row' = row
    BY <1>8 DEF RecordFails, MarkAttempt, Advance
  <2> QED
    BY <2>1 DEF Relay, Pending
<1>9. CASE Crash
  BY <1>9 DEF Crash, Relay
<1>10. ASSUME \/ \E e \in Events : Write(e) \/ Commit(e) \/ WriteFails(e) \/ WindowPasses(e)
              \/ Cleanup \/ BrokerFails \/ BrokerReturns \/ Boot \/ UNCHANGED vars
       PROVE  UNCHANGED relayVars
  BY <1>10 DEF Write, Commit, WriteFails, WindowPasses, Cleanup, BrokerFails,
     BrokerReturns, Boot, vars
<1> QED
  BY <1>3, <1>4, <1>5, <1>6, <1>7, <1>8, <1>9, <1>10 DEF Next, Run

\* The broker gets committed events, and no commit is taken back.
LEMMA NextBroker == TypeOK /\ Relay /\ Broker /\ [Next]_vars => Broker'
<1> SUFFICES ASSUME TypeOK, Relay, Broker, [Next]_vars PROVE Broker'
  OBVIOUS
<1>1. ASSUME NEW e \in Committed PROVE e \in Committed'
  <2>1. e \in Events /\ row[e].st \in {"pending", "published", "deleted"}
    BY DEF Committed
  <2>2. ~Write(e)
    BY <2>1 DEF Write
  <2> QED
    BY <2>1, <2>2, RowSteps DEF Committed
<1>2. CASE stream' = stream /\ window' \subseteq window
  BY <1>1, <1>2 DEF Broker, InStream
<1>3. ASSUME NEW e \in Events, Oldest(e), Store(e) PROVE Broker'
  <2>1. e \in Committed
    BY <1>3 DEF Oldest, Relay, Pending, Committed
  <2>2. /\ window' = window \cup {e}
        /\ \A f \in Events : InStream(f)' <=> InStream(f) \/ f = e
    BY <1>3, StoreEffect
  <2>3. window \subseteq Events
    BY DEF TypeOK
  <2> QED
    BY <1>1, <2>1, <2>2, <2>3 DEF Broker
<1> QED
  BY <1>2, <1>3, StreamSteps DEF WindowPasses

\* Only a row whose event is in the stream is stamped.
LEMMA NextNothingLost ==
    TypeOK /\ Relay /\ Broker /\ NothingLost /\ [Next]_vars => NothingLost'
<1> SUFFICES ASSUME TypeOK, Relay, Broker, NothingLost, [Next]_vars, NEW e \in Events,
                    row'[e].st \in {"published", "deleted"}
             PROVE  InStream(e)'
  BY DEF NothingLost
<1>1. InStream(e)
  <2>1. CASE row[e].st \in {"published", "deleted"}
    BY <2>1 DEF NothingLost
  <2>2. CASE Record /\ cur = e
    BY <2>2 DEF Record, Relay
  <2>3. Write(e) => row'[e].st = "open"
    BY DEF Write, TypeOK
  <2> QED
    BY <2>1, <2>2, <2>3, RowSteps
<1> QED
  BY <1>1, StreamSteps, StoreEffect DEF InStream

\* The relay, the broker and the stamps, together.
LEMMA RelayHolds == Spec => [](TypeOK /\ Relay /\ Broker /\ NothingLost)
<1>1. Init => TypeOK /\ Relay /\ Broker /\ NothingLost
  BY InitType DEF Init, Relay, Broker, NothingLost, InStream
<1>2. TypeOK /\ Relay /\ Broker /\ NothingLost /\ [Next]_vars
          => TypeOK' /\ Relay' /\ Broker' /\ NothingLost'
  BY NextType, NextRelay, NextBroker, NextNothingLost
<1> QED
  BY <1>1, <1>2, PTL DEF Spec

\* The variables of every reachable state have their types.
THEOREM TypeCorrect == Spec => []TypeOK
  BY RelayHolds, PTL

\* A row is stamped, and later cleaned up, only when its event is in the
\* stream: neither the relay nor a crash loses an event.
THEOREM RelayLosesNothing == Spec => []NothingLost
  BY RelayHolds, PTL

-----------------------------------------------------------------------------
(* Order                                                                   *)

\* Committed events stay committed and keep their place.
LEMMA CommittedStay ==
    ASSUME TypeOK, Relay, [Next]_vars, NEW e \in Committed
    PROVE  e \in Committed' /\ row'[e].createdAt = row[e].createdAt
<1>1. e \in Events /\ row[e].st \in {"pending", "published", "deleted"}
  BY DEF Committed
<1>2. ~Write(e)
  BY <1>1 DEF Write
<1> QED
  BY <1>1, <1>2, RowSteps DEF Committed

\* An event that commits while a younger one is committed counts as delayed.
LEMMA CommitSteps ==
    ASSUME TypeOK, Relay, [Next]_vars, NEW e \in Committed', e \notin Committed
    PROVE  /\ Commit(e)
           /\ e \notin delayed' => ~\E f \in Committed : Before(e, f)
<1>1. e \in Events /\ row[e].st \notin {"pending", "published", "deleted"}
      /\ row'[e].st \in {"pending", "published", "deleted"}
  BY DEF Committed
<1>2. Write(e) => row'[e].st = "open"
  BY <1>1 DEF Write, TypeOK
<1>3. Commit(e)
  BY <1>1, <1>2, RowSteps
<1> QED
  BY <1>3 DEF Commit

\* Failures and late commits are remembered.
LEMMA DelayedGrows == [Next]_vars => delayed \subseteq delayed'
  BY DEF Next, Run, Write, Commit, WriteFails, WindowPasses, Cleanup, EnsureStream,
     ClaimPending, Publish, PublishFails, Record, RecordFails, MarkAttempt, BrokerFails,
     BrokerReturns, Crash, Boot, vars, history

\* A batch is claimed from the oldest pending rows, and only shrinks.
LEMMA BatchSteps ==
    ASSUME [Next]_vars
    PROVE  \/ ClaimPending
           \/ \E e \in Events : Publish(e) \/ PublishFails(e)
           \/ batch' = batch
           \/ batch' = {}
  BY DEF Next, Run, Write, Commit, WriteFails, WindowPasses, Cleanup, EnsureStream,
     Record, RecordFails, MarkAttempt, Advance, BrokerFails, BrokerReturns, Crash,
     Boot, vars, relayVars

\* The oldest event is published first, and a batch leaves no older event out.
LEMMA NextOrdered ==
    TypeOK /\ Relay /\ Broker /\ NothingLost /\ Ordered /\ [Next]_vars => Ordered'
<1> SUFFICES ASSUME TypeOK, Relay, Broker, NothingLost, Ordered, [Next]_vars,
                    NEW f \in Committed' \ delayed', NEW e \in Committed',
                    Before(f, e)'
             PROVE  /\ InStream(e)' => InStream(f)'
                    /\ e \in batch' => InStream(f)' \/ f \in batch'
  BY DEF Ordered
<1>0. /\ \A x \in Events : x \in Committed \/ ~InStream(x)
      /\ \A x \in Events : row[x].createdAt \in Nat
      /\ e \in Events /\ f \in Events
      /\ batch \subseteq Committed
  BY DEF Broker, TypeOK, Row, Committed, Relay, Pending
<1>1. \A x \in Events : InStream(x) => InStream(x)'
  BY StreamSteps, StoreEffect DEF InStream
<1>2. CASE e \notin Committed
  <2>1. Commit(e)
    BY <1>2, CommitSteps
  <2>2. stream' = stream /\ batch' = batch /\ ~InStream(e) /\ e \notin batch
    BY <1>0, <1>2, <2>1 DEF Commit, brokerVars, relayVars
  <2> QED
    BY <2>2 DEF InStream
<1>3. CASE e \in Committed
  <2>1. row'[e].createdAt = row[e].createdAt
    BY <1>3, CommittedStay
  <2>2. f \in Committed
    <3>1. SUFFICES ASSUME f \notin Committed PROVE FALSE
      OBVIOUS
    <3>2. Commit(f) /\ ~Before(f, e)
      BY <1>3, <3>1, CommitSteps
    <3>3. row'[f].createdAt = row[f].createdAt
      BY <1>0, <3>2 DEF Commit, SetStatus, TypeOK, Row
    <3> QED
      BY <2>1, <3>2, <3>3 DEF Before
  <2>3. row'[f].createdAt = row[f].createdAt /\ f \notin delayed
    BY <2>2, CommittedStay, DelayedGrows
  <2>4. Before(f, e)
    BY <2>1, <2>3 DEF Before
  <2>5. /\ InStream(e) => InStream(f)
        /\ e \in batch => InStream(f) \/ f \in batch
    BY <1>3, <2>2, <2>3, <2>4 DEF Ordered
  <2>6. ASSUME NEW x \in Events, Publish(x) \/ PublishFails(x)
        PROVE  /\ InStream(e)' => InStream(f)'
               /\ e \in batch' => InStream(f)' \/ f \in batch'
    <3>1. /\ Oldest(x) /\ batch' = batch \ {x}
          /\ PublishFails(x) => x \in delayed'
          /\ Publish(x) => Store(x)
          /\ Store(x) \/ stream' = stream
      BY <2>6 DEF Publish, PublishFails
    <3>2. x = f => InStream(f)'
      BY <2>6, <3>1, StoreEffect
    <3>3. \A y \in Events : InStream(y)' => InStream(y) \/ y = x
      BY <3>1, StoreEffect DEF InStream
    <3>4. e = x => f \notin batch
      BY <1>0, <2>4, <3>1 DEF Oldest, Before
    <3> QED
      BY <1>0, <1>1, <2>5, <3>1, <3>2, <3>3, <3>4 DEF Oldest
  <2>7. CASE ~\E x \in Events : Publish(x) \/ PublishFails(x)
    <3>1. InStream(e)' => InStream(f)'
      BY <1>0, <1>1, <2>5, <2>7, StreamSteps DEF InStream
    <3>2. ASSUME ClaimPending, e \in batch', f \notin batch' PROVE InStream(f)'
      <4>1. e \in Pending /\ (f \in Pending => Before(e, f))
        BY <3>2 DEF ClaimPending
      <4>2. f \notin Pending
        BY <1>0, <2>4, <4>1 DEF Before
      <4>3. InStream(f)
        BY <2>2, <4>2 DEF Committed, Pending, NothingLost
      <4> QED
        BY <1>0, <1>1, <4>3
    <3> QED
      BY <1>0, <1>1, <2>5, <2>7, <3>1, <3>2, BatchSteps
  <2> QED
    BY <2>6, <2>7
<1> QED
  BY <1>2, <1>3

\* The stream keeps its order, and the next event is the oldest one that is
\* missing, or counts as delayed.
LEMMA NextOrderExcused ==
    TypeOK /\ Relay /\ Broker /\ Ordered /\ OrderExcused /\ [Next]_vars => OrderExcused'
<1> SUFFICES ASSUME TypeOK, Relay, Broker, Ordered, OrderExcused, [Next]_vars,
                    NEW k \in DOMAIN stream', NEW l \in DOMAIN stream',
                    k < l, Before(stream[l], stream[k])',
                    \A j \in 1..(l - 1) : stream'[j] # stream'[l]
             PROVE  stream'[l] \in delayed'
  BY DEF OrderExcused
<1>0. /\ stream \in Seq(Events) /\ Len(stream) \in Nat /\ DOMAIN stream = 1..Len(stream)
      /\ delayed \subseteq delayed'
  BY DelayedGrows DEF TypeOK
<1>1. ASSUME NEW j \in DOMAIN stream
      PROVE  row'[stream[j]].createdAt = row[stream[j]].createdAt
  <2>1. stream[j] \in Events /\ InStream(stream[j])
    BY <1>0, <1>1 DEF InStream
  <2>2. stream[j] \in Committed
    BY <2>1 DEF Broker
  <2> QED
    BY <2>2, CommittedStay
<1>2. ASSUME l \in DOMAIN stream, \A j \in DOMAIN stream : stream'[j] = stream[j]
      PROVE  stream'[l] \in delayed'
  <2>1. k \in DOMAIN stream /\ stream'[k] = stream[k] /\ stream'[l] = stream[l]
    BY <1>0, <1>2
  <2>2. Before(stream[l], stream[k])
    BY <1>1, <1>2, <2>1 DEF Before
  <2>3. \A j \in 1..(l - 1) : stream[j] # stream[l]
    BY <1>0, <1>2
  <2> QED
    BY <1>0, <1>2, <2>1, <2>2, <2>3 DEF OrderExcused
<1>3. CASE stream' = stream
  BY <1>2, <1>3
<1>4. CASE \E e \in Events : (Publish(e) \/ PublishFails(e)) /\ Oldest(e) /\ Store(e)
                             /\ e \notin window
  <2>1. PICK e \in Events : /\ Publish(e) \/ PublishFails(e)
                            /\ Oldest(e) /\ Store(e) /\ e \notin window
    BY <1>4
  <2>2. stream' = Append(stream, e)
    BY <2>1 DEF Store
  <2>3. /\ DOMAIN stream' = 1..(Len(stream) + 1)
        /\ \A j \in DOMAIN stream : stream'[j] = stream[j]
        /\ stream'[Len(stream) + 1] = e
    BY <1>0, <2>2
  <2>4. CASE l = Len(stream) + 1
    <3>1. k \in DOMAIN stream /\ stream'[k] = stream[k] /\ stream'[l] = e
      BY <1>0, <2>3, <2>4
    <3>2. row' = row /\ e \in Committed /\ stream[k] \in Events /\ InStream(stream[k])
      BY <1>0, <2>1, <3>1 DEF Publish, PublishFails, Oldest, Relay, Pending, Committed, InStream
    <3>3. Before(e, stream[k]) /\ stream[k] \in Committed
      BY <3>1, <3>2 DEF Before, Broker
    <3>4. ~InStream(e)
      BY <1>0, <2>3, <2>4, <3>1 DEF InStream
    <3>5. e \in delayed
      BY <3>2, <3>3, <3>4 DEF Ordered
    <3> QED
      BY <1>0, <3>1, <3>5
  <2>5. CASE l # Len(stream) + 1
    <3>1. l \in DOMAIN stream
      BY <1>0, <2>3, <2>5
    <3> QED
      BY <1>2, <2>3, <3>1
  <2> QED
    BY <2>4, <2>5
<1> QED
  BY <1>3, <1>4, StreamSteps DEF Store

\* Events enter the stream in creation order, but for those whose insert
\* committed late or whose publish failed (PublishNow goes on after a failure).
THEOREM OrderHasCause == Spec => []OrderExcused
<1>1. Init => Ordered /\ OrderExcused
  BY DEF Init, Ordered, OrderExcused, Committed
<1>2. TypeOK /\ Relay /\ Broker /\ NothingLost /\ Ordered /\ OrderExcused /\ [Next]_vars
          => Ordered' /\ OrderExcused'
  BY NextOrdered, NextOrderExcused
<1> QED
  BY <1>1, <1>2, RelayHolds, PTL DEF Spec

-----------------------------------------------------------------------------
(* Copies                                                                  *)

\* The positions of an event are finitely many.
LEMMA CopiesFinite ==
    ASSUME TypeOK, NEW e \in Events
    PROVE  IsFiniteSet({k \in DOMAIN stream : stream[k] = e}) /\ Copies(e) \in Nat
<1>1. DOMAIN stream = 1..Len(stream) /\ Len(stream) \in Nat
  BY DEF TypeOK
<1>2. IsFiniteSet(DOMAIN stream)
  BY <1>1, FS_Interval
<1> QED
  BY <1>2, FS_Subset, FS_CardinalityType DEF Copies

\* One publish adds one copy, unless the broker remembers the id.
LEMMA StoreCopies ==
    ASSUME TypeOK, NEW e \in Events, Store(e), NEW f \in Events
    PROVE  Copies(f)' = Copies(f) + (IF f = e /\ e \notin window THEN 1 ELSE 0)
<1> DEFINE At == {k \in DOMAIN stream : stream[k] = f}
           AtNext == {k \in DOMAIN stream' : stream'[k] = f}
<1>0. IsFiniteSet(At) /\ Cardinality(At) \in Nat /\ Copies(f) = Cardinality(At)
      /\ Copies(f)' = Cardinality(AtNext)
  BY CopiesFinite DEF Copies
<1>1. CASE e \in window
  <2>1. stream' = stream
    BY <1>1 DEF Store
  <2>2. AtNext = At
    BY <2>1
  <2> QED
    BY <1>0, <1>1, <2>2
<1>2. CASE e \notin window
  <2>1. stream' = Append(stream, e) /\ stream \in Seq(Events)
    BY <1>2 DEF Store, TypeOK
  <2>2. /\ Len(stream) \in Nat
        /\ DOMAIN stream = 1..Len(stream) /\ DOMAIN stream' = 1..(Len(stream) + 1)
        /\ \A k \in 1..Len(stream) : stream'[k] = stream[k]
        /\ stream'[Len(stream) + 1] = e
    BY <2>1
  <2>3. CASE f = e
    <3>1. AtNext = At \cup {Len(stream) + 1} /\ Len(stream) + 1 \notin At
      BY <2>2, <2>3
    <3>2. Cardinality(AtNext) = Cardinality(At) + 1
      BY <1>0, <3>1, FS_AddElement
    <3> QED
      BY <1>0, <1>2, <2>3, <3>2
  <2>4. CASE f # e
    <3>1. AtNext = At
      BY <2>2, <2>4
    <3> QED
      BY <1>0, <2>4, <3>1
  <2> QED
    BY <2>3, <2>4
<1> QED
  BY <1>1, <1>2

\* A publish that is to be recorded is recorded, or counts as unrecorded.
LEMMA SettlingSteps ==
    ASSUME TypeOK, Relay, [Next]_vars, NEW e \in Events
    PROVE  \/ unrecorded'[e] = unrecorded[e] /\ (Settling(e) => Settling(e)')
           \/ unrecorded'[e] = unrecorded[e] + 1
<1>1. ASSUME row[e].st \in {"published", "deleted"} PROVE Settling(e)'
  <2>1. ~Write(e)
    BY <1>1 DEF Write
  <2> QED
    BY <1>1, <2>1, RowSteps DEF Settling
<1>2. CASE UNCHANGED <<pc, cur, unrecorded>>
  BY <1>1, <1>2 DEF Settling
<1>3. CASE pc # "record" /\ unrecorded' = unrecorded
  BY <1>1, <1>3 DEF Settling
<1>4. CASE Record
  <2>1. cur = e => row'[e].st = "published"
    <3>1. row[e] \in Row
      BY DEF TypeOK
    <3> QED
      BY <1>4, <3>1 DEF Record, SetStatus, TypeOK, Row
  <2>2. unrecorded' = unrecorded
    BY <1>4 DEF Record, history
  <2> QED
    BY <1>1, <2>1, <2>2 DEF Settling
<1>5. CASE RecordFails \/ (Crash /\ pc = "record")
  <2>1. pc = "record" /\ unrecorded' = [unrecorded EXCEPT ![cur] = @ + 1]
    BY <1>5 DEF RecordFails, Crash
  <2>2. cur = e => unrecorded'[e] = unrecorded[e] + 1
    BY <2>1 DEF TypeOK
  <2>3. cur # e => unrecorded'[e] = unrecorded[e] /\ (Settling(e) => Settling(e)')
    BY <1>1, <2>1 DEF TypeOK, Settling
  <2> QED
    BY <2>2, <2>3
<1>6. CASE Crash /\ pc # "record"
  BY <1>3, <1>6 DEF Crash
<1>7. ASSUME NEW f \in Events, Publish(f) \/ PublishFails(f)
      PROVE  \/ unrecorded'[e] = unrecorded[e] /\ (Settling(e) => Settling(e)')
             \/ unrecorded'[e] = unrecorded[e] + 1
  <2>1. pc = "publish"
        /\ (unrecorded' = unrecorded \/ unrecorded' = [unrecorded EXCEPT ![f] = @ + 1])
    BY <1>7 DEF Publish, PublishFails, history
  <2>2. unrecorded'[e] \in {unrecorded[e], unrecorded[e] + 1}
    BY <2>1 DEF TypeOK
  <2> QED
    BY <1>1, <2>1, <2>2 DEF Settling
<1>8. ASSUME EnsureStream \/ ClaimPending \/ MarkAttempt
      PROVE  pc # "record" /\ unrecorded' = unrecorded
  BY <1>8 DEF EnsureStream, ClaimPending, MarkAttempt, history
<1>9. ASSUME \/ \E f \in Events : Write(f) \/ Commit(f) \/ WriteFails(f) \/ WindowPasses(f)
             \/ Cleanup \/ BrokerFails \/ BrokerReturns \/ Boot \/ UNCHANGED vars
      PROVE  UNCHANGED <<pc, cur, unrecorded>>
  BY <1>9 DEF Write, Commit, WriteFails, WindowPasses, Cleanup, BrokerFails,
     BrokerReturns, Boot, vars, relayVars, history
<1> QED
  BY <1>2, <1>3, <1>4, <1>5, <1>6, <1>7, <1>8, <1>9 DEF Next, Run

\* The broker forgets an id only as its window passes.
LEMMA WindowSteps ==
    ASSUME TypeOK, Broker, [Next]_vars, NEW e \in Events
    PROVE  \/ lapsed'[e] = lapsed[e] /\ (e \in window => e \in window')
           \/ lapsed'[e] = lapsed[e] + 1
<1>1. lapsed' = lapsed \/ \E f \in Events : WindowPasses(f)
  BY DEF Next, Run, Write, Commit, WriteFails, Cleanup, EnsureStream, ClaimPending,
     Publish, PublishFails, Record, RecordFails, MarkAttempt, BrokerFails,
     BrokerReturns, Crash, Boot, vars, history
<1>2. ASSUME NEW f \in Events, WindowPasses(f)
      PROVE  \/ lapsed'[e] = lapsed[e] /\ (e \in window => e \in window')
             \/ lapsed'[e] = lapsed[e] + 1
  BY <1>2 DEF WindowPasses, TypeOK
<1>3. ASSUME ~\E f \in Events : WindowPasses(f) PROVE e \in window => e \in window'
  BY <1>3, StreamSteps, StoreEffect
<1> QED
  BY <1>1, <1>2, <1>3

\* A copy is added only when the broker forgot the id, and then its publish is
\* recorded later or counted.
LEMMA NextCopies ==
    TypeOK /\ Relay /\ Broker /\ CopiesExcused /\ [Next]_vars => CopiesExcused'
<1> SUFFICES ASSUME TypeOK, Relay, Broker, CopiesExcused, [Next]_vars, NEW e \in Events
             PROVE  /\ Copies(e)' <= lapsed'[e] + (IF e \in window' THEN 1 ELSE 0)
                    /\ Copies(e)' <= unrecorded'[e] + (IF Settling(e)' THEN 1 ELSE 0)
  BY DEF CopiesExcused
<1> DEFINE n == Copies(e)
<1>0. /\ n \in Nat /\ lapsed[e] \in Nat /\ unrecorded[e] \in Nat
      /\ n <= lapsed[e] + (IF e \in window THEN 1 ELSE 0)
      /\ n <= unrecorded[e] + (IF Settling(e) THEN 1 ELSE 0)
  BY CopiesFinite DEF TypeOK, CopiesExcused
<1> HIDE DEF n
<1>1. CASE Copies(e)' = n
  <2>1. n <= lapsed'[e] + (IF e \in window' THEN 1 ELSE 0)
    BY <1>0, WindowSteps
  <2>2. n <= unrecorded'[e] + (IF Settling(e)' THEN 1 ELSE 0)
    BY <1>0, SettlingSteps
  <2> QED
    BY <1>1, <2>1, <2>2
<1>2. CASE Copies(e)' # n
  <2>1. /\ Publish(e) \/ PublishFails(e)
        /\ pc = "publish" /\ Oldest(e) /\ Store(e) /\ e \notin window
        /\ Copies(e)' = n + 1
    <3>1. stream' # stream
      BY <1>2 DEF Copies, n
    <3>2. PICK f \in Events : /\ Publish(f) \/ PublishFails(f)
                              /\ pc = "publish" /\ Oldest(f) /\ Store(f)
      BY <3>1, StreamSteps
    <3>3. Copies(e)' = n + (IF e = f /\ f \notin window THEN 1 ELSE 0)
      BY <3>2, StoreCopies DEF n
    <3> QED
      BY <1>0, <1>2, <3>2, <3>3
  <2>2. e \in window' /\ lapsed' = lapsed
    BY <2>1 DEF Store, Publish, PublishFails, history
  <2>3. ~Settling(e)
    BY <2>1 DEF Oldest, Relay, Pending, Settling
  <2>4. \/ unrecorded'[e] = unrecorded[e] /\ Settling(e)'
        \/ unrecorded'[e] = unrecorded[e] + 1
    <3>1. CASE Publish(e)
      BY <3>1 DEF Publish, Settling, history
    <3>2. CASE PublishFails(e)
      <4>1. stream' # stream
        BY <1>2 DEF Copies, n
      <4>2. unrecorded' = [unrecorded EXCEPT ![e] = @ + 1]
        BY <3>2, <4>1 DEF PublishFails
      <4> QED
        BY <4>2 DEF TypeOK
    <3> QED
      BY <2>1, <3>1, <3>2
  <2> QED
    BY <1>0, <2>1, <2>2, <2>3, <2>4
<1> QED
  BY <1>1, <1>2

\* The stream has a second copy of an event only if a stored publish went
\* unrecorded and the broker forgot the id: retries inside the duplicate
\* window are absorbed (Nats-Msg-Id).
THEOREM DuplicatesHaveCause == Spec => []DuplicatesExcused
<1>1. Init => CopiesExcused
  <2> SUFFICES ASSUME Init PROVE CopiesExcused
    OBVIOUS
  <2>1. \A e \in Events : {k \in DOMAIN stream : stream[k] = e} = {}
    BY DEF Init
  <2>2. \A e \in Events : Copies(e) = 0
    BY <2>1, FS_EmptySet DEF Copies
  <2> QED
    BY <2>2 DEF Init, CopiesExcused
<1>2. TypeOK /\ CopiesExcused => DuplicatesExcused
  <2> SUFFICES ASSUME TypeOK, CopiesExcused, NEW e \in Events
               PROVE  Copies(e) <= 1 + unrecorded[e] /\ Copies(e) <= 1 + lapsed[e]
    BY DEF DuplicatesExcused
  <2>1. /\ lapsed[e] \in Nat /\ unrecorded[e] \in Nat /\ Copies(e) \in Nat
        /\ Copies(e) <= lapsed[e] + (IF e \in window THEN 1 ELSE 0)
        /\ Copies(e) <= unrecorded[e] + (IF Settling(e) THEN 1 ELSE 0)
    BY CopiesFinite DEF TypeOK, CopiesExcused
  <2> QED
    BY <2>1
<1> QED
  BY <1>1, <1>2, RelayHolds, NextCopies, PTL DEF Spec
=============================================================================
