--------------------------- MODULE InboundProofs ---------------------------
(***************************************************************************)
(* Proofs about Inbound: for any replies, attachments, requests in flight, *)
(* failures and crashes, no reply is lost in silence, none is queued more  *)
(* often than its webhook came, a refused request had no effect, and what  *)
(* the connector itself posts stays in Chatwoot.                           *)
(*                                                                         *)
(* The argument: what a request took passed the filters, and has changed   *)
(* nothing before it sends (StageInv); up to the attachment it has reached,*)
(* every part is queued or the reply is told of (ProgressInv); a part, the *)
(* webhook on its way and the requests that may still queue the part add up *)
(* to the times the webhook came (CountInv).                               *)
(***************************************************************************)
EXTENDS Inbound, FiniteSetTheorems, TLAPS

StageInv ==
    \A r \in Requests :
        /\ req[r].pc \notin {"idle", "answered"} => ~Discarded(req[r].event)
        /\ req[r].pc = "delete" => req[r].event.event = "updated"
        /\ req[r].pc \in {"reply", "parts", "text", "mark"} => req[r].event.event = "created"
        /\ req[r].pc \in {"delete", "reply"} => ~req[r].effect
        /\ req[r].pc = "reply" => req[r].next = 1 /\ req[r].sends = 0
        /\ req[r].pc = "answered" /\ req[r].code = 500 => ~req[r].effect
        /\ req[r].pc = "parts" => Msg(r) \in Replies /\ req[r].next <= Len(Attachments[Msg(r)])

Told == noted \cup excused

SomePart(m) == \E p \in Parts(m) : queued[<<m, p>>] > 0

Complete(m) ==
    /\ \A i \in DOMAIN Attachments[m] : queued[<<m, Attachments[m][i]>>] > 0
    /\ m \in WithText => SomePart(m)

\* What a request that is not told of has queued.
Progress(r) ==
    Msg(r) \in Replies \ Told =>
        /\ req[r].pc = "parts" =>
              \A i \in DOMAIN Attachments[Msg(r)] :
                 i < req[r].next => queued[<<Msg(r), Attachments[Msg(r)][i]>>] > 0
        /\ req[r].pc = "text" =>
              \A i \in DOMAIN Attachments[Msg(r)] : queued[<<Msg(r), Attachments[Msg(r)][i]>>] > 0
        /\ req[r].pc \in {"parts", "text"} /\ req[r].sends > 0 => SomePart(Msg(r))
        /\ req[r].pc = "mark" => Complete(Msg(r))
        /\ req[r].pc = "answered" /\ req[r].code = 200 /\ req[r].event.event = "created" =>
              Complete(Msg(r))

ProgressInv == \A r \in Requests : Progress(r)

HandledInv == \A m \in handled \ Told : Complete(m)

\* The requests of f that may still queue a part.
MayQueue(x, m, p) ==
    /\ x.event = Created(m)
    /\ \/ x.pc = "reply"
       \/ x.pc \in {"parts", "text"} /\ p = "text"
       \/ x.pc = "parts" /\ \E i \in DOMAIN Attachments[m] : i >= x.next /\ Attachments[m][i] = p

Due(f, m, p) == {r \in Requests : MayQueue(f[r], m, p)}

OnItsWay(h, m) == IF Created(m) \in h THEN 1 ELSE 0
Came(w, n, m)  == (IF m \in w THEN 1 ELSE 0) + n[m]

CountInv ==
    \A m \in Replies : \A p \in Parts(m) :
        queued[<<m, p>>] + OnItsWay(hooks, m) + Cardinality(Due(req, m, p))
            <= Came(written, repeats, m)

IInv == TypeOK /\ StageInv /\ ProgressInv /\ HandledInv /\ CountInv /\ NotesStayHere

-----------------------------------------------------------------------------
(* Sets of requests                                                        *)

LEMMA Fewer ==
    ASSUME NEW D \in SUBSET Requests, NEW E \in SUBSET D
    PROVE  Cardinality(D) \in Nat /\ Cardinality(E) \in Nat /\ Cardinality(E) <= Cardinality(D)
<1>1. IsFiniteSet(D)
  BY InboundAssumption, FS_Subset
<1> QED
  BY <1>1, FS_Subset, FS_CardinalityType

LEMMA OneLess ==
    ASSUME NEW D \in SUBSET Requests, NEW r \in D, NEW E \in SUBSET (D \ {r})
    PROVE  Cardinality(E) + 1 <= Cardinality(D)
<1>1. IsFiniteSet(D)
  BY InboundAssumption, FS_Subset
<1>2. Cardinality(D \ {r}) = Cardinality(D) - 1
  BY <1>1, FS_RemoveElement
<1>3. Cardinality(E) <= Cardinality(D \ {r}) /\ Cardinality(E) \in Nat
  BY Fewer
<1>4. Cardinality(D) \in Nat
  BY <1>1, FS_CardinalityType
<1> QED
  BY <1>2, <1>3, <1>4

LEMMA OneMore ==
    ASSUME NEW D \in SUBSET Requests, NEW r \in Requests, NEW E \in SUBSET (D \cup {r})
    PROVE  Cardinality(E) <= Cardinality(D) + 1
<1>1. IsFiniteSet(D)
  BY InboundAssumption, FS_Subset
<1>2. Cardinality(D) \in Nat
  BY <1>1, FS_CardinalityType
<1>3. Cardinality(D \cup {r}) = IF r \in D THEN Cardinality(D) ELSE Cardinality(D) + 1
  BY <1>1, FS_AddElement
<1>4. Cardinality(D \cup {r}) <= Cardinality(D) + 1
  BY <1>2, <1>3
<1>5. Cardinality(E) <= Cardinality(D \cup {r}) /\ Cardinality(E) \in Nat /\ Cardinality(D \cup {r}) \in Nat
  BY Fewer
<1> QED
  BY <1>4, <1>5, <1>2

-----------------------------------------------------------------------------
(* What the helpers do                                                     *)

LEMMA SlotFacts ==
    /\ \A m \in Messages : \A p \in Parts(m) : <<m, p>> \in Slots
    /\ \A m \in Messages : "text" \in Parts(m)
    /\ \A m \in Replies : \A i \in DOMAIN Attachments[m] : Attachments[m][i] \in Parts(m)
    /\ \A s \in Slots : s[1] \in Messages /\ s[2] \in Parts(s[1]) /\ s = <<s[1], s[2]>>
<1> USE InboundAssumption DEF Parts, Slots, Messages
<1>1. \A m \in Replies : \A i \in DOMAIN Attachments[m] : Attachments[m][i] \in Files
  OBVIOUS
<1>2. \A m \in Messages : \A p \in Parts(m) : p \in {"text"} \cup Files
  BY <1>1
<1> QED
  BY <1>1, <1>2

\* queued grows, by one at one slot at most.
Grows(m, p) == queued' \in {queued, [queued EXCEPT ![<<m, p>>] = @ + 1]}

LEMMA GrowsFacts ==
    ASSUME TypeOK, NEW m \in Messages, NEW p \in Parts(m), Grows(m, p)
    PROVE  /\ queued' \in [Slots -> Nat]
           /\ \A s \in Slots : queued[s] \in Nat /\ queued'[s] >= queued[s]
                               /\ (s # <<m, p>> => queued'[s] = queued[s])
           /\ queued'[<<m, p>>] <= queued[<<m, p>>] + 1
<1>1. <<m, p>> \in Slots
  BY SlotFacts
<1>2. queued \in [Slots -> Nat]
  BY DEF TypeOK
<1> QED
  BY <1>1, <1>2 DEF Grows

LEMMA QueueGrows ==
    ASSUME TypeOK, NEW m \in Messages, NEW p \in Parts(m), Queue(m, p)
    PROVE  Grows(m, p) /\ queued'[<<m, p>>] = queued[<<m, p>>] + 1
<1>1. <<m, p>> \in Slots
  BY SlotFacts
<1> QED
  BY <1>1 DEF Grows, Queue, TypeOK

LEMMA ChangeType ==
    ASSUME TypeOK, NEW r \in Requests, NEW x \in Request
    PROVE  [req EXCEPT ![r] = x] \in [Requests -> Request]
<1>1. req \in [Requests -> Request]
  BY DEF TypeOK
<1> QED
  BY <1>1

LEMMA EventType == ASSUME TypeOK, NEW r \in Requests PROVE req[r].event \in Event
  BY DEF TypeOK, Request

LEMMA PostNoteFacts ==
    ASSUME TypeOK, NEW m \in Messages, PostNote(m)
    PROVE  /\ noted' \in SUBSET Replies /\ excused' \in SUBSET Replies
           /\ hooks' \in SUBSET Event /\ faults' \in 0..MaxFaults
           /\ noted \subseteq noted' /\ excused \subseteq excused'
           /\ m \in Replies => m \in noted' \cup excused'
           /\ hooks \subseteq hooks' /\ hooks' \subseteq hooks \cup {Created("note")}
<1>1. Created("note") \in Event
  BY DEF Created, Event, Messages
<1> QED
  BY <1>1, InboundAssumption DEF TypeOK, PostNote, Fault

LEMMA EventFacts ==
    ASSUME TypeOK, NEW r \in Requests
    PROVE  /\ req[r] \in Request
           /\ Msg(r) \in Messages
           /\ req[r].event.event = "created" => req[r].event = Created(Msg(r))
<1>1. req[r] \in Request
  BY DEF TypeOK
<1>2. req[r].event \in Event
  BY <1>1 DEF Request
<1> QED
  BY <1>1, <1>2 DEF Event, Msg, Created

LEMMA PartFacts ==
    ASSUME TypeOK, StageInv, NEW r \in Requests, At(r, "parts")
    PROVE  /\ Msg(r) \in Replies
           /\ Msg(r) \in Messages
           /\ req[r].next \in DOMAIN Attachments[Msg(r)]
           /\ Part(r) \in Parts(Msg(r))
           /\ Part(r) # "text"
           /\ Attachments[Msg(r)] \in Seq(Files)
<1>1. Msg(r) \in Replies /\ req[r].next <= Len(Attachments[Msg(r)])
  BY DEF StageInv, At
<1>2. req[r].next \in Nat \ {0}
  BY EventFacts DEF Request
<1>3. Attachments[Msg(r)] \in Seq(Files)
  BY <1>1, InboundAssumption
<1>4. req[r].next \in DOMAIN Attachments[Msg(r)]
  BY <1>1, <1>2, <1>3
<1>5. Part(r) \in Files
  BY <1>3, <1>4 DEF Part
<1> QED
  BY <1>1, <1>3, <1>4, <1>5, SlotFacts, InboundAssumption DEF Part, Messages

\* An attachment's step goes on with the next, or the text.
LEMMA AfterFacts ==
    ASSUME TypeOK, StageInv, NEW r \in Requests, At(r, "parts"), NEW sends \in Nat, After(r, sends)
    PROVE  /\ req' \in [Requests -> Request]
           /\ \A q \in Requests \ {r} : req'[q] = req[q]
           /\ req'[r].event = req[r].event
           /\ req'[r].sends = sends
           /\ \/ /\ req[r].next < Len(Attachments[Msg(r)])
                 /\ req'[r].pc = "parts" /\ req'[r].next = req[r].next + 1
              \/ /\ req[r].next = Len(Attachments[Msg(r)])
                 /\ req'[r].pc = "text"
<1>1. req[r].next \in Nat \ {0} /\ req[r].next <= Len(Attachments[Msg(r)])
  BY EventFacts DEF Request, StageInv, At
<1>2. Len(Attachments[Msg(r)]) \in Nat
  BY PartFacts
<1>3. req \in [Requests -> Request]
  BY DEF TypeOK
<1>4. CASE req[r].next < Len(Attachments[Msg(r)])
  <2>1. req' = [req EXCEPT ![r] = [pc |-> "parts", event |-> req[r].event,
                                  next |-> req[r].next + 1, sends |-> sends,
                                  effect |-> TRUE, code |-> 0]]
    BY <1>4 DEF After, Step
  <2>2. [pc |-> "parts", event |-> req[r].event, next |-> req[r].next + 1, sends |-> sends,
         effect |-> TRUE, code |-> 0] \in Request
    BY <1>1, EventType DEF Request
  <2>3. req' \in [Requests -> Request]
    BY <2>1, <2>2, ChangeType
  <2> QED
    BY <1>3, <1>4, <2>1, <2>3
<1>5. CASE ~(req[r].next < Len(Attachments[Msg(r)]))
  <2>1. req' = [req EXCEPT ![r] = [pc |-> "text", event |-> req[r].event, next |-> 1,
                                  sends |-> sends, effect |-> TRUE, code |-> 0]]
    BY <1>5 DEF After, Step
  <2>2. [pc |-> "text", event |-> req[r].event, next |-> 1, sends |-> sends,
         effect |-> TRUE, code |-> 0] \in Request
    BY EventType DEF Request
  <2>3. req' \in [Requests -> Request]
    BY <2>1, <2>2, ChangeType
  <2> QED
    BY <1>1, <1>2, <1>3, <1>5, <2>1, <2>3
<1> QED
  BY <1>4, <1>5

LEMMA TakeFacts ==
    ASSUME TypeOK, NEW r \in Requests, NEW e \in hooks,
           NEW pc \in {"answered", "reply", "delete"}, NEW code \in {0, 200}, Take(r, e, pc, code)
    PROVE  /\ req' \in [Requests -> Request]
           /\ \A q \in Requests \ {r} : req'[q] = req[q]
           /\ req'[r] = [pc |-> pc, event |-> e, next |-> 1, sends |-> 0,
                         effect |-> FALSE, code |-> code]
           /\ hooks' = hooks \ {e}
<1>1. e \in Event
  BY DEF TypeOK
<1>2. [pc |-> pc, event |-> e, next |-> 1, sends |-> 0, effect |-> FALSE, code |-> code] \in Request
  BY <1>1 DEF Request
<1>3. req \in [Requests -> Request]
  BY DEF TypeOK
<1>4. req' = [req EXCEPT ![r] = [pc |-> pc, event |-> e, next |-> 1, sends |-> 0,
                                effect |-> FALSE, code |-> code]]
      /\ hooks' = hooks \ {e}
  BY DEF Take
<1>5. req' \in [Requests -> Request]
  BY <1>2, <1>3, <1>4, Zenon
<1> QED
  BY <1>3, <1>4, <1>5

LEMMA IdleType == Idle \in Request
<1>1. Created("note") \in Event
  BY DEF Created, Event, Messages
<1>2. "idle" \in {"idle", "delete", "reply", "parts", "text", "mark", "answered"}
      /\ 1 \in Nat \ {0} /\ 0 \in Nat /\ FALSE \in BOOLEAN /\ 0 \in {0, 200, 500}
  OBVIOUS
<1> QED
  BY <1>1, <1>2, Zenon DEF Idle, Request

-----------------------------------------------------------------------------
(* Types                                                                   *)

LEMMA InitInv == Init => IInv
<1> SUFFICES ASSUME Init PROVE IInv
  OBVIOUS
<1>1. TypeOK
  BY IdleType, InboundAssumption DEF Init, TypeOK, Event
<1>2. StageInv
  BY DEF Init, StageInv, Idle, Created
<1>3. ProgressInv
  <2>1. \A r \in Requests : Msg(r) = "note"
    BY DEF Init, Msg, Idle, Created
  <2> QED
    BY <2>1, InboundAssumption DEF ProgressInv, Progress
<1>4. HandledInv
  BY DEF Init, HandledInv
<1>5. CountInv
  <2> SUFFICES ASSUME NEW m \in Replies, NEW p \in Parts(m)
               PROVE  queued[<<m, p>>] + OnItsWay(hooks, m) + Cardinality(Due(req, m, p))
                        <= Came(written, repeats, m)
    BY DEF CountInv
  <2>1. Due(req, m, p) = {}
    BY DEF Init, Due, MayQueue, Idle
  <2>2. Cardinality(Due(req, m, p)) = 0
    BY <2>1, FS_EmptySet
  <2>3. m \in Messages /\ <<m, p>> \in Slots
    BY SlotFacts DEF Messages
  <2> QED
    BY <2>2, <2>3 DEF Init, OnItsWay, Came
<1>6. NotesStayHere
  BY SlotFacts DEF Init, NotesStayHere, Messages
<1> QED
  BY <1>1, <1>2, <1>3, <1>4, <1>5, <1>6 DEF IInv

\* The type invariant.
LEMMA TypeStep == TypeOK /\ StageInv /\ [Next]_vars => TypeOK'
<1> SUFFICES ASSUME TypeOK, StageInv, [Next]_vars PROVE TypeOK'
  OBVIOUS
<1> USE DEF TypeOK
<1>1. ASSUME NEW m \in Received, MirrorPosts(m) PROVE TypeOK'
  <2>1. Created(m) \in Event
    BY DEF Created, Event, Messages
  <2>2. correlated' \in Seq(Received)
    <3>1. Append(correlated, m) \in Seq(Received)
      OBVIOUS
    <3> QED
      BY <1>1, <3>1 DEF MirrorPosts
  <2> QED
    BY <1>1, <2>1, <2>2 DEF MirrorPosts, effectVars
<1>2. ASSUME NEW m \in Replies, Write(m) PROVE TypeOK'
  <2>1. Created(m) \in Event
    BY DEF Created, Event, Messages
  <2> QED
    BY <1>2, <2>1 DEF Write, effectVars
<1>3. ASSUME NEW m \in Received \cup Replies, Delete(m) PROVE TypeOK'
  <2>1. Updated(m) \in Event
    BY DEF Updated, Event, Messages
  <2> QED
    BY <1>3, <2>1 DEF Delete, effectVars
<1>4. ASSUME NEW e \in Event, Repeat(e) PROVE TypeOK'
  BY <1>4, InboundAssumption DEF Repeat, chatwootVars, effectVars, Fault, Messages
<1>5. ASSUME NEW e \in hooks, Lose(e) PROVE TypeOK'
  BY <1>5, InboundAssumption DEF Lose, chatwootVars, effectVars, Fault
<1>6. CASE Command
  <2>1. Created("confirm") \in Event
    BY DEF Created, Event, Messages
  <2> QED
    BY <1>6, <2>1, InboundAssumption DEF Command, chatwootVars, effectVars, Fault
<1>7. CASE Restart
  BY <1>7, IdleType, InboundAssumption DEF Restart, chatwootVars, effectVars, Fault
<1>8. ASSUME NEW r \in Requests, NEW e \in hooks, Discard(r, e) PROVE TypeOK'
  <2>1. req' \in [Requests -> Request] /\ hooks' = hooks \ {e}
    BY <1>8, TakeFacts DEF Discard
  <2> QED
    BY <1>8, <2>1 DEF Discard, Take, Keep, chatwootVars, effectVars
<1>9. ASSUME NEW r \in Requests, NEW e \in hooks, Accept(r, e) PROVE TypeOK'
  <2>1. Take(r, e, "reply", 0) \/ Take(r, e, "delete", 0)
    BY <1>9 DEF Accept
  <2>2. CASE Take(r, e, "reply", 0)
    <3>1. req' \in [Requests -> Request] /\ hooks' = hooks \ {e}
      BY <2>2, TakeFacts
    <3> QED
      BY <2>2, <3>1 DEF Take, Keep, chatwootVars, effectVars
  <2>3. CASE Take(r, e, "delete", 0)
    <3>1. req' \in [Requests -> Request] /\ hooks' = hooks \ {e}
      BY <2>3, TakeFacts
    <3> QED
      BY <2>3, <3>1 DEF Take, Keep, chatwootVars, effectVars
  <2> QED
    BY <2>1, <2>2, <2>3
<1>10. ASSUME NEW r \in Requests, ReverseDelete(r) PROVE TypeOK'
  <2>1. req' \in [Requests -> Request]
    <3>1. Reply(r, 200, TRUE) \/ Reply(r, 200, FALSE) \/ Reply(r, 500, req[r].effect)
      BY <1>10 DEF ReverseDelete
    <3>2. CASE Reply(r, 200, TRUE)
      BY <3>2, EventType, EventFacts DEF Reply, Step, Request
    <3>3. CASE Reply(r, 200, FALSE)
      BY <3>3, EventType, EventFacts DEF Reply, Step, Request
    <3>4. CASE Reply(r, 500, req[r].effect)
      BY <3>4, EventType, EventFacts DEF Reply, Step, Request
    <3> QED
      BY <3>1, <3>2, <3>3, <3>4
  <2>2. PostNote(Msg(r)) => /\ noted' \in SUBSET Replies /\ excused' \in SUBSET Replies
                            /\ hooks' \in SUBSET Event /\ faults' \in 0..MaxFaults
    BY EventFacts, PostNoteFacts
  <2>3. Msg(r) \in Messages
    BY EventFacts
  <2>4. revoked' = revoked \/ revoked' = revoked \cup {Msg(r)}
    BY <1>10 DEF ReverseDelete
  <2>5. \/ PostNote(Msg(r))
        \/ UNCHANGED <<hooks, noted, excused>> /\ (Fault \/ UNCHANGED faults)
    BY <1>10 DEF ReverseDelete
  <2>6. /\ noted' \in SUBSET Replies /\ excused' \in SUBSET Replies
        /\ hooks' \in SUBSET Event /\ faults' \in 0..MaxFaults
    BY <2>2, <2>5, InboundAssumption DEF Fault
  <2>7. UNCHANGED <<queued, read>> /\ Keep
    BY <1>10 DEF ReverseDelete
  <2> QED
    BY <2>1, <2>3, <2>4, <2>6, <2>7 DEF Keep, chatwootVars
<1>11. ASSUME NEW r \in Requests, Prepare(r) PROVE TypeOK'
  <2>1. req' \in [Requests -> Request]
    BY <1>11, EventType, EventFacts DEF Prepare, Reply, Go, Step, Request
  <2> QED
    BY <1>11, <2>1, EventFacts, InboundAssumption DEF Prepare, Fault, Keep, chatwootVars,
       effectVars
<1>12. ASSUME NEW r \in Requests, NoRecipient(r) PROVE TypeOK'
  <2>1. req' \in [Requests -> Request]
    BY <1>12, EventType, EventFacts DEF NoRecipient, Reply, Go, Step, Request
  <2>3. PostNote(Msg(r))
    BY <1>12 DEF NoRecipient
  <2>4. /\ noted' \in SUBSET Replies /\ excused' \in SUBSET Replies
        /\ hooks' \in SUBSET Event /\ faults' \in 0..MaxFaults
    BY <2>3, EventFacts, PostNoteFacts
  <2> QED
    BY <1>12, <2>1, <2>4, EventFacts, InboundAssumption DEF NoRecipient, Fault, Keep, chatwootVars,
       effectVars
<1>13. ASSUME NEW r \in Requests, ReadFails(r) PROVE TypeOK'
  <2>1. req' \in [Requests -> Request]
    BY <1>13, EventType, EventFacts DEF ReadFails, Reply, Go, Step, Request
  <2> QED
    BY <1>13, <2>1, EventFacts, InboundAssumption DEF ReadFails, Fault, Keep, chatwootVars,
       effectVars
<1>14. ASSUME NEW r \in Requests, AttachmentQueued(r) PROVE TypeOK'
  <2>1. req' \in [Requests -> Request]
    <3>1. req[r].sends + 1 \in Nat
      BY EventFacts DEF Request
    <3> QED
      BY <1>14, <3>1, AfterFacts DEF AttachmentQueued
  <2>2. queued' \in [Slots -> Nat]
    BY <1>14, PartFacts, QueueGrows, GrowsFacts DEF AttachmentQueued
  <2> QED
    BY <1>14, <2>1, <2>2 DEF AttachmentQueued, Keep, chatwootVars
<1>15. ASSUME NEW r \in Requests, AttachmentFails(r) PROVE TypeOK'
  <2>1. req' \in [Requests -> Request]
    <3>1. req[r].sends \in Nat
      BY EventFacts DEF Request
    <3> QED
      BY <1>15, <3>1, AfterFacts DEF AttachmentFails
  <2>2. queued' \in [Slots -> Nat]
    BY <1>15, PartFacts, GrowsFacts DEF AttachmentFails, Grows
  <2>3. PostNote(Msg(r))
    BY <1>15 DEF AttachmentFails
  <2>4. /\ noted' \in SUBSET Replies /\ excused' \in SUBSET Replies
        /\ hooks' \in SUBSET Event /\ faults' \in 0..MaxFaults
    BY <2>3, EventFacts, PostNoteFacts
  <2> QED
    BY <1>15, <2>1, <2>2, <2>4 DEF AttachmentFails, Keep, chatwootVars
<1>16. ASSUME NEW r \in Requests, TextQueued(r) PROVE TypeOK'
  <2>1. req' \in [Requests -> Request]
    BY <1>16, EventType, EventFacts DEF TextQueued, Reply, Go, Step, Request
  <2>2. queued' \in [Slots -> Nat]
    BY <1>16, EventFacts, SlotFacts, QueueGrows, GrowsFacts DEF TextQueued
  <2> QED
    BY <1>16, <2>1, <2>2, EventFacts, InboundAssumption DEF TextQueued, Fault, Keep, chatwootVars,
       effectVars
<1>17. ASSUME NEW r \in Requests, TextFails(r) PROVE TypeOK'
  <2>1. req' \in [Requests -> Request]
    BY <1>17, EventType, EventFacts DEF TextFails, Reply, Go, Step, Request
  <2>2. queued' \in [Slots -> Nat]
    BY <1>17, EventFacts, SlotFacts, GrowsFacts DEF TextFails, Grows
  <2>3. PostNote(Msg(r))
    BY <1>17 DEF TextFails
  <2>4. /\ noted' \in SUBSET Replies /\ excused' \in SUBSET Replies
        /\ hooks' \in SUBSET Event /\ faults' \in 0..MaxFaults
    BY <2>3, EventFacts, PostNoteFacts
  <2> QED
    BY <1>17, <2>1, <2>2, <2>4, EventFacts, InboundAssumption DEF TextFails, Fault, Keep,
       chatwootVars, effectVars
<1>18. ASSUME NEW r \in Requests, NoText(r) PROVE TypeOK'
  <2>1. req' \in [Requests -> Request]
    <3>1. Step(r, "mark", 1, 0, TRUE, 0) \/ Reply(r, 200, req[r].effect)
      BY <1>18 DEF NoText
    <3>2. CASE Step(r, "mark", 1, 0, TRUE, 0)
      BY <3>2, EventType, EventFacts DEF Step, Request
    <3>3. CASE Reply(r, 200, req[r].effect)
      BY <3>3, EventType, EventFacts DEF Reply, Step, Request
    <3> QED
      BY <3>1, <3>2, <3>3
  <2> QED
    BY <1>18, <2>1 DEF NoText, Keep, chatwootVars, effectVars
<1>19. ASSUME NEW r \in Requests, MarkRead(r) PROVE TypeOK'
  <2>1. req' \in [Requests -> Request]
    BY <1>19, EventType, EventFacts DEF MarkRead, Reply, Step, Request
  <2>2. read' \in SUBSET Received
    BY <1>19 DEF MarkRead
  <2> QED
    BY <1>19, <2>1, <2>2 DEF MarkRead, Keep, chatwootVars
<1>20. ASSUME NEW r \in Requests, Answer(r) PROVE TypeOK'
  BY <1>20, IdleType DEF Answer, chatwootVars, effectVars
<1>21. CASE UNCHANGED vars
  BY <1>21 DEF vars, chatwootVars, effectVars
<1> QED
  BY <1>1, <1>2, <1>3, <1>4, <1>5, <1>6, <1>7, <1>8, <1>9, <1>10, <1>11, <1>12, <1>13, <1>14,
     <1>15, <1>16, <1>17, <1>18, <1>19, <1>20, <1>21 DEF Next, Serve

\* Nothing queued or told is taken back.
Grew ==
    /\ noted \subseteq noted' /\ excused \subseteq excused'
    /\ \A s \in Slots : queued[s] \in Nat /\ queued'[s] \in Nat /\ queued'[s] >= queued[s]

\* Nothing is taken back.
LEMMA GrewStep == TypeOK /\ StageInv /\ [Next]_vars => Grew
<1> SUFFICES ASSUME TypeOK, StageInv, [Next]_vars PROVE Grew
  OBVIOUS
<1>a. \A s \in Slots : queued[s] \in Nat
  BY DEF TypeOK
<1> USE DEF Grew
<1>1. ASSUME NEW m \in Received, MirrorPosts(m) PROVE Grew
  BY <1>1, <1>a DEF MirrorPosts, effectVars
<1>2. ASSUME NEW m \in Replies, Write(m) PROVE Grew
  BY <1>2, <1>a DEF Write, effectVars
<1>3. ASSUME NEW m \in Received \cup Replies, Delete(m) PROVE Grew
  BY <1>3, <1>a DEF Delete, effectVars
<1>4. ASSUME NEW e \in Event, Repeat(e) PROVE Grew
  BY <1>4, <1>a DEF Repeat, chatwootVars, effectVars
<1>5. ASSUME NEW e \in hooks, Lose(e) PROVE Grew
  BY <1>5, <1>a DEF Lose, chatwootVars, effectVars
<1>6. CASE Command
  BY <1>6, <1>a DEF Command, chatwootVars, effectVars
<1>7. CASE Restart
  BY <1>7, <1>a DEF Restart, chatwootVars, effectVars
<1>8. ASSUME NEW r \in Requests, NEW e \in hooks, Discard(r, e) PROVE Grew
  BY <1>8, <1>a DEF Discard, Keep, chatwootVars, effectVars, Take
<1>9. ASSUME NEW r \in Requests, NEW e \in hooks, Accept(r, e) PROVE Grew
  BY <1>9, <1>a DEF Accept, Keep, chatwootVars, effectVars, Take
<1>10. ASSUME NEW r \in Requests, ReverseDelete(r) PROVE Grew
  <2>1. PostNote(Msg(r)) \/ UNCHANGED <<noted, excused>>
    BY <1>10 DEF ReverseDelete
  <2>2. noted \subseteq noted' /\ excused \subseteq excused'
    BY <2>1, EventFacts, PostNoteFacts
  <2> QED
    BY <1>10, <1>a, <2>2 DEF ReverseDelete
<1>11. ASSUME NEW r \in Requests, Prepare(r) PROVE Grew
  BY <1>11, <1>a DEF Prepare, Keep, chatwootVars, effectVars, Reply, Go, Step
<1>12. ASSUME NEW r \in Requests, NoRecipient(r) PROVE Grew
  <2>1. noted \subseteq noted' /\ excused \subseteq excused'
    BY <1>12, EventFacts, PostNoteFacts DEF NoRecipient
  <2> QED
    BY <1>12, <1>a, <2>1 DEF NoRecipient
<1>13. ASSUME NEW r \in Requests, ReadFails(r) PROVE Grew
  BY <1>13, <1>a DEF ReadFails, Keep, chatwootVars, effectVars, Reply, Go, Step
<1>14. ASSUME NEW r \in Requests, AttachmentQueued(r) PROVE Grew
  BY <1>14, PartFacts, QueueGrows, GrowsFacts DEF AttachmentQueued
<1>15. ASSUME NEW r \in Requests, AttachmentFails(r) PROVE Grew
  <2>1. Grows(Msg(r), Part(r)) /\ PostNote(Msg(r))
    BY <1>15 DEF AttachmentFails, Grows
  <2>2. noted \subseteq noted' /\ excused \subseteq excused'
    BY <2>1, EventFacts, PostNoteFacts
  <2> QED
    BY <1>15, <2>1, <2>2, PartFacts, GrowsFacts DEF AttachmentFails
<1>16. ASSUME NEW r \in Requests, TextQueued(r) PROVE Grew
  BY <1>16, EventFacts, SlotFacts, QueueGrows, GrowsFacts DEF TextQueued
<1>17. ASSUME NEW r \in Requests, TextFails(r) PROVE Grew
  <2>1. Grows(Msg(r), "text") /\ PostNote(Msg(r))
    BY <1>17 DEF TextFails, Grows
  <2>2. noted \subseteq noted' /\ excused \subseteq excused'
    BY <2>1, EventFacts, PostNoteFacts
  <2> QED
    BY <1>17, <2>1, <2>2, EventFacts, SlotFacts, GrowsFacts DEF TextFails
<1>18. ASSUME NEW r \in Requests, NoText(r) PROVE Grew
  BY <1>18, <1>a DEF NoText, Keep, chatwootVars, effectVars, Reply, Go, Step
<1>19. ASSUME NEW r \in Requests, MarkRead(r) PROVE Grew
  BY <1>19, <1>a DEF MarkRead, Keep, chatwootVars, effectVars, Reply, Go, Step
<1>20. ASSUME NEW r \in Requests, Answer(r) PROVE Grew
  BY <1>20, <1>a DEF Answer, chatwootVars, effectVars
<1>21. CASE UNCHANGED vars
  BY <1>21, <1>a DEF vars, chatwootVars, effectVars
<1> QED
  BY <1>1, <1>2, <1>3, <1>4, <1>5, <1>6, <1>7, <1>8, <1>9, <1>10, <1>11, <1>12, <1>13, <1>14,
     <1>15, <1>16, <1>17, <1>18, <1>19, <1>20, <1>21 DEF Next, Serve

LEMMA PrepareFacts ==
    ASSUME TypeOK, NEW r \in Requests, HasParts(r)
    PROVE  Msg(r) \in Replies /\ 1 <= Len(Attachments[Msg(r)])
<1>1. Msg(r) \in Replies /\ Attachments[Msg(r)] # <<>>
  BY DEF HasParts
<1>2. Attachments[Msg(r)] \in Seq(Files)
  BY <1>1, InboundAssumption
<1> QED
  BY <1>1, <1>2

\* What a request took, and what it changed.
LEMMA StageStep == TypeOK /\ StageInv /\ [Next]_vars => StageInv'
<1> SUFFICES ASSUME TypeOK, StageInv, [Next]_vars PROVE StageInv'
  OBVIOUS
<1>a. req \in [Requests -> Request]
  BY DEF TypeOK
<1> USE DEF StageInv, Msg
<1>1. ASSUME NEW m \in Received, MirrorPosts(m) PROVE StageInv'
  BY <1>1 DEF MirrorPosts, effectVars
<1>2. ASSUME NEW m \in Replies, Write(m) PROVE StageInv'
  BY <1>2 DEF Write, effectVars
<1>3. ASSUME NEW m \in Received \cup Replies, Delete(m) PROVE StageInv'
  BY <1>3 DEF Delete, effectVars
<1>4. ASSUME NEW e \in Event, Repeat(e) PROVE StageInv'
  BY <1>4 DEF Repeat, chatwootVars, effectVars
<1>5. ASSUME NEW e \in hooks, Lose(e) PROVE StageInv'
  BY <1>5 DEF Lose, chatwootVars, effectVars
<1>6. CASE Command
  BY <1>6 DEF Command, chatwootVars, effectVars
<1>7. CASE Restart
  BY <1>7, <1>a DEF Restart, Idle
<1>8. ASSUME NEW r \in Requests, NEW e \in hooks, Discard(r, e) PROVE StageInv'
  <2>1. /\ \A q \in Requests \ {r} : req'[q] = req[q]
        /\ req'[r].pc = "answered" /\ req'[r].code = 200
    BY <1>8, <1>a DEF Discard, Take
  <2> QED
    BY <2>1
<1>9. ASSUME NEW r \in Requests, NEW e \in hooks, Accept(r, e) PROVE StageInv'
  <2>1. \A q \in Requests \ {r} : req'[q] = req[q]
    BY <1>9, <1>a DEF Accept, Take
  <2>2. /\ req'[r].pc = (IF e.event = "created" THEN "reply" ELSE "delete")
        /\ req'[r].event = e /\ ~Discarded(e) /\ req'[r].effect = FALSE
        /\ req'[r].next = 1 /\ req'[r].sends = 0
    BY <1>9, <1>a DEF Accept, Take
  <2>3. e.event \in {"created", "updated"}
    BY DEF TypeOK, Event
  <2> QED
    BY <2>1, <2>2, <2>3
<1>10. ASSUME NEW r \in Requests, ReverseDelete(r) PROVE StageInv'
  BY <1>10, <1>a DEF ReverseDelete, At, Reply, Go, Step
<1>11. ASSUME NEW r \in Requests, Prepare(r) PROVE StageInv'
  <2>1. At(r, "reply") /\ \A q \in Requests \ {r} : req'[q] = req[q]
    BY <1>11, <1>a DEF Prepare, Go, Step
  <2>2. req'[r] = [pc |-> IF HasParts(r) THEN "parts" ELSE "text", event |-> req[r].event,
                  next |-> req[r].next, sends |-> req[r].sends, effect |-> req[r].effect, code |-> 0]
    BY <1>11, <1>a DEF Prepare, Go, Step
  <2>3. HasParts(r) => Msg(r) \in Replies /\ req[r].next <= Len(Attachments[Msg(r)])
    BY <2>1, PrepareFacts DEF At, StageInv
  <2> QED
    BY <2>1, <2>2, <2>3 DEF At
<1>12. ASSUME NEW r \in Requests, NoRecipient(r) PROVE StageInv'
  BY <1>12, <1>a DEF NoRecipient, At, Reply, Go, Step
<1>13. ASSUME NEW r \in Requests, ReadFails(r) PROVE StageInv'
  BY <1>13, <1>a DEF ReadFails, At, Reply, Go, Step
<1>14. ASSUME NEW r \in Requests, AttachmentQueued(r) PROVE StageInv'
  <2>1. /\ \A q \in Requests \ {r} : req'[q] = req[q]
        /\ req'[r].event = req[r].event
        /\ \/ req[r].next < Len(Attachments[Msg(r)]) /\ req'[r].pc = "parts"
              /\ req'[r].next = req[r].next + 1
           \/ req'[r].pc = "text"
    <3>1. req[r].sends + 1 \in Nat
      BY EventFacts DEF Request
    <3> QED
      BY <1>14, <3>1, AfterFacts DEF AttachmentQueued
  <2>2. At(r, "parts") /\ req[r].next \in Nat /\ Len(Attachments[Msg(r)]) \in Nat
    BY <1>14, PartFacts, EventFacts DEF AttachmentQueued, Request
  <2> QED
    BY <2>1, <2>2, <1>a DEF At
<1>15. ASSUME NEW r \in Requests, AttachmentFails(r) PROVE StageInv'
  <2>1. /\ \A q \in Requests \ {r} : req'[q] = req[q]
        /\ req'[r].event = req[r].event
        /\ \/ req[r].next < Len(Attachments[Msg(r)]) /\ req'[r].pc = "parts"
              /\ req'[r].next = req[r].next + 1
           \/ req'[r].pc = "text"
    <3>1. req[r].sends \in Nat
      BY EventFacts DEF Request
    <3> QED
      BY <1>15, <3>1, AfterFacts DEF AttachmentFails
  <2>2. At(r, "parts") /\ req[r].next \in Nat /\ Len(Attachments[Msg(r)]) \in Nat
    BY <1>15, PartFacts, EventFacts DEF AttachmentFails, Request
  <2> QED
    BY <2>1, <2>2, <1>a DEF At
<1>16. ASSUME NEW r \in Requests, TextQueued(r) PROVE StageInv'
  BY <1>16, <1>a DEF TextQueued, At, Reply, Go, Step
<1>17. ASSUME NEW r \in Requests, TextFails(r) PROVE StageInv'
  BY <1>17, <1>a DEF TextFails, At, Reply, Go, Step
<1>18. ASSUME NEW r \in Requests, NoText(r) PROVE StageInv'
  BY <1>18, <1>a DEF NoText, At, Reply, Go, Step
<1>19. ASSUME NEW r \in Requests, MarkRead(r) PROVE StageInv'
  BY <1>19, <1>a DEF MarkRead, At, Reply, Go, Step
<1>20. ASSUME NEW r \in Requests, Answer(r) PROVE StageInv'
  BY <1>20, <1>a DEF Answer, Idle
<1>21. CASE UNCHANGED vars
  BY <1>21 DEF vars, chatwootVars, effectVars
<1> QED
  BY <1>1, <1>2, <1>3, <1>4, <1>5, <1>6, <1>7, <1>8, <1>9, <1>10, <1>11, <1>12, <1>13, <1>14,
     <1>15, <1>16, <1>17, <1>18, <1>19, <1>20, <1>21 DEF Next, Serve

-----------------------------------------------------------------------------
(* What is queued, or told of                                              *)

LEMMA Kept ==
    ASSUME Grew, NEW m \in Replies
    PROVE  /\ \A p \in Parts(m) : queued[<<m, p>>] > 0 => queued'[<<m, p>>] > 0
           /\ \A i \in DOMAIN Attachments[m] :
                 queued[<<m, Attachments[m][i]>>] > 0 => queued'[<<m, Attachments[m][i]>>] > 0
<1>1. \A p \in Parts(m) : <<m, p>> \in Slots
  BY SlotFacts DEF Messages
<1>2. \A p \in Parts(m) : queued[<<m, p>>] > 0 => queued'[<<m, p>>] > 0
  BY <1>1 DEF Grew
<1> QED
  BY <1>2, SlotFacts

LEMMA Unmoved ==
    ASSUME Grew, NEW q \in Requests, Progress(q), req'[q] = req[q]
    PROVE  Progress(q)'
<1>1. Msg(q)' = Msg(q)
  BY DEF Msg
<1>2. \A m \in Replies : m \notin Told' => m \notin Told
  BY DEF Grew, Told
<1>5. CASE Msg(q) \in Replies \ Told
  <2>1. \A i \in DOMAIN Attachments[Msg(q)] :
           queued[<<Msg(q), Attachments[Msg(q)][i]>>] > 0
              => queued'[<<Msg(q), Attachments[Msg(q)][i]>>] > 0
    BY <1>5, Kept
  <2>2. SomePart(Msg(q)) => (\E p \in Parts(Msg(q)) : queued'[<<Msg(q), p>>] > 0)
    BY <1>5, Kept DEF SomePart
  <2>3. Complete(Msg(q)) => Complete(Msg(q))'
    BY <1>1, <2>1, <2>2 DEF Complete, SomePart
  <2> QED
    BY <1>1, <1>5, <2>1, <2>2, <2>3 DEF Progress, SomePart
<1> QED
  BY <1>1, <1>2, <1>5 DEF Progress

\* Replies pass the filters.
LEMMA RepliesPass == \A e : e.msg \in Replies => ~Discarded(e)
  BY InboundAssumption DEF Discarded, SourceId, IsOperational, OperationalId, Conversation

LEMMA NotesStop == \A e : e.msg \in Received \cup {"note"} => Discarded(e)
  BY DEF Discarded, SourceId

\* What a request that is not told of has queued.
LEMMA ProgressStep == TypeOK /\ StageInv /\ ProgressInv /\ [Next]_vars => ProgressInv'
<1> SUFFICES ASSUME TypeOK, StageInv, ProgressInv, [Next]_vars PROVE ProgressInv'
  OBVIOUS
<1>a. req \in [Requests -> Request]
  BY DEF TypeOK
<1>b. Grew /\ \A q \in Requests : Progress(q)
  BY GrewStep DEF ProgressInv
<1> USE DEF ProgressInv
<1>1. ASSUME NEW m \in Received, MirrorPosts(m) PROVE ProgressInv'
  BY <1>1, <1>b, Unmoved DEF MirrorPosts
<1>2. ASSUME NEW m \in Replies, Write(m) PROVE ProgressInv'
  BY <1>2, <1>b, Unmoved DEF Write
<1>3. ASSUME NEW m \in Received \cup Replies, Delete(m) PROVE ProgressInv'
  BY <1>3, <1>b, Unmoved DEF Delete
<1>4. ASSUME NEW e \in Event, Repeat(e) PROVE ProgressInv'
  BY <1>4, <1>b, Unmoved DEF Repeat
<1>5. ASSUME NEW e \in hooks, Lose(e) PROVE ProgressInv'
  BY <1>5, <1>b, Unmoved DEF Lose
<1>6. CASE Command
  BY <1>6, <1>b, Unmoved DEF Command
<1>7. CASE Restart
  <2>1. \A q \in Requests : req'[q] = Idle
    BY <1>7 DEF Restart
  <2> QED
    BY <2>1, InboundAssumption DEF Progress, Idle, Created, Msg
<1>8. ASSUME NEW r \in Requests, NEW e \in hooks, Discard(r, e) PROVE ProgressInv'
  <2>1. \A q \in Requests \ {r} : req'[q] = req[q]
    BY <1>8, <1>a DEF Discard, Take
  <2>2. \A q \in Requests \ {r} : Progress(q)'
    BY <2>1, <1>b, Unmoved
  <2>3. Progress(r)'
    <3>1. Discarded(e) /\ req'[r].event = e
      BY <1>8, <1>a DEF Discard, Take
    <3> QED
      BY <3>1, RepliesPass DEF Progress, Msg
  <2> QED
    BY <2>2, <2>3
<1>9. ASSUME NEW r \in Requests, NEW e \in hooks, Accept(r, e) PROVE ProgressInv'
  <2>1. \A q \in Requests \ {r} : req'[q] = req[q]
    BY <1>9, <1>a DEF Accept, Take
  <2>2. \A q \in Requests \ {r} : Progress(q)'
    BY <2>1, <1>b, Unmoved
  <2>3. Progress(r)'
    <3>1. req'[r].pc \in {"reply", "delete"}
      BY <1>9, <1>a DEF Accept, Take
    <3> QED
      BY <3>1 DEF Progress
  <2> QED
    BY <2>2, <2>3
<1>10. ASSUME NEW r \in Requests, ReverseDelete(r) PROVE ProgressInv'
  <2>1. \A q \in Requests \ {r} : req'[q] = req[q]
    BY <1>10, <1>a DEF ReverseDelete, Reply, Step
  <2>2. \A q \in Requests \ {r} : Progress(q)'
    BY <2>1, <1>b, Unmoved
  <2>3. Progress(r)'
    <3>1. req'[r].pc = "answered" /\ req'[r].event = req[r].event
      BY <1>10, <1>a DEF ReverseDelete, Reply, Step
    <3>2. req[r].event.event = "updated"
      BY <1>10 DEF ReverseDelete, At, StageInv
    <3> QED
      BY <3>1, <3>2 DEF Progress
  <2> QED
    BY <2>2, <2>3
<1>11. ASSUME NEW r \in Requests, Prepare(r) PROVE ProgressInv'
  <2>1. \A q \in Requests \ {r} : req'[q] = req[q]
    BY <1>11, <1>a DEF Prepare, Go, Step
  <2>2. \A q \in Requests \ {r} : Progress(q)'
    BY <2>1, <1>b, Unmoved
  <2>3. Progress(r)'
    <3>1. /\ req'[r].event = req[r].event /\ req'[r].next = 1 /\ req'[r].sends = 0
          /\ req'[r].pc = (IF HasParts(r) THEN "parts" ELSE "text")
      BY <1>11, <1>a DEF Prepare, Go, Step, At, StageInv
    <3>2. \A m \in Replies : \A i \in DOMAIN Attachments[m] : ~(i < 1)
      BY InboundAssumption
    <3>3. ~HasParts(r) /\ Msg(r) \in Replies => DOMAIN Attachments[Msg(r)] = {}
      BY DEF HasParts
    <3> QED
      BY <3>1, <3>2, <3>3 DEF Progress, Msg
  <2> QED
    BY <2>2, <2>3
<1>12. ASSUME NEW r \in Requests, NoRecipient(r) PROVE ProgressInv'
  <2>1. \A q \in Requests \ {r} : req'[q] = req[q]
    BY <1>12, <1>a DEF NoRecipient, Reply, Step
  <2>2. \A q \in Requests \ {r} : Progress(q)'
    BY <2>1, <1>b, Unmoved
  <2>3. Progress(r)'
    <3>1. req'[r].event = req[r].event
      BY <1>12, <1>a DEF NoRecipient, Reply, Step
    <3>2. Msg(r) \in Replies => Msg(r) \in noted' \cup excused'
      BY <1>12, EventFacts, PostNoteFacts DEF NoRecipient
    <3> QED
      BY <3>1, <3>2 DEF Progress, Told, Msg
  <2> QED
    BY <2>2, <2>3
<1>13. ASSUME NEW r \in Requests, ReadFails(r) PROVE ProgressInv'
  <2>1. \A q \in Requests \ {r} : req'[q] = req[q]
    BY <1>13, <1>a DEF ReadFails, Reply, Step
  <2>2. \A q \in Requests \ {r} : Progress(q)'
    BY <2>1, <1>b, Unmoved
  <2>3. Progress(r)'
    <3>1. req'[r].pc = "answered" /\ req'[r].code = 500
      BY <1>13, <1>a DEF ReadFails, Reply, Step
    <3> QED
      BY <3>1 DEF Progress
  <2> QED
    BY <2>2, <2>3
<1>14. ASSUME NEW r \in Requests, AttachmentQueued(r) PROVE ProgressInv'
  <2>0. /\ \A q \in Requests \ {r} : req'[q] = req[q]
        /\ req'[r].event = req[r].event /\ req'[r].sends = req[r].sends + 1
        /\ \/ req'[r].pc = "parts" /\ req'[r].next = req[r].next + 1
           \/ req'[r].pc = "text" /\ req[r].next = Len(Attachments[Msg(r)])
    <3>1. req[r].sends + 1 \in Nat
      BY EventFacts DEF Request
    <3> QED
      BY <1>14, <3>1, AfterFacts DEF AttachmentQueued
  <2>2. \A q \in Requests \ {r} : Progress(q)'
    BY <2>0, <1>b, Unmoved
  <2>3. Progress(r)'
    <3> DEFINE m == Msg(r)
               a == Attachments[m]
    <3>1. /\ m \in Replies /\ m \in Messages /\ req[r].next \in DOMAIN a
          /\ a[req[r].next] \in Parts(m) /\ a \in Seq(Files)
      BY <1>14, PartFacts DEF AttachmentQueued, Part
    <3>2. queued'[<<m, a[req[r].next]>>] > 0
      <4>1. Queue(m, a[req[r].next])
        BY <1>14 DEF AttachmentQueued, Part
      <4>2. queued[<<m, a[req[r].next]>>] \in Nat
        BY <3>1, SlotFacts DEF TypeOK
      <4> QED
        BY <3>1, <4>1, <4>2, QueueGrows
    <3>3. m \notin Told' => \A i \in DOMAIN a : i < req[r].next => queued'[<<m, a[i]>>] > 0
      <4>1. m \notin Told' => m \notin Told
        BY <1>b DEF Grew, Told
      <4>2. m \notin Told => \A i \in DOMAIN a : i < req[r].next => queued[<<m, a[i]>>] > 0
        BY <1>14, <3>1 DEF AttachmentQueued, At, ProgressInv, Progress
      <4> QED
        BY <3>1, <4>1, <4>2, <1>b, Kept
    <3>4. \A i \in DOMAIN a : i < req[r].next + 1 => i < req[r].next \/ i = req[r].next
      BY <3>1
    <3>5. req[r].next = Len(a) => \A i \in DOMAIN a : i < req[r].next \/ i = req[r].next
      BY <3>1
    <3>6. Msg(r)' = m
      BY <2>0 DEF Msg
    <3>7. \E p \in Parts(m) : queued'[<<m, p>>] > 0
      BY <3>1, <3>2
    <3>8. req'[r].pc = "parts" /\ m \notin Told' =>
            \A i \in DOMAIN a : i < req'[r].next => queued'[<<m, a[i]>>] > 0
      BY <2>0, <3>2, <3>3, <3>4
    <3>9. req'[r].pc = "text" /\ m \notin Told' => \A i \in DOMAIN a : queued'[<<m, a[i]>>] > 0
      BY <2>0, <3>2, <3>3, <3>5
    <3> QED
      BY <2>0, <3>1, <3>6, <3>7, <3>8, <3>9 DEF Progress, SomePart
  <2> QED
    BY <2>2, <2>3
<1>15. ASSUME NEW r \in Requests, AttachmentFails(r) PROVE ProgressInv'
  <2>0. /\ \A q \in Requests \ {r} : req'[q] = req[q]
        /\ req'[r].event = req[r].event /\ req'[r].sends = req[r].sends
        /\ \/ req'[r].pc = "parts" /\ req'[r].next = req[r].next + 1
           \/ req'[r].pc = "text" /\ req[r].next = Len(Attachments[Msg(r)])
    <3>1. req[r].sends \in Nat
      BY EventFacts DEF Request
    <3> QED
      BY <1>15, <3>1, AfterFacts DEF AttachmentFails
  <2>2. \A q \in Requests \ {r} : Progress(q)'
    BY <2>0, <1>b, Unmoved
  <2>3. Progress(r)'
    <3>1. Msg(r) \in Replies => Msg(r) \in noted' \cup excused'
      BY <1>15, EventFacts, PostNoteFacts DEF AttachmentFails
    <3> QED
      BY <2>0, <3>1 DEF Progress, Told, Msg
  <2> QED
    BY <2>2, <2>3
<1>16. ASSUME NEW r \in Requests, TextQueued(r) PROVE ProgressInv'
  <2>1. \A q \in Requests \ {r} : req'[q] = req[q]
    BY <1>16, <1>a DEF TextQueued, Step
  <2>2. \A q \in Requests \ {r} : Progress(q)'
    BY <2>1, <1>b, Unmoved
  <2>3. Progress(r)'
    <3>1. req'[r].pc = "mark" /\ req'[r].event = req[r].event /\ req[r].pc = "text"
      BY <1>16, <1>a DEF TextQueued, Step, At
    <3>2. Msg(r) \in Messages /\ "text" \in Parts(Msg(r))
      BY EventFacts, SlotFacts
    <3>3. queued'[<<Msg(r), "text">>] > 0
      <4>1. Queue(Msg(r), "text")
        BY <1>16 DEF TextQueued
      <4>2. queued[<<Msg(r), "text">>] \in Nat
        BY <3>2, SlotFacts DEF TypeOK
      <4> QED
        BY <3>2, <4>1, <4>2, QueueGrows
    <3>4. Msg(r) \in Replies \ Told => \A i \in DOMAIN Attachments[Msg(r)] :
             queued'[<<Msg(r), Attachments[Msg(r)][i]>>] > 0
      BY <3>1, <1>b, Kept DEF ProgressInv, Progress
    <3>5. (noted \cup excused) \subseteq (noted' \cup excused')
      BY <1>b DEF Grew
    <3> QED
      BY <3>1, <3>2, <3>3, <3>4, <3>5 DEF Progress, Told, Msg, Complete, SomePart
  <2> QED
    BY <2>2, <2>3
<1>17. ASSUME NEW r \in Requests, TextFails(r) PROVE ProgressInv'
  <2>1. \A q \in Requests \ {r} : req'[q] = req[q]
    BY <1>17, <1>a DEF TextFails, Reply, Step
  <2>2. \A q \in Requests \ {r} : Progress(q)'
    BY <2>1, <1>b, Unmoved
  <2>3. Progress(r)'
    <3>1. req'[r].event = req[r].event
      BY <1>17, <1>a DEF TextFails, Reply, Step
    <3>2. Msg(r) \in Replies => Msg(r) \in noted' \cup excused'
      BY <1>17, EventFacts, PostNoteFacts DEF TextFails
    <3> QED
      BY <3>1, <3>2 DEF Progress, Told, Msg
  <2> QED
    BY <2>2, <2>3
<1>18. ASSUME NEW r \in Requests, NoText(r) PROVE ProgressInv'
  <2>1. \A q \in Requests \ {r} : req'[q] = req[q]
    BY <1>18, <1>a DEF NoText, Reply, Step
  <2>2. \A q \in Requests \ {r} : Progress(q)'
    BY <2>1, <1>b, Unmoved
  <2>3. Progress(r)'
    <3>1. /\ req'[r].event = req[r].event /\ req[r].pc = "text"
          /\ req'[r].pc = "mark" => req[r].sends > 0
          /\ req'[r].pc \in {"mark", "answered"}
      BY <1>18, <1>a DEF NoText, Reply, Step, At
    <3>2. Msg(r) \in WithText => req[r].sends > 0
      <4>1. req[r].sends \in Nat
        BY EventFacts DEF Request
      <4> QED
        BY <1>18, <4>1 DEF NoText, WantsText, Text
    <3>3. Msg(r) \in Replies \ Told => \A i \in DOMAIN Attachments[Msg(r)] :
             queued'[<<Msg(r), Attachments[Msg(r)][i]>>] > 0
      BY <3>1, <1>b, Kept DEF ProgressInv, Progress
    <3>4. Msg(r) \in Replies \ Told /\ req[r].sends > 0 =>
             \E p \in Parts(Msg(r)) : queued'[<<Msg(r), p>>] > 0
      BY <3>1, <1>b, Kept DEF ProgressInv, Progress, SomePart
    <3>5. (noted \cup excused) \subseteq (noted' \cup excused')
      BY <1>b DEF Grew
    <3> QED
      BY <3>1, <3>2, <3>3, <3>4, <3>5 DEF Progress, Told, Msg, Complete, SomePart
  <2> QED
    BY <2>2, <2>3
<1>19. ASSUME NEW r \in Requests, MarkRead(r) PROVE ProgressInv'
  <2>1. \A q \in Requests \ {r} : req'[q] = req[q]
    BY <1>19, <1>a DEF MarkRead, Reply, Step
  <2>2. \A q \in Requests \ {r} : Progress(q)'
    BY <2>1, <1>b, Unmoved
  <2>3. Progress(r)'
    <3>1. req'[r].event = req[r].event /\ req[r].pc = "mark" /\ req'[r].pc = "answered"
      BY <1>19, <1>a DEF MarkRead, Reply, Step, At
    <3>2. queued' = queued /\ noted' = noted /\ excused' = excused
      BY <1>19 DEF MarkRead
    <3> QED
      BY <3>1, <3>2 DEF ProgressInv, Progress, Told, Msg, Complete, SomePart
  <2> QED
    BY <2>2, <2>3
<1>20. ASSUME NEW r \in Requests, Answer(r) PROVE ProgressInv'
  <2>1. \A q \in Requests \ {r} : req'[q] = req[q]
    BY <1>20, <1>a DEF Answer
  <2>2. \A q \in Requests \ {r} : Progress(q)'
    BY <2>1, <1>b, Unmoved
  <2>3. Progress(r)'
    <3>1. req'[r] = Idle
      BY <1>20, <1>a DEF Answer
    <3> QED
      BY <3>1, InboundAssumption DEF Progress, Idle, Created, Msg
  <2> QED
    BY <2>2, <2>3
<1>21. CASE UNCHANGED vars
  BY <1>21, <1>b, Unmoved DEF vars
<1> QED
  BY <1>1, <1>2, <1>3, <1>4, <1>5, <1>6, <1>7, <1>8, <1>9, <1>10, <1>11, <1>12, <1>13, <1>14,
     <1>15, <1>16, <1>17, <1>18, <1>19, <1>20, <1>21 DEF Next, Serve

\* What was answered in full is queued, or told of.
LEMMA HandledStep == TypeOK /\ StageInv /\ ProgressInv /\ HandledInv /\ [Next]_vars => HandledInv'
<1> SUFFICES ASSUME TypeOK, StageInv, ProgressInv, HandledInv, [Next]_vars PROVE HandledInv'
  OBVIOUS
<1>a. Grew
  BY GrewStep
<1>b. handled' = handled => HandledInv'
  <2> SUFFICES ASSUME handled' = handled, NEW m \in handled \ Told' PROVE Complete(m)'
    BY DEF HandledInv
  <2>1. m \in Replies /\ Complete(m)
    BY <1>a DEF TypeOK, HandledInv, Grew, Told
  <2> QED
    BY <2>1, <1>a, Kept DEF Complete, SomePart
<1>1. ASSUME NEW m \in Received, MirrorPosts(m) PROVE HandledInv'
  BY <1>1, <1>b DEF MirrorPosts
<1>2. ASSUME NEW m \in Replies, Write(m) PROVE HandledInv'
  BY <1>2, <1>b DEF Write
<1>3. ASSUME NEW m \in Received \cup Replies, Delete(m) PROVE HandledInv'
  BY <1>3, <1>b DEF Delete
<1>4. ASSUME NEW e \in Event, Repeat(e) PROVE HandledInv'
  BY <1>4, <1>b DEF Repeat
<1>5. ASSUME NEW e \in hooks, Lose(e) PROVE HandledInv'
  BY <1>5, <1>b DEF Lose
<1>6. CASE Command
  BY <1>6, <1>b DEF Command
<1>7. CASE Restart
  BY <1>7, <1>b DEF Restart
<1>8. ASSUME NEW r \in Requests, NEW e \in hooks, Discard(r, e) PROVE HandledInv'
  BY <1>8, <1>b DEF Discard, Keep, Take
<1>9. ASSUME NEW r \in Requests, NEW e \in hooks, Accept(r, e) PROVE HandledInv'
  BY <1>9, <1>b DEF Accept, Keep, Take
<1>10. ASSUME NEW r \in Requests, ReverseDelete(r) PROVE HandledInv'
  BY <1>10, <1>b DEF ReverseDelete, Keep
<1>11. ASSUME NEW r \in Requests, Prepare(r) PROVE HandledInv'
  BY <1>11, <1>b DEF Prepare, Keep
<1>12. ASSUME NEW r \in Requests, NoRecipient(r) PROVE HandledInv'
  BY <1>12, <1>b DEF NoRecipient, Keep
<1>13. ASSUME NEW r \in Requests, ReadFails(r) PROVE HandledInv'
  BY <1>13, <1>b DEF ReadFails, Keep
<1>14. ASSUME NEW r \in Requests, AttachmentQueued(r) PROVE HandledInv'
  BY <1>14, <1>b DEF AttachmentQueued, Keep
<1>15. ASSUME NEW r \in Requests, AttachmentFails(r) PROVE HandledInv'
  BY <1>15, <1>b DEF AttachmentFails, Keep
<1>16. ASSUME NEW r \in Requests, TextQueued(r) PROVE HandledInv'
  BY <1>16, <1>b DEF TextQueued, Keep
<1>17. ASSUME NEW r \in Requests, TextFails(r) PROVE HandledInv'
  BY <1>17, <1>b DEF TextFails, Keep
<1>18. ASSUME NEW r \in Requests, NoText(r) PROVE HandledInv'
  BY <1>18, <1>b DEF NoText, Keep
<1>19. ASSUME NEW r \in Requests, MarkRead(r) PROVE HandledInv'
  BY <1>19, <1>b DEF MarkRead, Keep
<1>20. ASSUME NEW r \in Requests, Answer(r) PROVE HandledInv'
  <2>1. \A m \in handled' : m \in handled \/ (m = Msg(r) /\ m \in Replies /\ req[r].pc = "answered"
                                             /\ req[r].code = 200 /\ req[r].event.event = "created")
    BY <1>20 DEF Answer, At, Msg
  <2>2. Progress(r)
    BY DEF ProgressInv
  <2>3. queued' = queued /\ Told \subseteq Told'
    BY <1>20, <1>a DEF Answer, effectVars, Grew, Told
  <2>4. \A m \in handled' \ Told' : Complete(m)
    BY <2>1, <2>2, <2>3 DEF Progress, HandledInv
  <2> QED
    BY <2>3, <2>4 DEF HandledInv, Complete, SomePart
<1>21. CASE UNCHANGED vars
  BY <1>21, <1>b DEF vars
<1> QED
  BY <1>1, <1>2, <1>3, <1>4, <1>5, <1>6, <1>7, <1>8, <1>9, <1>10, <1>11, <1>12, <1>13, <1>14,
     <1>15, <1>16, <1>17, <1>18, <1>19, <1>20, <1>21 DEF Next, Serve

-----------------------------------------------------------------------------
(* What stays in Chatwoot                                                  *)

\* What the connector posted is not queued.
LEMMA NotesStep == TypeOK /\ StageInv /\ NotesStayHere /\ [Next]_vars => NotesStayHere'
<1> SUFFICES ASSUME TypeOK, StageInv, NotesStayHere, [Next]_vars PROVE NotesStayHere'
  OBVIOUS
<1>a. queued' = queued => NotesStayHere'
  BY DEF NotesStayHere
<1>b. \A m \in Received \cup {"note"} : <<m, "text">> \in Slots
  BY SlotFacts DEF Messages
<1>1. ASSUME NEW m \in Received, MirrorPosts(m) PROVE NotesStayHere'
  BY <1>1, <1>a DEF MirrorPosts, effectVars
<1>2. ASSUME NEW m \in Replies, Write(m) PROVE NotesStayHere'
  BY <1>2, <1>a DEF Write, effectVars
<1>3. ASSUME NEW m \in Received \cup Replies, Delete(m) PROVE NotesStayHere'
  BY <1>3, <1>a DEF Delete, effectVars
<1>4. ASSUME NEW e \in Event, Repeat(e) PROVE NotesStayHere'
  BY <1>4, <1>a DEF Repeat, effectVars
<1>5. ASSUME NEW e \in hooks, Lose(e) PROVE NotesStayHere'
  BY <1>5, <1>a DEF Lose, effectVars
<1>6. CASE Command
  BY <1>6, <1>a DEF Command, effectVars
<1>7. CASE Restart
  BY <1>7, <1>a DEF Restart, effectVars
<1>8. ASSUME NEW r \in Requests, NEW e \in hooks, Discard(r, e) PROVE NotesStayHere'
  BY <1>8, <1>a DEF Discard, effectVars, Take
<1>9. ASSUME NEW r \in Requests, NEW e \in hooks, Accept(r, e) PROVE NotesStayHere'
  BY <1>9, <1>a DEF Accept, effectVars, Take
<1>10. ASSUME NEW r \in Requests, ReverseDelete(r) PROVE NotesStayHere'
  BY <1>10, <1>a DEF ReverseDelete, effectVars
<1>11. ASSUME NEW r \in Requests, Prepare(r) PROVE NotesStayHere'
  BY <1>11, <1>a DEF Prepare, effectVars
<1>12. ASSUME NEW r \in Requests, NoRecipient(r) PROVE NotesStayHere'
  BY <1>12, <1>a DEF NoRecipient, effectVars
<1>13. ASSUME NEW r \in Requests, ReadFails(r) PROVE NotesStayHere'
  BY <1>13, <1>a DEF ReadFails, effectVars
<1>14. ASSUME NEW r \in Requests, AttachmentQueued(r) PROVE NotesStayHere'
  <2>1. Grows(Msg(r), Part(r)) /\ Msg(r) \in Messages /\ Part(r) \in Parts(Msg(r))
    <3>1. Grows(Msg(r), Part(r))
      BY <1>14, PartFacts, QueueGrows DEF AttachmentQueued
    <3> QED
      BY <1>14, <3>1, PartFacts DEF AttachmentQueued
  <2>2. Msg(r) \notin Received \cup {"note"}
    BY <1>14, NotesStop DEF AttachmentQueued, At, StageInv, Msg
  <2> QED
    BY <1>b, <2>1, <2>2, GrowsFacts DEF NotesStayHere
<1>15. ASSUME NEW r \in Requests, AttachmentFails(r) PROVE NotesStayHere'
  <2>1. Grows(Msg(r), Part(r)) /\ Msg(r) \in Messages /\ Part(r) \in Parts(Msg(r))
    <3>1. Grows(Msg(r), Part(r))
      BY <1>15 DEF AttachmentFails, Grows
    <3> QED
      BY <1>15, <3>1, PartFacts DEF AttachmentFails
  <2>2. Msg(r) \notin Received \cup {"note"}
    BY <1>15, NotesStop DEF AttachmentFails, At, StageInv, Msg
  <2> QED
    BY <1>b, <2>1, <2>2, GrowsFacts DEF NotesStayHere
<1>16. ASSUME NEW r \in Requests, TextQueued(r) PROVE NotesStayHere'
  <2>1. Grows(Msg(r), "text") /\ Msg(r) \in Messages /\ "text" \in Parts(Msg(r))
    <3>1. Grows(Msg(r), "text")
      BY <1>16, EventFacts, SlotFacts, QueueGrows DEF TextQueued
    <3> QED
      BY <1>16, <3>1, EventFacts, SlotFacts DEF TextQueued
  <2>2. Msg(r) \notin Received \cup {"note"}
    BY <1>16, NotesStop DEF TextQueued, At, StageInv, Msg
  <2> QED
    BY <1>b, <2>1, <2>2, GrowsFacts DEF NotesStayHere
<1>17. ASSUME NEW r \in Requests, TextFails(r) PROVE NotesStayHere'
  <2>1. Grows(Msg(r), "text") /\ Msg(r) \in Messages /\ "text" \in Parts(Msg(r))
    <3>1. Grows(Msg(r), "text")
      BY <1>17 DEF TextFails, Grows
    <3> QED
      BY <1>17, <3>1, EventFacts, SlotFacts DEF TextFails
  <2>2. Msg(r) \notin Received \cup {"note"}
    BY <1>17, NotesStop DEF TextFails, At, StageInv, Msg
  <2> QED
    BY <1>b, <2>1, <2>2, GrowsFacts DEF NotesStayHere
<1>18. ASSUME NEW r \in Requests, NoText(r) PROVE NotesStayHere'
  BY <1>18, <1>a DEF NoText, effectVars
<1>19. ASSUME NEW r \in Requests, MarkRead(r) PROVE NotesStayHere'
  BY <1>19, <1>a DEF MarkRead, effectVars
<1>20. ASSUME NEW r \in Requests, Answer(r) PROVE NotesStayHere'
  BY <1>20, <1>a DEF Answer, effectVars
<1>21. CASE UNCHANGED vars
  BY <1>21, <1>a DEF vars, effectVars
<1> QED
  BY <1>1, <1>2, <1>3, <1>4, <1>5, <1>6, <1>7, <1>8, <1>9, <1>10, <1>11, <1>12, <1>13, <1>14,
     <1>15, <1>16, <1>17, <1>18, <1>19, <1>20, <1>21 DEF Next, Serve

-----------------------------------------------------------------------------
(* How often a part is queued                                              *)

LEMMA DueType ==
    ASSUME NEW f, NEW m, NEW p
    PROVE  Due(f, m, p) \in SUBSET Requests /\ Cardinality(Due(f, m, p)) \in Nat
<1>1. Due(f, m, p) \in SUBSET Requests
  BY DEF Due
<1> QED
  BY <1>1, Fewer

LEMMA DueKeeps ==
    ASSUME NEW f, NEW g, NEW m, NEW p,
           \A q \in Requests : MayQueue(g[q], m, p) => MayQueue(f[q], m, p)
    PROVE  Cardinality(Due(g, m, p)) <= Cardinality(Due(f, m, p))
<1>1. Due(g, m, p) \in SUBSET Due(f, m, p) /\ Due(f, m, p) \in SUBSET Requests
  BY DEF Due
<1> QED
  BY <1>1, Fewer

LEMMA DueDrops ==
    ASSUME NEW f, NEW g, NEW m, NEW p, NEW r \in Requests,
           \A q \in Requests : MayQueue(g[q], m, p) => MayQueue(f[q], m, p),
           MayQueue(f[r], m, p), ~MayQueue(g[r], m, p)
    PROVE  Cardinality(Due(g, m, p)) + 1 <= Cardinality(Due(f, m, p))
<1>1. /\ Due(f, m, p) \in SUBSET Requests /\ r \in Due(f, m, p)
      /\ Due(g, m, p) \in SUBSET (Due(f, m, p) \ {r})
  BY DEF Due
<1> QED
  BY <1>1, OneLess

LEMMA DueGains ==
    ASSUME NEW f, NEW g, NEW m, NEW p, NEW r \in Requests,
           \A q \in Requests \ {r} : MayQueue(g[q], m, p) => MayQueue(f[q], m, p)
    PROVE  Cardinality(Due(g, m, p)) <= Cardinality(Due(f, m, p)) + 1
<1>1. Due(f, m, p) \in SUBSET Requests /\ Due(g, m, p) \in SUBSET (Due(f, m, p) \cup {r})
  BY DEF Due
<1> QED
  BY <1>1, OneMore

\* Queued, on its way and still to queue add up to what came.
LEMMA CountStep == TypeOK /\ TypeOK' /\ StageInv /\ CountInv /\ [Next]_vars => CountInv'
<1> SUFFICES ASSUME TypeOK, TypeOK', StageInv, CountInv, [Next]_vars PROVE CountInv'
  OBVIOUS
<1> SUFFICES ASSUME NEW m \in Replies, NEW p \in Parts(m)
             PROVE  queued'[<<m, p>>] + OnItsWay(hooks', m) + Cardinality(Due(req', m, p))
                        <= Came(written', repeats', m)
  BY DEF CountInv
<1> DEFINE Balanced == queued'[<<m, p>>] + OnItsWay(hooks', m) + Cardinality(Due(req', m, p))
                           <= Came(written', repeats', m)
<1>a. /\ queued[<<m, p>>] \in Nat /\ queued'[<<m, p>>] \in Nat /\ repeats[m] \in Nat
      /\ Cardinality(Due(req, m, p)) \in Nat /\ Cardinality(Due(req', m, p)) \in Nat
      /\ queued[<<m, p>>] + OnItsWay(hooks, m) + Cardinality(Due(req, m, p))
            <= Came(written, repeats, m)
  <2>1. <<m, p>> \in Slots /\ m \in Messages
    BY SlotFacts DEF Messages
  <2> QED
    BY <2>1, DueType DEF TypeOK, CountInv
<1>b. req \in [Requests -> Request]
  BY DEF TypeOK
<1>c. repeats \in [Messages -> Nat]
  BY DEF TypeOK
<1>d. <<m, p>> \in Slots
  BY SlotFacts DEF Messages
<1>1. ASSUME NEW n \in Received, MirrorPosts(n) PROVE Balanced
  BY <1>1, <1>a, InboundAssumption DEF MirrorPosts, effectVars, chatwootVars, OnItsWay, Came,
     Created, Updated, Messages
<1>2. ASSUME NEW n \in Replies, Write(n) PROVE Balanced
  BY <1>2, <1>a DEF Write, effectVars, chatwootVars, OnItsWay, Came, Created, Updated, Messages
<1>3. ASSUME NEW n \in Received \cup Replies, Delete(n) PROVE Balanced
  BY <1>3, <1>a DEF Delete, effectVars, chatwootVars, OnItsWay, Came, Created, Updated,
     Messages
<1>4. ASSUME NEW e \in Event, Repeat(e) PROVE Balanced
  <2>1. m \in Messages
    BY DEF Messages
  <2>2. /\ repeats'[m] = (IF e.msg = m THEN repeats[m] + 1 ELSE repeats[m])
        /\ hooks' = hooks \cup {e} /\ written' = written /\ queued' = queued /\ req' = req
    BY <1>4, <2>1, <1>c DEF Repeat, chatwootVars, effectVars
  <2>3. OnItsWay(hooks', m) <= OnItsWay(hooks, m) + (IF e.msg = m THEN 1 ELSE 0)
    BY <2>2 DEF OnItsWay, Created
  <2> QED
    BY <1>a, <2>2, <2>3 DEF OnItsWay, Came
<1>5. ASSUME NEW e \in hooks, Lose(e) PROVE Balanced
  BY <1>5, <1>a DEF Lose, effectVars, chatwootVars, OnItsWay, Came, Created, Updated, Messages
<1>6. CASE Command
  BY <1>6, <1>a, InboundAssumption DEF Command, effectVars, chatwootVars, OnItsWay, Came,
     Created, Updated, Messages
<1>7. CASE Restart
  <2>1. Cardinality(Due(req', m, p)) <= Cardinality(Due(req, m, p))
    <3>1. \A q \in Requests : MayQueue(req'[q], m, p) => MayQueue(req[q], m, p)
      BY <1>7 DEF Restart, Idle, MayQueue
    <3> QED
      BY <3>1, DueKeeps
  <2>2. /\ queued' = queued /\ written' = written /\ repeats' = repeats
        /\ Created(m) \in hooks' => Created(m) \in hooks
    <3>1. Created("note") /= Created(m)
      BY InboundAssumption DEF Created
    <3> QED
      BY <1>7, <3>1 DEF Restart, Keep, chatwootVars, effectVars
  <2> QED
    BY <1>a, <2>1, <2>2 DEF OnItsWay, Came
<1>8. ASSUME NEW r \in Requests, NEW e \in hooks, Discard(r, e) PROVE Balanced
  <2>1. Cardinality(Due(req', m, p)) <= Cardinality(Due(req, m, p))
    <3>1. \A q \in Requests : MayQueue(req'[q], m, p) => MayQueue(req[q], m, p)
      BY <1>8, <1>b DEF Discard, Take, MayQueue
    <3> QED
      BY <3>1, DueKeeps
  <2>2. /\ queued' = queued /\ written' = written /\ repeats' = repeats
        /\ Created(m) \in hooks' => Created(m) \in hooks
    <3>1. Created("note") /= Created(m)
      BY InboundAssumption DEF Created
    <3> QED
      BY <1>8, <3>1 DEF Discard, Keep, chatwootVars, effectVars, Take
  <2> QED
    BY <1>a, <2>1, <2>2 DEF OnItsWay, Came
<1>9. ASSUME NEW r \in Requests, NEW e \in hooks, Accept(r, e) PROVE Balanced
  <2>1. /\ req'[r].event = e /\ \A q \in Requests \ {r} : req'[q] = req[q]
        /\ hooks' = hooks \ {e} /\ queued' = queued /\ written' = written /\ repeats' = repeats
    BY <1>9, <1>b DEF Accept, Take, Keep, chatwootVars, effectVars
  <2>2. CASE e = Created(m)
    <3>1. Cardinality(Due(req', m, p)) <= Cardinality(Due(req, m, p)) + 1
      BY <2>1, DueGains
    <3>2. OnItsWay(hooks, m) = 1 /\ OnItsWay(hooks', m) = 0
      BY <2>1, <2>2 DEF OnItsWay
    <3> QED
      BY <1>a, <2>1, <3>1, <3>2 DEF Came
  <2>3. CASE e /= Created(m)
    <3>1. \A q \in Requests : MayQueue(req'[q], m, p) => MayQueue(req[q], m, p)
      BY <2>1, <2>3 DEF MayQueue
    <3>2. Cardinality(Due(req', m, p)) <= Cardinality(Due(req, m, p))
      BY <3>1, DueKeeps
    <3>3. OnItsWay(hooks', m) <= OnItsWay(hooks, m)
      BY <2>1 DEF OnItsWay
    <3> QED
      BY <1>a, <2>1, <3>2, <3>3 DEF OnItsWay, Came
  <2> QED
    BY <2>2, <2>3
<1>10. ASSUME NEW r \in Requests, ReverseDelete(r) PROVE Balanced
  <2>1. Cardinality(Due(req', m, p)) <= Cardinality(Due(req, m, p))
    <3>1. \A q \in Requests : MayQueue(req'[q], m, p) => MayQueue(req[q], m, p)
      BY <1>10, <1>b DEF ReverseDelete, Reply, Go, Step, MayQueue, At
    <3> QED
      BY <3>1, DueKeeps
  <2>2. /\ queued' = queued /\ written' = written /\ repeats' = repeats
        /\ Created(m) \in hooks' => Created(m) \in hooks
    <3>1. Created("note") /= Created(m)
      BY InboundAssumption DEF Created
    <3> QED
      BY <1>10, <3>1 DEF ReverseDelete, Keep, chatwootVars, effectVars, PostNote
  <2> QED
    BY <1>a, <2>1, <2>2 DEF OnItsWay, Came
<1>11. ASSUME NEW r \in Requests, Prepare(r) PROVE Balanced
  <2>1. Cardinality(Due(req', m, p)) <= Cardinality(Due(req, m, p))
    <3>1. \A q \in Requests : MayQueue(req'[q], m, p) => MayQueue(req[q], m, p)
      <4>1. /\ req[r].pc = "reply" /\ req'[r].event = req[r].event
            /\ \A q \in Requests \ {r} : req'[q] = req[q]
        BY <1>11, <1>b DEF Prepare, Go, Step, At
      <4> QED
        BY <4>1 DEF MayQueue
    <3> QED
      BY <3>1, DueKeeps
  <2>2. /\ queued' = queued /\ written' = written /\ repeats' = repeats
        /\ Created(m) \in hooks' => Created(m) \in hooks
    <3>1. Created("note") /= Created(m)
      BY InboundAssumption DEF Created
    <3> QED
      BY <1>11, <3>1 DEF Prepare, Keep, chatwootVars, effectVars
  <2> QED
    BY <1>a, <2>1, <2>2 DEF OnItsWay, Came
<1>12. ASSUME NEW r \in Requests, NoRecipient(r) PROVE Balanced
  <2>1. Cardinality(Due(req', m, p)) <= Cardinality(Due(req, m, p))
    <3>1. \A q \in Requests : MayQueue(req'[q], m, p) => MayQueue(req[q], m, p)
      BY <1>12, <1>b DEF NoRecipient, Reply, Go, Step, MayQueue, At
    <3> QED
      BY <3>1, DueKeeps
  <2>2. /\ queued' = queued /\ written' = written /\ repeats' = repeats
        /\ Created(m) \in hooks' => Created(m) \in hooks
    <3>1. Created("note") /= Created(m)
      BY InboundAssumption DEF Created
    <3> QED
      BY <1>12, <3>1 DEF NoRecipient, Keep, chatwootVars, effectVars, PostNote
  <2> QED
    BY <1>a, <2>1, <2>2 DEF OnItsWay, Came
<1>13. ASSUME NEW r \in Requests, ReadFails(r) PROVE Balanced
  <2>1. Cardinality(Due(req', m, p)) <= Cardinality(Due(req, m, p))
    <3>1. \A q \in Requests : MayQueue(req'[q], m, p) => MayQueue(req[q], m, p)
      BY <1>13, <1>b DEF ReadFails, Reply, Go, Step, MayQueue, At
    <3> QED
      BY <3>1, DueKeeps
  <2>2. /\ queued' = queued /\ written' = written /\ repeats' = repeats
        /\ Created(m) \in hooks' => Created(m) \in hooks
    <3>1. Created("note") /= Created(m)
      BY InboundAssumption DEF Created
    <3> QED
      BY <1>13, <3>1 DEF ReadFails, Keep, chatwootVars, effectVars
  <2> QED
    BY <1>a, <2>1, <2>2 DEF OnItsWay, Came
<1>14. ASSUME NEW r \in Requests, AttachmentQueued(r) PROVE Balanced
  <2>1. /\ queued'[<<m, p>>] + Cardinality(Due(req', m, p))
             <= queued[<<m, p>>] + Cardinality(Due(req, m, p))
    <3>1. /\ \A q \in Requests \ {r} : req'[q] = req[q]
          /\ req'[r].event = req[r].event
          /\ \/ req'[r].pc = "parts" /\ req'[r].next = req[r].next + 1
             \/ req'[r].pc = "text"
      <4>1. req[r].sends + 1 \in Nat
        BY EventFacts DEF Request
      <4> QED
        BY <1>14, <4>1, AfterFacts DEF AttachmentQueued
    <3>2. /\ At(r, "parts") /\ Msg(r) \in Replies /\ Msg(r) \in Messages
          /\ req[r].next \in DOMAIN Attachments[Msg(r)] /\ Part(r) \in Parts(Msg(r)) /\ Part(r) /= "text"
          /\ Attachments[Msg(r)] \in Seq(Files)
      BY <1>14, PartFacts DEF AttachmentQueued
    <3>3. Grows(Msg(r), Part(r))
      BY <1>14, <3>2, QueueGrows DEF AttachmentQueued
    <3>4. \A q \in Requests : MayQueue(req'[q], m, p) => MayQueue(req[q], m, p)
      <4>1. ASSUME m = Msg(r), NEW i \in DOMAIN Attachments[m], i >= req[r].next + 1
            PROVE  i >= req[r].next
        BY <3>2, <4>1
      <4> QED
        BY <3>1, <3>2, <4>1 DEF MayQueue, At, Msg, Created
    <3>6. CASE m = Msg(r) /\ p = Part(r)
      <4>1. req[r].event = Created(m)
        BY <3>2, <3>6, EventFacts DEF StageInv, At
      <4>2. MayQueue(req[r], m, p)
        BY <3>2, <3>6, <4>1 DEF MayQueue, At, Part
      <4>3. ~MayQueue(req'[r], m, p)
        BY <3>1, <3>2, <3>6, InboundAssumption DEF MayQueue, Part
      <4>4. Cardinality(Due(req', m, p)) + 1 <= Cardinality(Due(req, m, p))
        BY <3>4, <4>2, <4>3, DueDrops
      <4>5. queued'[<<m, p>>] <= queued[<<m, p>>] + 1
        BY <3>2, <3>3, <3>6, GrowsFacts
      <4> QED
        BY <1>a, <4>4, <4>5
    <3>7. CASE ~(m = Msg(r) /\ p = Part(r))
      <4>1. queued'[<<m, p>>] = queued[<<m, p>>]
        BY <3>2, <3>3, <3>7, <1>d, GrowsFacts
      <4>2. Cardinality(Due(req', m, p)) <= Cardinality(Due(req, m, p))
        BY <3>4, DueKeeps
      <4> QED
        BY <1>a, <4>1, <4>2
    <3> QED
      BY <3>6, <3>7
  <2>2. /\ written' = written /\ repeats' = repeats
        /\ Created(m) \in hooks' => Created(m) \in hooks
    <3>1. Created("note") /= Created(m)
      BY InboundAssumption DEF Created
    <3> QED
      BY <1>14, <3>1 DEF AttachmentQueued, Keep, chatwootVars
  <2> QED
    BY <1>a, <2>1, <2>2 DEF OnItsWay, Came
<1>15. ASSUME NEW r \in Requests, AttachmentFails(r) PROVE Balanced
  <2>1. /\ queued'[<<m, p>>] + Cardinality(Due(req', m, p))
             <= queued[<<m, p>>] + Cardinality(Due(req, m, p))
    <3>1. /\ \A q \in Requests \ {r} : req'[q] = req[q]
          /\ req'[r].event = req[r].event
          /\ \/ req'[r].pc = "parts" /\ req'[r].next = req[r].next + 1
             \/ req'[r].pc = "text"
      <4>1. req[r].sends \in Nat
        BY EventFacts DEF Request
      <4> QED
        BY <1>15, <4>1, AfterFacts DEF AttachmentFails
    <3>2. /\ At(r, "parts") /\ Msg(r) \in Replies /\ Msg(r) \in Messages
          /\ req[r].next \in DOMAIN Attachments[Msg(r)] /\ Part(r) \in Parts(Msg(r)) /\ Part(r) /= "text"
          /\ Attachments[Msg(r)] \in Seq(Files)
      BY <1>15, PartFacts DEF AttachmentFails
    <3>3. Grows(Msg(r), Part(r))
      BY <1>15 DEF AttachmentFails, Grows
    <3>4. \A q \in Requests : MayQueue(req'[q], m, p) => MayQueue(req[q], m, p)
      <4>1. ASSUME m = Msg(r), NEW i \in DOMAIN Attachments[m], i >= req[r].next + 1
            PROVE  i >= req[r].next
        BY <3>2, <4>1
      <4> QED
        BY <3>1, <3>2, <4>1 DEF MayQueue, At, Msg, Created
    <3>6. CASE m = Msg(r) /\ p = Part(r)
      <4>1. req[r].event = Created(m)
        BY <3>2, <3>6, EventFacts DEF StageInv, At
      <4>2. MayQueue(req[r], m, p)
        BY <3>2, <3>6, <4>1 DEF MayQueue, At, Part
      <4>3. ~MayQueue(req'[r], m, p)
        BY <3>1, <3>2, <3>6, InboundAssumption DEF MayQueue, Part
      <4>4. Cardinality(Due(req', m, p)) + 1 <= Cardinality(Due(req, m, p))
        BY <3>4, <4>2, <4>3, DueDrops
      <4>5. queued'[<<m, p>>] <= queued[<<m, p>>] + 1
        BY <3>2, <3>3, <3>6, GrowsFacts
      <4> QED
        BY <1>a, <4>4, <4>5
    <3>7. CASE ~(m = Msg(r) /\ p = Part(r))
      <4>1. queued'[<<m, p>>] = queued[<<m, p>>]
        BY <3>2, <3>3, <3>7, <1>d, GrowsFacts
      <4>2. Cardinality(Due(req', m, p)) <= Cardinality(Due(req, m, p))
        BY <3>4, DueKeeps
      <4> QED
        BY <1>a, <4>1, <4>2
    <3> QED
      BY <3>6, <3>7
  <2>2. /\ written' = written /\ repeats' = repeats
        /\ Created(m) \in hooks' => Created(m) \in hooks
    <3>1. Created("note") /= Created(m)
      BY InboundAssumption DEF Created
    <3> QED
      BY <1>15, <3>1 DEF AttachmentFails, Keep, chatwootVars, PostNote
  <2> QED
    BY <1>a, <2>1, <2>2 DEF OnItsWay, Came
<1>16. ASSUME NEW r \in Requests, TextQueued(r) PROVE Balanced
  <2>1. /\ queued'[<<m, p>>] + Cardinality(Due(req', m, p))
             <= queued[<<m, p>>] + Cardinality(Due(req, m, p))
    <3>1. /\ \A q \in Requests \ {r} : req'[q] = req[q]
          /\ req'[r].pc \in {"mark", "answered"} /\ req[r].pc = "text"
      BY <1>16, <1>b DEF TextQueued, Reply, Step, At
    <3>2. Msg(r) \in Messages /\ "text" \in Parts(Msg(r))
      BY EventFacts, SlotFacts
    <3>3. Grows(Msg(r), "text")
      BY <1>16, <3>2, QueueGrows DEF TextQueued
    <3>4. \A q \in Requests : MayQueue(req'[q], m, p) => MayQueue(req[q], m, p)
      BY <3>1 DEF MayQueue
    <3>5. CASE m = Msg(r) /\ p = "text"
      <4>1. req[r].event = Created(m)
        BY <3>1, <3>5, EventFacts DEF StageInv
      <4>2. MayQueue(req[r], m, p) /\ ~MayQueue(req'[r], m, p)
        BY <3>1, <3>5, <4>1 DEF MayQueue
      <4>3. Cardinality(Due(req', m, p)) + 1 <= Cardinality(Due(req, m, p))
        BY <3>4, <4>2, DueDrops
      <4>4. queued'[<<m, p>>] <= queued[<<m, p>>] + 1
        BY <3>2, <3>3, <3>5, GrowsFacts
      <4> QED
        BY <1>a, <4>3, <4>4
    <3>6. CASE ~(m = Msg(r) /\ p = "text")
      <4>1. queued'[<<m, p>>] = queued[<<m, p>>]
        BY <3>2, <3>3, <3>6, <1>d, GrowsFacts
      <4>2. Cardinality(Due(req', m, p)) <= Cardinality(Due(req, m, p))
        BY <3>4, DueKeeps
      <4> QED
        BY <1>a, <4>1, <4>2
    <3> QED
      BY <3>5, <3>6
  <2>2. /\ written' = written /\ repeats' = repeats
        /\ Created(m) \in hooks' => Created(m) \in hooks
    <3>1. Created("note") /= Created(m)
      BY InboundAssumption DEF Created
    <3> QED
      BY <1>16, <3>1 DEF TextQueued, Keep, chatwootVars
  <2> QED
    BY <1>a, <2>1, <2>2 DEF OnItsWay, Came
<1>17. ASSUME NEW r \in Requests, TextFails(r) PROVE Balanced
  <2>1. /\ queued'[<<m, p>>] + Cardinality(Due(req', m, p))
             <= queued[<<m, p>>] + Cardinality(Due(req, m, p))
    <3>1. /\ \A q \in Requests \ {r} : req'[q] = req[q]
          /\ req'[r].pc \in {"mark", "answered"} /\ req[r].pc = "text"
      BY <1>17, <1>b DEF TextFails, Reply, Step, At
    <3>2. Msg(r) \in Messages /\ "text" \in Parts(Msg(r))
      BY EventFacts, SlotFacts
    <3>3. Grows(Msg(r), "text")
      BY <1>17 DEF TextFails, Grows
    <3>4. \A q \in Requests : MayQueue(req'[q], m, p) => MayQueue(req[q], m, p)
      BY <3>1 DEF MayQueue
    <3>5. CASE m = Msg(r) /\ p = "text"
      <4>1. req[r].event = Created(m)
        BY <3>1, <3>5, EventFacts DEF StageInv
      <4>2. MayQueue(req[r], m, p) /\ ~MayQueue(req'[r], m, p)
        BY <3>1, <3>5, <4>1 DEF MayQueue
      <4>3. Cardinality(Due(req', m, p)) + 1 <= Cardinality(Due(req, m, p))
        BY <3>4, <4>2, DueDrops
      <4>4. queued'[<<m, p>>] <= queued[<<m, p>>] + 1
        BY <3>2, <3>3, <3>5, GrowsFacts
      <4> QED
        BY <1>a, <4>3, <4>4
    <3>6. CASE ~(m = Msg(r) /\ p = "text")
      <4>1. queued'[<<m, p>>] = queued[<<m, p>>]
        BY <3>2, <3>3, <3>6, <1>d, GrowsFacts
      <4>2. Cardinality(Due(req', m, p)) <= Cardinality(Due(req, m, p))
        BY <3>4, DueKeeps
      <4> QED
        BY <1>a, <4>1, <4>2
    <3> QED
      BY <3>5, <3>6
  <2>2. /\ written' = written /\ repeats' = repeats
        /\ Created(m) \in hooks' => Created(m) \in hooks
    <3>1. Created("note") /= Created(m)
      BY InboundAssumption DEF Created
    <3> QED
      BY <1>17, <3>1 DEF TextFails, Keep, chatwootVars, PostNote
  <2> QED
    BY <1>a, <2>1, <2>2 DEF OnItsWay, Came
<1>18. ASSUME NEW r \in Requests, NoText(r) PROVE Balanced
  <2>1. Cardinality(Due(req', m, p)) <= Cardinality(Due(req, m, p))
    <3>1. \A q \in Requests : MayQueue(req'[q], m, p) => MayQueue(req[q], m, p)
      BY <1>18, <1>b DEF NoText, Reply, Go, Step, MayQueue, At
    <3> QED
      BY <3>1, DueKeeps
  <2>2. /\ queued' = queued /\ written' = written /\ repeats' = repeats
        /\ Created(m) \in hooks' => Created(m) \in hooks
    <3>1. Created("note") /= Created(m)
      BY InboundAssumption DEF Created
    <3> QED
      BY <1>18, <3>1 DEF NoText, Keep, chatwootVars, effectVars
  <2> QED
    BY <1>a, <2>1, <2>2 DEF OnItsWay, Came
<1>19. ASSUME NEW r \in Requests, MarkRead(r) PROVE Balanced
  <2>1. Cardinality(Due(req', m, p)) <= Cardinality(Due(req, m, p))
    <3>1. \A q \in Requests : MayQueue(req'[q], m, p) => MayQueue(req[q], m, p)
      BY <1>19, <1>b DEF MarkRead, Reply, Go, Step, MayQueue, At
    <3> QED
      BY <3>1, DueKeeps
  <2>2. /\ queued' = queued /\ written' = written /\ repeats' = repeats
        /\ Created(m) \in hooks' => Created(m) \in hooks
    <3>1. Created("note") /= Created(m)
      BY InboundAssumption DEF Created
    <3> QED
      BY <1>19, <3>1 DEF MarkRead, Keep, chatwootVars, effectVars
  <2> QED
    BY <1>a, <2>1, <2>2 DEF OnItsWay, Came
<1>20. ASSUME NEW r \in Requests, Answer(r) PROVE Balanced
  <2>1. Cardinality(Due(req', m, p)) <= Cardinality(Due(req, m, p))
    <3>1. \A q \in Requests : MayQueue(req'[q], m, p) => MayQueue(req[q], m, p)
      BY <1>20, <1>b DEF Answer, Idle, MayQueue
    <3> QED
      BY <3>1, DueKeeps
  <2>2. /\ queued' = queued /\ written' = written /\ repeats' = repeats
        /\ Created(m) \in hooks' => Created(m) \in hooks
    <3>1. Created("note") /= Created(m)
      BY InboundAssumption DEF Created
    <3> QED
      BY <1>20, <3>1 DEF Answer, Keep, chatwootVars, effectVars
  <2> QED
    BY <1>a, <2>1, <2>2 DEF OnItsWay, Came
<1>21. CASE UNCHANGED vars
  BY <1>21, <1>a DEF vars, chatwootVars, effectVars
<1> QED
  BY <1>1, <1>2, <1>3, <1>4, <1>5, <1>6, <1>7, <1>8, <1>9, <1>10, <1>11, <1>12, <1>13, <1>14,
     <1>15, <1>16, <1>17, <1>18, <1>19, <1>20, <1>21 DEF Next, Serve

-----------------------------------------------------------------------------

LEMMA InvInductive == IInv /\ [Next]_vars => IInv'
<1> SUFFICES ASSUME IInv, [Next]_vars PROVE IInv'
  OBVIOUS
<1>1. TypeOK /\ StageInv /\ ProgressInv /\ HandledInv /\ CountInv /\ NotesStayHere
  BY DEF IInv
<1>2. TypeOK' /\ StageInv'
  BY <1>1, TypeStep, StageStep
<1>3. ProgressInv' /\ HandledInv' /\ NotesStayHere'
  BY <1>1, ProgressStep, HandledStep, NotesStep
<1>4. CountInv'
  BY <1>1, <1>2, CountStep
<1> QED
  BY <1>2, <1>3, <1>4 DEF IInv

THEOREM Invariance == Spec => []IInv
  BY InitInv, InvInductive, PTL DEF Spec

-----------------------------------------------------------------------------

\* The type invariant of the chat, its webhooks and the requests that serve
\* them.
THEOREM TypeCorrect == Spec => []TypeOK
<1>1. IInv => TypeOK
  BY DEF IInv
<1> QED
  BY <1>1, Invariance, PTL

\* A reply answered with 200 was queued, all of it, or its attendant told
\* (Handle and handleOutgoing).
THEOREM NoLossInSilence == Spec => []NoSilentLoss
<1>1. IInv => NoSilentLoss
  <2> SUFFICES ASSUME IInv, NEW m \in handled \ (excused \cup noted)
               PROVE  /\ \A p \in Parts(m) \ {"text"} : queued[<<m, p>>] > 0
                      /\ m \in WithText => \E p \in Parts(m) : queued[<<m, p>>] > 0
    BY DEF NoSilentLoss
  <2>1. m \in Replies /\ Complete(m)
    BY DEF IInv, TypeOK, HandledInv, Told
  <2>2. \A p \in Parts(m) \ {"text"} : \E i \in DOMAIN Attachments[m] : p = Attachments[m][i]
    BY <2>1 DEF Parts
  <2> QED
    BY <2>1, <2>2 DEF Complete, SomePart
<1> QED
  BY <1>1, Invariance, PTL

\* A part of a reply is queued once for each time its webhook came, however
\* the requests interleave and fail (the handler keeps nothing of the
\* webhooks it answered).
THEOREM DuplicatesHaveCause == Spec => []DuplicatesExcused
<1>1. IInv => DuplicatesExcused
  <2> SUFFICES ASSUME IInv, NEW s \in Slots, s[1] \in Replies
               PROVE  queued[s] <= 1 + repeats[s[1]]
    BY DEF DuplicatesExcused
  <2>1. s[2] \in Parts(s[1]) /\ s = <<s[1], s[2]>> /\ s[1] \in Messages
    BY SlotFacts
  <2>2. queued[s] + OnItsWay(hooks, s[1]) + Cardinality(Due(req, s[1], s[2]))
           <= Came(written, repeats, s[1])
    BY <2>1 DEF IInv, CountInv
  <2>3. queued[s] \in Nat /\ repeats[s[1]] \in Nat /\ Cardinality(Due(req, s[1], s[2])) \in Nat
    BY <2>1, DueType DEF IInv, TypeOK
  <2> QED
    BY <2>2, <2>3 DEF OnItsWay, Came
<1> QED
  BY <1>1, Invariance, PTL

\* A request answered with 500 has had no effect (Handle: errors are returned
\* only before the first send).
THEOREM RefusedChangesNothing == Spec => []RefusedHasNoEffect
<1>1. IInv => RefusedHasNoEffect
  BY DEF IInv, StageInv, RefusedHasNoEffect
<1> QED
  BY <1>1, Invariance, PTL

\* What the connector posted never goes to WhatsApp as a message (the filters
\* of Handle).
THEOREM NotesStay == Spec => []NotesStayHere
<1>1. IInv => NotesStayHere
  BY DEF IInv
<1> QED
  BY <1>1, Invariance, PTL
=============================================================================
