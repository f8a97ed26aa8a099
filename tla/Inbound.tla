------------------------------ MODULE Inbound ------------------------------
(***************************************************************************)
(* Chatwoot to WhatsApp.  Chatwoot reports each message an attendant       *)
(* writes or deletes to an open webhook; the handler of the request        *)
(* filters it, queues the reply and its attachments in the outbox (see     *)
(* Outbox.tla), marks the contact's last message as read and tells of what *)
(* failed in a private note, which comes back through the webhook as well. *)
(* Operational commands come through an authenticated route and answer in  *)
(* the conversation they name.                                             *)
(*                                                                         *)
(* One instance whose connector is enabled, one chat and the operational   *)
(* conversation.  Every attachment has an address.                         *)
(*                                                                         *)
(* Source: internal/chatwoot/inbound/webhook.go, adapters.go, ssrf.go,     *)
(* internal/httpapi/chatwoot.go, chatwoot_ratelimit.go.                    *)
(***************************************************************************)
EXTENDS Naturals, Sequences, FiniteSets

CONSTANTS
    Received,    \* messages of the contact, mirrored into Chatwoot
    Replies,     \* messages the attendant writes
    Files,       \* what can be attached to them
    Attachments, \* those of each reply, in order
    WithText,    \* the replies with a text
    Requests,    \* requests in flight
    MaxReplies,  \* bound: replies the attendant writes
    MaxFaults    \* bound: failed, lost and repeated calls, crashes

ASSUME InboundAssumption ==
    /\ {"note", "confirm"} \cap (Received \cup Replies) = {} /\ Received \cap Replies = {}
    /\ "text" \notin Files
    /\ Attachments \in [Replies -> Seq(Files)]
    /\ \A m \in Replies : \A i, j \in DOMAIN Attachments[m] :
          Attachments[m][i] = Attachments[m][j] => i = j
    /\ IsFiniteSet(Received) /\ IsFiniteSet(Requests)
    /\ WithText \subseteq Replies
    /\ MaxReplies \in Nat
    /\ MaxFaults \in Nat

VARIABLES
    posted,     \* messages of the contact in Chatwoot
    correlated, \* their correlations, oldest first
    written,    \* what the attendant wrote
    deleted,    \* what the attendant deleted
    hooks,      \* webhooks Chatwoot has to send
    req,        \* the requests
    queued,     \* sends in the outbox, for each message and part
    noted,      \* replies a private note tells of
    handled,    \* replies whose webhook was answered in full
    repeats,    \* history: webhooks sent again
    excused,    \* history: replies whose webhook, handler or note was lost
    read,       \* messages marked as read
    revoked,    \* messages deleted from WhatsApp
    faults

chatwootVars == <<posted, correlated, written, deleted>>
effectVars   == <<queued, noted, read, revoked>>
vars == <<chatwootVars, hooks, req, effectVars, handled, repeats, excused, faults>>

-----------------------------------------------------------------------------
(* Values                                                                  *)

Nothing  == "none"
Messages == Received \cup Replies \cup {"note", "confirm"}
Parts(m) == {"text"} \cup (IF m \in Replies THEN {Attachments[m][i] : i \in DOMAIN Attachments[m]} ELSE {})
Slots    == {s \in Messages \X ({"text"} \cup Files) : s[2] \in Parts(s[1])}

Event    == [event: {"created", "updated"}, msg: Messages]
Created(m) == [event |-> "created", msg |-> m]
Updated(m) == [event |-> "updated", msg |-> m]

\* next: the attachment to take.  sends: what was queued.  effect: the
\* request changed something.
Request == [pc: {"idle", "delete", "reply", "parts", "text", "mark", "answered"},
            event: Event, next: Nat \ {0}, sends: Nat, effect: BOOLEAN, code: {0, 200, 500}]

Idle == [pc |-> "idle", event |-> Created("note"), next |-> 1, sends |-> 0,
         effect |-> FALSE, code |-> 0]

\* The source_id the mirror gives what it posts, and what it knows of a
\* conversation: the mirror creates the one of its notices for a contact
\* that has a phone and no identifier.
SourceId(m) == IF m \in Received THEN "WAID" ELSE ""
Conversation(m) == IF m = "confirm" THEN [source |-> "operational", identifier |-> ""]
                                    ELSE [source |-> "jid", identifier |-> ""]

TypeOK ==
    /\ posted \in SUBSET Received
    /\ correlated \in Seq(Received)
    /\ written \in SUBSET Replies
    /\ deleted \in SUBSET (Received \cup Replies)
    /\ hooks \in SUBSET Event
    /\ req \in [Requests -> Request]
    /\ queued \in [Slots -> Nat]
    /\ noted \in SUBSET Replies
    /\ handled \in SUBSET Replies
    /\ repeats \in [Messages -> Nat]
    /\ excused \in SUBSET Replies
    /\ read \in SUBSET Received
    /\ revoked \in SUBSET Messages
    /\ faults \in 0..MaxFaults

Init ==
    /\ posted = {}
    /\ correlated = <<>>
    /\ written = {}
    /\ deleted = {}
    /\ hooks = {}
    /\ req = [r \in Requests |-> Idle]
    /\ queued = [s \in Slots |-> 0]
    /\ noted = {}
    /\ handled = {}
    /\ repeats = [m \in Messages |-> 0]
    /\ excused = {}
    /\ read = {}
    /\ revoked = {}
    /\ faults = 0

-----------------------------------------------------------------------------
(* Helpers                                                                 *)

Fault == faults < MaxFaults /\ faults' = faults + 1

Correlated(m) == \E i \in DOMAIN correlated : correlated[i] = m

Msg(r)    == req[r].event.msg
At(r, pc) == req[r].pc = pc

Step(r, pc, next, sends, effect, code) ==
    req' = [req EXCEPT ![r] = [pc |-> pc, event |-> req[r].event, next |-> next,
                              sends |-> sends, effect |-> effect, code |-> code]]

Go(r, pc)              == Step(r, pc, req[r].next, req[r].sends, req[r].effect, 0)
Reply(r, code, effect) == Step(r, "answered", 1, 0, effect, code)

Queue(m, p) == queued' = [queued EXCEPT ![<<m, p>>] = @ + 1]

\* postPrivateNote: Chatwoot reports the note too.  A note that cannot be
\* posted is only logged.
PostNote(m) ==
    \/ noted' = noted \cup ({m} \cap Replies) /\ hooks' = hooks \cup {Created("note")}
       /\ UNCHANGED <<excused, faults>>
    \/ Fault /\ excused' = excused \cup ({m} \cap Replies) /\ UNCHANGED <<noted, hooks>>

-----------------------------------------------------------------------------
(* Chatwoot and the mirror                                                 *)

\* Mirror.tla: a message whose correlation failed stays without one.
MirrorPosts(m) ==
    /\ m \notin posted
    /\ posted' = posted \cup {m}
    /\ correlated' \in {correlated, Append(correlated, m)}
    /\ hooks' = hooks \cup {Created(m)}
    /\ UNCHANGED <<written, deleted, req, effectVars, handled, repeats, excused, faults>>

Write(m) ==
    /\ m \notin written /\ Cardinality(written) < MaxReplies
    /\ written' = written \cup {m}
    /\ hooks' = hooks \cup {Created(m)}
    /\ UNCHANGED <<posted, correlated, deleted, req, effectVars, handled,
                   repeats, excused, faults>>

Delete(m) ==
    /\ m \in (posted \cup written) \ deleted
    /\ deleted' = deleted \cup {m}
    /\ hooks' = hooks \cup {Updated(m)}
    /\ UNCHANGED <<posted, correlated, written, req, effectVars, handled,
                   repeats, excused, faults>>

\* A webhook about a reply comes again.  (What the filters discard changes
\* nothing the second time either.)
Repeat(e) ==
    /\ e.msg \in written /\ e \notin hooks
    /\ e.event = "updated" => e.msg \in deleted
    /\ hooks' = hooks \cup {e}
    /\ repeats' = [repeats EXCEPT ![e.msg] = @ + 1]
    /\ Fault
    /\ UNCHANGED <<chatwootVars, req, effectVars, handled, excused>>

\* Another is lost, or the limiter answers it with 429: Chatwoot drops it.
Lose(e) ==
    /\ e.msg \in Replies
    /\ hooks' = hooks \ {e}
    /\ excused' = excused \cup {e.msg}
    /\ Fault
    /\ UNCHANGED <<chatwootVars, req, effectVars, handled, repeats>>

\* An authenticated command, whose effects Session.tla and History.tla
\* model, confirms in the operational conversation.
Command ==
    /\ Created("confirm") \notin hooks
    /\ queued[<<"confirm", "text">>] = 0
    /\ hooks' = hooks \cup {Created("confirm")}
    /\ Fault
    /\ UNCHANGED <<chatwootVars, req, effectVars, handled, repeats, excused>>

-----------------------------------------------------------------------------
(* The webhook                                                             *)

OperationalId == "123456"

IsOperational(m) == OperationalId \in {Conversation(m).source, Conversation(m).identifier}

\* Mutant: private notes are not left out.
Discarded_Notes(e) ==
    \/ SourceId(e.msg) = "WAID"
    \/ e.event = "created" /\ IsOperational(e.msg)

\* Private notes, what the mirror posted, and the operational conversation.
Discarded(e) ==
    \/ e.msg = "note"
    \/ SourceId(e.msg) = "WAID"
    \/ e.event = "created" /\ IsOperational(e.msg)

Keep == UNCHANGED <<chatwootVars, handled, repeats>>

Take(r, e, pc, code) ==
    /\ At(r, "idle")
    /\ hooks' = hooks \ {e}
    /\ req' = [req EXCEPT ![r] = [pc |-> pc, event |-> e, next |-> 1, sends |-> 0,
                                 effect |-> FALSE, code |-> code]]
    /\ UNCHANGED <<effectVars, excused, faults>> /\ Keep

Discard(r, e) == Discarded(e) /\ Take(r, e, "answered", 200)

Accept(r, e) == ~Discarded(e) /\ Take(r, e, IF e.event = "created" THEN "reply" ELSE "delete", 0)

\* handleMessageUpdated: the correlation names the message to revoke.  An
\* unknown one, or no session, ends it.
ReverseDelete(r) ==
    /\ At(r, "delete")
    /\ \/ /\ Correlated(Msg(r))
          /\ revoked' = revoked \cup {Msg(r)}
          /\ Reply(r, 200, TRUE)
          /\ UNCHANGED <<hooks, noted, excused, faults>>
       \/ /\ Correlated(Msg(r))
          /\ PostNote(Msg(r))
          /\ Reply(r, 200, TRUE)
          /\ UNCHANGED revoked
       \/ /\ IF Correlated(Msg(r)) THEN Fault ELSE UNCHANGED faults
          /\ Reply(r, 200, FALSE)
          /\ UNCHANGED <<hooks, noted, revoked, excused>>
       \/ /\ Fault
          /\ Reply(r, 500, req[r].effect)
          /\ UNCHANGED <<hooks, noted, revoked, excused>>
    /\ UNCHANGED <<queued, read>> /\ Keep

HasParts(r) == Msg(r) \in Replies /\ Attachments[Msg(r)] # <<>>

\* The recipient and the quoted message are looked up: nothing is queued
\* before both are known.
Prepare(r) ==
    /\ At(r, "reply")
    /\ Go(r, IF HasParts(r) THEN "parts" ELSE "text")
    /\ UNCHANGED <<hooks, effectVars, excused, faults>> /\ Keep

\* Without a recipient the attendant is told.
NoRecipient(r) ==
    /\ At(r, "reply")
    /\ PostNote(Msg(r))
    /\ Reply(r, 200, TRUE)
    /\ UNCHANGED <<queued, read, revoked>> /\ Keep

\* Mutant: the quote is looked up after the attachments.
ReadFails_Late(r) ==
    /\ At(r, "text")
    /\ Fault
    /\ Reply(r, 500, req[r].effect)
    /\ UNCHANGED <<hooks, effectVars, excused>> /\ Keep

\* The database fails under the configuration or the quoted message.
ReadFails(r) ==
    /\ At(r, "reply")
    /\ Fault
    /\ Reply(r, 500, req[r].effect)
    /\ UNCHANGED <<hooks, effectVars, excused>> /\ Keep

-----------------------------------------------------------------------------
(* Sending                                                                 *)

Part(r) == Attachments[Msg(r)][req[r].next]

\* After an attachment the next, or the text.
After(r, sends) == IF req[r].next < Len(Attachments[Msg(r)])
                     THEN Step(r, "parts", req[r].next + 1, sends, TRUE, 0)
                     ELSE Step(r, "text", 1, sends, TRUE, 0)

\* Download, Save and Enqueue.
AttachmentQueued(r) ==
    /\ At(r, "parts")
    /\ Queue(Msg(r), Part(r))
    /\ After(r, req[r].sends + 1)
    /\ UNCHANGED <<hooks, noted, read, revoked, excused, faults>> /\ Keep

\* Mutant: the attachment is tried again.
AttachmentFails_Again(r) ==
    /\ At(r, "parts")
    /\ queued' \in {queued, [queued EXCEPT ![<<Msg(r), Part(r)>>] = @ + 1]}
    /\ PostNote(Msg(r))
    /\ req' = req
    /\ UNCHANGED <<read, revoked>> /\ Keep

\* One of them fails; of an insertion without an answer it is not known
\* whether it was made.
AttachmentFails(r) ==
    /\ At(r, "parts")
    /\ queued' \in {queued, [queued EXCEPT ![<<Msg(r), Part(r)>>] = @ + 1]}
    /\ PostNote(Msg(r))
    /\ After(r, req[r].sends)
    /\ UNCHANGED <<read, revoked>> /\ Keep

Text(r) == Msg(r) \in WithText \cup {"note", "confirm"}

\* The text goes alone, or for want of an attachment.
WantsText(r) == Text(r) /\ req[r].sends = 0

TextQueued(r) ==
    /\ At(r, "text")
    /\ WantsText(r)
    /\ Queue(Msg(r), "text")
    /\ Step(r, "mark", 1, 0, TRUE, 0)
    /\ UNCHANGED <<hooks, noted, read, revoked, excused, faults>> /\ Keep

\* Mutant: nobody is told.
TextFails_Silent(r) ==
    /\ At(r, "text")
    /\ WantsText(r)
    /\ Fault
    /\ Reply(r, 200, req[r].effect)
    /\ UNCHANGED <<hooks, effectVars, excused>> /\ Keep

TextFails(r) ==
    /\ At(r, "text")
    /\ WantsText(r)
    /\ queued' \in {queued, [queued EXCEPT ![<<Msg(r), "text">>] = @ + 1]}
    /\ PostNote(Msg(r))
    /\ Reply(r, 200, TRUE)
    /\ UNCHANGED <<read, revoked>> /\ Keep

NoText(r) ==
    /\ At(r, "text")
    /\ ~WantsText(r)
    /\ IF req[r].sends > 0 THEN Step(r, "mark", 1, 0, TRUE, 0) ELSE Reply(r, 200, req[r].effect)
    /\ UNCHANGED <<hooks, effectVars, excused, faults>> /\ Keep

\* markReadBestEffort: the last message of the conversation with a
\* correlation, best effort.
MarkRead(r) ==
    /\ At(r, "mark")
    /\ read' \in {read, read \cup (IF correlated = <<>> \/ Msg(r) = "confirm" THEN {}
                                    ELSE {correlated[Len(correlated)]})}
    /\ Reply(r, 200, TRUE)
    /\ UNCHANGED <<hooks, queued, noted, revoked, excused, faults>> /\ Keep

\* The answer goes out.
Answer(r) ==
    /\ At(r, "answered")
    /\ req' = [req EXCEPT ![r] = Idle]
    /\ LET e == req[r].event IN
         /\ handled' = IF req[r].code = 200 /\ e.event = "created"
                         THEN handled \cup ({e.msg} \cap Replies) ELSE handled
         /\ excused' = IF req[r].code = 500 THEN excused \cup ({e.msg} \cap Replies) ELSE excused
    /\ UNCHANGED <<chatwootVars, hooks, effectVars, repeats, faults>>

\* The process ends under its requests.
Restart ==
    /\ Fault
    /\ \E r \in Requests : ~At(r, "idle")
    /\ req' = [r \in Requests |-> Idle]
    /\ excused' = excused \cup ({Msg(r) : r \in {s \in Requests : ~At(s, "idle")}} \cap Replies)
    /\ UNCHANGED <<chatwootVars, hooks, effectVars, handled, repeats>>

Serve(r) ==
    \/ \E e \in hooks : Discard(r, e) \/ Accept(r, e)
    \/ ReverseDelete(r)
    \/ Prepare(r) \/ NoRecipient(r) \/ ReadFails(r)
    \/ AttachmentQueued(r) \/ AttachmentFails(r)
    \/ TextQueued(r) \/ TextFails(r) \/ NoText(r)
    \/ MarkRead(r) \/ Answer(r)

Next ==
    \/ \E m \in Received : MirrorPosts(m)
    \/ \E m \in Replies : Write(m)
    \/ \E m \in Received \cup Replies : Delete(m)
    \/ \E e \in Event : Repeat(e)
    \/ \E e \in hooks : Lose(e)
    \/ Command
    \/ \E r \in Requests : Serve(r)
    \/ Restart

Spec == Init /\ [][Next]_vars

-----------------------------------------------------------------------------
(* Properties                                                              *)

\* A reply answered with 200 was queued, all of it, or a private note tells
\* the attendant; unless its webhook, its handler or its note was lost.
\* ("Falha de envio SHALL gerar nota privada", handleOutgoing)
NoSilentLoss ==
    \A m \in handled \ (excused \cup noted) :
        /\ \A p \in Parts(m) \ {"text"} : queued[<<m, p>>] > 0
        /\ m \in WithText => \E p \in Parts(m) : queued[<<m, p>>] > 0

\* However the requests interleave and fail half way, a part of a reply is
\* queued once for each time its webhook came.
\* (the handler keeps nothing of the webhooks it answered)
DuplicatesExcused ==
    \A s \in Slots : s[1] \in Replies => queued[s] <= 1 + repeats[s[1]]

\* A request answered with 500 has had no effect: it can be sent again.
\* (Handle: errors are only returned before the first send)
RefusedHasNoEffect ==
    \A r \in Requests : req[r].pc = "answered" /\ req[r].code = 500 => ~req[r].effect

\* What the handler itself posts never goes to WhatsApp as a message, from
\* the chat; nor does what the mirror posted.
\* (the filters of Handle)
NotesStayHere ==
    \A m \in Received \cup {"note"} : queued[<<m, "text">>] = 0

-----------------------------------------------------------------------------
(* What the specification of the repository says of the program            *)

\* openspec/specs/wzap-chatwoot-inbound/spec.md:41-44, "Apagar dos dois
\* lados": a reply the attendant deletes disappears from WhatsApp.
DeletedIsRevoked ==
    \A r \in Requests :
        /\ req[r].pc = "answered" /\ req[r].code = 200 /\ req[r].event.event = "updated"
        /\ Msg(r) \in handled \ (noted \cup excused)
        => Msg(r) \in revoked

\* webhook.go: commands and the operational conversation have no effect on
\* the open webhook.
OperationalStaysHere == queued[<<"confirm", "text">>] = 0
=============================================================================
