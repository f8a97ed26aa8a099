------------------------------- MODULE Mirror -------------------------------
(***************************************************************************)
(* The Chatwoot mirror: the durable consumer "wzap-chatwoot" of the stream *)
(* and its serial handler, which posts each WhatsApp event to Chatwoot and *)
(* keeps in the database which post stands for which message.              *)
(*                                                                         *)
(* The broker pushes events in order, redelivers at once what is refused   *)
(* and after AckWait what is not answered, and gives an event up after     *)
(* MaxDeliver deliveries.  The handler dedupes by what it remembers having *)
(* handled, lost in a restart, and by the correlations of the database.    *)
(* One instance.                                                           *)
(*                                                                         *)
(* Source: internal/chatwoot/mirror/worker.go,                             *)
(* storage/postgres/chatwoot.go.                                           *)
(***************************************************************************)
EXTENDS Naturals, Sequences, FiniteSets, Faults

CONSTANTS
    Streams,     \* the sequences of events the instance may publish
    MaxDeliver   \* nats.MaxDeliver

Kinds == {"message", "edit", "delete", "read", "connected", "down"}

\* An edit or a deletion names the message it is of.
Event == [kind: Kinds, of: Nat]

ASSUME MirrorAssumption ==
    /\ \A s \in Streams :
        /\ s \in Seq(Event)
        /\ \A e \in DOMAIN s :
            s[e].kind \in {"edit", "delete"} =>
                s[e].of \in 1..(e - 1) /\ s[s[e].of].kind = "message"
    /\ MaxDeliver \in Nat \ {0}
    /\ MaxFaults \in Nat

VARIABLES
    stream,    \* the events of the instance, in the order of the stream
    status,    \* what the broker knows of each
    sent,      \* its deliveries
    buffer,    \* copies delivered and not handled yet
    h,         \* the handler
    seen,      \* Worker.seen
    stamp,     \* Worker.notices: the status of the last notice
    fresh,     \* it is less than reconnectThrottle old
    imported,  \* Worker.imported
    corr,      \* table chatwoot_messages: the post of each event
    late,      \* Puts the database may still commit
    posts,     \* the messages of Chatwoot
    skipped,   \* history: acknowledged without effect, by configuration
    loose,     \* history: a post of the event may be unknown to the database
    down       \* history: it was, and the database could not be asked again

brokerVars == <<stream, status, sent, buffer>>
noticeVars == <<stamp, fresh, imported>>
corrVars   == <<corr, late>>
causeVars  == <<skipped, loose, down>>
mirrorVars == <<brokerVars, h, seen, noticeVars, corrVars, posts, causeVars, faults>>

-----------------------------------------------------------------------------
(* Values                                                                  *)

Events == DOMAIN stream
PostId == 1..Len(posts)
None   == 0

Steps == {"idle", "begin", "lookup", "resolve", "act",
          "put", "reread", "clean", "reput", "finish"}

\* post: the one created, or the one to delete.
Handler == [ev: Events \cup {None}, pc: Steps, post: PostId \cup {None}]

Idle == [ev |-> None, pc |-> "idle", post |-> None]

MirrorTypeOK ==
    /\ stream \in Streams
    /\ status \in [Events -> {"new", "out", "due", "acked", "dropped"}]
    /\ sent \in [Events -> 0..MaxDeliver]
    /\ buffer \in Seq(Events)
    /\ h \in Handler
    /\ seen \in SUBSET Events
    /\ stamp \in {"none", "connected", "down"}
    /\ fresh \in BOOLEAN
    /\ imported \in BOOLEAN
    /\ corr \in [Events -> PostId \cup {None}]
    /\ late \in [Events -> PostId \cup {None}]
    /\ posts \in Seq([ev: Events, shown: BOOLEAN])
    /\ skipped \in SUBSET Events
    /\ loose \in SUBSET Events
    /\ down \in SUBSET Events
    /\ faults \in 0..MaxFaults

MirrorInit ==
    /\ stream \in Streams
    /\ status = [e \in Events |-> "new"]
    /\ sent = [e \in Events |-> 0]
    /\ buffer = <<>>
    /\ h = Idle
    /\ seen = {}
    /\ stamp = "none"
    /\ fresh = FALSE
    /\ imported = FALSE
    /\ corr = [e \in Events |-> None]
    /\ late = [e \in Events |-> None]
    /\ posts = <<>>
    /\ skipped = {}
    /\ loose = {}
    /\ down = {}
    /\ faults = 0

-----------------------------------------------------------------------------
(* Helpers                                                                 *)

Kind(e) == stream[e].kind
Of(e)   == stream[e].of

IsNotice(e) == Kind(e) \in {"connected", "down"}

Posts(e) == {p \in PostId : posts[p].ev = e}
Shown(e) == {p \in Posts(e) : posts[p].shown}

NoFault == UNCHANGED faults

At(pc) == h.pc = pc
Goto(pc) == h' = [h EXCEPT !.pc = pc]

\* After the configuration, the filters and the seen set.
Second == CASE Kind(h.ev) \in {"edit", "delete"} -> "lookup"
            [] OTHER -> "resolve"

\* After the correlation, or the Chatwoot stack of the instance.
\* Mutant: a deletion returns once it has found its original.
AfterLookup_Returns == IF Kind(h.ev) = "message" THEN "act" ELSE "finish"

AfterLookup  == IF Kind(h.ev) = "message" THEN "act" ELSE "resolve"
AfterResolve == IF Kind(h.ev) = "message" THEN "lookup" ELSE "act"

\* An answer to the broker counts while the event is pending.
Pending(e) == status[e] \in {"out", "due"}

Again(e) == IF sent[e] < MaxDeliver THEN "due" ELSE "dropped"

Reply(e, s) == status' = IF Pending(e) THEN [status EXCEPT ![e] = s] ELSE status

Ack == Reply(h.ev, "acked")

\* A Nak has no delay.
Nak == Reply(h.ev, Again(h.ev))

\* The handler returns: nil is acknowledged, an error refused.  The
\* acknowledgement is not waited for and can be lost.
Return ==
    /\ h' = Idle
    /\ \/ Ack /\ NoFault
       \/ Fault /\ UNCHANGED status

\* Mutant: a failure is acknowledged.
ReturnError_Acked ==
    /\ h' = Idle
    /\ Ack
    /\ Fault

ReturnError ==
    /\ h' = Idle
    /\ Nak
    /\ Fault

MarkSeen == seen' = seen \cup {h.ev}

Post(e) == posts' = Append(posts, [ev |-> e, shown |-> TRUE])
Hide(p) == posts' = [posts EXCEPT ![p].shown = FALSE]

\* The database does not hold the post just created.
Uncorrelated == h.post # None /\ Kind(h.ev) \in {"message", "edit"} /\ corr[h.ev] # h.post

Loosen == loose' = loose \cup {h.ev}

KeepBroker == UNCHANGED <<stream, sent, buffer>>

-----------------------------------------------------------------------------
(* The broker                                                              *)

\* New events are pushed in the order of the stream.
Deliver(e) ==
    /\ \/ status[e] = "due"
       \/ status[e] = "new" /\ \A f \in Events : f < e => status[f] # "new"
    /\ status' = [status EXCEPT ![e] = "out"]
    /\ sent' = [sent EXCEPT ![e] = @ + 1]
    /\ buffer' = Append(buffer, e)
    /\ UNCHANGED <<stream, h, seen, noticeVars, corrVars, posts, causeVars, faults>>

\* Nothing is in the process for the event: its copy was lost.
Absent(e) == h.ev # e /\ \A i \in DOMAIN buffer : buffer[i] # e

\* AckWait passes without an answer; the handler may still be at work.
AckWaitPasses(e) ==
    /\ status[e] = "out"
    /\ status' = [status EXCEPT ![e] = Again(e)]
    /\ IF Absent(e) THEN NoFault ELSE Fault
    /\ UNCHANGED <<stream, sent, buffer, h, seen, noticeVars, corrVars, posts, causeVars>>

-----------------------------------------------------------------------------
(* Every handler: connectorConfig, filters, alreadySeen                    *)

\* handleNATSMessage takes the next copy.  The subscription runs one
\* callback at a time.
Take ==
    /\ At("idle")
    /\ buffer # <<>>
    /\ h' = [ev |-> Head(buffer), pc |-> "begin", post |-> None]
    /\ buffer' = Tail(buffer)
    /\ UNCHANGED <<stream, status, sent, seen, noticeVars, corrVars, posts, causeVars, faults>>

\* The connector is not configured or not enabled, the sender filtered, or
\* the flag of deletions or reads off.
BeginSkips ==
    /\ At("begin")
    /\ Return
    /\ skipped' = skipped \cup {h.ev}
    /\ KeepBroker
    /\ UNCHANGED <<seen, noticeVars, corrVars, posts, loose, down>>

BeginFails ==
    /\ At("begin")
    /\ ReturnError
    /\ KeepBroker
    /\ UNCHANGED <<seen, noticeVars, corrVars, posts, causeVars>>

BeginSeen ==
    /\ At("begin")
    /\ h.ev \in seen
    /\ Return
    /\ KeepBroker
    /\ UNCHANGED <<seen, noticeVars, corrVars, posts, causeVars>>

BeginEvent ==
    /\ At("begin")
    /\ h.ev \notin seen
    /\ ~IsNotice(h.ev)
    /\ Goto(Second)
    /\ NoFault
    /\ KeepBroker
    /\ UNCHANGED <<status, seen, noticeVars, corrVars, posts, causeVars>>

\* Mutant: any recent notice holds the next one back.
Throttled_Any(s) == stamp # "none" /\ fresh

Throttled(s) == stamp = s /\ fresh

\* Any notice but "connected" lets the next pairing import its history, even
\* when it is itself throttled.
BeginNotice ==
    /\ At("begin")
    /\ h.ev \notin seen
    /\ IsNotice(h.ev)
    /\ imported' = (imported /\ Kind(h.ev) = "connected")
    /\ IF Throttled(Kind(h.ev))
         THEN MarkSeen /\ Return
         ELSE Goto("resolve") /\ NoFault /\ UNCHANGED <<status, seen>>
    /\ KeepBroker
    /\ UNCHANGED <<stamp, fresh, corrVars, posts, causeVars>>

-----------------------------------------------------------------------------
(* runtimeFor, the contact and the conversation                            *)

Resolve ==
    /\ At("resolve")
    /\ Goto(AfterResolve)
    /\ KeepBroker
    /\ UNCHANGED <<status, seen, noticeVars, corrVars, posts, causeVars, faults>>

\* No inbox, or the contact cannot be made: the event is acknowledged.
ResolveSkips ==
    /\ At("resolve")
    /\ Return
    /\ skipped' = skipped \cup {h.ev}
    /\ KeepBroker
    /\ UNCHANGED <<seen, noticeVars, corrVars, posts, loose, down>>

ResolveFails ==
    /\ At("resolve")
    /\ ReturnError
    /\ KeepBroker
    /\ UNCHANGED <<seen, noticeVars, corrVars, posts, causeVars>>

-----------------------------------------------------------------------------
(* GetByWAKey                                                              *)

\* A message or an edit that was mirrored before.
LookupMirrored ==
    /\ At("lookup")
    /\ Kind(h.ev) \in {"message", "edit"}
    /\ corr[h.ev] # None
    /\ MarkSeen
    /\ Return
    /\ KeepBroker
    /\ UNCHANGED <<noticeVars, corrVars, posts, causeVars>>

\* Mutant: the message is created without asking for its correlation.
LookupMessage_Blind ==
    /\ At("lookup")
    /\ Kind(h.ev) = "message"
    /\ Goto(AfterLookup)
    /\ KeepBroker
    /\ UNCHANGED <<status, seen, noticeVars, corrVars, posts, causeVars, faults>>

LookupMessage ==
    /\ At("lookup")
    /\ Kind(h.ev) = "message"
    /\ corr[h.ev] = None
    /\ Goto(AfterLookup)
    /\ KeepBroker
    /\ UNCHANGED <<status, seen, noticeVars, corrVars, posts, causeVars, faults>>

\* Nothing of the message can be shown: messageContent renders no text, and
\* there is neither a media nor a thumbnail.
LookupUnmappable ==
    /\ At("lookup")
    /\ Kind(h.ev) = "message"
    /\ corr[h.ev] = None
    /\ Return
    /\ skipped' = skipped \cup {h.ev}
    /\ KeepBroker
    /\ UNCHANGED <<seen, noticeVars, corrVars, posts, loose, down>>

\* An edit or a deletion needs the post of the original.
LookupOriginal ==
    /\ At("lookup")
    /\ Kind(h.ev) \in {"edit", "delete"}
    /\ Kind(h.ev) = "edit" => corr[h.ev] = None
    /\ corr[Of(h.ev)] # None
    /\ h' = [h EXCEPT !.pc = AfterLookup,
                      !.post = IF Kind(h.ev) = "delete" THEN corr[Of(h.ev)] ELSE None]
    /\ KeepBroker
    /\ UNCHANGED <<status, seen, noticeVars, corrVars, posts, causeVars, faults>>

\* Without it the event is acknowledged, and not remembered.
LookupUnanchored ==
    /\ At("lookup")
    /\ Kind(h.ev) \in {"edit", "delete"}
    /\ Kind(h.ev) = "edit" => corr[h.ev] = None
    /\ corr[Of(h.ev)] = None
    /\ Return
    /\ KeepBroker
    /\ UNCHANGED <<seen, noticeVars, corrVars, posts, causeVars>>

LookupFails ==
    /\ At("lookup")
    /\ ReturnError
    /\ KeepBroker
    /\ UNCHANGED <<seen, noticeVars, corrVars, posts, causeVars>>

-----------------------------------------------------------------------------
(* The call to Chatwoot                                                    *)

\* CreateMessage, or CreateMessageWithAttachment.
Create ==
    /\ At("act")
    /\ Kind(h.ev) \notin {"delete", "read"}
    /\ Post(h.ev)
    /\ h' = [h EXCEPT !.pc = IF IsNotice(h.ev) THEN "finish" ELSE "put",
                      !.post = Len(posts) + 1]
    /\ KeepBroker
    /\ UNCHANGED <<status, seen, noticeVars, corrVars, causeVars, faults>>

\* Chatwoot took the message and its answer was lost or late.
CreateUnanswered ==
    /\ At("act")
    /\ Kind(h.ev) \notin {"delete", "read"}
    /\ Post(h.ev)
    /\ ReturnError
    /\ Loosen
    /\ KeepBroker
    /\ UNCHANGED <<seen, noticeVars, corrVars, skipped, down>>

HandleDelete ==
    /\ At("act")
    /\ Kind(h.ev) = "delete"
    /\ Hide(h.post)
    /\ \/ Goto("finish") /\ UNCHANGED <<status, faults>>
       \/ ReturnError
    /\ KeepBroker
    /\ UNCHANGED <<seen, noticeVars, corrVars, causeVars>>

\* UpdateLastSeen.
Read ==
    /\ At("act")
    /\ Kind(h.ev) = "read"
    /\ Goto("finish")
    /\ KeepBroker
    /\ UNCHANGED <<status, seen, noticeVars, corrVars, posts, causeVars, faults>>

ActFails ==
    /\ At("act")
    /\ ReturnError
    /\ KeepBroker
    /\ UNCHANGED <<seen, noticeVars, corrVars, posts, causeVars>>

-----------------------------------------------------------------------------
(* storeCorrelation                                                        *)

KeepAtStore == KeepBroker /\ UNCHANGED <<status, seen, noticeVars>>

\* Put is an upsert.
Correlate == corr' = [corr EXCEPT ![h.ev] = h.post]

Put ==
    /\ At("put")
    /\ Correlate
    /\ Goto("finish")
    /\ KeepAtStore
    /\ UNCHANGED <<late, posts, causeVars, faults>>

\* It fails: nothing is written, or it is and the answer is lost, or the
\* database still has it to commit.
PutFails ==
    /\ At("put")
    /\ \/ UNCHANGED corrVars
       \/ Correlate /\ UNCHANGED late
       \/ late' = [late EXCEPT ![h.ev] = h.post] /\ UNCHANGED corr
    /\ Goto("reread")
    /\ Fault
    /\ KeepAtStore
    /\ UNCHANGED <<posts, causeVars>>

Commit(e) ==
    /\ late[e] # None
    /\ corr' = [corr EXCEPT ![e] = late[e]]
    /\ late' = [late EXCEPT ![e] = None]
    /\ KeepAtStore
    /\ UNCHANGED <<h, posts, causeVars, faults>>

\* Its own row needs nothing more, another's row means the post is a
\* duplicate, no row means one more try.
AfterReread ==
    CASE corr[h.ev] = None   -> "reput"
      [] corr[h.ev] = h.post -> "finish"
      [] OTHER               -> "clean"

Reread ==
    /\ At("reread")
    /\ Goto(AfterReread)
    /\ KeepAtStore
    /\ UNCHANGED <<corrVars, posts, causeVars, faults>>

\* The database is down: the error of the Put is returned.
RereadFails ==
    /\ At("reread")
    /\ ReturnError
    /\ down' = IF Uncorrelated THEN down \cup {h.ev} ELSE down
    /\ KeepBroker
    /\ UNCHANGED <<seen, noticeVars, corrVars, posts, skipped, loose>>

CleanDuplicate ==
    /\ At("clean")
    /\ Hide(h.post)
    /\ Goto("finish")
    /\ KeepAtStore
    /\ UNCHANGED <<corrVars, causeVars, faults>>

CleanDuplicateFails ==
    /\ At("clean")
    /\ Loosen
    /\ Goto("finish")
    /\ Fault
    /\ KeepAtStore
    /\ UNCHANGED <<corrVars, posts, skipped, down>>

Reput ==
    /\ At("reput")
    /\ Correlate
    /\ Goto("finish")
    /\ KeepAtStore
    /\ UNCHANGED <<late, posts, causeVars, faults>>

\* The message stays, without a correlation.
ReputFails ==
    /\ At("reput")
    /\ Loosen
    /\ Goto("finish")
    /\ Fault
    /\ KeepAtStore
    /\ UNCHANGED <<corrVars, posts, skipped, down>>

-----------------------------------------------------------------------------
(* The end of a handler, and the rest of the world                         *)

\* stampNotice, markSeen, and after a connection maybeAutoImport, once until
\* the next notice that is not one.
Finish ==
    /\ At("finish")
    /\ MarkSeen
    /\ Return
    /\ IF IsNotice(h.ev)
         THEN /\ stamp' = Kind(h.ev)
              /\ fresh' = TRUE
              /\ imported' = (imported \/ Kind(h.ev) = "connected")
         ELSE UNCHANGED noticeVars
    /\ KeepBroker
    /\ UNCHANGED <<corrVars, posts, causeVars>>

ThrottlePasses ==
    /\ fresh
    /\ fresh' = FALSE
    /\ UNCHANGED <<brokerVars, h, seen, stamp, imported, corrVars, posts, causeVars, faults>>

\* The process ends and another starts: Chatwoot, the database and the
\* broker keep theirs.
RestartWorker ==
    /\ Fault
    /\ h' = Idle
    /\ buffer' = <<>>
    /\ seen' = {}
    /\ stamp' = "none"
    /\ fresh' = FALSE
    /\ imported' = FALSE
    /\ IF Uncorrelated THEN Loosen ELSE UNCHANGED loose
    /\ UNCHANGED <<stream, status, sent, corrVars, posts, skipped, down>>

Begin   == BeginSkips \/ BeginFails \/ BeginSeen \/ BeginEvent \/ BeginNotice
Look    == LookupMirrored \/ LookupMessage \/ LookupUnmappable \/ LookupOriginal
             \/ LookupUnanchored \/ LookupFails
Stack   == Resolve \/ ResolveSkips \/ ResolveFails
Act     == Create \/ CreateUnanswered \/ HandleDelete \/ Read \/ ActFails
Store   == Put \/ PutFails \/ Reread \/ RereadFails \/ CleanDuplicate \/ CleanDuplicateFails \/ Reput \/ ReputFails

MirrorNext ==
    \/ \E e \in Events : Deliver(e) \/ AckWaitPasses(e) \/ Commit(e)
    \/ Take \/ Begin \/ Look \/ Stack \/ Act \/ Store \/ Finish
    \/ ThrottlePasses
    \/ RestartWorker

MirrorSpec == MirrorInit /\ [][MirrorNext]_mirrorVars

-----------------------------------------------------------------------------
(* Properties                                                              *)

Chat(e) == Kind(e) \in {"message", "edit"}

\* A message or an edit is visible once in Chatwoot, unless a post of it
\* escaped the database: created and not answered, or not correlated before
\* a crash, or while the database was down.
\* (storeCorrelation, alreadySeen, GetByWAKey)
DuplicatesExcused ==
    \A e \in Events : Chat(e) /\ Cardinality(Shown(e)) > 1 => e \in loose \cup down

\* Once the deletion of a message is settled the message is not visible,
\* unless the deletion was not applied by configuration, a post of the
\* message is loose, or the message itself was redelivered and so may have
\* been posted after its deletion was skipped.  (HandleDelete)
RevokedIsHidden ==
    \A d \in Events :
        (Kind(d) = "delete" /\ status[d] = "acked" /\ Shown(Of(d)) # {}) =>
            d \in skipped \/ Of(d) \in loose \cup down \/ sent[Of(d)] > 1

\* A message the consumer is done with was posted, unless the configuration
\* or the contact dropped it or it failed MaxDeliver times.
\* (handleNATSMessage: errors Nak, skips and successes Ack)
MissedHasCause ==
    \A e \in Events :
        (Kind(e) = "message" /\ Posts(e) = {}) =>
            /\ status[e] = "acked" => e \in skipped
            /\ status[e] = "dropped" => sent[e] = MaxDeliver

Notices == {e \in Events : IsNotice(e)}

\* When every connection event was handled at its first delivery, the last
\* notice the operators read tells the status of the last event, whatever
\* was throttled in between and whether the process restarted or not.
\* (throttled compares statuses, stampNotice comes after the post)
LastNoticeTrue ==
    LET plain == \A e \in Notices : status[e] = "acked" /\ sent[e] = 1 /\ e \notin skipped
        shown == {p \in PostId : IsNotice(posts[p].ev)}
        last(S) == CHOOSE x \in S : \A y \in S : y <= x
    IN  Notices # {} /\ plain =>
            /\ shown # {}
            /\ Kind(posts[last(shown)].ev) = Kind(last(Notices))

-----------------------------------------------------------------------------
(* What a comment says of the program                                      *)

\* worker.go:1097: when the database is down after the Create, "the
\* redelivery pre-create Get fails before Create, so no duplicate is
\* possible".
NoDuplicateAfterDown ==
    \A e \in Events \ loose : e \in down => Cardinality(Shown(e)) <= 1

=============================================================================
