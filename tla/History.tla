------------------------------ MODULE History ------------------------------
(***************************************************************************)
(* The import of WhatsApp history into Chatwoot.  The session folds each   *)
(* chunk of history into a feed in memory; three triggers (an operator's   *)
(* request, the pairing, the cron of lost messages) snapshot the feed,     *)
(* write what Chatwoot lacks straight into its database and clear it.      *)
(* Meanwhile the mirror posts live messages and connection notices through *)
(* Chatwoot's API, and both sides look a conversation up before they       *)
(* create one.                                                             *)
(*                                                                         *)
(* One instance, one individual chat and the operational conversation.  The *)
(* mirror knows a contact by its phone, the import by its identifier: a    *)
(* chat can have a contact of each.  (Contacts are merged only for         *)
(* Brazilian numbers and when the connector says so: not modelled.)        *)
(*                                                                         *)
(* Source: internal/session/historysync.go,                                *)
(* session/whatsmeow/historysync.go, chatwoot/import/import.go, run.go,    *)
(* scheduler.go, pg.go, cmd/wzap/main.go (chatwootHistoryImporter),        *)
(* chatwoot/conversations/conversations.go, locker.go,                     *)
(* chatwoot/contacts/contacts.go, instancelock/locker.go.                  *)
(***************************************************************************)
EXTENDS Naturals, Sequences, FiniteSets

CONSTANTS
    Synced,      \* the messages a history sync carries
    Old,         \* those older than the window of the cron
    Unwritable,  \* those no run writes: without text, beyond days_limit
    Live,        \* the messages the mirror receives
    Triggers,    \* "manual", "auto", "cron"
    Reopen,      \* the values of ReopenConversation
    ChunkSize,   \* messageChunkSize
    MaxAttempts, \* displayIDAttempts
    MaxConvs,    \* bound: conversations in Chatwoot
    MaxFaults    \* bound: failed calls, lost answers, slow holders, crashes

ASSUME HistoryAssumption ==
    /\ Old \subseteq Synced
    /\ Unwritable \subseteq Synced
    /\ {"none", "notice"} \cap Live = {}
    /\ Triggers \subseteq {"manual", "auto", "cron"}
    /\ Reopen \subseteq BOOLEAN
    /\ {ChunkSize, MaxAttempts, MaxConvs} \subseteq Nat \ {0}
    /\ MaxFaults \in Nat

VARIABLES
    feed,      \* HistorySyncAccumulator
    arrived,   \* history: messages a chunk brought
    waiting,   \* triggers at the lock of the instance
    run,       \* the run that holds it
    imports,   \* rows the import wrote for each message
    mirrored,  \* messages the mirror posted
    missed,    \* those it dropped
    job,       \* what the handler of the mirror is at
    convs,     \* the conversations of Chatwoot
    contacts,  \* the contacts of the chat
    cache,     \* Resolver.cache
    lock,      \* Resolver.locks
    call,      \* the Resolve of the run and of the mirror
    erased,    \* history: messages a reset or a crash took out of the feed unwritten
    slips,     \* history: contacts whose conversation may be created twice
    reopen,    \* ReopenConversation of the connector
    faults

feedVars  == <<feed, arrived, erased>>
runVars   == <<waiting, run, imports>>
liveVars  == <<mirrored, missed, job>>
convVars  == <<convs, contacts, reopen, cache, lock, call, slips>>
vars == <<feedVars, runVars, liveVars, convVars, faults>>

-----------------------------------------------------------------------------
(* Values                                                                  *)

Messages == Synced \cup Live
Keys     == {"chat", "ops"}
Contacts == {"phone", "ident", "ops"}
Callers  == {"run", "mirror"}
Nothing  == "none"
ConvId   == 1..MaxConvs

\* chunk: the rows to insert.  display: the display_id to insert with.
\* some: a run of the cron wrote something.  lost: what the mirror had
\* missed when it read the feed.
Run == [by: Triggers \cup {Nothing},
        pc: {"idle", "config", "started", "snapshot", "lookup", "select",
             "max", "conversation", "insert", "reset", "result"},
        snap: SUBSET Synced, todo: SUBSET Synced, chunk: SUBSET Synced,
        display: 0..(MaxConvs + 1), tries: 0..(MaxAttempts - 1), some: BOOLEAN,
        lost: SUBSET Live]

NoRun == [by |-> Nothing, pc |-> "idle", snap |-> {}, todo |-> {}, chunk |-> {},
          display |-> 0, tries |-> 0, some |-> FALSE, lost |-> {}]

\* stale: its Resolver was dropped from the cache of the mirror meanwhile.
Call == [pc: {"idle", "cache", "lock", "list", "create", "done", "failed"},
         key: Keys, contact: Contacts, stale: BOOLEAN]

NoCall == [pc |-> "idle", key |-> "ops", contact |-> "ops", stale |-> FALSE]

Conversation == [contact: Contacts, status: {"open", "resolved"}]

TypeOK ==
    /\ feed \in SUBSET Synced
    /\ arrived \in SUBSET Synced
    /\ waiting \in SUBSET Triggers
    /\ run \in Run
    /\ imports \in [Messages -> 0..2]
    /\ mirrored \in SUBSET Live
    /\ missed \in SUBSET Live
    /\ job \in Live \cup {Nothing, "notice"}
    /\ convs \in Seq(Conversation) /\ Len(convs) <= MaxConvs
    /\ contacts \in SUBSET (Contacts \ {"ops"})
    /\ cache \in [Keys -> ConvId \cup {0}]
    /\ lock \in [Keys -> Callers \cup {Nothing}]
    /\ call \in [Callers -> Call]
    /\ erased \in SUBSET Synced
    /\ slips \in SUBSET Contacts
    /\ reopen \in Reopen
    /\ faults \in 0..MaxFaults

Init ==
    /\ feed = {}
    /\ arrived = {}
    /\ waiting = {}
    /\ run = NoRun
    /\ imports = [m \in Messages |-> 0]
    /\ mirrored = {}
    /\ missed = {}
    /\ job = Nothing
    /\ convs = <<>>
    /\ contacts = {}
    /\ cache = [k \in Keys |-> 0]
    /\ lock = [k \in Keys |-> Nothing]
    /\ call = [c \in Callers |-> NoCall]
    /\ erased = {}
    /\ slips = {}
    /\ reopen \in Reopen
    /\ faults = 0

-----------------------------------------------------------------------------
(* Helpers                                                                 *)

Fault == faults < MaxFaults /\ faults' = faults + 1

Of(x)     == {i \in DOMAIN convs : convs[i].contact = x}
Open(x)   == {i \in Of(x) : convs[i].status = "open"}
Newest(S) == CHOOSE i \in S : \A j \in S : j <= i

\* The import and the live mirror give a message the same source_id.
InChatwoot(m) == m \in mirrored \/ imports[m] > 0

\* A conversation created through the API or in the database.
NewConv(x) ==
    /\ Len(convs) < MaxConvs
    /\ convs' = Append(convs, [contact |-> x, status |-> "open"])

-----------------------------------------------------------------------------
(* conversations.Resolver                                                  *)

Calling(c, pc) == call[c].pc = pc
Step(c, pc)    == call' = [call EXCEPT ![c].pc = pc]
CallKey(c)     == call[c].key
CallContact(c) == call[c].contact

ContactsOf(k) == IF k = "ops" THEN {"ops"} ELSE Contacts \ {"ops"}

\* What a caller does to a Resolver that is no longer the current one
\* changes nothing that later callers see.
Store(c, i) == cache' = IF call[c].stale THEN cache ELSE [cache EXCEPT ![CallKey(c)] = i]

Cached(c) == IF call[c].stale THEN 0 ELSE cache[CallKey(c)]

\* The token of the holder must still be there.
Release(c) == lock' = IF ~call[c].stale /\ lock[CallKey(c)] = c
                        THEN [lock EXCEPT ![CallKey(c)] = Nothing]
                        ELSE lock

Resolve(c, k, x) ==
    call' = [call EXCEPT ![c] = [pc |-> "cache", key |-> k, contact |-> x, stale |-> FALSE]]

Others == UNCHANGED <<feedVars, runVars, liveVars, contacts, reopen>>

\* A cached conversation is validated: it must be open.
CheckCache(c) ==
    /\ Calling(c, "cache")
    /\ LET good == Cached(c) # 0 /\ convs[Cached(c)].status = "open"
       IN  /\ Step(c, IF good THEN "done" ELSE "lock")
           /\ IF good THEN UNCHANGED cache ELSE Store(c, 0)
    /\ UNCHANGED <<convs, lock, slips, faults>> /\ Others

\* Mutant: the key is not held.
Acquire_Free(c) ==
    /\ Calling(c, "lock")
    /\ Step(c, IF Cached(c) # 0 THEN "done" ELSE "list")
    /\ UNCHANGED <<convs, cache, lock, slips, faults>> /\ Others

\* With the key the cache is read again, and what it holds not validated.
Acquire(c) ==
    /\ Calling(c, "lock")
    /\ call[c].stale \/ lock[CallKey(c)] = Nothing
    /\ IF Cached(c) # 0
         THEN Step(c, "done") /\ UNCHANGED lock
         ELSE /\ Step(c, "list")
              /\ lock' = IF call[c].stale THEN lock ELSE [lock EXCEPT ![CallKey(c)] = c]
    /\ UNCHANGED <<convs, cache, slips, faults>> /\ Others

\* The wait is bounded.
AcquireTimeout(c) ==
    /\ Calling(c, "lock")
    /\ lock[CallKey(c)] # Nothing
    /\ Step(c, "failed")
    /\ UNCHANGED <<convs, cache, lock, slips, faults>> /\ Others

Writing == run.pc \in {"max", "conversation"}

\* An open conversation is used, a resolved one opened again if the
\* connector says so.
List(c) ==
    /\ Calling(c, "list")
    /\ LET x == CallContact(c) IN
         \/ /\ Open(x) # {}
            /\ Store(c, Newest(Open(x)))
            /\ Release(c)
            /\ Step(c, "done")
            /\ UNCHANGED <<convs, slips>>
         \/ /\ Open(x) = {} /\ Of(x) # {} /\ reopen
            /\ convs' = [convs EXCEPT ![Newest(Of(x))].status = "open"]
            /\ Store(c, Newest(Of(x)))
            /\ Release(c)
            /\ Step(c, "done")
            /\ UNCHANGED slips
         \/ /\ Open(x) = {} /\ (Of(x) = {} \/ ~reopen)
            /\ Step(c, "create")
            /\ slips' = IF x # "ops" /\ Writing THEN slips \cup {x} ELSE slips
            /\ UNCHANGED <<convs, cache, lock>>
    /\ UNCHANGED faults /\ Others

Create(c) ==
    /\ Calling(c, "create")
    /\ NewConv(CallContact(c))
    /\ Store(c, Len(convs) + 1)
    /\ Release(c)
    /\ Step(c, "done")
    /\ UNCHANGED <<slips, faults>> /\ Others

\* Chatwoot made it, and its answer was lost.
CreateUnanswered(c) ==
    /\ Calling(c, "create")
    /\ NewConv(CallContact(c))
    /\ Release(c)
    /\ Step(c, "failed")
    /\ Fault
    /\ UNCHANGED <<cache, slips>> /\ Others

ResolveFails(c) ==
    /\ call[c].pc \in {"list", "create"}
    /\ Release(c)
    /\ Step(c, "failed")
    /\ Fault
    /\ UNCHANGED <<convs, cache, slips>> /\ Others

\* The holder outlives defaultLockTTL.
LockExpires(k) ==
    /\ lock[k] # Nothing
    /\ lock' = [lock EXCEPT ![k] = Nothing]
    /\ slips' = slips \cup ContactsOf(k)
    /\ Fault
    /\ UNCHANGED <<convs, cache, call>> /\ Others

\* Worker.Clear, or a changed configuration: the next event builds another
\* Resolver, with a cache and locks of its own.
NewResolver ==
    /\ cache' = [k \in Keys |-> 0]
    /\ lock' = [k \in Keys |-> Nothing]
    /\ call' = [c \in Callers |->
                  IF Calling(c, "idle") THEN NoCall ELSE [call[c] EXCEPT !.stale = TRUE]]
    /\ slips' = slips \cup {CallContact(c) : c \in {d \in Callers : ~Calling(d, "idle")}}
    /\ UNCHANGED convs

Reconfigure ==
    /\ NewResolver
    /\ Fault
    /\ Others

\* An agent closes the conversation.
Close(i) ==
    /\ i \in DOMAIN convs /\ convs[i].status = "open"
    /\ convs' = [convs EXCEPT ![i].status = "resolved"]
    /\ Fault
    /\ UNCHANGED <<cache, lock, call, slips>> /\ Others

Resolution ==
    \/ \E c \in Callers :
         \/ CheckCache(c) \/ Acquire(c) \/ AcquireTimeout(c)
         \/ List(c) \/ Create(c) \/ CreateUnanswered(c) \/ ResolveFails(c)
    \/ \E k \in Keys : LockExpires(k)
    \/ Reconfigure
    \/ \E i \in ConvId : Close(i)

-----------------------------------------------------------------------------
(* The mirror (Mirror.tla has its retries and correlations)                *)

\* A live message: a contact with its phone, one of them if there are two.
MirrorMessage(m, x) ==
    /\ job = Nothing
    /\ m \in Live \ (mirrored \cup missed)
    /\ IF contacts = {} THEN x = "phone" ELSE x \in contacts
    /\ job' = m
    /\ contacts' = contacts \cup {x}
    /\ Resolve("mirror", "chat", x)
    /\ UNCHANGED <<mirrored, missed, convs, reopen, cache, lock, slips>>
    /\ UNCHANGED <<feedVars, runVars, faults>>

\* A connection notice.
MirrorNotice ==
    /\ job = Nothing
    /\ job' = "notice"
    /\ Resolve("mirror", "ops", "ops")
    /\ UNCHANGED <<mirrored, missed, convs, contacts, reopen, cache, lock, slips>>
    /\ UNCHANGED <<feedVars, runVars, faults>>

Hang(c) == call' = [call EXCEPT ![c] = NoCall]

MirrorPosts ==
    /\ job # Nothing /\ Calling("mirror", "done")
    /\ mirrored' = mirrored \cup ({job} \cap Live)
    /\ job' = Nothing
    /\ Hang("mirror")
    /\ UNCHANGED <<missed, convs, contacts, reopen, cache, lock, slips>>
    /\ UNCHANGED <<feedVars, runVars, faults>>

\* The conversation or the post failed: the message comes again, until the
\* broker gives it up.
MirrorFails ==
    /\ job # Nothing /\ Calling("mirror", "failed")
    /\ missed' \in {missed, missed \cup ({job} \cap Live)}
    /\ job' = Nothing
    /\ Hang("mirror")
    /\ UNCHANGED <<mirrored, convs, contacts, reopen, cache, lock, slips>>
    /\ UNCHANGED <<feedVars, runVars, faults>>

-----------------------------------------------------------------------------
(* The feed and the triggers                                               *)

\* A chunk of history: a message already in the feed is not added twice.
Observe(m) ==
    /\ m \notin arrived \/ (m \notin feed /\ Fault)
    /\ m \notin arrived => UNCHANGED faults
    /\ feed' = feed \cup {m}
    /\ arrived' = arrived \cup {m}
    /\ UNCHANGED <<erased, runVars, liveVars, convVars>>

\* A request, a pairing, a tick of the cron.  Ticks never overlap.
Trigger(t) ==
    /\ t \notin waiting
    /\ t = "cron" => run.by # t
    /\ waiting' = waiting \cup {t}
    /\ UNCHANGED <<run, imports, feedVars, liveVars, convVars, faults>>

\* Its context ends at the lock.
GiveUp(t) ==
    /\ t \in waiting
    /\ waiting' = waiting \ {t}
    /\ Fault
    /\ UNCHANGED <<run, imports, feedVars, liveVars, convVars>>

-----------------------------------------------------------------------------
(* A run                                                                   *)

Running(pc) == run.pc = pc
Go(pc)      == run' = [run EXCEPT !.pc = pc]

KeepRest == UNCHANGED <<feedVars, liveVars>>
Alone    == UNCHANGED convVars /\ KeepRest

\* The lock of the instance is free: one run at a time.
StartRun(t) ==
    /\ t \in waiting
    /\ run.by = Nothing
    /\ waiting' = waiting \ {t}
    /\ run' = [NoRun EXCEPT !.by = t, !.pc = "config"]
    /\ UNCHANGED <<imports, faults>> /\ Alone

\* No pool, no configuration, no session or both imports off: nothing is
\* done.  (Without a session the run ends in an error.)
Inert ==
    /\ Running("config")
    /\ run' = NoRun
    /\ UNCHANGED <<waiting, imports, faults>> /\ Alone

\* The inbox is there: the start is announced in the operational
\* conversation.
Announce ==
    /\ Running("config")
    /\ Go("started")
    /\ Resolve("run", "ops", "ops")
    /\ UNCHANGED <<waiting, imports, faults, convs, contacts, reopen, cache, lock, slips>> /\ KeepRest

\* The notice is posted or not, the run goes on.
Announced ==
    /\ Running("started")
    /\ call["run"].pc \in {"done", "failed"}
    /\ Go("snapshot")
    /\ Hang("run")
    /\ UNCHANGED <<waiting, imports, faults, convs, contacts, reopen, cache, lock, slips>> /\ KeepRest

Cut == Unwritable \cup (IF run.by = "cron" THEN Old ELSE {})

\* Snapshot, ImportContacts if the connector wants it, and the rows of
\* normalizeMessages.
Snapshot ==
    /\ Running("snapshot")
    /\ run' = [run EXCEPT !.pc = "lookup", !.snap = feed, !.todo = feed \ Cut,
                          !.lost = IF run.by = "cron" THEN missed ELSE {}]
    /\ contacts' \in {contacts, contacts \cup IF feed = {} THEN {} ELSE {"ident"}}
    /\ UNCHANGED <<waiting, imports, faults, convs, reopen, cache, lock, call, slips>> /\ KeepRest

\* Mutant: nothing is left out.
Lookup_Blind(S) ==
    /\ Running("lookup")
    /\ run.todo # {}
    /\ S \subseteq run.todo /\ S # {}
    /\ run' = [run EXCEPT !.todo = @ \ S, !.chunk = S, !.pc = "select"]
    /\ contacts' = contacts \cup {"ident"}
    /\ UNCHANGED <<waiting, imports, faults, convs, reopen, cache, lock, call, slips>> /\ KeepRest

\* The next chunk: the rows Chatwoot already has are left out, and the
\* contact of the others made if the import knows none.
Lookup(S) ==
    /\ Running("lookup")
    /\ run.todo # {}
    /\ S \subseteq run.todo /\ S # {}
    /\ Cardinality(S) = IF Cardinality(run.todo) < ChunkSize
                          THEN Cardinality(run.todo) ELSE ChunkSize
    /\ LET fresh == {m \in S : ~InChatwoot(m)}
       IN  /\ contacts' = IF fresh = {} THEN contacts ELSE contacts \cup {"ident"}
           /\ run' = [run EXCEPT !.todo = @ \ S, !.chunk = fresh,
                                !.pc = IF fresh = {} THEN "lookup" ELSE "select"]
    /\ UNCHANGED <<waiting, imports, faults, convs, reopen, cache, lock, call, slips>> /\ KeepRest

\* ensureConversation: any conversation of the contact will do.
Select ==
    /\ Running("select")
    /\ Go(IF Of("ident") # {} THEN "insert" ELSE "max")
    /\ slips' = IF Of("ident") = {} /\ \E c \in Callers : Calling(c, "create") /\ CallContact(c) = "ident"
                  THEN slips \cup {"ident"} ELSE slips
    /\ UNCHANGED <<waiting, imports, faults, convs, contacts, reopen, cache, lock, call>> /\ KeepRest

\* MAX(display_id) + 1.
NextDisplay ==
    /\ Running("max")
    /\ run' = [run EXCEPT !.pc = "conversation", !.display = Len(convs) + 1]
    /\ UNCHANGED <<waiting, imports, faults>> /\ Alone

InsertConversation ==
    /\ Running("conversation")
    /\ run.display = Len(convs) + 1
    /\ NewConv("ident")
    /\ run' = [run EXCEPT !.pc = "insert", !.display = 0, !.tries = 0]
    /\ UNCHANGED <<waiting, imports, faults, contacts, reopen, cache, lock, call, slips>> /\ KeepRest

Retries == run.tries + 1 < MaxAttempts

\* Chatwoot took the display_id: the conversation is looked up once more,
\* and the next one tried, a bounded number of times.
DisplayTaken ==
    /\ Running("conversation")
    /\ run.display <= Len(convs)
    /\ \/ /\ Retries
          /\ run' = IF Of("ident") # {}
                      THEN [run EXCEPT !.pc = "insert", !.display = 0, !.tries = 0]
                      ELSE [run EXCEPT !.pc = "max", !.display = 0, !.tries = @ + 1]
       \/ /\ ~Retries
          /\ run' = NoRun
    /\ UNCHANGED <<waiting, imports, faults>> /\ Alone

Written == [m \in Messages |-> IF m \in run.chunk THEN imports[m] + 1 ELSE imports[m]]

Insert ==
    /\ Running("insert")
    /\ imports' = Written
    /\ run' = [run EXCEPT !.pc = "lookup", !.chunk = {},
                          !.some = (run.by = "cron")]
    /\ UNCHANGED <<waiting, faults>> /\ Alone

\* The statement failed, or committed without an answer.  The chunks before
\* it stay, the feed is kept for the next trigger.
InsertFails ==
    /\ Running("insert")
    /\ imports' \in {imports, Written}
    /\ run' = NoRun
    /\ Fault
    /\ UNCHANGED <<waiting>> /\ Alone

\* Mutant: a failed run clears the feed as well.
RunFails_Resets ==
    /\ run.pc \in {"config", "snapshot", "lookup", "select", "max", "conversation"}
    /\ run' = NoRun
    /\ feed' = {}
    /\ Fault
    /\ UNCHANGED <<waiting, imports, arrived, erased, liveVars, convVars>>

\* Any statement before it fails, or the deadline of the run passes.
RunFails ==
    /\ run.pc \in {"config", "snapshot", "lookup", "select", "max", "conversation"}
    /\ run' = NoRun
    /\ Fault
    /\ UNCHANGED <<waiting, imports>> /\ Alone

\* ResetHistorySync: what arrived since the snapshot goes too, and what the
\* window cut.
Reset ==
    /\ Running("lookup")
    /\ run.todo = {}
    /\ feed' = {}
    /\ erased' = erased \cup (feed \ run.snap) \cup (run.snap \cap Cut)
    /\ run' = [NoRun EXCEPT !.by = run.by, !.pc = "result", !.some = run.some, !.lost = run.lost]
    /\ Resolve("run", "ops", "ops")
    /\ UNCHANGED <<waiting, imports, arrived, liveVars, convs, contacts, reopen, cache, lock, slips, faults>>

\* The result is announced, and a run of the cron that wrote something
\* clears the stack of the mirror.
EndRun ==
    /\ Running("result")
    /\ call["run"].pc \in {"done", "failed"}
    /\ run' = NoRun
    /\ IF run.by = "cron" /\ run.some
         THEN /\ cache' = [k \in Keys |-> 0]
              /\ lock' = [k \in Keys |-> Nothing]
              /\ call' = [call EXCEPT !["run"] = NoCall,
                            !["mirror"] = IF job = Nothing THEN @ ELSE [@ EXCEPT !.stale = TRUE]]
              /\ slips' = IF job = Nothing THEN slips ELSE slips \cup {CallContact("mirror")}
         ELSE Hang("run") /\ UNCHANGED <<cache, lock, slips>>
    /\ UNCHANGED <<waiting, imports, convs, contacts, reopen, faults>> /\ KeepRest

\* The process ends: the feed, the triggers and the caches are memory.
Restart ==
    /\ Fault
    /\ erased' = erased \cup feed
    /\ feed' = {}
    /\ waiting' = {}
    /\ run' = NoRun
    /\ job' = Nothing
    /\ cache' = [k \in Keys |-> 0]
    /\ lock' = [k \in Keys |-> Nothing]
    /\ call' = [c \in Callers |-> NoCall]
    /\ UNCHANGED <<arrived, imports, mirrored, missed, convs, contacts, reopen, slips>>

ImportStep ==
    \/ Inert \/ Announce \/ Announced \/ Snapshot
    \/ \E S \in SUBSET Synced : Lookup(S)
    \/ Select \/ NextDisplay \/ InsertConversation \/ DisplayTaken
    \/ Insert \/ InsertFails \/ RunFails \/ Reset \/ EndRun

Next ==
    \/ \E m \in Synced : Observe(m)
    \/ \E t \in Triggers : Trigger(t) \/ GiveUp(t) \/ StartRun(t)
    \/ ImportStep
    \/ \E m \in Live, x \in Contacts : MirrorMessage(m, x)
    \/ MirrorNotice \/ MirrorPosts \/ MirrorFails
    \/ Resolution
    \/ Restart

Spec == Init /\ [][Next]_vars

-----------------------------------------------------------------------------
(* Properties                                                              *)

\* A message of the history that is neither in the feed nor in Chatwoot was
\* taken out by a crash, by a reset that came after it arrived and before it
\* was read, or because the run did not want it: no failed run loses one.
\* (RunImport clears the accumulator only on success)
ForgottenHasCause ==
    \A m \in arrived : m \in feed \/ InChatwoot(m) \/ m \in erased

\* However many triggers run, fail half way and run again over the same
\* history, the import writes a message once.
\* (importMessageChunk looks the source ids up, the instance lock)
ImportedOnce == \A m \in Messages : imports[m] <= 1

\* A contact has one open conversation, unless a lock expired under its
\* holder, the Resolver was replaced under a caller, or the import looked
\* for the conversation while the mirror was creating it.
\* (Resolver.Resolve, ensureConversation)
OneConversation == \A x \in Contacts : Cardinality(Open(x)) > 1 => x \in slips

-----------------------------------------------------------------------------
(* What the specification of the repository says of the program            *)

\* openspec/specs/wzap-chatwoot-import/spec.md:42-45: when messages were not
\* mirrored in the last 6 hours, "the next cycle of the cron imports them".
LostIsRecovered ==
    run.by = "cron" /\ run.pc = "result" => \A m \in run.lost : InChatwoot(m)

=============================================================================
