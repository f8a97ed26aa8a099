------------------------------ MODULE Webhook ------------------------------
(***************************************************************************)
(* The fan-out of events and the shutdown of the process.  Every event a   *)
(* producer writes goes to the delivery queue of the webhook worker and to *)
(* the event outbox; the worker posts it to the endpoint of the instance,  *)
(* with retries; at shutdown the components are stopped one after the      *)
(* other within a deadline.                                                *)
(*                                                                         *)
(* Source: internal/webhook/worker.go, deliver.go, gate.go, keycache.go    *)
(* and cmd/wzap/main.go (serve, stopComponents).  One instance; `version`  *)
(* counts the changes of its row and of its cached key.  The relay of      *)
(* module EventRelay is one step here.                                     *)
(***************************************************************************)
EXTENDS Integers, Sequences, FiniteSets, Faults

CONSTANTS
    Events,
    NoEvent,
    BufferSize,
    MaxInflight,
    MaxAttempts,
    MaxChanges    \* bound: changes of the configuration and of the key
    \* MaxFaults of Faults bounds failed statements, failed posts, lost answers

ASSUME WebhookAssumption ==
    /\ NoEvent \notin Events
    /\ BufferSize \in Nat \ {0}
    /\ MaxInflight \in Nat \ {0}
    /\ MaxAttempts \in Nat \ {0}
    /\ MaxChanges \in Nat
    /\ MaxFaults \in Nat

VARIABLES
    outbox,   \* event_outbox
    queue,    \* w.queue
    next,     \* the job Run took and has no slot for yet
    slots,    \* len(w.sem)
    job,      \* the delivery of each event
    there,    \* the row of the instance exists
    on,       \* its webhook is enabled, has a URL and subscribes the type
    key,      \* a key is cached
    version,
    told,     \* how many components were told to stop
    running,  \* components whose Run has not returned
    late,     \* the shutdown deadline passed
    aborted,  \* the HTTP server failed
    orphans   \* history: events of requests and of the outbox written after
              \* the relay was told to stop

workerVars   == <<queue, next, slots, job>>
settingVars  == <<there, on, key, version>>
shutdownVars == <<told, running, late, aborted>>
webhookVars  == <<outbox, workerVars, settingVars, shutdownVars, orphans, faults>>

-----------------------------------------------------------------------------
(* Values                                                                  *)

\* "take": an attempt starts; "loaded": it read the row; "posting": it read
\* the key and posts.
Running == {"take", "loaded", "posting", "backoff"}
Settled == {"delivered", "skipped", "dropped", "dead", "lost"}

Job == [st: {"none", "queued"} \cup Running \cup Settled,
        tries: 0..MaxAttempts,
        since: 0..MaxChanges,    \* history: the version when the attempt started
        read: 0..MaxChanges]     \* the version of the row it uses

NoJob == [st |-> "none", tries |-> 0, since |-> 0, read |-> 0]

\* The shutdown order of serve.
Components == <<"http", "outbox", "cleaner", "webhook", "mirror", "scheduler", "relay">>

Component == {Components[i] : i \in DOMAIN Components}

WebhookTypeOK ==
    /\ outbox \in [Events -> {"none", "pending", "published", "failed"}]
    /\ queue \in Seq(Events) /\ Len(queue) <= BufferSize
    /\ next \in Events \cup {NoEvent}
    /\ slots \in 0..MaxInflight
    /\ job \in [Events -> Job]
    /\ there \in BOOLEAN /\ on \in BOOLEAN /\ key \in BOOLEAN
    /\ version \in 0..MaxChanges
    /\ told \in 0..Len(Components)
    /\ running \in SUBSET Component
    /\ late \in BOOLEAN /\ aborted \in BOOLEAN
    /\ orphans \in SUBSET Events
    /\ faults \in 0..MaxFaults

\* The key cache is empty at boot.
WebhookInit ==
    /\ outbox = [e \in Events |-> "none"]
    /\ queue = <<>>
    /\ next = NoEvent
    /\ slots = 0
    /\ job = [e \in Events |-> NoJob]
    /\ there = TRUE
    /\ on \in BOOLEAN
    /\ key = FALSE
    /\ version = 0
    /\ told = 0
    /\ running = Component
    /\ late = FALSE
    /\ aborted = FALSE
    /\ orphans = {}
    /\ faults = 0

-----------------------------------------------------------------------------
(* Helpers                                                                 *)

Position(c) == CHOOSE i \in DOMAIN Components : Components[i] = c

\* The context of component c is cancelled.
Stopping(c) == told >= Position(c)

Exited == told = Len(Components) /\ (late \/ "relay" \notin running)

-----------------------------------------------------------------------------
(* Producers                                                               *)

\* dispatch: a full queue drops the event.
Dispatch(e) ==
    IF Len(queue) < BufferSize
    THEN queue' = Append(queue, e) /\ job' = [job EXCEPT ![e].st = "queued"]
    ELSE job' = [job EXCEPT ![e].st = "dropped"] /\ UNCHANGED queue

\* fanoutWriter.Write, by a request, the outbox or a session: the dispatch,
\* then the INSERT, which may fail.
Write(e, producer) ==
    /\ producer \in running \cup {"session"}
    /\ job[e].st = "none"
    /\ Dispatch(e)
    /\ \/ outbox' = [outbox EXCEPT ![e] = "pending"] /\ UNCHANGED faults
       \/ outbox' = [outbox EXCEPT ![e] = "failed"] /\ Fault
    /\ orphans' = IF producer # "session" /\ Stopping("relay") THEN orphans \cup {e} ELSE orphans
    /\ UNCHANGED <<next, slots, settingVars, shutdownVars>>

\* The relay publishes a pending event (module EventRelay).
Publish(e) ==
    /\ "relay" \in running /\ ~Stopping("relay")
    /\ outbox[e] = "pending"
    /\ outbox' = [outbox EXCEPT ![e] = "published"]
    /\ UNCHANGED <<workerVars, settingVars, shutdownVars, orphans, faults>>

-----------------------------------------------------------------------------
(* The worker                                                              *)

WorkerUnchanged == UNCHANGED <<outbox, settingVars, shutdownVars, orphans>>

\* Run takes the next job and waits for a slot.
Dequeue ==
    /\ "webhook" \in running
    /\ next = NoEvent
    /\ queue # <<>>
    /\ next' = Head(queue)
    /\ queue' = Tail(queue)
    /\ UNCHANGED <<slots, job, faults>> /\ WorkerUnchanged

\* A slot is free: handle runs in its own goroutine.
Acquire ==
    /\ "webhook" \in running
    /\ next # NoEvent
    /\ slots < MaxInflight
    /\ slots' = slots + 1
    /\ job' = [job EXCEPT ![next] = [@ EXCEPT !.st = "take", !.since = version]]
    /\ next' = NoEvent
    /\ UNCHANGED <<queue, faults>> /\ WorkerUnchanged

\* Mutant: a skipped job keeps its slot.
Finish_KeepsSlot(e, st) ==
    /\ job' = [job EXCEPT ![e] = [NoJob EXCEPT !.st = st]]
    /\ slots' = IF st = "skipped" THEN slots ELSE slots - 1
    /\ UNCHANGED <<queue, next>> /\ WorkerUnchanged

\* handle returns and the slot is free.
Finish(e, st) ==
    /\ job' = [job EXCEPT ![e] = [NoJob EXCEPT !.st = st]]
    /\ slots' = slots - 1
    /\ UNCHANGED <<queue, next>> /\ WorkerUnchanged

\* ShouldDeliver.
ShouldDeliver == on

\* Mutant: the schedule has one attempt more.
AttemptFails_OffByOne(e) ==
    LET tried == job[e].tries + 1 IN
    IF tried > MaxAttempts THEN Finish(e, "dead")
    ELSE /\ job' = [job EXCEPT ![e] = [@ EXCEPT !.st = "backoff", !.tries = tried]]
         /\ UNCHANGED <<queue, next, slots>> /\ WorkerUnchanged

\* An attempt failed: the retry schedule, or the dead letter after the last.
AttemptFails(e) ==
    LET tried == job[e].tries + 1 IN
    IF tried >= MaxAttempts THEN Finish(e, "dead")
    ELSE /\ job' = [job EXCEPT ![e] = [@ EXCEPT !.st = "backoff", !.tries = tried]]
         /\ UNCHANGED <<queue, next, slots>> /\ WorkerUnchanged

\* attempt: the row is read anew.
Load(e) ==
    /\ job[e].st = "take" /\ ~Stopping("webhook")
    /\ \/ /\ ~there \/ ~ShouldDeliver
          /\ Finish(e, "skipped") /\ UNCHANGED faults
       \/ /\ there /\ ShouldDeliver
          /\ job' = [job EXCEPT ![e] = [@ EXCEPT !.st = "loaded", !.read = version]]
          /\ UNCHANGED <<queue, next, slots, faults>> /\ WorkerUnchanged

LoadFails(e) ==
    /\ job[e].st = "take" /\ ~Stopping("webhook")
    /\ Fault
    /\ AttemptFails(e)

\* keys.Get: without a cached key the attempt fails.
ReadKey(e) ==
    /\ job[e].st = "loaded"
    /\ IF key
       THEN /\ job' = [job EXCEPT ![e].st = "posting"]
            /\ UNCHANGED <<queue, next, slots>> /\ WorkerUnchanged
       ELSE AttemptFails(e)
    /\ UNCHANGED faults

\* Deliver succeeds.
Deliver(e) ==
    /\ job[e].st = "posting"
    /\ Finish(e, "delivered")
    /\ UNCHANGED faults

\* Deliver fails: no connection, no 2xx, or a timeout after the endpoint got it.
DeliverFails(e) ==
    /\ job[e].st = "posting"
    /\ Fault
    /\ AttemptFails(e)

\* Mutant: the next attempt uses the row that the first one read.
Wake_KeepsConfig(e) ==
    /\ job[e].st = "backoff" /\ ~Stopping("webhook")
    /\ job' = [job EXCEPT ![e] = [@ EXCEPT !.st = "loaded", !.since = version]]
    /\ UNCHANGED <<queue, next, slots, faults>> /\ WorkerUnchanged

\* The backoff ends: the next attempt.
Wake(e) ==
    /\ job[e].st = "backoff" /\ ~Stopping("webhook")
    /\ job' = [job EXCEPT ![e] = [@ EXCEPT !.st = "take", !.since = version]]
    /\ UNCHANGED <<queue, next, slots, faults>> /\ WorkerUnchanged

\* The cancelled context ends a handle: between attempts, in its sleep or in
\* its last attempt.
Abort(e) ==
    /\ job[e].st \in Running
    /\ Stopping("webhook")
    /\ Finish(e, "lost")
    /\ UNCHANGED faults

-----------------------------------------------------------------------------
(* The settings                                                            *)

SettingsUnchanged == UNCHANGED <<outbox, workerVars, shutdownVars, orphans, faults>>

Change == version < MaxChanges /\ version' = version + 1

\* PATCH of the webhook configuration.
Configure ==
    /\ there
    /\ Change
    /\ on' = ~on
    /\ UNCHANGED <<there, key>> /\ SettingsUnchanged

\* KeyCache.Store, by a rotation, and Clear, by a revocation.
StoreKey ==
    /\ there
    /\ Change
    /\ key' \in BOOLEAN
    /\ UNCHANGED <<there, on>> /\ SettingsUnchanged

\* The instance is deleted, and its key forgotten.
DeleteInstance ==
    /\ there
    /\ Change
    /\ there' = FALSE
    /\ key' = FALSE
    /\ UNCHANGED on /\ SettingsUnchanged

-----------------------------------------------------------------------------
(* Shutdown                                                                *)

ShutdownUnchanged == UNCHANGED <<outbox, workerVars, settingVars, orphans>>

\* The signal: the HTTP server drains first.
Shutdown ==
    /\ told = 0
    /\ told' = 1
    /\ UNCHANGED <<running, late, aborted, faults>> /\ ShutdownUnchanged

\* The server fails: the others are stopped, while its handlers still run.
ServeFails ==
    /\ told = 0
    /\ Fault
    /\ told' = 2
    /\ aborted' = TRUE
    /\ UNCHANGED <<running, late>> /\ ShutdownUnchanged

\* Run of a component that was told to stop returns; Run of the webhook
\* worker does not wait for its handles.
Returns(c) ==
    /\ c \in running
    /\ Stopping(c)
    /\ c = "http" => ~aborted
    /\ running' = running \ {c}
    /\ UNCHANGED <<told, late, aborted, faults>> /\ ShutdownUnchanged

\* Mutant: the components are stopped without waiting for each.
StopNext_Unwaited ==
    /\ told \in 1..(Len(Components) - 1)
    /\ told' = told + 1
    /\ UNCHANGED <<running, late, aborted, faults>> /\ ShutdownUnchanged

\* stopComponents: the next one, once this one is done.
StopNext ==
    /\ told \in 1..(Len(Components) - 1)
    /\ Components[told] \notin running
    /\ told' = told + 1
    /\ UNCHANGED <<running, late, aborted, faults>> /\ ShutdownUnchanged

\* The time is over: the rest is told to stop without a wait, and the process
\* exits.
Deadline ==
    /\ told > 0
    /\ late' = TRUE
    /\ told' = Len(Components)
    /\ UNCHANGED <<running, aborted, faults>> /\ ShutdownUnchanged

-----------------------------------------------------------------------------

Handle(e) == Load(e) \/ ReadKey(e) \/ Deliver(e) \/ Wake(e) \/ Abort(e)

WebhookNext ==
    /\ ~Exited
    /\ \/ \E e \in Events :
             \/ \E p \in {"http", "outbox", "session"} : Write(e, p)
             \/ Publish(e) \/ Handle(e) \/ LoadFails(e) \/ DeliverFails(e)
       \/ Dequeue \/ Acquire
       \/ Configure \/ StoreKey \/ DeleteInstance
       \/ Shutdown \/ ServeFails \/ StopNext \/ Deadline
       \/ \E c \in Component : Returns(c)

WebhookSpec == WebhookInit /\ [][WebhookNext]_webhookVars

\* Run and the goroutines of the handles are scheduled.
Fairness ==
    /\ WF_webhookVars(Dequeue) /\ WF_webhookVars(Acquire)
    /\ \A e \in Events : WF_webhookVars(Handle(e))

FairSpec == WebhookSpec /\ Fairness

-----------------------------------------------------------------------------
(* Properties                                                              *)

\* A post never uses a configuration or goes out with a gate older than its
\* attempt: a webhook that is disabled or changed stops at the next attempt,
\* even in the middle of a backoff (webhook/worker.go, InstanceLoader).
FreshPerAttempt ==
    \A e \in Events : job[e].st \in {"loaded", "posting"} => job[e].read >= job[e].since

\* The worker has as many slots taken as handles that run, and a dead letter
\* is written after MaxAttempts attempts, no sooner and no later
\* (webhook/worker.go, MaxAttempts and Run).
SlotsAndAttempts ==
    /\ slots = Cardinality({e \in Events : job[e].st \in Running})
    /\ \A e \in Events : job[e].st \in Running => job[e].tries < MaxAttempts

\* What a request or the outbox writes is written while the relay still runs:
\* the HTTP server and the outbox stop before it, unless the server failed or
\* the deadline passed (cmd/wzap/main.go, the comment of the shutdown order).
RelayStopsLast == orphans # {} => aborted \/ late

\* A queued delivery is settled, whatever the endpoint does to the others,
\* unless the worker is stopped (webhook/worker.go, Run: one failing delivery
\* never blocks the following ones).
DeliveriesSettle ==
    \A e \in Events : job[e].st = "queued" ~> job[e].st \in Settled \/ Stopping("webhook")

=============================================================================
