# A TLA+ model of wzap

wzap is one Go process that holds WhatsApp sessions (through the whatsmeow
library), sends messages accepted over HTTP, publishes what happens to NATS
JetStream, and mirrors conversations into Chatwoot. Postgres holds its state.
This directory models the parts of it whose correctness depends on the order in
which goroutines, the database, the network and restarts act, model-checks them
with TLC, and proves the central facts with TLAPS.

Paths below are relative to `src/internal/` unless they start with `cmd/`.

## 1. Inventory

| Part | State | Operations | Interacts with | What is hard |
|---|---|---|---|---|
| Outbound queue (`message/outbox.go`, `message/service.go`, `storage/postgres/messages.go`) | `message_queue` rows; each worker's claimed batch | Enqueue, ClaimQueued, process, MarkSent/Failed/Retrying, RequeueStuck | sessions (Send), instance lock, event outbox, receipts | rows claimed by a memory that dies; unconditional updates; retries of sends whose answer was lost |
| Receipts (`message/receipts.go`) | delivered/read columns | Apply | called by the session's event handlers | arrive on their own schedule |
| Idempotency keys (`httpapi/idempotency.go`, `storage/postgres/idempotency.go`) | `idempotency_keys` rows | Acquire, Complete, Release | wraps the send POSTs | three statements without a transaction; fail-open; expiry |
| Event outbox and relay (`events/`, `storage/postgres/events.go`) | `event_outbox` rows; the relay's batch | Write, ClaimPending, Publish, MarkPublished, cleanup | every producer of events; the broker | crash between publish and stamp; lost acknowledgements; a row that always fails |
| Session (`session/whatsmeow/{manager,reconnect,pairing,events}.go`) | status, terminal, paired, the handle of the reconnect loop | setStatus, Connect, Disconnect, Remove, the library's events | the projection (sink); the outbox (Send) | handlers run concurrently; the lock is released between the steps of a transition |
| Connection projection (`app/runtime.go`) | `instances.status`, the connection event | OnConnection, OnMessage | sessions, event outbox | order of concurrent transitions |
| Instance service (`instance/service.go`) | `instances` rows | Create, Update, Connect, Disconnect, Delete, Restore | sessions, media, cascades | read-then-write of whole rows; several steps that fail one by one |
| Per-instance lock (`instancelock/locker.go`) | a channel and a reference count per instance | Acquire, release | outbox workers | entries created and dropped on demand |
| JID resolver (`message/jidresolver.go`) | `jid_cache` | Resolve | sessions | the ninth-digit rule, cache against network |
| Inbound messages (`app/inbound.go`, `app/editdelete.go`, `session/whatsmeow/media.go`) | files and event rows | OnMessage, download | media, event outbox, webhook | download fails or exceeds the limit |
| Media (`media/storage.go`, `media/cleaner.go`) | files on disk, `media` rows | Save, Open, cleaner pass, DeleteByInstance | inbound messages, deletion of instances | file and row are two steps |
| Webhook (`webhook/`) | a queue of 1000, 16 deliveries at most, a key cache | Dispatch, deliver, retry | fan-out in front of the event outbox | full queue, retries at shutdown, configuration changed in between |
| Chatwoot mirror (`chatwoot/mirror/`) | a JetStream consumer, message map rows | handle, Ack/Nak | Chatwoot API, conversations, import | redelivery while the first delivery still runs |
| Chatwoot inbound (`chatwoot/inbound/`) | message map rows | the webhook handler | message service | echoes of its own messages |
| Chatwoot import (`chatwoot/import/`, `session/historysync.go`) | the history accumulator, one job per instance | Run, scheduler | Chatwoot's database | history that arrives during an import |
| Contacts, conversations (`chatwoot/contacts`, `chatwoot/conversations`) | an in-process lock per sender with a TTL, caches | find or create | Chatwoot API | the lock expires under its holder |
| HTTP API (`httpapi/`), auth (`auth/`) | users, quotas, API keys | create, revoke, authorize | all services | check-then-create quotas |
| Boot and shutdown (`cmd/wzap/main.go`, `replicalock/`) | one advisory lock | start and stop in order | all workers | a later part still produces when an earlier one stopped |
| Manager UI, generated docs, migrations | - | - | - | none |

What makes each part correct, in a line: a message is sent once unless an answer
was lost, settles once, and says so at most once; an idempotency key stands for
one message; no event is lost and none is repeated without cause; a session has
one reconnect loop exactly when it should; no client, credentials or identity is
left behind by the requests on an instance; quotas are exceeded only by requests
that race, and the cached key is the stored one; a delivery is settled with the
configuration of its attempt; files and rows agree; a conversation shows each
message once, and none that was deleted; history is imported once and not
forgotten; a reply is queued once for each webhook, or its author is told.

## 2. Modules

| Module | What it is |
|---|---|
| `DeliveryContract` | what the outbound queue promises, with no workers, retries or restarts |
| `Outbox` | the queue, its workers, recovery, receipts, stops and crashes; implements `DeliveryContract` |
| `EventRelay` | event outbox, relay and broker |
| `Session` | one session: setStatus, reconnect loops, pairing, the projection |
| `Idempotency` | the requests that share one idempotency key |
| `Accounts` | users, owners, quotas, API keys and the key cache under concurrent requests |
| `Lifecycle` | one instance: registry of sessions, credentials, row, the requests that connect, disconnect, change and delete it, boot and crash |
| `Webhook` | fan-out, the delivery worker, and the order in which the process stops |
| `Media` | files and rows of an instance: saves, cleaner, deletion, readers |
| `Mirror` | the durable consumer of Chatwoot and its handler |
| `History` | the import of history, and the find-or-create of conversations it shares with the mirror |
| `Inbound` | the webhook that turns what an attendant does into sends |
| `Faults` | the budget of failures of the components that are proved about in pairs |
| `OutboxProofs`, `EventRelayProofs`, `IdempotencyProofs`, `InboundProofs`, `HistoryProofs` | proofs about one component each |
| `SessionAccountsProofs`, `WebhookLifecycleProofs`, `MediaMirrorProofs` | proofs about two components each; so that both can be extended, `Accounts`, `Webhook` and `Mirror` carry their name in `AccountsSpec`, `WebhookTypeOK`, `MirrorInit` and the like |
| `MC*` | instances for TLC |

`PROJECT.json` maps each definition to the lines it stands for. The modules
compose along the calls of the code: `Outbox` implements `DeliveryContract` by a
refinement mapping; what `Session` does between two unlocks is one step of
`Lifecycle`, what `EventRelay` does is one step of `Webhook`, `Mirror` reads the
stream `EventRelay` fills, `Inbound` queues what `Outbox` sends, and `History`
runs against the mirror's conversations.

### Outbox

`row` is `message_queue` (the columns the control depends on). `batch`, `cur`,
`attempts`, `waId` and `pc` are a worker's local variables: `Claim` is
ClaimQueued, `Acquire` takes the instance lock at the top of `process`,
`SendAccepted`, `SendTransient` and `SendDefinitive` are the three answers
`process` tells apart, `Record*` are the statements that write the outcome and
`Emit` the event. `RecordFails`, `EmitFails` and `ClaimLost` are the failures of
those statements, each with the effect it may have had. Time is two booleans:
`due` (next_attempt_at passed) and `stale` (updated_at older than
stuckThreshold). A row in sending that no worker holds always becomes stale; one
a live worker holds becomes so only when `SlowBatches` is TRUE, which is the
constant that separates the runs: the code does not bound how long a claimed
batch waits for instance locks and sends, it only makes five minutes generous.
`Stop` cancels the workers' context, `Exit` is a worker seeing it, `Crash`
forgets all memory, and `Boot` restores some of the sessions before the workers
start.

`accepted`, `excuses`, `events` and `missed` are history variables: what
WhatsApp accepted, how many of those acceptances lost their answer, what was
announced, and which receipts found no row.

### EventRelay

A row is `open` between the moment created_at is fixed and the commit, so events
may commit out of order. The relay's program counter follows PublishNow:
`Publish` and `PublishFails` (refused, broker away, or stored with the
acknowledgement lost), then `Record` or `MarkAttempt`. The broker is external:
an append-only `stream` that ignores an id it stored within the duplicate
window, and that refuses the events in `Refused` (over its max_payload).

### Session

setStatus runs in three steps as it releases its mutex before it reports:
`EnterStatus` (the critical section, with its two early returns), `Sink`
(OnConnection: row, then event, serialized by its own mutex), `Policy`
(reconnect or cancel, on the arguments of the call). Callers are the library's
event goroutines (`Handlers`), `monitorQR` and the API. `loop` is where each
reconnectLoop goroutine is; `run` is the handle the session keeps. The API's
Connect is six actions, as other callers run between its steps. The library is
the environment: it logs in, drops, restricts and logs out; each dispatches one
handler.

### Idempotency

Each request walks through Acquire's statements (`DropExpired`, `Insert`,
`Read`), the handler and the deferred clean-up. Complete and Release name the
key only, so the model lets them act on whatever row is there. A request whose
store call fails runs without the key (`exposed`).

### Accounts

Every statement of a handler is an action: the two counts, the insert of the
instance, the hash of its key, the undo when that fails; rotation and revocation
with the hash and the cache as two writes. `Authenticate` and
`authorizeInstance` guard the requests. `self` and `torn` are histories: the
instances a user made for itself, and those whose key two writes overlapped on.

### Lifecycle

`sess` holds the `instanceSession` values by identity, as a request keeps one
after another request took it out of the registry. A request is `Begin`, which
reads the row, then `SessionFor` (Manager.Create), `CheckStatus`, `Dial`,
`MarkPairing` or `Hangup`, `Clear`, `Recreate`, and for a removal `Unregister`,
`Close`, `Erase`, each where the code releases the manager's mutex or makes a
call. `missed`, `taken` and `stale` name the causes the properties allow.

### Webhook

`version` counts the changes of the configuration and of the key, so that a
property can tell which an attempt used. Jobs go through the bounded queue, a
slot, the load, the post and the backoff. `StopNext` follows `stopComponents`:
HTTP, outbox, cleaner, webhook, mirror, scheduler and relay, each waited for up
to the one deadline.

### Media

Save is `WriteTemp`, `Rename`, `Insert` and its `Undo`; the cleaner and
DeleteByInstance list the rows first and then remove one file at a time; a
reader looks the row up and opens the file later. Of an INSERT without an answer
it is not known whether it was made (`lost`).

### Mirror

One action per call of the handler, since a failure, a slow answer or a crash
may come between any two. The broker redelivers what is refused, or not answered
within AckWait, up to MaxDeliver times. The seen set is lost in a restart, the
correlations are not. `loose` and `down` are the posts that escaped the
database.

### History

A run is snapshot, chunks (lookup, conversation, insert) and reset,
with the mirror's two callers interleaved at each statement. The instance lock
of the three triggers and the TTL lock of a conversation are separate variables.
A chat may have two contacts, since the mirror knows it by its phone and the
import by its identifier.

### Inbound

A request is filters, recipient and quote (`Prepare`), attachments one by one,
text, read marker, answer. `PostNote` may fail, and what it posts comes back as
a webhook. The connector is enabled and every attachment has an address. The
attachment's refusal by the SSRF filter is one of its failures.

## 3. Runs

| Run | Question | Instance |
|---|---|---|
| `outbox` | are sends serialized, duplicates excused, final states final, the contract kept, does every accepted message settle? | 2 messages of 1 instance, 2 workers, batch 2, 1 retry, 1 fault, fair |
| `event_relay` | is nothing lost, repeated or reordered without cause, and everything published? | 3 events, 1 refused, batch 2, 2 faults, fair |
| `session` | one live loop, and events that tell what the row says? | 2 handlers, API, monitorQR, 2 loops, 2 faults |
| `session_retry` | is every transient drop retried? **No.** | as above |
| `idempotency` | does the owner hold its row, has every second message a cause, is a replay genuine? | 3 repeats, 1 other content, 2 faults |
| `accounts` | how far can quotas be exceeded, is the cached key valid, why is an instance without one? | 2 requests, 1 user, 3 instances, 2 keys, 1 fault |
| `lifecycle` | does a client, a credential or an identity get lost without a cause? | 2 requests, 2 sessions, 1 device, 1 fault |
| `webhook` | fresh configuration per attempt, slots, order of shutdown, every delivery settled? | 2 events, queue 1, slot 1, 2 attempts, 2 changes, 1 fault, fair |
| `media` | do files and rows agree, does a reader miss a file without a cause, does expired media go? | 2 media, 2 faults, fair |
| `mirror` | is something shown twice, shown after its deletion, or never, without a cause; is the last notice true? | 3 streams of 2 or 3 events, 2 deliveries, 4 faults |
| `history` | is anything forgotten, imported twice, or given two conversations without a cause? | 2 messages, 2 triggers, 2 conversations, 1 fault |
| `inbound` | is a reply lost in silence, queued twice, refused after it was sent; do notes stay? | 2 replies, 2 attachments, 2 requests, 2 faults |

Every property of a passing run has a mutant: a copy of one operator with a
plausible bug (recovery that ignores age, a clean-up that clears any handle, a
key freed after any failure, a teardown that keeps the loop, a removal of the
files listed instead of the directory, a lookup that finds nothing, a reset
after a failed run), under which TLC finds the property violated.

Further configurations state what a document or a comment says and the code does
not do; they are run by hand (`tlc -config Outbox_slow.cfg MCOutbox`, and so on)
and TLC finds a violation in each: see section 4.

### Bounds, and why they are enough

Two workers, requests or handlers are what a race over a claim, a lock, a row or
a registry needs; two messages make a batch whose second member waits; one retry
lets a message be sent, requeued and exhausted. In `EventRelay` three events
with a batch of two leave one behind, and two faults allow a lost
acknowledgement followed by a crash. In `Session` two handlers overtake each
other and two loops are the most that the handle can confuse. In `Idempotency`
three repeats are an owner, one that conflicts and one that takes the freed key.
In `Accounts` three instances let a quota of one be exceeded by one and the
excess be refused. In `Lifecycle` two sessions are one that is removed and one
that is registered meanwhile; one device is either the stored one or the one
that pairs, so re-pairing with a second device is beyond the bound. In `Webhook`
a queue and a slot of one are full with the second event. In `Mirror` four
faults cover a lost answer at each of two deliveries with a restart between, and
the streams are a message with its edit and deletion, a session that flaps, and
a read with a message. In `History` one message the mirror also receives and one
older than the cron's window are the cases of the lookup. In `Inbound` two
faults are a repeated webhook and a failure under it.

`MaxFaults` bounds nothing but the environment, and `outbox` has one, since the
safety of the queue is proved for any number and the run's weight is its
liveness. Receipts, deletions, session moves, API calls and expiries are
unbounded. Symmetry is used in safety runs only.

### Fairness

`Outbox!Fairness`: workers, the recovery ticker and the clock keep running
(goroutines of a running process), a stopping process stops and a stopped one is
started again (a supervisor restarts the container). Of WhatsApp only that it does not
send receipts for a message forever, since each postpones its recovery. Nothing
is assumed of sessions, clients or of the success of a send.
`EventRelay!Fairness`: the relay runs, a dead process is started again, a lost
broker returns. `Webhook!Fairness`: the worker's loop and the handles it started
run; the endpoint answers or the client's timeout does. `Media!Fairness`: the
cleaner's ticker runs and a dead process is started again; a pass that fails
leaves its rows to the next. The other specifications are checked for safety
only.

## 4. Disagreements the runs show

Run by the project, and a finding of `PROJECT.json`:

* **A drop without a retry** (`session_retry`, `manager.go:446`): the README
  and the specification promise that a transient drop is retried; one reported
  while the status already is a plain disconnection is dropped before the
  reconnect policy.

Checked by hand with the configuration named:

* **A settled message changes state** (`Outbox_slow.cfg`, `outbox.go:191`,
  `messages.go:195-239`): recovery requeues by age alone, and the writes of an
  outcome do not ask what the row says. With a batch slower than stuckThreshold
  a message is also sent twice.
* **A receipt is lost** (`Outbox_receipts.cfg`, `receipts.go:57`): one that
  arrives before MarkSent stored the id matches nothing.
* **Refused events starve the relay** (`EventRelay_starved.cfg`, `events.go:55`).
* **The row keeps an older status** (`Session_sync.cfg`, `manager.go:459`).
* **Two messages for one key** (`Idempotency_race.cfg`,
  `storage/postgres/idempotency.go:66`): a released row makes the repository
  report ErrNotFound, which the middleware takes for a broken store.
* **A lost message is not recovered** (`History_lost.cfg`):
  `openspec/specs/wzap-chatwoot-import/spec.md:42-45` says the next cycle of the
  cron imports it; the cron clears the feed that held it, or counts one the
  chunk could not write.
* **A duplicate after the database was down** (`Mirror_duplicate.cfg`): the
  comment of `chatwoot/mirror/worker.go:1097-1099` says no duplicate is
  possible, as the redelivery reads the database before it posts; a database
  that is back by then finds nothing.
* **A deleted reply stays in WhatsApp** (`Inbound_deleted.cfg`,
  `openspec/specs/wzap-chatwoot-inbound/spec.md:41-44`): only the mirror stores
  correlations, and what the mirror posted is discarded before
  handleMessageUpdated, so no reply has one to revoke.
* **A command's answer goes to the operational contact**
  (`Inbound_operational.cfg`, the comment of `chatwoot/inbound/webhook.go:52-57`):
  isOperational compares a conversation's source and identifier with a number
  that the conversation the mirror creates does not carry.

The models also show, as causes their properties allow: an edit's post stays in
Chatwoot after the message is deleted when the deletion finds one correlation;
a `connected` notice throttled after a `down` whose post failed skips the
automatic import; a session taken out of the registry under a request goes on to
connect or pair a client that nobody can reach.

## 5. Proofs

Everything is proved for arbitrary constants that satisfy the named assumptions
(finite sets of messages, positive batch size, and so on).

**The instance lock** (`OutboxProofs`). `LockHeld` (a worker inside process
works on a message of its batch and is the owner of that instance's lock) is
inductive together with `TypeOK`: only `Acquire` enters, and only on a free
lock; only `Finish`, `Exit` and `Crash` leave. `SendsSerialized` follows at once.

**The queue without slow batches** (`OutboxProofs`, second part). Every theorem
there has the form `~SlowBatches => (Spec => ...)`: with slow batches the same
formulas are false, as `Outbox_slow.cfg` shows. The invariant is built in layers.

1. `Claims`: batches are disjoint, and the row of a message in a batch is in
   sending and *not stale* (or deleted, or just written by that worker).
   Staleness is the part that makes it inductive: without it `RequeueStuck`
   could hand the row to another worker. It gives `ClaimsExclusive`, and
   `FinalStatesFinal`, as the unconditional writes of an outcome then only hit
   rows in sending or deleted rows.
2. `Events`: a message some worker holds has no event yet. `EventsTrue`.
3. `Sends`: a message that may be sent again (its row is neither sent nor
   deleted and no worker holds an id to record) has all its accepted sends
   excused. `DuplicatesHaveCause`.
4. `Retries`: the count a worker read at the claim is still the row's count
   when it decides, as no one else counts a retry of a held message.
   `RetriesLimited`.
5. `ContractStep` maps each step to `DeliveryContract`: `Enqueue` accepts, a
   write of sent or failed settles, `Emit` announces, `DeleteInstance` forgets,
   and everything else is invisible. It needs `Claims` (a settling row was
   pending) and `Events` (nothing was announced before). `ContractKept`.

**The relay** (`EventRelayProofs`). `Relay` (batch and current event are pending;
an event about to be stamped is in the stream) and `Broker` (the stream has
committed events only, the window only events of the stream) give
`RelayLosesNothing`. `Ordered` says that an event neither late nor failed is in
the stream before a younger one, and in the batch with a younger one; it is what
`OrderHasCause` needs to place the next append. `CopiesExcused` bounds the
copies by `lapsed` plus one while the id is in the window, and by `unrecorded`
plus one while the row is stamped or about to be; both halves are
needed to pass from one step to the next, and give `DuplicatesHaveCause`.

**The session** (`SessionAccountsProofs`, part one). `OneLiveLoop`, `TerminalHasNoLoop` and
`EventsMatchRow` are inductive over `TypeOK`. The steps that matter: a loop is
registered only where no handle is, so the only live loop is the new one; a
caller that made the state terminal carries arguments that will cancel
(`CancelComes`), and no step between its critical section and its policy can
start a loop; the row and its event change in one serialized step.

**The idempotency key** (`IdempotencyProofs`). `OwnerRuns` and `Progress` tie the
owner to the row while it runs; `KeptBounded` counts the messages stored under
the key against expiries, with a charge of one for the row that stands for a
message now; `RowOriginal` and `RepliesOriginal` follow the stored response from
the owner to the replays.

**Media** (`MediaMirrorProofs`, part one). `SaveInv` says what the stage of a save tells of its
file and row, `CleanInv` that the cleaner and a reader only hold media whose row
was inserted, and that what the cleaner holds has expired for good, and
`PurgeInv` that a deletion is remembered and what it leaves behind once the
directory is gone. `ReferencesHold`, `OrphanHasCause` and `MissHasCause` follow
for any media, failures and crashes.

**Inbound** (`InboundProofs`). `StageInv`: what a request holds passed the
filters and has changed nothing before it sends; it gives
`RefusedHasNoEffect`, and with it `NotesStayHere`. `ProgressInv`: up to the
attachment a request has reached, every part is queued or the reply is told of;
an answer of 200 carries it over to `NoSilentLoss`. `CountInv`: how often a part
is queued, plus one if its webhook is on its way, plus the number of requests
that may still queue it, is at most how often the webhook came. It is what makes
`DuplicatesExcused` inductive: each step moves a unit from one summand to the
next, and needs the attachments of a reply to be distinct and the requests in
flight to be finitely many.

**History** (`HistoryProofs`). `RunInv`: what a run read and still has to write is
in its rows, in its chunk, or in Chatwoot, and nothing of the chunk is in
Chatwoot; with it `ForgottenHasCause` survives the reset and `ImportedOnce` the
insert. For `OneConversation` the invariant follows a caller of the Resolver:
one that lists or creates holds its key or its contact has slipped (`CallInv`),
and what is about to be created has no open conversation (`FreshInv`), on the
side of the mirror by the lock and on that of the import because the two
statements that may meet record it in `slips`. That the newest of a set of
conversations exists is the well-foundedness of the naturals.

**Quotas and keys** (`SessionAccountsProofs`, part two). The checks of a creation
and its insert are separate statements, so the bound cannot be inductive by
itself. `CeilingInv` counts: what users made for themselves, plus the requests
that passed the ceiling and have not inserted yet, is at most the ceiling plus
the requests less one. A request that passes the check makes the count of
passers grow by one, but it saw fewer instances than the ceiling, and the others
past the check are among the remaining requests; one that inserts moves a unit
from one summand to the other. `QuotaInv` is the same per user, against the
greatest quota the user had (`LimitInv`: a quota that was read is within it).
Both need the set of requests to be finite, which is all that is assumed of it.
`CachedKeyIsValid` needs who may write a key now: two requests between their
writes on one instance have marked it torn (`AloneInv`), what is about to be
cached is in the row (`StoreInv`), and an instance that is new or absent has
nothing cached (`FreshInv`, `AbsentInv`).

**The webhook worker and the shutdown** (`WebhookLifecycleProofs`, part one).
`QueuedInv`: a queued event is in the queue exactly once or is the one in hand,
and was not attempted yet; so a slot is taken for an event that had none, and
`SlotsInv` can count the handles. `FreshInv` bounds the version an attempt
starts with by the present one. `StoppedInv`: with no deadline passed and no
failed server, what is told to stop has been waited for in order, so nobody who
writes runs when the relay is told.

**The life of an instance** (`WebhookLifecycleProofs`, part two). The invariant
says what each thing in memory is worth. `RunInv` and `LiveInv`: what is
registered, held or does anything was built in this run of the process.
`DeviceInv`: a session's device was paired, and a session that has one shows no
QR code.
`HolderInv`: what a request holds is registered, or was taken from it.
`RemovalInv`: a session under removal is out of the registry and has one
remover. `OpenInv` (with reconnect loops beside open sockets, which makes
`StrayHasCause` inductive) and `TornInv` (what a removal closed stays closed).
`CoverInv`: every stored device was missed, has a session that is being removed
or registered, or is known to the row alone; the deletion of the row ends the
last case, and counts the device of a session registered meanwhile as missed. `LeakHasCause` and
`IdentityRecorded` follow.

**The mirror** (`MediaMirrorProofs`, part two). Each of its properties is about
events that were delivered once, or whose posts the database knows, so the
invariant follows the copies of an event. `BrokerInv`: the broker delivers in the
order of the stream, and what the process holds was delivered. `FifoInv`: of an
event delivered once no copy is behind a later event in the buffer, and none is
left once it or a later event is settled or remembered. `HandlerInv` is what each
stage says of the post in hand, `CorrInv` that the correlations name posts of
their event. `OnePostInv` makes `DuplicatesExcused` inductive: an event without an
excuse has one post at most, in the database or in the hands of the handler that
is about to store it, and no handler past its lookup creates another for an event
the database knows. `RevokeInv` states `RevokedIsHidden` from the moment the
deletion is applied instead of settled, and rests on `FifoInv` for the message
not to be handled after its deletion. `FirstInv` (an event at its first delivery
has no post before the handler makes it), `StampInv` (the throttle's stamp is the
last notice posted, unless the event of that one failed after its post, was
redelivered or is about to be stamped) and `NoticeInv` give `LastNoticeTrue`; that a last notice exists is the well-foundedness of the
naturals.

Type correctness and every safety invariant the runs check are proved by TLAPS.

Model-checked only: liveness (the fair part of `FulfilsContract`,
`EveryEventPublished`, `DeliveriesSettle`, `ExpiredIsRemoved`), and the violations
of section 4.

Out of the prover's reach, and left to TLC: liveness under fairness, everything
that needs ENABLED, and induction over data (the library's induction theorems
take an operator as a parameter).

## 6. Not modelled

* **Pure algorithms**: the ninth-digit candidates of the JID resolver,
  pagination cursors, retry delays, phone normalization, the SSRF address
  filters and the rendering of contents. They have no state of their own; what
  matters of them to the models is a choice among their outcomes.
* **Merge of Brazilian contacts** in `chatwoot/contacts`: one call to Chatwoot,
  off by default; `History` has the two contacts it would merge.
* **Login, tokens' expiry and the rate limiter's window**: time against a
  constant. What the limiter refuses is a lost webhook in `Inbound`.
* **The replica lock**, one call at boot that decides whether the process runs:
  every model has one process.
* **Configuration, migrations, the pool, the Manager UI and the generated API
  documentation**, and all message contents, formatting, logging and the HTTP
  envelope.

What a continuation would add, in order: an abstract specification of the mirror
(each event is shown once) that `Mirror` implements up to its excuses, and of
`Outbox`, which of the properties survive `SlowBatches` (the serialized sends do;
the theorem of `OutboxProofs` has no such hypothesis).
