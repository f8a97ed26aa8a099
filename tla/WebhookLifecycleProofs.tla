----------------------- MODULE WebhookLifecycleProofs -----------------------
(***************************************************************************)
(* Proofs about the webhook worker and the shutdown, for any events, any   *)
(* buffer and number of attempts, and about the life of an instance, for   *)
(* any requests, sessions and devices; both for any number of faults.      *)
(***************************************************************************)
EXTENDS Webhook, Lifecycle, FiniteSetTheorems, SequenceTheorems, TLAPS

-----------------------------------------------------------------------------
(* PART ONE: the webhook worker and the shutdown                           *)
-----------------------------------------------------------------------------
(* The inductive invariant                                                 *)

\* The events that wait for the worker are distinct and queued, and an event
\* that no handle has was never tried.
QueuedInv ==
    /\ \A i \in 1..Len(queue) : job[queue[i]].st = "queued" /\ queue[i] # next
    /\ \A i, j \in 1..Len(queue) : queue[i] = queue[j] => i = j
    /\ next # NoEvent => job[next].st = "queued"
    /\ \A e \in Events : job[e].st \notin Running => job[e].tries = 0

\* The events a handle works on.
Active == {e \in Events : job[e].st \in Running}

\* Each has a slot, and may be tried once more.
SlotsInv ==
    /\ IsFiniteSet(Active)
    /\ slots = Cardinality(Active)
    /\ \A e \in Active : job[e].tries < MaxAttempts

\* An attempt started with a configuration that was there, and the row it uses
\* is not older.
FreshInv ==
    /\ \A e \in Events : job[e].since <= version
    /\ FreshPerAttempt

\* The components before the last one that was told have returned, and so has
\* every writer when the relay is told.
StoppedInv ==
    /\ ~late /\ ~aborted => \A i \in 1..Len(Components) : i < told => Components[i] \notin running
    /\ RelayStopsLast

WebhookIInv == WebhookTypeOK /\ QueuedInv /\ SlotsInv /\ FreshInv /\ StoppedInv

-----------------------------------------------------------------------------
(* What a step does to the jobs                                            *)

State == {"none", "queued"} \cup Running \cup Settled

\* The job of e is j, and those of the others stay.
Becomes(e, j) ==
    /\ j \in Job
    /\ job' \in [Events -> Job]
    /\ job'[e] = j
    /\ \A f \in Events \ {e} : job'[f] = job[f]

LEMMA JobBecomes ==
    ASSUME WebhookTypeOK, NEW e \in Events, NEW j \in Job, job' = [job EXCEPT ![e] = j]
    PROVE  Becomes(e, j)
  BY DEF WebhookTypeOK, Becomes

\* A handle of e returns.
Ends(e) ==
    /\ job[e].st \in Running
    /\ \E j \in Job : /\ Becomes(e, j)
                      /\ j.st \in Settled /\ j.tries = 0 /\ j.since = 0
    /\ slots' = slots - 1
    /\ UNCHANGED <<queue, next, version>>

\* A handle of e goes on: what it reads of the configuration it reads now,
\* and keeps until the post.
GoesOn(e) ==
    /\ job[e].st \in Running
    /\ \E j \in Job :
          /\ Becomes(e, j)
          /\ j.st \in Running
          /\ j.tries = job[e].tries \/ j.tries < MaxAttempts
          /\ j.since \in {job[e].since, version}
          /\ j.st = "loaded" => j.read = version
          /\ j.st = "posting" => job[e].st = "loaded" /\ j.since = job[e].since
             /\ j.read = job[e].read
    /\ UNCHANGED <<queue, next, slots, version>>

LEMMA FinishEnds ==
    ASSUME WebhookTypeOK, NEW e \in Events, NEW st \in Settled, job[e].st \in Running, Finish(e, st)
    PROVE  Ends(e)
<1> DEFINE j == [NoJob EXCEPT !.st = st]
<1>1. st \in State
  BY DEF State
<1>2. j \in Job /\ j.st = st /\ j.tries = 0 /\ j.since = 0
  BY <1>1, WebhookAssumption DEF NoJob, Job, State
<1>3. job' = [job EXCEPT ![e] = j]
  BY DEF Finish
<1> HIDE DEF j
<1>4. Becomes(e, j)
  BY <1>2, <1>3, JobBecomes
<1> QED
  BY <1>2, <1>4 DEF Ends, Finish, WorkerUnchanged, settingVars

LEMMA AttemptEndsOrGoesOn ==
    ASSUME WebhookTypeOK, NEW e \in Events, job[e].st \in Running, AttemptFails(e)
    PROVE  Ends(e) \/ GoesOn(e)
<1> DEFINE tried == job[e].tries + 1
<1>1. CASE tried >= MaxAttempts
  <2>1. Finish(e, "dead")
    BY <1>1 DEF AttemptFails
  <2> QED
    BY <2>1, FinishEnds DEF Settled
<1>2. CASE ~(tried >= MaxAttempts)
  <2> DEFINE j == [job[e] EXCEPT !.st = "backoff", !.tries = tried]
  <2>1. job[e] \in Job /\ "backoff" \in State
    BY DEF WebhookTypeOK, State, Running
  <2>2. tried \in 0..MaxAttempts /\ tried < MaxAttempts
    BY <1>2, <2>1, WebhookAssumption DEF Job
  <2>3. /\ job' = [job EXCEPT ![e] = j]
        /\ UNCHANGED <<queue, next, slots>> /\ WorkerUnchanged
    BY <1>2 DEF AttemptFails
  <2> HIDE DEF tried
  <2>4. j \in Job /\ j.st = "backoff" /\ j.tries = tried /\ j.since = job[e].since
    BY <2>1, <2>2, Zenon DEF Job, State
  <2> HIDE DEF j
  <2>5. Becomes(e, j)
    BY <2>3, <2>4, JobBecomes
  <2> QED
    BY <2>2, <2>3, <2>4, <2>5 DEF GoesOn, WorkerUnchanged, settingVars, Running
<1> QED
  BY <1>1, <1>2

LEMMA Attempts ==
    ASSUME WebhookTypeOK, NEW e \in Events, Handle(e) \/ LoadFails(e) \/ DeliverFails(e)
    PROVE  Ends(e) \/ GoesOn(e)
<1>1. job[e] \in Job /\ version \in 0..MaxChanges
  BY DEF WebhookTypeOK
<1>2. CASE Load(e)
  <2>1. job[e].st \in Running
    BY <1>2 DEF Load, Running
  <2>2. CASE Finish(e, "skipped")
    BY <2>1, <2>2, FinishEnds DEF Settled
  <2>3. CASE ~Finish(e, "skipped")
    <3> DEFINE j == [job[e] EXCEPT !.st = "loaded", !.read = version]
    <3>1. /\ job' = [job EXCEPT ![e] = j]
          /\ UNCHANGED <<queue, next, slots>> /\ WorkerUnchanged
      BY <1>2, <2>3 DEF Load
    <3>2. "loaded" \in State
      BY DEF State, Running
    <3>3. j \in Job /\ j.st = "loaded" /\ j.tries = job[e].tries /\ j.since = job[e].since
          /\ j.read = version
      BY <1>1, <3>2, Zenon DEF Job, State
    <3> HIDE DEF j
    <3>4. Becomes(e, j)
      BY <3>1, <3>3, JobBecomes
    <3> QED
      BY <2>1, <3>1, <3>3, <3>4 DEF GoesOn, WorkerUnchanged, settingVars, Running
  <2> QED
    BY <2>2, <2>3
<1>3. CASE ReadKey(e)
  <2>1. job[e].st \in Running
    BY <1>3 DEF ReadKey, Running
  <2>2. CASE key
    <3> DEFINE j == [job[e] EXCEPT !.st = "posting"]
    <3>1. /\ job' = [job EXCEPT ![e] = j]
          /\ UNCHANGED <<queue, next, slots>> /\ WorkerUnchanged
      BY <1>3, <2>2, Zenon DEF ReadKey
    <3>2. "posting" \in State
      BY DEF State, Running
    <3>3. j \in Job /\ j.st = "posting" /\ j.tries = job[e].tries /\ j.since = job[e].since
          /\ j.read = job[e].read
      BY <1>1, <3>2, Zenon DEF Job, State
    <3> HIDE DEF j
    <3>4. Becomes(e, j)
      BY <3>1, <3>3, JobBecomes
    <3> QED
      BY <1>3, <2>1, <3>1, <3>3, <3>4 DEF GoesOn, WorkerUnchanged, settingVars, Running, ReadKey
  <2>3. CASE ~key
    BY <1>3, <2>1, <2>3, AttemptEndsOrGoesOn DEF ReadKey
  <2> QED
    BY <2>2, <2>3
<1>4. CASE Deliver(e)
  BY <1>4, FinishEnds DEF Deliver, Running, Settled
<1>5. CASE Wake(e)
  <2> DEFINE j == [job[e] EXCEPT !.st = "take", !.since = version]
  <2>1. /\ job' = [job EXCEPT ![e] = j]
        /\ UNCHANGED <<queue, next, slots>> /\ WorkerUnchanged
        /\ job[e].st \in Running
    BY <1>5 DEF Wake, Running
  <2>2. "take" \in State
    BY DEF State, Running
  <2>3. j \in Job /\ j.st = "take" /\ j.tries = job[e].tries /\ j.since = version
    BY <1>1, <2>2, Zenon DEF Job, State
  <2> HIDE DEF j
  <2>4. Becomes(e, j)
    BY <2>1, <2>3, JobBecomes
  <2> QED
    BY <2>1, <2>3, <2>4 DEF GoesOn, WorkerUnchanged, settingVars, Running
<1>6. CASE Abort(e)
  BY <1>6, FinishEnds DEF Abort, Settled
<1>7. CASE LoadFails(e)
  BY <1>7, AttemptEndsOrGoesOn DEF LoadFails, Running
<1>8. CASE DeliverFails(e)
  BY <1>8, AttemptEndsOrGoesOn DEF DeliverFails, Running
<1> QED
  BY <1>2, <1>3, <1>4, <1>5, <1>6, <1>7, <1>8 DEF Handle

\* The handles leave the rest alone.
LEMMA AttemptsKeep ==
    ASSUME NEW e \in Events, Handle(e) \/ LoadFails(e) \/ DeliverFails(e)
    PROVE  /\ UNCHANGED <<outbox, settingVars, shutdownVars, orphans>>
           /\ UNCHANGED faults \/ Fault
  BY DEF Handle, Load, LoadFails, ReadKey, Deliver, DeliverFails, Wake, Abort, Finish, AttemptFails,
     WorkerUnchanged

\* A slot is taken for the next event.
LEMMA AcquireStarts ==
    ASSUME WebhookTypeOK, Acquire
    PROVE  \E j \in Job : /\ Becomes(next, j)
                          /\ j.st = "take" /\ j.tries = job[next].tries /\ j.since = version
<1> DEFINE j == [job[next] EXCEPT !.st = "take", !.since = version]
<1>1. next \in Events /\ job[next] \in Job /\ version \in 0..MaxChanges
  BY DEF WebhookTypeOK, Acquire
<1>2. job' = [job EXCEPT ![next] = j]
  BY DEF Acquire
<1>3. "take" \in State
  BY DEF State, Running
<1>4. j \in Job /\ j.st = "take" /\ j.tries = job[next].tries /\ j.since = version
  BY <1>1, <1>3, Zenon DEF Job, State
<1> HIDE DEF j
<1>5. Becomes(next, j)
  BY <1>1, <1>2, <1>4, JobBecomes
<1> QED
  BY <1>4, <1>5

\* An event that is written is queued, or dropped when the queue is full.
LEMMA WriteQueues ==
    ASSUME WebhookTypeOK, NEW e \in Events, NEW p, Write(e, p)
    PROVE  /\ job[e].st = "none"
           /\ \E j \in Job : /\ Becomes(e, j)
                             /\ j.st = IF Len(queue) < BufferSize THEN "queued" ELSE "dropped"
                             /\ j.tries = job[e].tries /\ j.since = job[e].since
           /\ queue' = IF Len(queue) < BufferSize THEN Append(queue, e) ELSE queue
<1> DEFINE s == IF Len(queue) < BufferSize THEN "queued" ELSE "dropped"
           j == [job[e] EXCEPT !.st = s]
<1>1. job[e] \in Job /\ s \in State
  BY DEF WebhookTypeOK, State, Settled
<1>2. job' = [job EXCEPT ![e] = j]
  BY Zenon DEF Write, Dispatch
<1>3. /\ job[e].st = "none"
      /\ queue' = IF Len(queue) < BufferSize THEN Append(queue, e) ELSE queue
  BY DEF Write, Dispatch
<1>4. j \in Job /\ j.st = s /\ j.tries = job[e].tries /\ j.since = job[e].since
  <2> HIDE DEF s
  <2> QED
    BY <1>1, Zenon DEF Job, State
<1> HIDE DEF j
<1>5. Becomes(e, j)
  BY <1>1, <1>2, <1>4, JobBecomes
<1> QED
  BY <1>3, <1>4, <1>5

\* The steps of the rest of the process leave the worker alone.
Quiet ==
    \/ \E e \in Events : Publish(e)
    \/ Configure \/ StoreKey \/ DeleteInstance
    \/ Shutdown \/ ServeFails \/ StopNext \/ Deadline
    \/ \E c \in Component : Returns(c)
    \/ UNCHANGED webhookVars

LEMMA QuietKeeps ==
    ASSUME WebhookTypeOK, Quiet
    PROVE  UNCHANGED workerVars /\ version' \in 0..MaxChanges /\ version' >= version
<1> USE WebhookAssumption DEF WebhookTypeOK, workerVars
<1>1. ASSUME NEW e \in Events, Publish(e) PROVE UNCHANGED <<workerVars, version>>
  BY <1>1 DEF Publish, settingVars
<1>2. CASE Configure
  BY <1>2 DEF Configure, Change, SettingsUnchanged
<1>3. CASE StoreKey
  BY <1>3 DEF StoreKey, Change, SettingsUnchanged
<1>4. CASE DeleteInstance
  BY <1>4 DEF DeleteInstance, Change, SettingsUnchanged
<1>5. CASE Shutdown
  BY <1>5 DEF Shutdown, ShutdownUnchanged, settingVars
<1>6. CASE ServeFails
  BY <1>6 DEF ServeFails, ShutdownUnchanged, settingVars
<1>7. CASE StopNext
  BY <1>7 DEF StopNext, ShutdownUnchanged, settingVars
<1>8. CASE Deadline
  BY <1>8 DEF Deadline, ShutdownUnchanged, settingVars
<1>9. ASSUME NEW c \in Component, Returns(c) PROVE UNCHANGED <<workerVars, version>>
  BY <1>9 DEF Returns, ShutdownUnchanged, settingVars
<1>10. CASE UNCHANGED webhookVars
  BY <1>10 DEF webhookVars, settingVars
<1> QED
  BY <1>1, <1>2, <1>3, <1>4, <1>5, <1>6, <1>7, <1>8, <1>9, <1>10 DEF Quiet

\* The kinds of steps.
LEMMA WebhookSteps ==
    ASSUME [WebhookNext]_webhookVars
    PROVE  \/ \E e \in Events : \E p \in {"http", "outbox", "session"} : Write(e, p)
           \/ \E e \in Events : Handle(e) \/ LoadFails(e) \/ DeliverFails(e)
           \/ Dequeue \/ Acquire \/ Quiet
  BY DEF WebhookNext, Quiet

-----------------------------------------------------------------------------
(* The queue and the slots                                                 *)

LEMMA QueuedStep == WebhookTypeOK /\ QueuedInv /\ [WebhookNext]_webhookVars => QueuedInv'
<1> SUFFICES ASSUME WebhookTypeOK, QueuedInv, [WebhookNext]_webhookVars PROVE QueuedInv'
  OBVIOUS
<1> USE WebhookAssumption
<1>q. /\ queue \in Seq(Events) /\ next \in Events \cup {NoEvent} /\ NoEvent \notin Events
      /\ Len(queue) \in Nat /\ \A i \in 1..Len(queue) : queue[i] \in Events
  BY DEF WebhookTypeOK
<1>1. ASSUME NEW e \in Events, NEW p \in {"http", "outbox", "session"}, Write(e, p) PROVE QueuedInv'
  <2>1. PICK j \in Job : /\ Becomes(e, j)
                         /\ j.st = IF Len(queue) < BufferSize THEN "queued" ELSE "dropped"
                         /\ j.tries = job[e].tries /\ j.since = job[e].since
    BY <1>1, WriteQueues
  <2>2. /\ job[e].st = "none"
        /\ queue' = IF Len(queue) < BufferSize THEN Append(queue, e) ELSE queue
        /\ next' = next
    BY <1>1, WriteQueues DEF Write
  <2>3. job[e].tries = 0
    BY <2>2 DEF QueuedInv, Running
  <2>4. e # next /\ \A i \in 1..Len(queue) : queue[i] # e
    BY <1>q, <2>2 DEF QueuedInv
  <2>5. CASE Len(queue) < BufferSize
    <3>1. /\ Len(queue') = Len(queue) + 1
          /\ queue'[Len(queue) + 1] = e
          /\ \A i \in 1..Len(queue) : queue'[i] = queue[i]
      BY <1>q, <2>2, <2>5
    <3>2. \A i \in 1..Len(queue') : i \in 1..Len(queue) \/ i = Len(queue) + 1
      BY <1>q, <3>1
    <3>3. \A i \in 1..Len(queue') : job'[queue'[i]].st = "queued" /\ queue'[i] # next'
      BY <1>q, <2>1, <2>2, <2>4, <2>5, <3>1, <3>2 DEF QueuedInv, Becomes
    <3>4. \A i, j1 \in 1..Len(queue') : queue'[i] = queue'[j1] => i = j1
      BY <1>q, <2>4, <3>1, <3>2 DEF QueuedInv
    <3> QED
      BY <1>q, <2>1, <2>2, <2>3, <2>4, <2>5, <3>3, <3>4 DEF QueuedInv, Becomes, Running
  <2>6. CASE ~(Len(queue) < BufferSize)
    BY <1>q, <2>1, <2>2, <2>3, <2>4, <2>6 DEF QueuedInv, Becomes, Running
  <2> QED
    BY <2>5, <2>6
<1>2. ASSUME NEW e \in Events, Handle(e) \/ LoadFails(e) \/ DeliverFails(e) PROVE QueuedInv'
  <2>1. PICK j \in Job : Becomes(e, j) /\ (j.st \in Running \/ j.tries = 0)
    BY <1>2, Attempts DEF Ends, GoesOn
  <2>2. job[e].st \in Running /\ UNCHANGED <<queue, next>>
    BY <1>2, Attempts DEF Ends, GoesOn
  <2>3. \A f \in Events : job[f].st = "queued" => f # e
    BY <2>2 DEF Running
  <2> QED
    BY <1>q, <2>1, <2>2, <2>3 DEF QueuedInv, Becomes
<1>3. CASE Dequeue
  <2>1. queue # <<>> /\ next' = Head(queue) /\ queue' = Tail(queue) /\ job' = job
    BY <1>3 DEF Dequeue
  <2>2. /\ Len(queue) >= 1 /\ Len(queue') = Len(queue) - 1 /\ next' = queue[1]
        /\ \A i \in 1..Len(queue') : queue'[i] = queue[i + 1] /\ i + 1 \in 1..Len(queue)
    BY <1>q, <2>1
  <2> QED
    BY <1>q, <2>1, <2>2 DEF QueuedInv
<1>4. CASE Acquire
  <2>1. PICK j \in Job : Becomes(next, j) /\ j.st = "take"
    BY <1>4, AcquireStarts
  <2>2. next' = NoEvent /\ queue' = queue /\ next \in Events
    BY <1>4, <1>q DEF Acquire
  <2> QED
    BY <1>q, <2>1, <2>2 DEF QueuedInv, Becomes, Running
<1>5. CASE Quiet
  BY <1>5, QuietKeeps DEF QueuedInv, workerVars
<1> QED
  BY <1>1, <1>2, <1>3, <1>4, <1>5, WebhookSteps

LEMMA SlotsStep == WebhookTypeOK /\ QueuedInv /\ SlotsInv /\ [WebhookNext]_webhookVars => SlotsInv'
<1> SUFFICES ASSUME WebhookTypeOK, QueuedInv, SlotsInv, [WebhookNext]_webhookVars PROVE SlotsInv'
  OBVIOUS
<1> USE WebhookAssumption
<1>1. ASSUME NEW e \in Events, NEW p \in {"http", "outbox", "session"}, Write(e, p) PROVE SlotsInv'
  <2>1. PICK j \in Job : /\ Becomes(e, j)
                         /\ j.st = IF Len(queue) < BufferSize THEN "queued" ELSE "dropped"
    BY <1>1, WriteQueues
  <2>2. job[e].st = "none" /\ slots' = slots
    BY <1>1, WriteQueues DEF Write
  <2>3. e \notin Active /\ Active' = Active
    BY <2>1, <2>2 DEF Active, Becomes, Running
  <2>4. \A f \in Active : job'[f] = job[f]
    BY <2>1, <2>3 DEF Active, Becomes
  <2> QED
    BY <2>2, <2>3, <2>4 DEF SlotsInv
<1>2. ASSUME NEW e \in Events, Ends(e) PROVE SlotsInv'
  <2>1. PICK j \in Job : Becomes(e, j) /\ j.st \in Settled
    BY <1>2 DEF Ends
  <2>2. e \in Active /\ slots' = slots - 1
    BY <1>2 DEF Ends, Active
  <2>3. Active' = Active \ {e}
    BY <2>1, <2>2 DEF Active, Becomes, Running, Settled
  <2>4. \A f \in Active \ {e} : job'[f] = job[f]
    BY <2>1 DEF Active, Becomes
  <2>5. IsFiniteSet(Active') /\ Cardinality(Active') = Cardinality(Active) - 1
    BY <2>2, <2>3, FS_RemoveElement DEF SlotsInv
  <2> QED
    BY <2>2, <2>3, <2>4, <2>5 DEF SlotsInv
<1>3. ASSUME NEW e \in Events, GoesOn(e) PROVE SlotsInv'
  <2>1. PICK j \in Job : /\ Becomes(e, j) /\ j.st \in Running
                         /\ j.tries = job[e].tries \/ j.tries < MaxAttempts
    BY <1>3 DEF GoesOn
  <2>2. e \in Active /\ slots' = slots
    BY <1>3 DEF GoesOn, Active
  <2>3. Active' = Active
    BY <2>1, <2>2 DEF Active, Becomes
  <2>4. \A f \in Active : job'[f].tries < MaxAttempts
    BY <2>1, <2>2 DEF Active, Becomes, SlotsInv
  <2> QED
    BY <2>2, <2>3, <2>4 DEF SlotsInv
<1>4. CASE Dequeue
  BY <1>4 DEF Dequeue, SlotsInv, Active
<1>5. CASE Acquire
  <2>1. PICK j \in Job : Becomes(next, j) /\ j.st = "take" /\ j.tries = job[next].tries
    BY <1>5, AcquireStarts
  <2>2. next \in Events /\ next # NoEvent /\ slots' = slots + 1
    BY <1>5 DEF Acquire, WebhookTypeOK
  <2>3. next \notin Active /\ job[next].tries = 0
    BY <2>2 DEF QueuedInv, Active, Running
  <2>4. Active' = Active \cup {next}
    BY <2>1, <2>2 DEF Active, Becomes, Running
  <2>5. \A f \in Active' : job'[f].tries < MaxAttempts
    BY <2>1, <2>2, <2>3, <2>4 DEF Active, Becomes, SlotsInv
  <2>6. IsFiniteSet(Active') /\ Cardinality(Active') = Cardinality(Active) + 1
    BY <2>3, <2>4, FS_AddElement DEF SlotsInv
  <2> QED
    BY <2>2, <2>5, <2>6 DEF SlotsInv
<1>6. CASE Quiet
  BY <1>6, QuietKeeps DEF SlotsInv, Active, workerVars
<1> QED
  BY <1>1, <1>2, <1>3, <1>4, <1>5, <1>6, WebhookSteps, Attempts

-----------------------------------------------------------------------------
(* What an attempt reads                                                   *)

LEMMA FreshStep == WebhookTypeOK /\ QueuedInv /\ FreshInv /\ [WebhookNext]_webhookVars => FreshInv'
<1> SUFFICES ASSUME WebhookTypeOK, QueuedInv, FreshInv, [WebhookNext]_webhookVars PROVE FreshInv'
  OBVIOUS
<1> USE WebhookAssumption DEF FreshInv, FreshPerAttempt
<1>q. version \in 0..MaxChanges /\ \A e \in Events : job[e].since \in 0..MaxChanges
  BY DEF WebhookTypeOK, Job
<1>1. ASSUME NEW e \in Events, NEW p \in {"http", "outbox", "session"}, Write(e, p) PROVE FreshInv'
  <2>1. PICK j \in Job : /\ Becomes(e, j)
                         /\ j.st = IF Len(queue) < BufferSize THEN "queued" ELSE "dropped"
                         /\ j.since = job[e].since
    BY <1>1, WriteQueues
  <2>2. version' = version
    BY <1>1 DEF Write, settingVars
  <2> QED
    BY <2>1, <2>2 DEF Becomes
<1>2. ASSUME NEW e \in Events, Ends(e) PROVE FreshInv'
  <2>1. PICK j \in Job : Becomes(e, j) /\ j.st \in Settled /\ j.since = 0
    BY <1>2 DEF Ends
  <2>2. version' = version
    BY <1>2 DEF Ends
  <2> QED
    BY <1>q, <2>1, <2>2 DEF Becomes, Settled
<1>3. ASSUME NEW e \in Events, GoesOn(e) PROVE FreshInv'
  <2>1. PICK j \in Job :
           /\ Becomes(e, j)
           /\ j.since \in {job[e].since, version}
           /\ j.st = "loaded" => j.read = version
           /\ j.st = "posting" => job[e].st = "loaded" /\ j.since = job[e].since
              /\ j.read = job[e].read
    BY <1>3 DEF GoesOn
  <2>2. version' = version
    BY <1>3 DEF GoesOn
  <2>3. j.since <= version /\ (j.st \in {"loaded", "posting"} => j.read >= j.since)
    BY <1>q, <2>1
  <2> QED
    BY <2>1, <2>2, <2>3 DEF Becomes
<1>4. CASE Dequeue
  BY <1>4 DEF Dequeue, WorkerUnchanged, settingVars
<1>5. CASE Acquire
  <2>1. PICK j \in Job : Becomes(next, j) /\ j.st = "take" /\ j.since = version
    BY <1>5, AcquireStarts
  <2>2. next \in Events /\ version' = version
    BY <1>5 DEF Acquire, WebhookTypeOK, WorkerUnchanged, settingVars
  <2> QED
    BY <1>q, <2>1, <2>2 DEF Becomes
<1>6. CASE Quiet
  BY <1>q, <1>6, QuietKeeps DEF workerVars
<1> QED
  BY <1>1, <1>2, <1>3, <1>4, <1>5, <1>6, WebhookSteps, Attempts

-----------------------------------------------------------------------------
(* The order of the shutdown                                               *)

\* The components have distinct positions, and the relay the last.
LEMMA Positions ==
    /\ Len(Components) = 7
    /\ Components[1] = "http" /\ Components[2] = "outbox"
    /\ Position("relay") = 7
    /\ \A c \in Component : Position(c) \in 1..7
<1>1. Len(Components) = 7 /\ DOMAIN Components = 1..7 /\ Components[1] = "http"
        /\ Components[2] = "outbox"
  BY DEF Components
<1>2. \A i \in 1..7 : Components[i] = "relay" <=> i = 7
  BY DEF Components
<1>3. Position("relay") \in 1..7 /\ Components[Position("relay")] = "relay"
  BY <1>1, <1>2 DEF Position
<1>4. \A c \in Component : Position(c) \in 1..7
  BY <1>1 DEF Position, Component
<1> QED
  BY <1>1, <1>2, <1>3, <1>4

LEMMA StoppedStep == WebhookTypeOK /\ StoppedInv /\ [WebhookNext]_webhookVars => StoppedInv'
<1> SUFFICES ASSUME WebhookTypeOK, StoppedInv, [WebhookNext]_webhookVars PROVE StoppedInv'
  OBVIOUS
<1> USE Positions DEF StoppedInv, RelayStopsLast
<1>q. told \in 0..7 /\ late \in BOOLEAN /\ aborted \in BOOLEAN
  BY DEF WebhookTypeOK
<1>1. ASSUME NEW e \in Events, NEW p \in {"http", "outbox", "session"}, Write(e, p)
      PROVE StoppedInv'
  <2>1. UNCHANGED shutdownVars
    BY <1>1 DEF Write
  <2>2. ASSUME orphans' # orphans PROVE aborted \/ late
    <3>1. p \in {"http", "outbox"} /\ p \in running /\ told = 7
      BY <1>1, <1>q, <2>2 DEF Write, Stopping
    <3> QED
      BY <3>1, <1>q
  <2> QED
    BY <2>1, <2>2 DEF shutdownVars
<1>2. ASSUME NEW e \in Events, Handle(e) \/ LoadFails(e) \/ DeliverFails(e) PROVE StoppedInv'
  BY <1>2, AttemptsKeep DEF shutdownVars
<1>3. CASE Dequeue
  BY <1>3 DEF Dequeue, WorkerUnchanged, shutdownVars
<1>4. CASE Acquire
  BY <1>4 DEF Acquire, WorkerUnchanged, shutdownVars
<1>5. ASSUME NEW e \in Events, Publish(e) PROVE StoppedInv'
  BY <1>5 DEF Publish, shutdownVars
<1>6. CASE Configure
  BY <1>6 DEF Configure, SettingsUnchanged, shutdownVars
<1>7. CASE StoreKey
  BY <1>7 DEF StoreKey, SettingsUnchanged, shutdownVars
<1>8. CASE DeleteInstance
  BY <1>8 DEF DeleteInstance, SettingsUnchanged, shutdownVars
<1>9. CASE Shutdown
  BY <1>9 DEF Shutdown, ShutdownUnchanged
<1>10. CASE ServeFails
  BY <1>10 DEF ServeFails, ShutdownUnchanged
<1>11. CASE StopNext
  <2>1. told \in 1..6 /\ Components[told] \notin running /\ told' = told + 1
        /\ UNCHANGED <<running, late, aborted, orphans>>
    BY <1>11 DEF StopNext, ShutdownUnchanged
  <2>2. \A i \in 1..7 : i < told + 1 => i < told \/ i = told
    BY <2>1
  <2> QED
    BY <2>1, <2>2
<1>12. CASE Deadline
  BY <1>12 DEF Deadline, ShutdownUnchanged
<1>13. ASSUME NEW c \in Component, Returns(c) PROVE StoppedInv'
  BY <1>13 DEF Returns, ShutdownUnchanged
<1>14. CASE UNCHANGED webhookVars
  BY <1>14 DEF webhookVars, shutdownVars
<1> QED
  BY <1>1, <1>2, <1>3, <1>4, <1>5, <1>6, <1>7, <1>8, <1>9, <1>10, <1>11, <1>12, <1>13, <1>14
     DEF WebhookNext

-----------------------------------------------------------------------------
(* Types                                                                   *)

LEMMA JobTypes == WebhookTypeOK /\ [WebhookNext]_webhookVars => job' \in [Events -> Job]
<1> SUFFICES ASSUME WebhookTypeOK, [WebhookNext]_webhookVars PROVE job' \in [Events -> Job]
  OBVIOUS
<1>1. ASSUME NEW e \in Events, NEW p \in {"http", "outbox", "session"}, Write(e, p)
      PROVE job' \in [Events -> Job]
  BY <1>1, WriteQueues DEF Becomes
<1>2. ASSUME NEW e \in Events, Handle(e) \/ LoadFails(e) \/ DeliverFails(e)
      PROVE job' \in [Events -> Job]
  BY <1>2, Attempts DEF Ends, GoesOn, Becomes
<1>3. CASE Dequeue
  BY <1>3 DEF Dequeue, WebhookTypeOK
<1>4. CASE Acquire
  BY <1>4, AcquireStarts DEF Becomes
<1>5. CASE Quiet
  BY <1>5, QuietKeeps DEF workerVars, WebhookTypeOK
<1> QED
  BY <1>1, <1>2, <1>3, <1>4, <1>5, WebhookSteps

\* A slot is freed by a handle that has it.
LEMMA WebhookTypeStep == WebhookTypeOK /\ SlotsInv /\ [WebhookNext]_webhookVars => WebhookTypeOK'
<1> SUFFICES ASSUME WebhookTypeOK, SlotsInv, [WebhookNext]_webhookVars PROVE WebhookTypeOK'
  OBVIOUS
<1> USE WebhookAssumption, Positions, JobTypes DEF WebhookTypeOK
<1>1. ASSUME NEW e \in Events, NEW p \in {"http", "outbox", "session"}, Write(e, p)
      PROVE WebhookTypeOK'
  <2>1. queue' = IF Len(queue) < BufferSize THEN Append(queue, e) ELSE queue
    BY <1>1, WriteQueues
  <2>2. queue' \in Seq(Events) /\ Len(queue') <= BufferSize
    BY <2>1
  <2>3. outbox' \in [Events -> {"none", "pending", "published", "failed"}]
          /\ faults' \in 0..MaxFaults
    BY <1>1 DEF Write, Fault
  <2>4. orphans' \in SUBSET Events
    BY <1>1 DEF Write
  <2>5. UNCHANGED <<next, slots, settingVars, shutdownVars>>
    BY <1>1 DEF Write
  <2> QED
    BY <2>2, <2>3, <2>4, <2>5 DEF settingVars, shutdownVars
<1>2. ASSUME NEW e \in Events, Handle(e) \/ LoadFails(e) \/ DeliverFails(e) PROVE WebhookTypeOK'
  <2>1. /\ UNCHANGED <<outbox, settingVars, shutdownVars, orphans>>
        /\ faults' \in 0..MaxFaults
    BY <1>2, AttemptsKeep DEF Fault
  <2>2. UNCHANGED <<queue, next>> /\ slots' \in {slots, slots - 1}
    BY <1>2, Attempts DEF Ends, GoesOn
  <2>3. slots >= 1
    <3>1. e \in Active
      BY <1>2, Attempts DEF Ends, GoesOn, Active
    <3>2. Active # {} /\ IsFiniteSet(Active) /\ slots = Cardinality(Active)
      BY <3>1 DEF SlotsInv
    <3>3. Cardinality(Active) # 0 /\ Cardinality(Active) \in Nat
      BY <3>2, FS_EmptySet, FS_CardinalityType
    <3> QED
      BY <3>2, <3>3
  <2> QED
    BY <2>1, <2>2, <2>3 DEF settingVars, shutdownVars
<1>3. CASE Dequeue
  <2>1. queue' \in Seq(Events) /\ Len(queue') <= BufferSize /\ next' \in Events
    BY <1>3 DEF Dequeue
  <2> QED
    BY <1>3, <2>1 DEF Dequeue, WorkerUnchanged, settingVars, shutdownVars
<1>4. CASE Acquire
  BY <1>4 DEF Acquire, WorkerUnchanged, settingVars, shutdownVars
<1>5. ASSUME NEW e \in Events, Publish(e) PROVE WebhookTypeOK'
  BY <1>5 DEF Publish, workerVars, settingVars, shutdownVars
<1>6. CASE Configure
  BY <1>6 DEF Configure, Change, SettingsUnchanged, workerVars, shutdownVars
<1>7. CASE StoreKey
  BY <1>7 DEF StoreKey, Change, SettingsUnchanged, workerVars, shutdownVars
<1>8. CASE DeleteInstance
  <2>1. there' \in BOOLEAN /\ key' \in BOOLEAN
    BY <1>8 DEF DeleteInstance
  <2>2. UNCHANGED <<on, outbox, workerVars, shutdownVars, orphans, faults>>
          /\ version' \in 0..MaxChanges
    BY <1>8 DEF DeleteInstance, Change, SettingsUnchanged
  <2> QED
    BY <2>1, <2>2 DEF workerVars, shutdownVars
<1>9. CASE Shutdown
  BY <1>9 DEF Shutdown, ShutdownUnchanged, workerVars, settingVars
<1>10. CASE ServeFails
  BY <1>10 DEF ServeFails, Fault, ShutdownUnchanged, workerVars, settingVars
<1>11. CASE StopNext
  BY <1>11 DEF StopNext, ShutdownUnchanged, workerVars, settingVars
<1>12. CASE Deadline
  BY <1>12 DEF Deadline, ShutdownUnchanged, workerVars, settingVars
<1>13. ASSUME NEW c \in Component, Returns(c) PROVE WebhookTypeOK'
  BY <1>13 DEF Returns, ShutdownUnchanged, workerVars, settingVars
<1>14. CASE UNCHANGED webhookVars
  BY <1>14 DEF webhookVars, workerVars, settingVars, shutdownVars
<1> QED
  BY <1>1, <1>2, <1>3, <1>4, <1>5, <1>6, <1>7, <1>8, <1>9, <1>10, <1>11, <1>12, <1>13, <1>14
     DEF WebhookNext

-----------------------------------------------------------------------------
(* The theorems                                                            *)

LEMMA WebhookInitInv == WebhookInit => WebhookIInv
<1> SUFFICES ASSUME WebhookInit PROVE WebhookIInv
  OBVIOUS
<1> USE WebhookAssumption DEF WebhookInit
<1>1. NoJob \in Job /\ NoJob.st = "none" /\ NoJob.tries = 0 /\ NoJob.since = 0
  BY DEF NoJob, Job
<1>2. WebhookTypeOK
  <2>1. /\ outbox \in [Events -> {"none", "pending", "published", "failed"}]
        /\ job \in [Events -> Job]
    BY <1>1
  <2>2. queue \in Seq(Events) /\ Len(queue) <= BufferSize /\ slots \in 0..MaxInflight
    OBVIOUS
  <2>3. there \in BOOLEAN /\ on \in BOOLEAN /\ key \in BOOLEAN
    OBVIOUS
  <2>4. told \in 0..Len(Components)
    BY Positions
  <2>5. late \in BOOLEAN /\ aborted \in BOOLEAN
    OBVIOUS
  <2> QED
    BY <2>1, <2>2, <2>3, <2>4, <2>5 DEF WebhookTypeOK
<1>3. QueuedInv
  BY <1>1 DEF QueuedInv
<1>4. SlotsInv
  <2>1. Active = {}
    BY <1>1 DEF Active, Running
  <2> QED
    BY <2>1, FS_EmptySet DEF SlotsInv
<1>5. FreshInv
  BY <1>1 DEF FreshInv, FreshPerAttempt
<1>6. StoppedInv
  BY Positions DEF StoppedInv, RelayStopsLast
<1> QED
  BY <1>2, <1>3, <1>4, <1>5, <1>6 DEF WebhookIInv

LEMMA WebhookInvInductive == WebhookIInv /\ [WebhookNext]_webhookVars => WebhookIInv'
  BY WebhookTypeStep, QueuedStep, SlotsStep, FreshStep, StoppedStep DEF WebhookIInv

THEOREM WebhookInvariance == WebhookSpec => []WebhookIInv
  BY WebhookInitInv, WebhookInvInductive, PTL DEF WebhookSpec

\* The type invariant: the queue stays within its buffer, and the slots
\* within the semaphore (webhook/worker.go, New).
THEOREM WebhookTypeCorrect == WebhookSpec => []WebhookTypeOK
<1>1. WebhookIInv => WebhookTypeOK
  BY DEF WebhookIInv
<1> QED
  BY <1>1, WebhookInvariance, PTL

\* A post uses a configuration no older than its attempt (attempt).
THEOREM AttemptsAreFresh == WebhookSpec => []FreshPerAttempt
<1>1. WebhookIInv => FreshPerAttempt
  BY DEF WebhookIInv, FreshInv
<1> QED
  BY <1>1, WebhookInvariance, PTL

\* Every handle has one slot, and gives it back; a handle has at most
\* MaxAttempts attempts (Run, handle).
THEOREM SlotsAreHandles == WebhookSpec => []SlotsAndAttempts
<1>1. WebhookIInv => SlotsAndAttempts
  BY DEF WebhookIInv, SlotsInv, SlotsAndAttempts, Active
<1> QED
  BY <1>1, WebhookInvariance, PTL

\* The relay is told to stop after every component that writes events has
\* returned (serve, stopComponents).
THEOREM RelayIsLast == WebhookSpec => []RelayStopsLast
<1>1. WebhookIInv => RelayStopsLast
  BY DEF WebhookIInv, StoppedInv
<1> QED
  BY <1>1, WebhookInvariance, PTL

-----------------------------------------------------------------------------
(* PART TWO: the life of an instance                                       *)
-----------------------------------------------------------------------------
(* The inductive invariant                                                 *)

Removing == {"close", "erase"}
Holding  == {"status", "dial", "hangup"}

\* Sessions, requests and registrations are of the current run of the process.
RunInv ==
    /\ up # "serving" => reg = NoSession /\ used = {} /\ \A r \in Requests : pc[r] = "idle"
    /\ reg # NoSession => reg \in used
    /\ \A r \in Requests : held[r] # NoSession => held[r] \in used

\* So are the sessions that do anything.
LiveInv == \A o \in Sessions : sess[o].open \/ sess[o].loop \/ sess[o].qr => o \in used

\* A request holds a session where it works on one, and knows where to go on.
StageInv ==
    \A r \in Requests :
        /\ pc[r] \in Holding \cup Removing => held[r] \in Sessions
        /\ pc[r] = "recreate" => resume[r] # "no"

\* A device belongs to a session once it was paired, and no session with a
\* device, or connected, shows a QR code.
DeviceInv ==
    /\ store \subseteq paired
    /\ \A o \in Sessions :
          /\ sess[o].dev \in paired \cup {NoDevice}
          /\ sess[o].qr => sess[o].dev = NoDevice /\ sess[o].status # "connected"

\* What a request holds is registered, or was taken from it.
HolderInv ==
    \A r \in Requests : pc[r] \in Holding => reg = held[r] \/ held[r] \in taken

\* A session is removed by one request, and is not registered meanwhile.
RemovalInv ==
    \A r \in Requests : pc[r] \in Removing =>
        /\ reg # held[r]
        /\ \A q \in Requests \ {r} : pc[q] \in Removing => held[q] # held[r]

\* A session that is open, or will open itself, is registered or has a cause.
OpenInv ==
    \A o \in Sessions :
        (sess[o].open \/ sess[o].loop) /\ reg # o => BeingRemoved(o) \/ o \in taken

\* One whose removal tore it down stays down.
TornInv ==
    \A r \in Requests : pc[r] = "erase" =>
        (~sess[held[r]].open /\ ~sess[held[r]].loop) \/ held[r] \in taken

StrayInv == OpenInv /\ TornInv

\* A deleted row names no device.
GoneInv == ~row.there => row.jid = NoDevice

\* The session of device d is being removed, or is registered.
Removed(d)    == \E o \in Sessions : sess[o].dev = d /\ BeingRemoved(o)
Registered(d) == reg # NoSession /\ sess[reg].dev = d

\* No session was built in this run: only the row knows of device d, and so does
\* whoever read the row.
OnlyInRow(d) ==
    /\ used = {}
    /\ row.jid = d
    /\ \A r \in Requests :
          \/ pc[r] \in {"idle", "unregister"}
          \/ pc[r] \in {"session", "update"} /\ copy[r].jid = d

\* Every stored device was missed, or has a session that is being removed or is
\* registered, or waits for its first session.
CoverInv == \A d \in store : d \in missed \/ Removed(d) \/ Registered(d) \/ OnlyInRow(d)

IInv ==
    /\ TypeOK /\ RunInv /\ LiveInv /\ StageInv /\ DeviceInv /\ HolderInv /\ RemovalInv
    /\ StrayInv /\ GoneInv /\ CoverInv /\ LeakHasCause /\ IdentityRecorded

-----------------------------------------------------------------------------
(* What the helpers do                                                     *)

LEMMA NewSessionType ==
    ASSUME NEW d \in Device
    PROVE  /\ NewSession(d) \in Session /\ NewSession(d).dev = d
           /\ NewSession(d).status = "disconnected"
           /\ ~NewSession(d).open /\ ~NewSession(d).qr /\ ~NewSession(d).loop
  BY DEF NewSession, Session, Status, Reason

\* The JID that a call of setStatus leaves the session with.
Known(s, jid) == IF jid # NoDevice THEN jid ELSE s.jid

LEMMA AfterFacts ==
    ASSUME NEW s \in Session, NEW st \in Status, NEW jid \in Device, NEW why \in Reason,
           NEW a, a = After(s, st, jid, why)
    PROVE  /\ a \in Session
           /\ a.dev = s.dev /\ a.deleted = s.deleted /\ a.open = s.open /\ a.qr = s.qr
           /\ Dropped(s, st, why) => a = s
           /\ ~Dropped(s, st, why) =>
                 /\ a.status = st /\ a.jid = Known(s, jid)
                 /\ a.loop => st = "disconnected" /\ why = ""
<1> DEFINE known == Known(s, jid)
           again == st = "disconnected" /\ why = "" /\ known # NoDevice
           n == [s EXCEPT !.status = st, !.why = why, !.jid = known, !.loop = again]
<1>1. a = IF Dropped(s, st, why) THEN s ELSE n
  BY DEF After, Known
<1>2. known \in Device /\ again \in BOOLEAN
  <2>1. known \in Device
    BY DEF Known, Session
  <2>2. again \in BOOLEAN
    OBVIOUS
  <2> QED
    BY <2>1, <2>2
<1>3. again => st = "disconnected" /\ why = ""
  OBVIOUS
<1> HIDE DEF known, again
<1>4. /\ n \in Session
      /\ n.dev = s.dev /\ n.deleted = s.deleted /\ n.open = s.open /\ n.qr = s.qr
      /\ n.status = st /\ n.jid = known /\ n.loop = again
  BY <1>2, Zenon DEF Session
<1> HIDE DEF n
<1> QED
  BY <1>1, <1>3, <1>4 DEF known

\* A step works on session o, and reports on it.
Touches(o) == sess' \in [Sessions -> Session] /\ \A p \in Sessions \ {o} : sess'[p] = sess[p]

Reports(o) ==
    /\ row' \in Row /\ row'.there = row.there
    /\ ~row.there => row'.jid = row.jid
    /\ stale' = IF row'.jid = row.jid THEN stale ELSE reg # o

LEMMA SetConnectionStateFacts ==
    ASSUME TypeOK, NEW st \in Status, NEW jid \in Device, SetConnectionState(st, jid)
    PROVE  /\ row' \in Row /\ row'.there = row.there
           /\ row'.jid = IF row.there /\ jid # NoDevice THEN jid ELSE row.jid
<1> DEFINE n == [row EXCEPT !.st = IF row.there THEN st ELSE @,
                            !.jid = IF row.there /\ jid # NoDevice THEN jid ELSE @]
<1>1. row \in Row
  BY DEF TypeOK
<1>2. row' = n
  BY DEF SetConnectionState
<1>3. n \in Row /\ n.there = row.there
      /\ n.jid = IF row.there /\ jid # NoDevice THEN jid ELSE row.jid
  BY <1>1 DEF Row
<1> HIDE DEF n
<1> QED
  BY <1>2, <1>3

LEMMA SetConnectionFacts ==
    ASSUME TypeOK, NEW st \in Status, NEW jid \in Device, SetConnection(st, jid)
    PROVE  /\ row.there /\ row' \in Row /\ row'.there /\ row'.jid = jid
           /\ stale' = (stale \/ jid # row.jid)
<1> DEFINE n == [row EXCEPT !.st = st, !.jid = jid]
<1>1. row \in Row
  BY DEF TypeOK
<1>2. row' = n /\ row.there /\ stale' = (stale \/ jid # row.jid)
  BY DEF SetConnection
<1>3. n \in Row /\ n.there = row.there /\ n.jid = jid
  BY <1>1, Zenon DEF Row
<1> HIDE DEF n
<1> QED
  BY <1>2, <1>3

\* What SetStatus(o, s, st, jid, why) leaves.
Reported(o, s, st, jid, why) ==
    /\ Touches(o) /\ Reports(o)
    /\ sess'[o].dev = s.dev /\ sess'[o].open = s.open /\ sess'[o].qr = s.qr
    /\ Dropped(s, st, why) =>
          sess'[o].status = s.status /\ sess'[o].loop = s.loop /\ row' = row
    /\ ~Dropped(s, st, why) =>
          /\ sess'[o].status = st
          /\ sess'[o].loop => st = "disconnected" /\ why = ""
          /\ jid # NoDevice /\ row.there => row'.jid = jid

LEMMA SetStatusFacts ==
    ASSUME TypeOK, NEW o \in Sessions, NEW s \in Session, NEW st \in Status, NEW jid \in Device,
           NEW why \in Reason, SetStatus(o, s, st, jid, why)
    PROVE  Reported(o, s, st, jid, why)
<1> DEFINE a == After(s, st, jid, why)
<1>0. sess' = [sess EXCEPT ![o] = a]
  BY DEF SetStatus
<1>1. /\ a \in Session
      /\ a.dev = s.dev /\ a.deleted = s.deleted /\ a.open = s.open /\ a.qr = s.qr
      /\ Dropped(s, st, why) => a = s
      /\ ~Dropped(s, st, why) =>
            /\ a.status = st /\ a.jid = Known(s, jid)
            /\ a.loop => st = "disconnected" /\ why = ""
  BY AfterFacts
<1>2. /\ Dropped(s, st, why) => row' = row
      /\ ~Dropped(s, st, why) => SetConnectionState(st, a.jid)
      /\ stale' = IF row'.jid = row.jid THEN stale ELSE reg # o
  BY Zenon DEF SetStatus
<1> HIDE DEF a
<1>3. a.jid \in Device /\ row \in Row /\ sess \in [Sessions -> Session]
  BY <1>1 DEF Session, TypeOK
<1>4. ~Dropped(s, st, why) =>
         /\ row' \in Row /\ row'.there = row.there
         /\ row'.jid = IF row.there /\ a.jid # NoDevice THEN a.jid ELSE row.jid
  BY <1>2, <1>3, SetConnectionStateFacts
<1>5. Reports(o)
  BY <1>2, <1>3, <1>4 DEF Reports
<1>6. Touches(o) /\ sess'[o] = a
  BY <1>0, <1>1, <1>3 DEF Touches
<1> QED
  BY <1>1, <1>2, <1>4, <1>5, <1>6 DEF Known, Reported

-----------------------------------------------------------------------------
(* What the actions do to a session                                        *)

\* The statuses and reasons that are reported.
LEMMA StatusWords ==
    /\ "connected" \in Status /\ "disconnected" \in Status
    /\ "error" \in Status /\ "pairing" \in Status
    /\ "" \in Reason /\ "qr" \in Reason /\ "logout" \in Reason
    /\ "ban" \in Reason /\ "asked" \in Reason /\ "removed" \in Reason
  BY DEF Status, Reason

LEMMA ScannedFacts ==
    ASSUME TypeOK, NEW o \in Sessions, Scanned(o)
    PROVE  /\ Touches(o) /\ Reports(o) /\ sess[o].qr /\ sess[o].open
           /\ \E d \in Devices \ paired :
                 /\ store' = store \cup {d} /\ paired' = paired \cup {d}
                 /\ missed' = IF reg = o /\ row.there THEN missed ELSE missed \cup {d}
                 /\ sess'[o].dev = d
           /\ sess'[o].open /\ ~sess'[o].qr
           /\ (row.there => row'.jid = sess'[o].dev) \/ sess[o].status = "connected"
<1>1. PICK d \in Devices \ paired :
         /\ store' = store \cup {d} /\ paired' = paired \cup {d}
         /\ missed' = IF reg = o /\ row.there THEN missed ELSE missed \cup {d}
         /\ SetStatus(o, [sess[o] EXCEPT !.dev = d, !.qr = FALSE], "connected", d, "")
  BY DEF Scanned
<1> DEFINE s == [sess[o] EXCEPT !.dev = d, !.qr = FALSE]
<1>2. sess[o] \in Session /\ d \in Device /\ d # NoDevice
  BY LifecycleAssumption DEF TypeOK, Device
<1>3. s \in Session /\ s.dev = d /\ s.qr = FALSE /\ s.open = sess[o].open
      /\ s.status = sess[o].status /\ s.why = sess[o].why
  BY <1>2, Zenon DEF Session
<1>4. SetStatus(o, s, "connected", d, "")
  BY <1>1
<1> HIDE DEF s
<1>5. sess[o].qr /\ sess[o].open
  BY DEF Scanned
<1>6. Dropped(s, "connected", "") => s.status = "connected"
  BY DEF Dropped
<1>7. Reported(o, s, "connected", d, "")
  BY <1>2, <1>3, <1>4, SetStatusFacts, StatusWords
<1> QED
  BY <1>1, <1>2, <1>3, <1>5, <1>6, <1>7 DEF Reported

LEMMA QrEndsFacts ==
    ASSUME TypeOK, NEW o \in Sessions, QrEnds(o)
    PROVE  /\ Touches(o) /\ Reports(o)
           /\ sess'[o].dev = sess[o].dev /\ ~sess'[o].open /\ ~sess'[o].qr
           /\ sess'[o].loop => sess[o].loop
           /\ sess'[o].status # "connected"
<1>1. PICK st \in {"disconnected", "error"} :
         SetStatus(o, [sess[o] EXCEPT !.qr = FALSE, !.open = FALSE], st, NoDevice, "qr")
  BY DEF QrEnds
<1> DEFINE s == [sess[o] EXCEPT !.qr = FALSE, !.open = FALSE]
<1>2. sess[o] \in Session /\ NoDevice \in Device
  BY DEF TypeOK, Device
<1>3. s \in Session /\ s.dev = sess[o].dev /\ s.qr = FALSE /\ s.open = FALSE
      /\ s.loop = sess[o].loop /\ s.status = sess[o].status /\ s.why = sess[o].why
  BY <1>2, Zenon DEF Session
<1>4. SetStatus(o, s, st, NoDevice, "qr")
  BY <1>1
<1> HIDE DEF s
<1>5. Dropped(s, st, "qr") => s.status = st
  BY DEF Dropped
<1>6. st \in Status /\ st # "connected" /\ "qr" \in Reason
  BY <1>1 DEF Status, Reason
<1>7. Reported(o, s, st, NoDevice, "qr")
  BY <1>2, <1>3, <1>4, <1>6, SetStatusFacts
<1> QED
  BY <1>3, <1>5, <1>6, <1>7 DEF Reported

LEMMA LoggedInFacts ==
    ASSUME TypeOK, NEW o \in Sessions, LoggedIn(o)
    PROVE  /\ Touches(o) /\ Reports(o) /\ sess[o].open /\ sess[o].dev # NoDevice
           /\ sess'[o].dev = sess[o].dev /\ sess'[o].open /\ sess'[o].qr = sess[o].qr
           /\ (row.there => row'.jid = sess[o].dev)
              \/ (sess[o].status = "connected" /\ row' = row)
<1>1. sess[o] \in Session /\ sess[o].dev \in Device
  BY DEF TypeOK, Session
<1>2. SetStatus(o, sess[o], "connected", sess[o].dev, "") /\ sess[o].open /\ sess[o].dev # NoDevice
  BY DEF LoggedIn
<1>3. Dropped(sess[o], "connected", "") => sess[o].status = "connected"
  BY DEF Dropped
<1>4. Reported(o, sess[o], "connected", sess[o].dev, "")
  BY <1>1, <1>2, SetStatusFacts, StatusWords
<1> QED
  BY <1>1, <1>2, <1>3, <1>4 DEF Reported

LEMMA DropFacts ==
    ASSUME TypeOK, NEW o \in Sessions, Drop(o)
    PROVE  /\ Touches(o) /\ Reports(o) /\ sess[o].open
           /\ sess'[o].dev = sess[o].dev /\ ~sess'[o].open /\ sess'[o].qr = sess[o].qr
           /\ sess'[o].status # "connected"
<1> DEFINE s == [sess[o] EXCEPT !.open = FALSE]
<1>2. sess[o] \in Session /\ NoDevice \in Device
  BY DEF TypeOK, Device
<1>3. s \in Session /\ s.dev = sess[o].dev /\ s.qr = sess[o].qr /\ s.open = FALSE
      /\ s.status = sess[o].status /\ s.why = sess[o].why
  BY <1>2, Zenon DEF Session
<1>1. sess[o].open
        /\ (SetStatus(o, s, "disconnected", NoDevice, "") \/ SetStatus(o, s, "error", NoDevice, "ban"))
  <2>1. sess[o].open
    BY DEF Drop
  <2>2. PICK end \in {<<"disconnected", "">>, <<"error", "ban">>} :
           SetStatus(o, s, end[1], NoDevice, end[2])
    BY Zenon DEF Drop
  <2> HIDE DEF s
  <2>3. end = <<"disconnected", "">> \/ end = <<"error", "ban">>
    OBVIOUS
  <2>4. CASE end = <<"disconnected", "">>
    <3>1. end[1] = "disconnected" /\ end[2] = ""
      BY <2>4
    <3> QED
      BY <2>1, <2>2, <3>1
  <2>5. CASE end = <<"error", "ban">>
    <3>1. end[1] = "error" /\ end[2] = "ban"
      BY <2>5
    <3> QED
      BY <2>1, <2>2, <3>1
  <2> QED
    BY <2>3, <2>4, <2>5
<1> HIDE DEF s
<1>4. CASE SetStatus(o, s, "disconnected", NoDevice, "")
  <2>1. Dropped(s, "disconnected", "") => s.status # "connected"
    BY DEF Dropped, Terminal
  <2>2. Reported(o, s, "disconnected", NoDevice, "")
    BY <1>2, <1>3, <1>4, SetStatusFacts, StatusWords
  <2> QED
    BY <1>1, <1>3, <2>1, <2>2 DEF Reported
<1>5. CASE SetStatus(o, s, "error", NoDevice, "ban")
  <2>1. Dropped(s, "error", "ban") => s.status # "connected"
    BY DEF Dropped
  <2>2. Reported(o, s, "error", NoDevice, "ban")
    BY <1>2, <1>3, <1>5, SetStatusFacts, StatusWords
  <2> QED
    BY <1>1, <1>3, <2>1, <2>2 DEF Reported
<1> QED
  BY <1>1, <1>4, <1>5

LEMMA LoggedOutFacts ==
    ASSUME TypeOK, NEW o \in Sessions, LoggedOut(o)
    PROVE  /\ Touches(o) /\ Reports(o) /\ sess[o].open /\ sess[o].dev # NoDevice
           /\ store' = store \ {sess[o].dev}
           /\ sess'[o].dev = NoDevice /\ ~sess'[o].open /\ sess'[o].qr = sess[o].qr
           /\ sess'[o].status # "connected"
<1> DEFINE s == [sess[o] EXCEPT !.open = FALSE, !.dev = NoDevice, !.deleted = TRUE]
<1>1. sess[o].open /\ sess[o].dev # NoDevice /\ store' = store \ {sess[o].dev}
      /\ SetStatus(o, s, "disconnected", NoDevice, "logout")
  BY DEF LoggedOut
<1>2. sess[o] \in Session /\ NoDevice \in Device
  BY DEF TypeOK, Device
<1>3. s \in Session /\ s.dev = NoDevice /\ s.qr = sess[o].qr /\ s.open = FALSE
      /\ s.status = sess[o].status /\ s.why = sess[o].why
  BY <1>2, Zenon DEF Session
<1> HIDE DEF s
<1>4. Dropped(s, "disconnected", "logout") => s.status # "connected"
  BY DEF Dropped
<1>5. Reported(o, s, "disconnected", NoDevice, "logout")
  BY <1>1, <1>2, <1>3, SetStatusFacts, StatusWords
<1> QED
  BY <1>1, <1>3, <1>4, <1>5 DEF Reported

LEMMA RedialFacts ==
    ASSUME TypeOK, NEW o \in Sessions, Redial(o)
    PROVE  /\ Touches(o) /\ sess[o].loop
           /\ sess'[o].dev = sess[o].dev /\ sess'[o].qr = sess[o].qr
           /\ sess'[o].status = sess[o].status
<1> DEFINE s == [sess[o] EXCEPT !.loop = FALSE, !.open = TRUE]
<1>1. sess[o].loop /\ sess' = [sess EXCEPT ![o] = s]
  BY DEF Redial
<1>2. sess \in [Sessions -> Session]
  BY DEF TypeOK
<1>3. s \in Session /\ s.dev = sess[o].dev /\ s.qr = sess[o].qr /\ s.status = sess[o].status
  BY <1>2, Zenon DEF Session
<1> HIDE DEF s
<1> QED
  BY <1>1, <1>2, <1>3 DEF Touches

LEMMA DialFacts ==
    ASSUME TypeOK, NEW r \in Requests, Dial(r), held[r] \in Sessions
    PROVE  /\ Touches(held[r])
           /\ sess'[held[r]].dev = sess[held[r]].dev /\ ~sess'[held[r]].loop
           /\ \/ /\ sess'[held[r]].qr = sess[held[r]].qr
                 /\ sess'[held[r]].status = sess[held[r]].status
                 /\ row' = row /\ stale' = stale
              \/ /\ sess[held[r]].dev = NoDevice
                 /\ sess'[held[r]].status # "connected"
                 /\ Reports(held[r])
<1> DEFINE o == held[r]
           s == [sess[o] EXCEPT !.loop = FALSE]
<1>1. sess \in [Sessions -> Session] /\ NoDevice \in Device
  BY DEF TypeOK, Device
<1>2. s \in Session /\ s.loop = FALSE /\ s.dev = sess[o].dev /\ s.qr = sess[o].qr
      /\ s.status = sess[o].status /\ s.open = sess[o].open /\ s.why = sess[o].why
  BY <1>1, Zenon DEF Session
<1>3. \/ sess' = [sess EXCEPT ![o] = s] /\ row' = row /\ stale' = stale
      \/ /\ \E opened \in {s.open, s.dev # NoDevice} :
               sess' = [sess EXCEPT ![o] = [s EXCEPT !.open = opened \/ @]]
         /\ row' = row /\ stale' = stale
      \/ /\ s.dev = NoDevice
         /\ SetStatus(o, [s EXCEPT !.open = TRUE, !.qr = TRUE], "pairing", NoDevice, "")
  BY DEF Dial
<1> HIDE DEF s
<1>4. CASE sess' = [sess EXCEPT ![o] = s] /\ row' = row /\ stale' = stale
  BY <1>1, <1>2, <1>4 DEF Touches
<1>5. ASSUME NEW opened \in {s.open, s.dev # NoDevice},
             sess' = [sess EXCEPT ![o] = [s EXCEPT !.open = opened \/ @]],
             row' = row, stale' = stale
      PROVE  Touches(o) /\ sess'[o].dev = s.dev /\ ~sess'[o].loop
             /\ sess'[o].qr = s.qr /\ sess'[o].status = s.status
  <2> DEFINE b == opened \/ s.open
             t == [s EXCEPT !.open = b]
  <2>1. b \in BOOLEAN
    OBVIOUS
  <2>2. sess' = [sess EXCEPT ![o] = t]
    BY <1>5
  <2> HIDE DEF b
  <2>3. t \in Session /\ t.dev = s.dev /\ t.loop = s.loop /\ t.qr = s.qr /\ t.status = s.status
    BY <1>2, <2>1, Zenon DEF Session
  <2> HIDE DEF t
  <2> QED
    BY <1>1, <1>2, <2>2, <2>3 DEF Touches
<1>6. CASE s.dev = NoDevice
           /\ SetStatus(o, [s EXCEPT !.open = TRUE, !.qr = TRUE], "pairing", NoDevice, "")
  <2> DEFINE t == [s EXCEPT !.open = TRUE, !.qr = TRUE]
  <2>1. t \in Session /\ t.dev = s.dev /\ t.loop = s.loop /\ t.status = s.status
    BY <1>2, Zenon DEF Session
  <2>2. SetStatus(o, t, "pairing", NoDevice, "")
    BY <1>6
  <2> HIDE DEF t
  <2>3. Dropped(t, "pairing", "") => t.status = "pairing"
    BY DEF Dropped
  <2>4. Reported(o, t, "pairing", NoDevice, "")
    BY <1>1, <2>1, <2>2, SetStatusFacts, StatusWords
  <2> QED
    BY <1>2, <1>6, <2>1, <2>3, <2>4 DEF Reported
<1> QED
  BY <1>2, <1>3, <1>4, <1>5, <1>6

LEMMA DialMoves ==
    ASSUME TypeOK, NEW r \in Requests, Dial(r)
    PROVE  /\ pc[r] = "dial"
           /\ pc' = [pc EXCEPT ![r] = pc'[r]] /\ pc'[r] \in {"idle", "unregister", "mark"}
           /\ held' = [held EXCEPT ![r] = held'[r]] /\ held'[r] \in {held[r], NoSession}
           /\ copy' = [copy EXCEPT ![r] = copy'[r]]
           /\ resume' = [resume EXCEPT ![r] = resume'[r]]
           /\ UNCHANGED <<store, up, reg, used, paired, taken, missed, faults>>
<1>1. pc[r] = "dial" /\ UNCHANGED <<store, up, reg, used, paired, taken, missed, faults>>
  BY DEF Dial
<1>2. \/ Answer(r)
      \/ resume' = [resume EXCEPT ![r] = "dial"] /\ Goto(r, "unregister")
         /\ UNCHANGED <<op, copy, held>>
      \/ Proceed(r, "mark")
  BY DEF Dial
<1> QED
  BY <1>1, <1>2 DEF Answer, Proceed, Goto, TypeOK

LEMMA TeardownFacts ==
    ASSUME NEW s \in Session, NEW out \in BOOLEAN, NEW t, t = Teardown(s, out)
    PROVE  /\ t \in Session /\ ~t.open /\ ~t.loop /\ t.qr = s.qr
           /\ t.status = s.status /\ t.why = s.why
           /\ t.dev = IF out THEN NoDevice ELSE s.dev
<1> DEFINE a == [s EXCEPT !.open = FALSE, !.loop = FALSE, !.dev = NoDevice, !.deleted = TRUE]
           b == [s EXCEPT !.open = FALSE, !.loop = FALSE]
<1>1. a \in Session /\ ~a.open /\ ~a.loop /\ a.qr = s.qr /\ a.status = s.status /\ a.why = s.why
      /\ a.dev = NoDevice
  BY Zenon DEF Session, Device
<1>2. b \in Session /\ ~b.open /\ ~b.loop /\ b.qr = s.qr /\ b.status = s.status /\ b.why = s.why
      /\ b.dev = s.dev
  BY Zenon DEF Session
<1>3. t = IF out THEN a ELSE b
  BY DEF Teardown
<1> HIDE DEF a, b
<1> QED
  BY <1>1, <1>2, <1>3

LEMMA HangupFacts ==
    ASSUME TypeOK, NEW r \in Requests, Hangup(r), held[r] \in Sessions
    PROVE  /\ Touches(held[r]) /\ Reports(held[r])
           /\ \/ store' = store /\ sess'[held[r]].dev = sess[held[r]].dev
              \/ store' = store \ {sess[held[r]].dev} /\ sess'[held[r]].dev = NoDevice
           /\ ~sess'[held[r]].open /\ ~sess'[held[r]].loop
           /\ sess'[held[r]].qr = sess[held[r]].qr
           /\ sess'[held[r]].status # "connected"
<1> DEFINE o == held[r]
<1>1. PICK out \in BOOLEAN :
         /\ LogoutTolerantly(o, out)
         /\ SetStatus(o, [Teardown(sess[o], out) EXCEPT !.jid = NoDevice],
                      "disconnected", NoDevice, "asked")
  BY DEF Hangup
<1> DEFINE t == Teardown(sess[o], out)
           s == [t EXCEPT !.jid = NoDevice]
<1>2. sess[o] \in Session /\ NoDevice \in Device
  BY DEF TypeOK, Device
<1>3. /\ t \in Session /\ ~t.open /\ ~t.loop /\ t.qr = sess[o].qr
      /\ t.dev = IF out THEN NoDevice ELSE sess[o].dev
  BY <1>2, TeardownFacts
<1>4. SetStatus(o, s, "disconnected", NoDevice, "asked")
  BY <1>1
<1> HIDE DEF t
<1>5. s \in Session /\ s.open = t.open /\ s.loop = t.loop /\ s.qr = t.qr /\ s.dev = t.dev
      /\ s.status = t.status
  BY <1>2, <1>3, Zenon DEF Session
<1> HIDE DEF s
<1>6. Dropped(s, "disconnected", "asked") => s.status # "connected"
  BY DEF Dropped
<1>7. store' = IF out THEN store \ {sess[o].dev} ELSE store
  BY <1>1 DEF LogoutTolerantly
<1>8. Reported(o, s, "disconnected", NoDevice, "asked")
  BY <1>2, <1>4, <1>5, SetStatusFacts, StatusWords
<1> QED
  BY <1>3, <1>5, <1>6, <1>7, <1>8 DEF Reported

LEMMA CloseFacts ==
    ASSUME TypeOK, NEW r \in Requests, Close(r), held[r] \in Sessions
    PROVE  /\ Touches(held[r])
           /\ \/ store' = store /\ sess'[held[r]].dev = sess[held[r]].dev
              \/ store' = store \ {sess[held[r]].dev} /\ sess'[held[r]].dev = NoDevice
           /\ ~sess'[held[r]].open /\ ~sess'[held[r]].loop
           /\ sess'[held[r]].qr = sess[held[r]].qr
           /\ sess'[held[r]].status = sess[held[r]].status
<1> DEFINE o == held[r]
<1>1. PICK out \in BOOLEAN :
         LogoutTolerantly(o, out) /\ sess' = [sess EXCEPT ![o] = Teardown(sess[o], out)]
  BY DEF Close
<1> DEFINE t == Teardown(sess[o], out)
<1>2. sess \in [Sessions -> Session]
  BY DEF TypeOK
<1>3. /\ t \in Session /\ ~t.open /\ ~t.loop /\ t.qr = sess[o].qr /\ t.status = sess[o].status
      /\ t.dev = IF out THEN NoDevice ELSE sess[o].dev
  BY <1>2, TeardownFacts
<1>4. sess' = [sess EXCEPT ![o] = t]
  BY <1>1
<1> HIDE DEF t
<1>5. store' = IF out THEN store \ {sess[o].dev} ELSE store
  BY <1>1 DEF LogoutTolerantly
<1> QED
  BY <1>2, <1>3, <1>4, <1>5 DEF Touches

LEMMA EraseFacts ==
    ASSUME TypeOK, NEW r \in Requests, Erase(r), held[r] \in Sessions
    PROVE  /\ Touches(held[r])
           /\ store' = store \ {sess[held[r]].dev} /\ sess'[held[r]].dev = NoDevice
           /\ sess'[held[r]].open = sess[held[r]].open
           /\ sess'[held[r]].loop => sess[held[r]].loop
           /\ sess'[held[r]].qr = sess[held[r]].qr
           /\ sess'[held[r]].status # "connected"
           /\ Reports(held[r]) \/ (row' = row /\ stale' = stale)
<1> DEFINE o == held[r]
           t == [sess[o] EXCEPT !.dev = NoDevice, !.deleted = TRUE]
           s == IF sess[o].dev = NoDevice THEN sess[o] ELSE t
<1>1. sess \in [Sessions -> Session] /\ NoDevice \in Device
  BY DEF TypeOK, Device
<1>2. t \in Session /\ t.dev = NoDevice /\ t.open = sess[o].open /\ t.loop = sess[o].loop
      /\ t.qr = sess[o].qr
  BY <1>1, Zenon DEF Session
<1>3. store' = store \ {sess[o].dev}
      /\ IF s.status = "disconnected" THEN sess' = [sess EXCEPT ![o] = s]
         /\ UNCHANGED <<row, stale>>
         ELSE SetStatus(o, s, "disconnected", NoDevice, "removed")
  BY DEF Erase
<1> HIDE DEF t
<1>4. s \in Session /\ s.dev = NoDevice /\ s.open = sess[o].open /\ s.loop = sess[o].loop
      /\ s.qr = sess[o].qr
  BY <1>1, <1>2
<1> HIDE DEF s
<1>5. CASE s.status = "disconnected"
  BY <1>1, <1>3, <1>4, <1>5 DEF Touches
<1>6. CASE s.status # "disconnected"
  <2>1. Dropped(s, "disconnected", "removed") => FALSE
    BY <1>6 DEF Dropped
  <2>2. Reported(o, s, "disconnected", NoDevice, "removed")
    BY <1>1, <1>3, <1>4, <1>6, SetStatusFacts, StatusWords
  <2> QED
    BY <1>3, <1>4, <2>1, <2>2 DEF Reported
<1> QED
  BY <1>5, <1>6

\* A request is given the registered session, or a fresh one.
LEMMA CreateFacts ==
    ASSUME TypeOK, NEW r \in Requests, NEW d \in Device, NEW then, Create(r, d, then)
    PROVE  /\ pc' = [pc EXCEPT ![r] = then]
           /\ reg' \in Sessions /\ held' = [held EXCEPT ![r] = reg']
           /\ \/ reg # NoSession /\ UNCHANGED <<reg, sess, used>>
              \/ /\ reg = NoSession /\ (d = NoDevice \/ d \in store)
                 /\ reg' \notin used /\ used' = used \cup {reg'}
                 /\ Touches(reg') /\ sess'[reg'] = NewSession(d)
<1>1. sess \in [Sessions -> Session] /\ reg \in Sessions \cup {NoSession}
  BY DEF TypeOK
<1> QED
  BY <1>1, NewSessionType DEF Create, Goto, Touches

LEMMA RestoredFacts ==
    ASSUME TypeOK, Restored
    PROVE  /\ reg' \in Sessions /\ used' = used \cup {reg'} /\ row.jid \in store
           /\ Touches(reg') /\ sess'[reg'].dev = row.jid
           /\ sess'[reg'].status = "disconnected" /\ ~sess'[reg'].qr
           /\ row' \in Row /\ row'.there = row.there /\ row'.jid = row.jid
           /\ row.there
<1>1. PICK o \in Sessions \ used, dialed \in BOOLEAN :
         /\ used' = used \cup {o}
         /\ reg' = o
         /\ sess' = [sess EXCEPT ![o] = [NewSession(row.jid) EXCEPT !.open = dialed]]
         /\ row' = row \/ row' = [row EXCEPT !.st = "error"]
  BY DEF Restored
<1> DEFINE s == [NewSession(row.jid) EXCEPT !.open = dialed]
           w == [row EXCEPT !.st = "error"]
<1>2. row \in Row /\ row.jid \in Device /\ sess \in [Sessions -> Session]
  BY DEF TypeOK, Row
<1>3. s \in Session /\ s.dev = row.jid /\ s.status = "disconnected" /\ ~s.qr
  <2> DEFINE n == NewSession(row.jid)
  <2>1. n \in Session /\ n.dev = row.jid /\ n.status = "disconnected" /\ ~n.qr
    BY <1>2, NewSessionType
  <2> HIDE DEF n
  <2>2. LET m == [n EXCEPT !.open = dialed]
        IN  m \in Session /\ m.dev = n.dev /\ m.status = n.status /\ m.qr = n.qr
    BY <2>1, Zenon DEF Session
  <2> QED
    BY <2>1, <2>2 DEF n
<1>4. w \in Row /\ w.there = row.there /\ w.jid = row.jid
  BY <1>2, Zenon DEF Row, Status
<1> HIDE DEF s, w
<1>5. sess' = [sess EXCEPT ![o] = s] /\ (row' = row \/ row' = w)
  BY <1>1 DEF s, w
<1>6. row.there /\ row.jid \in store
  BY DEF Restored
<1> QED
  BY <1>1, <1>2, <1>3, <1>4, <1>5, <1>6 DEF Touches

LEMMA NotRestoredFacts ==
    ASSUME TypeOK, NotRestored
    PROVE  row' \in Row /\ row'.there = row.there /\ row'.jid = row.jid
<1> DEFINE w == [row EXCEPT !.st = "error"]
<1>1. row \in Row
  BY DEF TypeOK
<1>2. w \in Row /\ w.there = row.there /\ w.jid = row.jid
  BY <1>1, Zenon DEF Row, Status
<1>3. row' = row \/ row' = w
  BY DEF NotRestored
<1> HIDE DEF w
<1> QED
  BY <1>1, <1>2, <1>3

-----------------------------------------------------------------------------
(* Types                                                                   *)

Steps == {"idle", "session", "status", "dial", "mark", "hangup", "clear", "unregister",
          "close", "erase", "recreate", "deleteRow", "update"}

LocalsOK ==
    /\ pc \in [Requests -> Steps]
    /\ op \in [Requests -> {"none", "connect", "disconnect", "delete", "update"}]
    /\ copy \in [Requests -> [st: Status, jid: Device]]
    /\ held \in [Requests -> Sessions \cup {NoSession}]
    /\ resume \in [Requests -> {"no", "status", "dial", "hangup"}]

StateOK ==
    /\ row \in Row
    /\ store \in SUBSET Devices
    /\ up \in {"down", "restoring", "serving"}
    /\ reg \in Sessions \cup {NoSession}
    /\ sess \in [Sessions -> Session]
    /\ used \in SUBSET Sessions
    /\ paired \in SUBSET Devices
    /\ taken \in SUBSET Sessions
    /\ missed \in SUBSET Devices
    /\ faults \in 0..MaxFaults

LEMMA TypeParts == TypeOK <=> LocalsOK /\ StateOK /\ stale \in BOOLEAN
  BY DEF TypeOK, LocalsOK, StateOK, Steps

LEMMA NoCopyType == NoCopy \in [st: Status, jid: Device]
  BY DEF NoCopy, Status, Device

LEMMA AnswerTypes == ASSUME LocalsOK, NEW r \in Requests, Answer(r) PROVE LocalsOK'
  BY NoCopyType DEF LocalsOK, Answer, Goto, Steps

\* Where a request goes once the session is removed.
LEMMA AfterRemovalFacts ==
    ASSUME TypeOK, NEW r \in Requests, AfterRemoval(r)
    PROVE  /\ LocalsOK'
           /\ pc'[r] \in {"idle", "clear", "deleteRow"} /\ held'[r] = NoSession
           /\ pc' = [pc EXCEPT ![r] = pc'[r]] /\ held' = [held EXCEPT ![r] = NoSession]
           /\ copy' = [copy EXCEPT ![r] = copy'[r]]
           /\ resume' = [resume EXCEPT ![r] = resume'[r]]
<1>0. LocalsOK
  BY TypeParts
<1>1. CASE resume[r] = "no" /\ op[r] # "delete"
  <2>1. Answer(r)
    BY <1>1 DEF AfterRemoval
  <2>2. LocalsOK'
    BY <1>0, <2>1, AnswerTypes
  <2>3. pc \in [Requests -> Steps] /\ held \in [Requests -> Sessions \cup {NoSession}]
    BY <1>0 DEF LocalsOK
  <2>4. pc'[r] = "idle" /\ held'[r] = NoSession
    BY <2>1, <2>3 DEF Answer, Goto
  <2>5. copy'[r] = NoCopy /\ resume'[r] = "no"
    BY <1>0, <2>1 DEF Answer, LocalsOK
  <2> QED
    BY <2>1, <2>2, <2>4, <2>5 DEF Answer, Goto
<1>2. CASE ~(resume[r] = "no" /\ op[r] # "delete")
  BY <1>0, <1>2 DEF AfterRemoval, Goto, LocalsOK, Steps
<1> QED
  BY <1>1, <1>2

\* The requests.
LEMMA LocalTypes == TypeOK /\ StageInv /\ [Next]_vars => LocalsOK'
<1> SUFFICES ASSUME TypeOK, StageInv, [Next]_vars PROVE LocalsOK'
  OBVIOUS
<1>0. LocalsOK
  BY TypeParts
<1>c. \A r \in Requests : copy[r].jid \in Device
  BY DEF TypeOK
<1>1. ASSUME NEW o \in Sessions, Scanned(o) PROVE LocalsOK'
  BY <1>1, <1>0 DEF Scanned, EnvUnchanged, requestVars, LocalsOK, Steps
<1>2. ASSUME NEW o \in Sessions, QrEnds(o) PROVE LocalsOK'
  BY <1>2, <1>0 DEF QrEnds, EnvUnchanged, requestVars, LocalsOK, Steps
<1>3. ASSUME NEW o \in Sessions, LoggedIn(o) PROVE LocalsOK'
  BY <1>3, <1>0 DEF LoggedIn, EnvUnchanged, requestVars, LocalsOK, Steps
<1>4. ASSUME NEW o \in Sessions, Drop(o) PROVE LocalsOK'
  BY <1>4, <1>0 DEF Drop, EnvUnchanged, requestVars, LocalsOK, Steps
<1>5. ASSUME NEW o \in Sessions, LoggedOut(o) PROVE LocalsOK'
  BY <1>5, <1>0 DEF LoggedOut, EnvUnchanged, requestVars, LocalsOK, Steps
<1>6. ASSUME NEW o \in Sessions, Redial(o) PROVE LocalsOK'
  BY <1>6, <1>0 DEF Redial, EnvUnchanged, requestVars, LocalsOK, Steps
<1>7. CASE Boot
  BY <1>7, <1>0 DEF Boot, requestVars, LocalsOK, Steps
<1>8. CASE NotRestored
  BY <1>8, <1>0 DEF NotRestored, requestVars, LocalsOK, Steps
<1>9. CASE Restored
  BY <1>9, <1>0 DEF Restored, requestVars, LocalsOK, Steps
<1>10. CASE Crash
  BY <1>10, NoCopyType DEF Crash, LocalsOK, Steps
<1>11. ASSUME NEW r \in Requests, Begin(r) PROVE LocalsOK'
  <2>1. PICK a \in {"connect", "disconnect", "delete", "update"} :
           /\ op' = [op EXCEPT ![r] = a]
           /\ Goto(r, CASE a \in {"connect", "disconnect"} -> "session"
                        [] a = "delete" -> "unregister"
                        [] a = "update" -> "update")
           /\ copy' = [copy EXCEPT ![r] =
                         CASE a = "delete" -> NoCopy
                           [] a = "update" -> [st |-> row.st, jid |-> row.jid]
                           [] OTHER        -> [NoCopy EXCEPT !.jid = row.jid]]
    BY <1>11 DEF Begin
  <2>2. row.st \in Status /\ row.jid \in Device
    BY DEF TypeOK, Row
  <2>3. [NoCopy EXCEPT !.jid = row.jid] = [st |-> "disconnected", jid |-> row.jid]
    BY DEF NoCopy
  <2>4. "disconnected" \in Status
    BY DEF Status
  <2>5. copy' \in [Requests -> [st: Status, jid: Device]]
    BY <1>0, <2>1, <2>2, <2>3, <2>4, NoCopyType DEF LocalsOK
  <2> QED
    BY <1>11, <1>0, <2>1, <2>5 DEF Begin, Goto, LocalsOK, Steps
<1>12. ASSUME NEW r \in Requests, SessionFor(r) PROVE LocalsOK'
  <2>1. CASE Create(r, copy[r].jid, AfterSession(r)) /\ UNCHANGED resume
    <3>1. AfterSession(r) \in Steps
      BY DEF AfterSession, Steps
    <3>2. /\ pc' = [pc EXCEPT ![r] = AfterSession(r)]
          /\ reg' \in Sessions /\ held' = [held EXCEPT ![r] = reg']
      BY <2>1, <1>c, CreateFacts
    <3> QED
      BY <1>12, <3>1, <3>2, <2>1, <1>0 DEF SessionFor, LocalsOK
  <2>2. CASE ~(Create(r, copy[r].jid, AfterSession(r)) /\ UNCHANGED resume)
    BY <1>12, <2>2, <1>0 DEF SessionFor, AfterSession, Goto, LocalsOK, Steps
  <2> QED
    BY <2>1, <2>2
<1>13. ASSUME NEW r \in Requests, CheckStatus(r) PROVE LocalsOK'
  BY <1>13, <1>0, AnswerTypes, NoCopyType DEF CheckStatus, Proceed, Goto, requestVars,
     LocalsOK, Steps
<1>14. ASSUME NEW r \in Requests, Dial(r) PROVE LocalsOK'
  BY <1>14, <1>0, AnswerTypes, NoCopyType DEF Dial, Proceed, Goto, requestVars, LocalsOK, Steps
<1>15. ASSUME NEW r \in Requests, MarkPairing(r) PROVE LocalsOK'
  BY <1>15, <1>0, AnswerTypes, NoCopyType DEF MarkPairing, Proceed, Goto, requestVars,
     LocalsOK, Steps
<1>16. ASSUME NEW r \in Requests, GiveUp(r) PROVE LocalsOK'
  BY <1>16, <1>0, AnswerTypes, NoCopyType DEF GiveUp, Proceed, Goto, requestVars, LocalsOK,
     Steps
<1>17. ASSUME NEW r \in Requests, Hangup(r) PROVE LocalsOK'
  BY <1>17, <1>0, AnswerTypes, NoCopyType DEF Hangup, Proceed, Goto, requestVars, LocalsOK,
     Steps
<1>18. ASSUME NEW r \in Requests, Clear(r) PROVE LocalsOK'
  BY <1>18, <1>0, AnswerTypes, NoCopyType DEF Clear, Proceed, Goto, requestVars, LocalsOK,
     Steps
<1>19. ASSUME NEW r \in Requests, Recreate(r) PROVE LocalsOK'
  <2>1. NoDevice \in Device
    BY DEF Device
  <2>2. resume[r] # "no" /\ Create(r, NoDevice, resume[r])
    BY <1>19 DEF Recreate, StageInv
  <2>3. /\ pc' = [pc EXCEPT ![r] = resume[r]]
        /\ reg' \in Sessions /\ held' = [held EXCEPT ![r] = reg']
    BY <2>1, <2>2, CreateFacts
  <2>4. resume[r] \in {"status", "dial", "hangup"}
    BY <1>0, <2>2 DEF LocalsOK
  <2> QED
    BY <1>19, <1>0, <2>3, <2>4 DEF Recreate, LocalsOK, Steps
<1>20. ASSUME NEW r \in Requests, StatementFails(r) PROVE LocalsOK'
  BY <1>20, <1>0, AnswerTypes, NoCopyType DEF StatementFails, Proceed, Goto, requestVars,
     LocalsOK, Steps
<1>21. ASSUME NEW r \in Requests, Unregister(r) PROVE LocalsOK'
  <2>1. CASE reg = NoSession
    BY <1>21, <2>1, AfterRemovalFacts DEF Unregister
  <2>2. CASE reg # NoSession
    BY <1>21, <2>2, <1>0 DEF Unregister, Goto, TypeOK, LocalsOK, Steps
  <2> QED
    BY <2>1, <2>2
<1>22. ASSUME NEW r \in Requests, Close(r) PROVE LocalsOK'
  BY <1>22, <1>0, AnswerTypes, NoCopyType DEF Close, Proceed, Goto, requestVars, LocalsOK,
     Steps
<1>23. ASSUME NEW r \in Requests, Erase(r) PROVE LocalsOK'
  BY <1>23, AfterRemovalFacts DEF Erase
<1>24. ASSUME NEW r \in Requests, EraseFails(r) PROVE LocalsOK'
  BY <1>24, <1>0, AnswerTypes, NoCopyType DEF EraseFails, Proceed, Goto, requestVars, LocalsOK,
     Steps
<1>25. ASSUME NEW r \in Requests, DeleteRow(r) PROVE LocalsOK'
  BY <1>25, <1>0, AnswerTypes, NoCopyType DEF DeleteRow, Proceed, Goto, requestVars, LocalsOK,
     Steps
<1>26. ASSUME NEW r \in Requests, Update(r) PROVE LocalsOK'
  BY <1>26, <1>0, AnswerTypes, NoCopyType DEF Update, Proceed, Goto, requestVars, LocalsOK,
     Steps
<1>27. CASE UNCHANGED vars
  BY <1>27, <1>0 DEF vars, requestVars, LocalsOK, Steps
<1> QED
  BY <1>1, <1>2, <1>3, <1>4, <1>5, <1>6, <1>7, <1>8, <1>9, <1>10, <1>11, <1>12, <1>13, <1>14,
     <1>15, <1>16, <1>17, <1>18, <1>19, <1>20, <1>21, <1>22, <1>23, <1>24, <1>25, <1>26, <1>27
     DEF Next

\* The row, the store, the manager and the history.
LEMMA StateTypes == TypeOK /\ StageInv /\ [Next]_vars => StateOK'
<1> SUFFICES ASSUME TypeOK, StageInv, [Next]_vars PROVE StateOK'
  OBVIOUS
<1> USE LifecycleAssumption
<1>0. StateOK
  BY TypeParts
<1>c. \A r \in Requests : copy[r].jid \in Device /\ copy[r].st \in Status
  BY DEF TypeOK
<1>n. NoDevice \in Device
  BY DEF Device
<1>h. \A r \in Requests :
        pc[r] \in {"status", "dial", "hangup", "close", "erase"} => held[r] \in Sessions
  BY DEF StageInv, Holding, Removing
<1>1. ASSUME NEW o \in Sessions, Scanned(o) PROVE StateOK'
  BY <1>1, <1>0, ScannedFacts DEF Scanned, EnvUnchanged, Touches, Reports, Fault, dbVars,
     managerVars, historyVars, StateOK
<1>2. ASSUME NEW o \in Sessions, QrEnds(o) PROVE StateOK'
  BY <1>2, <1>0, QrEndsFacts DEF QrEnds, EnvUnchanged, Touches, Reports, Fault, dbVars,
     managerVars, historyVars, StateOK
<1>3. ASSUME NEW o \in Sessions, LoggedIn(o) PROVE StateOK'
  BY <1>3, <1>0, LoggedInFacts DEF LoggedIn, EnvUnchanged, Touches, Reports, Fault, dbVars,
     managerVars, historyVars, StateOK
<1>4. ASSUME NEW o \in Sessions, Drop(o) PROVE StateOK'
  <2>1. Fault /\ EnvUnchanged /\ UNCHANGED <<store, paired, missed>>
    BY <1>4, Zenon DEF Drop
  <2>2. UNCHANGED <<up, reg, used, taken, store, paired, missed>> /\ faults' \in 0..MaxFaults
    BY <2>1, <1>0 DEF EnvUnchanged, Fault, StateOK
  <2> QED
    BY <1>4, <2>2, <1>0, DropFacts DEF Touches, Reports, StateOK
<1>5. ASSUME NEW o \in Sessions, LoggedOut(o) PROVE StateOK'
  <2>1. UNCHANGED <<up, reg, used, taken, paired, missed>> /\ faults' \in 0..MaxFaults
    <3>1. Fault /\ EnvUnchanged /\ UNCHANGED <<paired, missed>>
          /\ (store' = store \/ store' = store \ {sess[o].dev})
      BY <1>5, Zenon DEF LoggedOut
    <3> QED
      BY <3>1, <1>0 DEF EnvUnchanged, Fault, StateOK
  <2> QED
    BY <1>5, <2>1, <1>0, LoggedOutFacts DEF Touches, Reports, StateOK
<1>6. ASSUME NEW o \in Sessions, Redial(o) PROVE StateOK'
  BY <1>6, <1>0, RedialFacts DEF Redial, EnvUnchanged, Touches, Reports, Fault, dbVars,
     managerVars, historyVars, StateOK
<1>7. CASE Boot
  BY <1>7, <1>0 DEF Boot, Fault, dbVars, managerVars, historyVars, StateOK
<1>8. CASE NotRestored
  BY <1>8, <1>0, NotRestoredFacts DEF NotRestored, Fault, dbVars, managerVars, historyVars,
     StateOK
<1>9. CASE Restored
  <2>1. UNCHANGED <<store, paired, historyVars>> /\ faults' \in 0..MaxFaults /\ up' = "serving"
    BY <1>9, <1>0 DEF Restored, Fault, StateOK
  <2> QED
    BY <1>9, <2>1, <1>0, RestoredFacts DEF Touches, historyVars, StateOK
<1>10. CASE Crash
  BY <1>10, <1>0, <1>n, NewSessionType DEF Crash, Fault, dbVars, managerVars, historyVars,
     StateOK
<1>11. ASSUME NEW r \in Requests, Begin(r) PROVE StateOK'
  BY <1>11, <1>0, <1>h DEF Begin, Fault, dbVars, managerVars, historyVars, StateOK
<1>12. ASSUME NEW r \in Requests, SessionFor(r) PROVE StateOK'
  BY <1>12, <1>0, <1>c, <1>n, CreateFacts, NewSessionType DEF SessionFor, Touches, Fault,
     dbVars, managerVars, historyVars, StateOK
<1>13. ASSUME NEW r \in Requests, CheckStatus(r) PROVE StateOK'
  BY <1>13, <1>0, <1>h DEF CheckStatus, Fault, dbVars, managerVars, historyVars, StateOK
<1>14. ASSUME NEW r \in Requests, Dial(r) PROVE StateOK'
  <2>1. held[r] \in Sessions
    BY <1>14, <1>h DEF Dial
  <2> QED
    BY <1>14, <2>1, <1>0, DialFacts DEF Dial, LogoutTolerantly, Touches, Reports, Fault, dbVars,
       managerVars, historyVars, StateOK
<1>15. ASSUME NEW r \in Requests, MarkPairing(r) PROVE StateOK'
  BY <1>15, <1>0, <1>c, <1>n, SetConnectionFacts DEF MarkPairing, Status, Fault, dbVars,
     managerVars, historyVars, StateOK
<1>16. ASSUME NEW r \in Requests, GiveUp(r) PROVE StateOK'
  BY <1>16, <1>0, <1>h DEF GiveUp, Fault, dbVars, managerVars, historyVars, StateOK
<1>17. ASSUME NEW r \in Requests, Hangup(r) PROVE StateOK'
  <2>1. held[r] \in Sessions
    BY <1>17, <1>h DEF Hangup
  <2>2. /\ UNCHANGED <<up, reg, used, paired, taken, missed>> /\ faults' \in 0..MaxFaults
        /\ row' = row \/ Reports(held[r])
    <3>1. PICK out \in BOOLEAN : LogoutTolerantly(held[r], out)
      BY <1>17 DEF Hangup
    <3>2. faults' \in 0..MaxFaults
      BY <3>1, <1>0 DEF LogoutTolerantly, Fault, StateOK
    <3>3. row' = row \/ Reports(held[r])
      BY <1>17, <2>1, HangupFacts DEF Hangup
    <3>4. UNCHANGED <<up, reg, used, paired, taken, missed>>
      BY <1>17 DEF Hangup, historyVars
    <3> QED
      BY <3>2, <3>3, <3>4
  <2> QED
    BY <1>17, <2>1, <2>2, <1>0, HangupFacts DEF Touches, Reports, StateOK
<1>18. ASSUME NEW r \in Requests, Clear(r) PROVE StateOK'
  BY <1>18, <1>0, <1>c, <1>n, SetConnectionFacts DEF Clear, Status, Fault, dbVars, managerVars,
     historyVars, StateOK
<1>19. ASSUME NEW r \in Requests, Recreate(r) PROVE StateOK'
  BY <1>19, <1>0, <1>n, CreateFacts, NewSessionType DEF Recreate, Touches, Fault, dbVars,
     managerVars, historyVars, StateOK
<1>20. ASSUME NEW r \in Requests, StatementFails(r) PROVE StateOK'
  BY <1>20, <1>0, <1>h DEF StatementFails, Fault, dbVars, managerVars, historyVars, StateOK
<1>21. ASSUME NEW r \in Requests, Unregister(r) PROVE StateOK'
  BY <1>21, <1>0, <1>h DEF Unregister, Fault, dbVars, managerVars, historyVars, StateOK
<1>22. ASSUME NEW r \in Requests, Close(r) PROVE StateOK'
  <2>1. held[r] \in Sessions
    BY <1>22, <1>h DEF Close
  <2>2. /\ UNCHANGED <<up, reg, used, paired, taken, missed>> /\ faults' \in 0..MaxFaults
        /\ row' = row \/ Reports(held[r])
    <3>1. PICK out \in BOOLEAN : LogoutTolerantly(held[r], out)
      BY <1>22 DEF Close
    <3>2. faults' \in 0..MaxFaults
      BY <3>1, <1>0 DEF LogoutTolerantly, Fault, StateOK
    <3>3. row' = row \/ Reports(held[r])
      BY <1>22, <2>1, CloseFacts DEF Close
    <3>4. UNCHANGED <<up, reg, used, paired, taken, missed>>
      BY <1>22 DEF Close, historyVars
    <3> QED
      BY <3>2, <3>3, <3>4
  <2> QED
    BY <1>22, <2>1, <2>2, <1>0, CloseFacts DEF Touches, Reports, StateOK
<1>23. ASSUME NEW r \in Requests, Erase(r) PROVE StateOK'
  <2>1. held[r] \in Sessions
    BY <1>23, <1>h DEF Erase
  <2> QED
    BY <1>23, <2>1, <1>0, EraseFacts DEF Erase, LogoutTolerantly, Touches, Reports, Fault, dbVars,
       managerVars, historyVars, StateOK
<1>24. ASSUME NEW r \in Requests, EraseFails(r) PROVE StateOK'
  BY <1>24, <1>0, <1>h DEF EraseFails, Session, Device, Fault, dbVars, managerVars,
     historyVars, StateOK
<1>25. ASSUME NEW r \in Requests, DeleteRow(r) PROVE StateOK'
  BY <1>25, <1>0, <1>n DEF DeleteRow, Row, Status, Fault, dbVars, managerVars, historyVars,
     StateOK
<1>26. ASSUME NEW r \in Requests, Update(r) PROVE StateOK'
  BY <1>26, <1>0, <1>c, <1>n, SetConnectionFacts DEF Update, Status, Fault, dbVars,
     managerVars, historyVars, StateOK
<1>27. CASE UNCHANGED vars
  BY <1>27, <1>0 DEF vars, Fault, dbVars, managerVars, historyVars, StateOK
<1> QED
  BY <1>1, <1>2, <1>3, <1>4, <1>5, <1>6, <1>7, <1>8, <1>9, <1>10, <1>11, <1>12, <1>13, <1>14,
     <1>15, <1>16, <1>17, <1>18, <1>19, <1>20, <1>21, <1>22, <1>23, <1>24, <1>25, <1>26, <1>27
     DEF Next

\* Whether the identity is stale.
LEMMA StaleType == TypeOK /\ StageInv /\ [Next]_vars => stale' \in BOOLEAN
<1> SUFFICES ASSUME TypeOK, StageInv, [Next]_vars PROVE stale' \in BOOLEAN
  OBVIOUS
<1>0. stale \in BOOLEAN
  BY TypeParts
<1>h. \A r \in Requests :
        pc[r] \in {"status", "dial", "hangup", "close", "erase"} => held[r] \in Sessions
  BY DEF StageInv, Holding, Removing
<1>1. ASSUME NEW o \in Sessions, Scanned(o) PROVE stale' \in BOOLEAN
  BY <1>1, <1>0, ScannedFacts, Zenon DEF Reports
<1>2. ASSUME NEW o \in Sessions, QrEnds(o) PROVE stale' \in BOOLEAN
  BY <1>2, <1>0, QrEndsFacts, Zenon DEF Reports
<1>3. ASSUME NEW o \in Sessions, LoggedIn(o) PROVE stale' \in BOOLEAN
  BY <1>3, <1>0, LoggedInFacts, Zenon DEF Reports
<1>4. ASSUME NEW o \in Sessions, Drop(o) PROVE stale' \in BOOLEAN
  BY <1>4, <1>0, DropFacts, Zenon DEF Reports
<1>5. ASSUME NEW o \in Sessions, LoggedOut(o) PROVE stale' \in BOOLEAN
  BY <1>5, <1>0, LoggedOutFacts, Zenon DEF Reports
<1>6. ASSUME NEW o \in Sessions, Redial(o) PROVE stale' \in BOOLEAN
  BY <1>6, <1>0, Zenon DEF Redial, historyVars, EnvUnchanged
<1>7. CASE Boot
  BY <1>7, <1>0, Zenon DEF Boot, historyVars, EnvUnchanged
<1>8. CASE NotRestored
  BY <1>8, <1>0, Zenon DEF NotRestored, historyVars, EnvUnchanged
<1>9. CASE Restored
  BY <1>9, <1>0, Zenon DEF Restored, historyVars, EnvUnchanged
<1>10. CASE Crash
  BY <1>10, <1>0, Zenon DEF Crash, historyVars, EnvUnchanged
<1>11. ASSUME NEW r \in Requests, Begin(r) PROVE stale' \in BOOLEAN
  BY <1>11, <1>0, Zenon DEF Begin, historyVars, EnvUnchanged
<1>12. ASSUME NEW r \in Requests, SessionFor(r) PROVE stale' \in BOOLEAN
  BY <1>12, <1>0, Zenon DEF SessionFor, historyVars, EnvUnchanged
<1>13. ASSUME NEW r \in Requests, CheckStatus(r) PROVE stale' \in BOOLEAN
  BY <1>13, <1>0, Zenon DEF CheckStatus, historyVars, EnvUnchanged
<1>14. ASSUME NEW r \in Requests, Dial(r) PROVE stale' \in BOOLEAN
  <2>1. held[r] \in Sessions
    BY <1>14, <1>h DEF Dial
  <2>2. stale' = stale \/ Reports(held[r])
    BY <1>14, <2>1, DialFacts
  <2> QED
    BY <1>0, <2>2, Zenon DEF Reports
<1>15. ASSUME NEW r \in Requests, MarkPairing(r) PROVE stale' \in BOOLEAN
  BY <1>15, <1>0, Zenon DEF MarkPairing, SetConnection
<1>16. ASSUME NEW r \in Requests, GiveUp(r) PROVE stale' \in BOOLEAN
  BY <1>16, <1>0, Zenon DEF GiveUp, historyVars, EnvUnchanged
<1>17. ASSUME NEW r \in Requests, Hangup(r) PROVE stale' \in BOOLEAN
  <2>1. held[r] \in Sessions
    BY <1>17, <1>h DEF Hangup
  <2>2. stale' = stale \/ Reports(held[r])
    BY <1>17, <2>1, HangupFacts
  <2> QED
    BY <1>0, <2>2, Zenon DEF Reports
<1>18. ASSUME NEW r \in Requests, Clear(r) PROVE stale' \in BOOLEAN
  BY <1>18, <1>0, Zenon DEF Clear, SetConnection
<1>19. ASSUME NEW r \in Requests, Recreate(r) PROVE stale' \in BOOLEAN
  BY <1>19, <1>0, Zenon DEF Recreate, historyVars, EnvUnchanged
<1>20. ASSUME NEW r \in Requests, StatementFails(r) PROVE stale' \in BOOLEAN
  BY <1>20, <1>0, Zenon DEF StatementFails, historyVars, EnvUnchanged
<1>21. ASSUME NEW r \in Requests, Unregister(r) PROVE stale' \in BOOLEAN
  BY <1>21, <1>0, Zenon DEF Unregister, historyVars, EnvUnchanged
<1>22. ASSUME NEW r \in Requests, Close(r) PROVE stale' \in BOOLEAN
  BY <1>22, <1>0, Zenon DEF Close, historyVars, EnvUnchanged
<1>23. ASSUME NEW r \in Requests, Erase(r) PROVE stale' \in BOOLEAN
  <2>1. held[r] \in Sessions
    BY <1>23, <1>h DEF Erase
  <2>2. stale' = stale \/ Reports(held[r])
    BY <1>23, <2>1, EraseFacts
  <2> QED
    BY <1>0, <2>2, Zenon DEF Reports
<1>24. ASSUME NEW r \in Requests, EraseFails(r) PROVE stale' \in BOOLEAN
  BY <1>24, <1>0, Zenon DEF EraseFails
<1>25. ASSUME NEW r \in Requests, DeleteRow(r) PROVE stale' \in BOOLEAN
  BY <1>25, <1>0, Zenon DEF DeleteRow, historyVars, EnvUnchanged
<1>26. ASSUME NEW r \in Requests, Update(r) PROVE stale' \in BOOLEAN
  BY <1>26, <1>0, Zenon DEF Update, SetConnection
<1>27. CASE UNCHANGED vars
  BY <1>27, <1>0, Zenon DEF vars, historyVars
<1> QED
  BY <1>1, <1>2, <1>3, <1>4, <1>5, <1>6, <1>7, <1>8, <1>9, <1>10, <1>11, <1>12, <1>13, <1>14,
     <1>15, <1>16, <1>17, <1>18, <1>19, <1>20, <1>21, <1>22, <1>23, <1>24, <1>25, <1>26, <1>27
     DEF Next

LEMMA TypeStep == TypeOK /\ StageInv /\ [Next]_vars => TypeOK'
<1>1. (LocalsOK' /\ StateOK' /\ stale' \in BOOLEAN) => TypeOK'
  BY DEF TypeOK, LocalsOK, StateOK, Steps
<1> QED
  BY <1>1, LocalTypes, StateTypes, StaleType

-----------------------------------------------------------------------------
(* Requests, sessions and the registry                                     *)

\* What belongs to a run of the process.
LEMMA RunStep == TypeOK /\ StageInv /\ RunInv /\ [Next]_vars => RunInv'
<1> SUFFICES ASSUME TypeOK, StageInv, RunInv, [Next]_vars PROVE RunInv'
  OBVIOUS
<1> USE LifecycleAssumption
<1>0. NoDevice \in Device /\ \A r \in Requests : copy[r].jid \in Device
  BY DEF TypeOK, Device
<1>h. \A r \in Requests :
        pc[r] \in {"status", "dial", "hangup", "close", "erase"} => held[r] \in Sessions
  BY DEF StageInv, Holding, Removing
<1>1. ASSUME NEW o \in Sessions, Scanned(o) PROVE RunInv'
  <2>1. EnvUnchanged
    BY <1>1 DEF Scanned
  <2> QED
    BY <1>1, <2>1, <1>h DEF EnvUnchanged, requestVars, RunInv, TypeOK
<1>2. ASSUME NEW o \in Sessions, QrEnds(o) PROVE RunInv'
  <2>1. EnvUnchanged
    BY <1>2 DEF QrEnds
  <2> QED
    BY <1>2, <2>1, <1>h DEF EnvUnchanged, requestVars, RunInv, TypeOK
<1>3. ASSUME NEW o \in Sessions, LoggedIn(o) PROVE RunInv'
  <2>1. EnvUnchanged
    BY <1>3 DEF LoggedIn
  <2> QED
    BY <1>3, <2>1, <1>h DEF EnvUnchanged, requestVars, RunInv, TypeOK
<1>4. ASSUME NEW o \in Sessions, Drop(o) PROVE RunInv'
  <2>1. EnvUnchanged
    BY <1>4 DEF Drop
  <2> QED
    BY <1>4, <2>1, <1>h DEF EnvUnchanged, requestVars, RunInv, TypeOK
<1>5. ASSUME NEW o \in Sessions, LoggedOut(o) PROVE RunInv'
  <2>1. EnvUnchanged
    BY <1>5 DEF LoggedOut
  <2> QED
    BY <1>5, <2>1, <1>h DEF EnvUnchanged, requestVars, RunInv, TypeOK
<1>6. ASSUME NEW o \in Sessions, Redial(o) PROVE RunInv'
  <2>1. EnvUnchanged
    BY <1>6 DEF Redial
  <2> QED
    BY <1>6, <2>1, <1>h DEF EnvUnchanged, requestVars, RunInv, TypeOK
<1>7. CASE Boot
  BY <1>7, <1>h DEF Boot, requestVars, managerVars, historyVars, RunInv, TypeOK
<1>8. CASE NotRestored
  BY <1>8, <1>h DEF NotRestored, requestVars, managerVars, historyVars, RunInv, TypeOK
<1>9. CASE Restored
  BY <1>9, RestoredFacts, <1>h DEF Restored, requestVars, historyVars, RunInv, TypeOK
<1>10. CASE Crash
  BY <1>10, <1>h DEF Crash, RunInv, TypeOK
<1>11. ASSUME NEW r \in Requests, Begin(r) PROVE RunInv'
  BY <1>11, <1>h DEF Begin, Answer, Proceed, Goto, dbVars, managerVars, historyVars, RunInv,
     TypeOK
<1>12. ASSUME NEW r \in Requests, SessionFor(r) PROVE RunInv'
  <2>1. CASE Create(r, copy[r].jid, AfterSession(r)) /\ UNCHANGED resume
    <3>1. /\ pc' = [pc EXCEPT ![r] = AfterSession(r)]
          /\ reg' \in Sessions /\ held' = [held EXCEPT ![r] = reg']
          /\ \/ reg # NoSession /\ UNCHANGED <<reg, used>>
             \/ reg = NoSession /\ reg' \notin used /\ used' = used \cup {reg'}
      BY <1>0, <2>1, CreateFacts
    <3>2. AfterSession(r) \in {"status", "hangup"}
      BY DEF AfterSession
    <3> QED
      BY <1>12, <2>1, <3>1, <3>2, <1>h DEF SessionFor, historyVars, RunInv, TypeOK
  <2>2. CASE ~(Create(r, copy[r].jid, AfterSession(r)) /\ UNCHANGED resume)
    BY <1>12, <2>2, <1>h DEF SessionFor, AfterSession, Goto, historyVars, RunInv, TypeOK
  <2> QED
    BY <2>1, <2>2
<1>13. ASSUME NEW r \in Requests, CheckStatus(r) PROVE RunInv'
  BY <1>13, <1>h DEF CheckStatus, Answer, Proceed, Goto, dbVars, managerVars, historyVars,
     RunInv, TypeOK
<1>14. ASSUME NEW r \in Requests, Dial(r) PROVE RunInv'
  BY <1>14, DialMoves, <1>h DEF RunInv, TypeOK
<1>15. ASSUME NEW r \in Requests, MarkPairing(r) PROVE RunInv'
  BY <1>15, <1>h DEF MarkPairing, Answer, Proceed, Goto, dbVars, managerVars, historyVars,
     RunInv, TypeOK
<1>16. ASSUME NEW r \in Requests, GiveUp(r) PROVE RunInv'
  BY <1>16, <1>h DEF GiveUp, Answer, Proceed, Goto, dbVars, managerVars, historyVars, RunInv,
     TypeOK
<1>17. ASSUME NEW r \in Requests, Hangup(r) PROVE RunInv'
  BY <1>17, <1>h DEF Hangup, Answer, Proceed, Goto, dbVars, managerVars, historyVars, RunInv,
     TypeOK
<1>18. ASSUME NEW r \in Requests, Clear(r) PROVE RunInv'
  BY <1>18, <1>h DEF Clear, Answer, Proceed, Goto, dbVars, managerVars, historyVars, RunInv,
     TypeOK
<1>19. ASSUME NEW r \in Requests, Recreate(r) PROVE RunInv'
  <2>1. /\ pc' = [pc EXCEPT ![r] = resume[r]]
        /\ reg' \in Sessions /\ held' = [held EXCEPT ![r] = reg']
        /\ \/ reg # NoSession /\ UNCHANGED <<reg, used>>
           \/ reg = NoSession /\ reg' \notin used /\ used' = used \cup {reg'}
    BY <1>19, <1>0, CreateFacts DEF Recreate
  <2> QED
    BY <1>19, <2>1, <1>h DEF Recreate, historyVars, RunInv, TypeOK
<1>20. ASSUME NEW r \in Requests, StatementFails(r) PROVE RunInv'
  BY <1>20, <1>h DEF StatementFails, Answer, Proceed, Goto, dbVars, managerVars, historyVars,
     RunInv, TypeOK
<1>21. ASSUME NEW r \in Requests, Unregister(r) PROVE RunInv'
  <2>1. CASE reg = NoSession
    BY <1>21, <2>1, AfterRemovalFacts, <1>h DEF Unregister, RunInv, TypeOK
  <2>2. CASE reg # NoSession
    BY <1>21, <2>2, <1>h DEF Unregister, Goto, Holders, RunInv, TypeOK
  <2> QED
    BY <2>1, <2>2
<1>22. ASSUME NEW r \in Requests, Close(r) PROVE RunInv'
  BY <1>22, <1>h DEF Close, Answer, Proceed, Goto, dbVars, managerVars, historyVars, RunInv,
     TypeOK
<1>23. ASSUME NEW r \in Requests, Erase(r) PROVE RunInv'
  BY <1>23, AfterRemovalFacts, <1>h DEF Erase, RunInv, TypeOK
<1>24. ASSUME NEW r \in Requests, EraseFails(r) PROVE RunInv'
  BY <1>24, <1>h DEF EraseFails, Answer, Proceed, Goto, dbVars, managerVars, historyVars,
     RunInv, TypeOK
<1>25. ASSUME NEW r \in Requests, DeleteRow(r) PROVE RunInv'
  BY <1>25, <1>h DEF DeleteRow, Answer, Proceed, Goto, dbVars, managerVars, historyVars,
     RunInv, TypeOK
<1>26. ASSUME NEW r \in Requests, Update(r) PROVE RunInv'
  BY <1>26, <1>h DEF Update, Answer, Proceed, Goto, dbVars, managerVars, historyVars, RunInv,
     TypeOK
<1>27. CASE UNCHANGED vars
  BY <1>27, <1>h DEF vars, dbVars, requestVars, managerVars, historyVars, RunInv, TypeOK
<1> QED
  BY <1>1, <1>2, <1>3, <1>4, <1>5, <1>6, <1>7, <1>8, <1>9, <1>10, <1>11, <1>12, <1>13, <1>14,
     <1>15, <1>16, <1>17, <1>18, <1>19, <1>20, <1>21, <1>22, <1>23, <1>24, <1>25, <1>26, <1>27
     DEF Next

\* Where requests are.
LEMMA StageStep == TypeOK /\ StageInv /\ [Next]_vars => StageInv'
<1> SUFFICES ASSUME TypeOK, StageInv, [Next]_vars PROVE StageInv'
  OBVIOUS
<1> USE LifecycleAssumption
<1>0. NoDevice \in Device /\ \A r \in Requests : copy[r].jid \in Device
  BY DEF TypeOK, Device
<1>1. ASSUME NEW o \in Sessions, Scanned(o) PROVE StageInv'
  <2>1. EnvUnchanged
    BY <1>1 DEF Scanned
  <2> QED
    BY <1>1, <2>1 DEF EnvUnchanged, requestVars, StageInv, TypeOK, Holding, Removing
<1>2. ASSUME NEW o \in Sessions, QrEnds(o) PROVE StageInv'
  <2>1. EnvUnchanged
    BY <1>2 DEF QrEnds
  <2> QED
    BY <1>2, <2>1 DEF EnvUnchanged, requestVars, StageInv, TypeOK, Holding, Removing
<1>3. ASSUME NEW o \in Sessions, LoggedIn(o) PROVE StageInv'
  <2>1. EnvUnchanged
    BY <1>3 DEF LoggedIn
  <2> QED
    BY <1>3, <2>1 DEF EnvUnchanged, requestVars, StageInv, TypeOK, Holding, Removing
<1>4. ASSUME NEW o \in Sessions, Drop(o) PROVE StageInv'
  <2>1. EnvUnchanged
    BY <1>4 DEF Drop
  <2> QED
    BY <1>4, <2>1 DEF EnvUnchanged, requestVars, StageInv, TypeOK, Holding, Removing
<1>5. ASSUME NEW o \in Sessions, LoggedOut(o) PROVE StageInv'
  <2>1. EnvUnchanged
    BY <1>5 DEF LoggedOut
  <2> QED
    BY <1>5, <2>1 DEF EnvUnchanged, requestVars, StageInv, TypeOK, Holding, Removing
<1>6. ASSUME NEW o \in Sessions, Redial(o) PROVE StageInv'
  <2>1. EnvUnchanged
    BY <1>6 DEF Redial
  <2> QED
    BY <1>6, <2>1 DEF EnvUnchanged, requestVars, StageInv, TypeOK, Holding, Removing
<1>7. CASE Boot
  BY <1>7 DEF Boot, requestVars, managerVars, historyVars, StageInv, TypeOK, Holding, Removing
<1>8. CASE NotRestored
  BY <1>8 DEF NotRestored, requestVars, managerVars, historyVars, StageInv, TypeOK, Holding,
     Removing
<1>9. CASE Restored
  BY <1>9, RestoredFacts DEF Restored, requestVars, historyVars, StageInv, TypeOK, Holding,
     Removing
<1>10. CASE Crash
  BY <1>10 DEF Crash, StageInv, TypeOK, Holding, Removing
<1>11. ASSUME NEW r \in Requests, Begin(r) PROVE StageInv'
  BY <1>11 DEF Begin, Answer, Proceed, Goto, dbVars, managerVars, historyVars, StageInv,
     TypeOK, Holding, Removing
<1>12. ASSUME NEW r \in Requests, SessionFor(r) PROVE StageInv'
  <2>1. CASE Create(r, copy[r].jid, AfterSession(r)) /\ UNCHANGED resume
    <3>1. /\ pc' = [pc EXCEPT ![r] = AfterSession(r)]
          /\ reg' \in Sessions /\ held' = [held EXCEPT ![r] = reg']
          /\ \/ reg # NoSession /\ UNCHANGED <<reg, used>>
             \/ reg = NoSession /\ reg' \notin used /\ used' = used \cup {reg'}
      BY <1>0, <2>1, CreateFacts
    <3>2. AfterSession(r) \in {"status", "hangup"}
      BY DEF AfterSession
    <3> QED
      BY <1>12, <2>1, <3>1, <3>2 DEF SessionFor, historyVars, StageInv, TypeOK, Holding, Removing
  <2>2. CASE ~(Create(r, copy[r].jid, AfterSession(r)) /\ UNCHANGED resume)
    BY <1>12, <2>2 DEF SessionFor, AfterSession, Goto, historyVars, StageInv, TypeOK, Holding,
       Removing
  <2> QED
    BY <2>1, <2>2
<1>13. ASSUME NEW r \in Requests, CheckStatus(r) PROVE StageInv'
  BY <1>13 DEF CheckStatus, Answer, Proceed, Goto, dbVars, managerVars, historyVars, StageInv,
     TypeOK, Holding, Removing
<1>14. ASSUME NEW r \in Requests, Dial(r) PROVE StageInv'
  BY <1>14, DialMoves DEF StageInv, TypeOK, Holding, Removing
<1>15. ASSUME NEW r \in Requests, MarkPairing(r) PROVE StageInv'
  BY <1>15 DEF MarkPairing, Answer, Proceed, Goto, dbVars, managerVars, historyVars, StageInv,
     TypeOK, Holding, Removing
<1>16. ASSUME NEW r \in Requests, GiveUp(r) PROVE StageInv'
  BY <1>16 DEF GiveUp, Answer, Proceed, Goto, dbVars, managerVars, historyVars, StageInv,
     TypeOK, Holding, Removing
<1>17. ASSUME NEW r \in Requests, Hangup(r) PROVE StageInv'
  BY <1>17 DEF Hangup, Answer, Proceed, Goto, dbVars, managerVars, historyVars, StageInv,
     TypeOK, Holding, Removing
<1>18. ASSUME NEW r \in Requests, Clear(r) PROVE StageInv'
  BY <1>18 DEF Clear, Answer, Proceed, Goto, dbVars, managerVars, historyVars, StageInv,
     TypeOK, Holding, Removing
<1>19. ASSUME NEW r \in Requests, Recreate(r) PROVE StageInv'
  <2>1. /\ pc' = [pc EXCEPT ![r] = resume[r]]
        /\ reg' \in Sessions /\ held' = [held EXCEPT ![r] = reg']
        /\ \/ reg # NoSession /\ UNCHANGED <<reg, used>>
           \/ reg = NoSession /\ reg' \notin used /\ used' = used \cup {reg'}
    BY <1>19, <1>0, CreateFacts DEF Recreate
  <2> QED
    BY <1>19, <2>1 DEF Recreate, historyVars, StageInv, TypeOK, Holding, Removing
<1>20. ASSUME NEW r \in Requests, StatementFails(r) PROVE StageInv'
  BY <1>20 DEF StatementFails, Answer, Proceed, Goto, dbVars, managerVars, historyVars,
     StageInv, TypeOK, Holding, Removing
<1>21. ASSUME NEW r \in Requests, Unregister(r) PROVE StageInv'
  <2>1. CASE reg = NoSession
    BY <1>21, <2>1, AfterRemovalFacts DEF Unregister, StageInv, TypeOK, Holding, Removing
  <2>2. CASE reg # NoSession
    BY <1>21, <2>2 DEF Unregister, Goto, Holders, StageInv, TypeOK, Holding, Removing
  <2> QED
    BY <2>1, <2>2
<1>22. ASSUME NEW r \in Requests, Close(r) PROVE StageInv'
  BY <1>22 DEF Close, Answer, Proceed, Goto, dbVars, managerVars, historyVars, StageInv,
     TypeOK, Holding, Removing
<1>23. ASSUME NEW r \in Requests, Erase(r) PROVE StageInv'
  BY <1>23, AfterRemovalFacts DEF Erase, StageInv, TypeOK, Holding, Removing
<1>24. ASSUME NEW r \in Requests, EraseFails(r) PROVE StageInv'
  BY <1>24 DEF EraseFails, Answer, Proceed, Goto, dbVars, managerVars, historyVars, StageInv,
     TypeOK, Holding, Removing
<1>25. ASSUME NEW r \in Requests, DeleteRow(r) PROVE StageInv'
  BY <1>25 DEF DeleteRow, Answer, Proceed, Goto, dbVars, managerVars, historyVars, StageInv,
     TypeOK, Holding, Removing
<1>26. ASSUME NEW r \in Requests, Update(r) PROVE StageInv'
  BY <1>26 DEF Update, Answer, Proceed, Goto, dbVars, managerVars, historyVars, StageInv,
     TypeOK, Holding, Removing
<1>27. CASE UNCHANGED vars
  BY <1>27 DEF vars, dbVars, requestVars, managerVars, historyVars, StageInv, TypeOK, Holding,
     Removing
<1> QED
  BY <1>1, <1>2, <1>3, <1>4, <1>5, <1>6, <1>7, <1>8, <1>9, <1>10, <1>11, <1>12, <1>13, <1>14,
     <1>15, <1>16, <1>17, <1>18, <1>19, <1>20, <1>21, <1>22, <1>23, <1>24, <1>25, <1>26, <1>27
     DEF Next

\* What requests hold.
LEMMA HolderStep == TypeOK /\ StageInv /\ RunInv /\ HolderInv /\ [Next]_vars => HolderInv'
<1> SUFFICES ASSUME TypeOK, StageInv, RunInv, HolderInv, [Next]_vars PROVE HolderInv'
  OBVIOUS
<1> USE LifecycleAssumption
<1>0. NoDevice \in Device /\ \A r \in Requests : copy[r].jid \in Device
  BY DEF TypeOK, Device
<1>1. ASSUME NEW o \in Sessions, Scanned(o) PROVE HolderInv'
  <2>1. EnvUnchanged
    BY <1>1 DEF Scanned
  <2> QED
    BY <1>1, <2>1 DEF EnvUnchanged, requestVars, HolderInv, RunInv, StageInv, TypeOK, Holding,
       Removing
<1>2. ASSUME NEW o \in Sessions, QrEnds(o) PROVE HolderInv'
  <2>1. EnvUnchanged
    BY <1>2 DEF QrEnds
  <2> QED
    BY <1>2, <2>1 DEF EnvUnchanged, requestVars, HolderInv, RunInv, StageInv, TypeOK, Holding,
       Removing
<1>3. ASSUME NEW o \in Sessions, LoggedIn(o) PROVE HolderInv'
  <2>1. EnvUnchanged
    BY <1>3 DEF LoggedIn
  <2> QED
    BY <1>3, <2>1 DEF EnvUnchanged, requestVars, HolderInv, RunInv, StageInv, TypeOK, Holding,
       Removing
<1>4. ASSUME NEW o \in Sessions, Drop(o) PROVE HolderInv'
  <2>1. EnvUnchanged
    BY <1>4 DEF Drop
  <2> QED
    BY <1>4, <2>1 DEF EnvUnchanged, requestVars, HolderInv, RunInv, StageInv, TypeOK, Holding,
       Removing
<1>5. ASSUME NEW o \in Sessions, LoggedOut(o) PROVE HolderInv'
  <2>1. EnvUnchanged
    BY <1>5 DEF LoggedOut
  <2> QED
    BY <1>5, <2>1 DEF EnvUnchanged, requestVars, HolderInv, RunInv, StageInv, TypeOK, Holding,
       Removing
<1>6. ASSUME NEW o \in Sessions, Redial(o) PROVE HolderInv'
  <2>1. EnvUnchanged
    BY <1>6 DEF Redial
  <2> QED
    BY <1>6, <2>1 DEF EnvUnchanged, requestVars, HolderInv, RunInv, StageInv, TypeOK, Holding,
       Removing
<1>7. CASE Boot
  BY <1>7 DEF Boot, requestVars, managerVars, historyVars, HolderInv, RunInv, StageInv, TypeOK,
     Holding, Removing
<1>8. CASE NotRestored
  BY <1>8 DEF NotRestored, requestVars, managerVars, historyVars, HolderInv, RunInv, StageInv,
     TypeOK, Holding, Removing
<1>9. CASE Restored
  BY <1>9, RestoredFacts DEF Restored, requestVars, historyVars, HolderInv, RunInv, StageInv,
     TypeOK, Holding, Removing
<1>10. CASE Crash
  BY <1>10 DEF Crash, HolderInv, RunInv, StageInv, TypeOK, Holding, Removing
<1>11. ASSUME NEW r \in Requests, Begin(r) PROVE HolderInv'
  BY <1>11 DEF Begin, Answer, Proceed, Goto, dbVars, managerVars, historyVars, HolderInv,
     RunInv, StageInv, TypeOK, Holding, Removing
<1>12. ASSUME NEW r \in Requests, SessionFor(r) PROVE HolderInv'
  <2>1. CASE Create(r, copy[r].jid, AfterSession(r)) /\ UNCHANGED resume
    <3>1. /\ pc' = [pc EXCEPT ![r] = AfterSession(r)]
          /\ reg' \in Sessions /\ held' = [held EXCEPT ![r] = reg']
          /\ \/ reg # NoSession /\ UNCHANGED <<reg, used>>
             \/ reg = NoSession /\ reg' \notin used /\ used' = used \cup {reg'}
      BY <1>0, <2>1, CreateFacts
    <3>2. AfterSession(r) \in {"status", "hangup"}
      BY DEF AfterSession
    <3> QED
      BY <1>12, <2>1, <3>1, <3>2 DEF SessionFor, historyVars, HolderInv, RunInv, StageInv, TypeOK,
         Holding, Removing
  <2>2. CASE ~(Create(r, copy[r].jid, AfterSession(r)) /\ UNCHANGED resume)
    BY <1>12, <2>2 DEF SessionFor, AfterSession, Goto, historyVars, HolderInv, RunInv, StageInv,
       TypeOK, Holding, Removing
  <2> QED
    BY <2>1, <2>2
<1>13. ASSUME NEW r \in Requests, CheckStatus(r) PROVE HolderInv'
  BY <1>13 DEF CheckStatus, Answer, Proceed, Goto, dbVars, managerVars, historyVars, HolderInv,
     RunInv, StageInv, TypeOK, Holding, Removing
<1>14. ASSUME NEW r \in Requests, Dial(r) PROVE HolderInv'
  BY <1>14, DialMoves DEF HolderInv, RunInv, StageInv, TypeOK, Holding, Removing
<1>15. ASSUME NEW r \in Requests, MarkPairing(r) PROVE HolderInv'
  BY <1>15 DEF MarkPairing, Answer, Proceed, Goto, dbVars, managerVars, historyVars, HolderInv,
     RunInv, StageInv, TypeOK, Holding, Removing
<1>16. ASSUME NEW r \in Requests, GiveUp(r) PROVE HolderInv'
  BY <1>16 DEF GiveUp, Answer, Proceed, Goto, dbVars, managerVars, historyVars, HolderInv,
     RunInv, StageInv, TypeOK, Holding, Removing
<1>17. ASSUME NEW r \in Requests, Hangup(r) PROVE HolderInv'
  BY <1>17 DEF Hangup, Answer, Proceed, Goto, dbVars, managerVars, historyVars, HolderInv,
     RunInv, StageInv, TypeOK, Holding, Removing
<1>18. ASSUME NEW r \in Requests, Clear(r) PROVE HolderInv'
  BY <1>18 DEF Clear, Answer, Proceed, Goto, dbVars, managerVars, historyVars, HolderInv,
     RunInv, StageInv, TypeOK, Holding, Removing
<1>19. ASSUME NEW r \in Requests, Recreate(r) PROVE HolderInv'
  <2>1. /\ pc' = [pc EXCEPT ![r] = resume[r]]
        /\ reg' \in Sessions /\ held' = [held EXCEPT ![r] = reg']
        /\ \/ reg # NoSession /\ UNCHANGED <<reg, used>>
           \/ reg = NoSession /\ reg' \notin used /\ used' = used \cup {reg'}
    BY <1>19, <1>0, CreateFacts DEF Recreate
  <2> QED
    BY <1>19, <2>1 DEF Recreate, historyVars, HolderInv, RunInv, StageInv, TypeOK, Holding, Removing
<1>20. ASSUME NEW r \in Requests, StatementFails(r) PROVE HolderInv'
  BY <1>20 DEF StatementFails, Answer, Proceed, Goto, dbVars, managerVars, historyVars,
     HolderInv, RunInv, StageInv, TypeOK, Holding, Removing
<1>21. ASSUME NEW r \in Requests, Unregister(r) PROVE HolderInv'
  <2>1. CASE reg = NoSession
    BY <1>21, <2>1, AfterRemovalFacts DEF Unregister, HolderInv, RunInv, StageInv, TypeOK, Holding,
       Removing
  <2>2. CASE reg # NoSession
    BY <1>21, <2>2 DEF Unregister, Goto, Holders, HolderInv, RunInv, StageInv, TypeOK, Holding,
       Removing
  <2> QED
    BY <2>1, <2>2
<1>22. ASSUME NEW r \in Requests, Close(r) PROVE HolderInv'
  BY <1>22 DEF Close, Answer, Proceed, Goto, dbVars, managerVars, historyVars, HolderInv,
     RunInv, StageInv, TypeOK, Holding, Removing
<1>23. ASSUME NEW r \in Requests, Erase(r) PROVE HolderInv'
  BY <1>23, AfterRemovalFacts DEF Erase, HolderInv, RunInv, StageInv, TypeOK, Holding, Removing
<1>24. ASSUME NEW r \in Requests, EraseFails(r) PROVE HolderInv'
  BY <1>24 DEF EraseFails, Answer, Proceed, Goto, dbVars, managerVars, historyVars, HolderInv,
     RunInv, StageInv, TypeOK, Holding, Removing
<1>25. ASSUME NEW r \in Requests, DeleteRow(r) PROVE HolderInv'
  BY <1>25 DEF DeleteRow, Answer, Proceed, Goto, dbVars, managerVars, historyVars, HolderInv,
     RunInv, StageInv, TypeOK, Holding, Removing
<1>26. ASSUME NEW r \in Requests, Update(r) PROVE HolderInv'
  BY <1>26 DEF Update, Answer, Proceed, Goto, dbVars, managerVars, historyVars, HolderInv,
     RunInv, StageInv, TypeOK, Holding, Removing
<1>27. CASE UNCHANGED vars
  BY <1>27 DEF vars, dbVars, requestVars, managerVars, historyVars, HolderInv, RunInv,
     StageInv, TypeOK, Holding, Removing
<1> QED
  BY <1>1, <1>2, <1>3, <1>4, <1>5, <1>6, <1>7, <1>8, <1>9, <1>10, <1>11, <1>12, <1>13, <1>14,
     <1>15, <1>16, <1>17, <1>18, <1>19, <1>20, <1>21, <1>22, <1>23, <1>24, <1>25, <1>26, <1>27
     DEF Next

\* What requests remove.
LEMMA RemovalStep == TypeOK /\ StageInv /\ RunInv /\ RemovalInv /\ [Next]_vars => RemovalInv'
<1> SUFFICES ASSUME TypeOK, StageInv, RunInv, RemovalInv, [Next]_vars PROVE RemovalInv'
  OBVIOUS
<1> USE LifecycleAssumption
<1>0. NoDevice \in Device /\ \A r \in Requests : copy[r].jid \in Device
  BY DEF TypeOK, Device
<1>1. ASSUME NEW o \in Sessions, Scanned(o) PROVE RemovalInv'
  <2>1. EnvUnchanged
    BY <1>1 DEF Scanned
  <2> QED
    BY <1>1, <2>1 DEF EnvUnchanged, requestVars, RemovalInv, RunInv, StageInv, TypeOK, Holding,
       Removing
<1>2. ASSUME NEW o \in Sessions, QrEnds(o) PROVE RemovalInv'
  <2>1. EnvUnchanged
    BY <1>2 DEF QrEnds
  <2> QED
    BY <1>2, <2>1 DEF EnvUnchanged, requestVars, RemovalInv, RunInv, StageInv, TypeOK, Holding,
       Removing
<1>3. ASSUME NEW o \in Sessions, LoggedIn(o) PROVE RemovalInv'
  <2>1. EnvUnchanged
    BY <1>3 DEF LoggedIn
  <2> QED
    BY <1>3, <2>1 DEF EnvUnchanged, requestVars, RemovalInv, RunInv, StageInv, TypeOK, Holding,
       Removing
<1>4. ASSUME NEW o \in Sessions, Drop(o) PROVE RemovalInv'
  <2>1. EnvUnchanged
    BY <1>4 DEF Drop
  <2> QED
    BY <1>4, <2>1 DEF EnvUnchanged, requestVars, RemovalInv, RunInv, StageInv, TypeOK, Holding,
       Removing
<1>5. ASSUME NEW o \in Sessions, LoggedOut(o) PROVE RemovalInv'
  <2>1. EnvUnchanged
    BY <1>5 DEF LoggedOut
  <2> QED
    BY <1>5, <2>1 DEF EnvUnchanged, requestVars, RemovalInv, RunInv, StageInv, TypeOK, Holding,
       Removing
<1>6. ASSUME NEW o \in Sessions, Redial(o) PROVE RemovalInv'
  <2>1. EnvUnchanged
    BY <1>6 DEF Redial
  <2> QED
    BY <1>6, <2>1 DEF EnvUnchanged, requestVars, RemovalInv, RunInv, StageInv, TypeOK, Holding,
       Removing
<1>7. CASE Boot
  BY <1>7 DEF Boot, requestVars, managerVars, historyVars, RemovalInv, RunInv, StageInv,
     TypeOK, Holding, Removing
<1>8. CASE NotRestored
  BY <1>8 DEF NotRestored, requestVars, managerVars, historyVars, RemovalInv, RunInv, StageInv,
     TypeOK, Holding, Removing
<1>9. CASE Restored
  BY <1>9, RestoredFacts DEF Restored, requestVars, historyVars, RemovalInv, RunInv, StageInv,
     TypeOK, Holding, Removing
<1>10. CASE Crash
  BY <1>10 DEF Crash, RemovalInv, RunInv, StageInv, TypeOK, Holding, Removing
<1>11. ASSUME NEW r \in Requests, Begin(r) PROVE RemovalInv'
  BY <1>11 DEF Begin, Answer, Proceed, Goto, dbVars, managerVars, historyVars, RemovalInv,
     RunInv, StageInv, TypeOK, Holding, Removing
<1>12. ASSUME NEW r \in Requests, SessionFor(r) PROVE RemovalInv'
  <2>1. CASE Create(r, copy[r].jid, AfterSession(r)) /\ UNCHANGED resume
    <3>1. /\ pc' = [pc EXCEPT ![r] = AfterSession(r)]
          /\ reg' \in Sessions /\ held' = [held EXCEPT ![r] = reg']
          /\ \/ reg # NoSession /\ UNCHANGED <<reg, used>>
             \/ reg = NoSession /\ reg' \notin used /\ used' = used \cup {reg'}
      BY <1>0, <2>1, CreateFacts
    <3>2. AfterSession(r) \in {"status", "hangup"}
      BY DEF AfterSession
    <3> QED
      BY <1>12, <2>1, <3>1, <3>2 DEF SessionFor, historyVars, RemovalInv, RunInv, StageInv, TypeOK,
         Holding, Removing
  <2>2. CASE ~(Create(r, copy[r].jid, AfterSession(r)) /\ UNCHANGED resume)
    BY <1>12, <2>2 DEF SessionFor, AfterSession, Goto, historyVars, RemovalInv, RunInv, StageInv,
       TypeOK, Holding, Removing
  <2> QED
    BY <2>1, <2>2
<1>13. ASSUME NEW r \in Requests, CheckStatus(r) PROVE RemovalInv'
  BY <1>13 DEF CheckStatus, Answer, Proceed, Goto, dbVars, managerVars, historyVars,
     RemovalInv, RunInv, StageInv, TypeOK, Holding, Removing
<1>14. ASSUME NEW r \in Requests, Dial(r) PROVE RemovalInv'
  <2>1. /\ reg' = reg /\ pc'[r] \notin Removing
        /\ \A q \in Requests \ {r} : pc'[q] = pc[q] /\ held'[q] = held[q]
    BY <1>14, DialMoves DEF Removing, TypeOK
  <2> QED
    BY <2>1 DEF RemovalInv
<1>15. ASSUME NEW r \in Requests, MarkPairing(r) PROVE RemovalInv'
  BY <1>15 DEF MarkPairing, Answer, Proceed, Goto, dbVars, managerVars, historyVars,
     RemovalInv, RunInv, StageInv, TypeOK, Holding, Removing
<1>16. ASSUME NEW r \in Requests, GiveUp(r) PROVE RemovalInv'
  BY <1>16 DEF GiveUp, Answer, Proceed, Goto, dbVars, managerVars, historyVars, RemovalInv,
     RunInv, StageInv, TypeOK, Holding, Removing
<1>17. ASSUME NEW r \in Requests, Hangup(r) PROVE RemovalInv'
  BY <1>17 DEF Hangup, Answer, Proceed, Goto, dbVars, managerVars, historyVars, RemovalInv,
     RunInv, StageInv, TypeOK, Holding, Removing
<1>18. ASSUME NEW r \in Requests, Clear(r) PROVE RemovalInv'
  BY <1>18 DEF Clear, Answer, Proceed, Goto, dbVars, managerVars, historyVars, RemovalInv,
     RunInv, StageInv, TypeOK, Holding, Removing
<1>19. ASSUME NEW r \in Requests, Recreate(r) PROVE RemovalInv'
  <2>1. /\ pc' = [pc EXCEPT ![r] = resume[r]]
        /\ reg' \in Sessions /\ held' = [held EXCEPT ![r] = reg']
        /\ \/ reg # NoSession /\ UNCHANGED <<reg, used>>
           \/ reg = NoSession /\ reg' \notin used /\ used' = used \cup {reg'}
    BY <1>19, <1>0, CreateFacts DEF Recreate
  <2> QED
    BY <1>19, <2>1 DEF Recreate, historyVars, RemovalInv, RunInv, StageInv, TypeOK, Holding,
       Removing
<1>20. ASSUME NEW r \in Requests, StatementFails(r) PROVE RemovalInv'
  BY <1>20 DEF StatementFails, Answer, Proceed, Goto, dbVars, managerVars, historyVars,
     RemovalInv, RunInv, StageInv, TypeOK, Holding, Removing
<1>21. ASSUME NEW r \in Requests, Unregister(r) PROVE RemovalInv'
  <2>1. CASE reg = NoSession
    BY <1>21, <2>1, AfterRemovalFacts DEF Unregister, RemovalInv, RunInv, StageInv, TypeOK,
       Holding, Removing
  <2>2. CASE reg # NoSession
    BY <1>21, <2>2 DEF Unregister, Goto, Holders, RemovalInv, RunInv, StageInv, TypeOK, Holding,
       Removing
  <2> QED
    BY <2>1, <2>2
<1>22. ASSUME NEW r \in Requests, Close(r) PROVE RemovalInv'
  BY <1>22 DEF Close, Answer, Proceed, Goto, dbVars, managerVars, historyVars, RemovalInv,
     RunInv, StageInv, TypeOK, Holding, Removing
<1>23. ASSUME NEW r \in Requests, Erase(r) PROVE RemovalInv'
  <2>1. /\ pc[r] = "erase" /\ AfterRemoval(r) /\ UNCHANGED <<reg, used, taken>>
        /\ held \in [Requests -> Sessions \cup {NoSession}]
        /\ pc' = [pc EXCEPT ![r] = pc'[r]] /\ pc'[r] \in {"idle", "clear", "deleteRow"}
        /\ held' = [held EXCEPT ![r] = NoSession]
    BY <1>23, AfterRemovalFacts DEF Erase, TypeOK
  <2> QED
    BY <2>1 DEF RemovalInv, RunInv, StageInv, TypeOK, Holding, Removing
<1>24. ASSUME NEW r \in Requests, EraseFails(r) PROVE RemovalInv'
  BY <1>24 DEF EraseFails, Answer, Proceed, Goto, dbVars, managerVars, historyVars, RemovalInv,
     RunInv, StageInv, TypeOK, Holding, Removing
<1>25. ASSUME NEW r \in Requests, DeleteRow(r) PROVE RemovalInv'
  BY <1>25 DEF DeleteRow, Answer, Proceed, Goto, dbVars, managerVars, historyVars, RemovalInv,
     RunInv, StageInv, TypeOK, Holding, Removing
<1>26. ASSUME NEW r \in Requests, Update(r) PROVE RemovalInv'
  BY <1>26 DEF Update, Answer, Proceed, Goto, dbVars, managerVars, historyVars, RemovalInv,
     RunInv, StageInv, TypeOK, Holding, Removing
<1>27. CASE UNCHANGED vars
  BY <1>27 DEF vars, dbVars, requestVars, managerVars, historyVars, RemovalInv, RunInv,
     StageInv, TypeOK, Holding, Removing
<1> QED
  BY <1>1, <1>2, <1>3, <1>4, <1>5, <1>6, <1>7, <1>8, <1>9, <1>10, <1>11, <1>12, <1>13, <1>14,
     <1>15, <1>16, <1>17, <1>18, <1>19, <1>20, <1>21, <1>22, <1>23, <1>24, <1>25, <1>26, <1>27
     DEF Next

\* The devices of the sessions.
LEMMA DeviceStep == TypeOK /\ StageInv /\ DeviceInv /\ [Next]_vars => DeviceInv'
<1> SUFFICES ASSUME TypeOK, StageInv, DeviceInv, [Next]_vars PROVE DeviceInv'
  OBVIOUS
<1> USE LifecycleAssumption
<1>0. NoDevice \in Device /\ \A r \in Requests : copy[r].jid \in Device
  BY DEF TypeOK, Device
<1>h. \A r \in Requests :
        pc[r] \in {"status", "dial", "hangup", "close", "erase"} => held[r] \in Sessions
  BY DEF StageInv, Holding, Removing
<1>p. \A d \in Devices : d # NoDevice
  OBVIOUS
<1>1. ASSUME NEW o \in Sessions, Scanned(o) PROVE DeviceInv'
  BY <1>1, ScannedFacts, <1>p DEF DeviceInv, Touches
<1>2. ASSUME NEW o \in Sessions, QrEnds(o) PROVE DeviceInv'
  <2>1. UNCHANGED <<store, paired>>
    BY <1>2, Zenon DEF QrEnds, dbVars
  <2> QED
    BY <1>2, <2>1, QrEndsFacts DEF DeviceInv, Touches
<1>3. ASSUME NEW o \in Sessions, LoggedIn(o) PROVE DeviceInv'
  <2>1. UNCHANGED <<store, paired>>
    BY <1>3, Zenon DEF LoggedIn, dbVars
  <2> QED
    BY <1>3, <2>1, LoggedInFacts DEF DeviceInv, Touches
<1>4. ASSUME NEW o \in Sessions, Drop(o) PROVE DeviceInv'
  <2>1. UNCHANGED paired /\ (store' = store \/ store' = store \ {sess[o].dev})
    BY <1>4, Zenon DEF Drop
  <2> QED
    BY <1>4, <2>1, DropFacts DEF DeviceInv, Touches
<1>5. ASSUME NEW o \in Sessions, LoggedOut(o) PROVE DeviceInv'
  <2>1. UNCHANGED paired /\ (store' = store \/ store' = store \ {sess[o].dev})
    BY <1>5, Zenon DEF LoggedOut
  <2> QED
    BY <1>5, <2>1, LoggedOutFacts DEF DeviceInv, Touches
<1>6. ASSUME NEW o \in Sessions, Redial(o) PROVE DeviceInv'
  <2>1. UNCHANGED <<store, paired>>
    BY <1>6, Zenon DEF Redial, dbVars
  <2> QED
    BY <1>6, <2>1, RedialFacts DEF DeviceInv, Touches
<1>7. CASE Boot
  BY <1>7 DEF Boot, DeviceInv, Touches, dbVars, managerVars
<1>8. CASE NotRestored
  BY <1>8 DEF NotRestored, DeviceInv, Touches, dbVars, managerVars
<1>9. CASE Restored
  <2>1. UNCHANGED <<store, paired>>
    BY <1>9 DEF Restored
  <2> QED
    BY <1>9, <2>1, RestoredFacts DEF DeviceInv, Touches
<1>10. CASE Crash
  BY <1>10, <1>0, NewSessionType DEF Crash, dbVars, DeviceInv, Touches
<1>11. ASSUME NEW r \in Requests, Begin(r) PROVE DeviceInv'
  BY <1>11 DEF Begin, DeviceInv, Touches, dbVars, managerVars
<1>12. ASSUME NEW r \in Requests, SessionFor(r) PROVE DeviceInv'
  BY <1>12, <1>0, CreateFacts, NewSessionType DEF SessionFor, dbVars, DeviceInv, Touches
<1>13. ASSUME NEW r \in Requests, CheckStatus(r) PROVE DeviceInv'
  BY <1>13 DEF CheckStatus, DeviceInv, Touches, dbVars, managerVars
<1>14. ASSUME NEW r \in Requests, Dial(r) PROVE DeviceInv'
  <2>1. held[r] \in Sessions
    BY <1>14, <1>h DEF Dial
  <2>2. UNCHANGED paired /\ (store' = store \/ store' = store \ {sess[held[r]].dev})
    BY <1>14, <2>1, DialFacts DEF Dial
  <2> QED
    BY <1>14, <2>1, <2>2, DialFacts DEF DeviceInv, Touches
<1>15. ASSUME NEW r \in Requests, MarkPairing(r) PROVE DeviceInv'
  BY <1>15 DEF MarkPairing, DeviceInv, Touches, dbVars, managerVars
<1>16. ASSUME NEW r \in Requests, GiveUp(r) PROVE DeviceInv'
  BY <1>16 DEF GiveUp, DeviceInv, Touches, dbVars, managerVars
<1>17. ASSUME NEW r \in Requests, Hangup(r) PROVE DeviceInv'
  <2>1. held[r] \in Sessions
    BY <1>17, <1>h DEF Hangup
  <2>2. UNCHANGED paired /\ (store' = store \/ store' = store \ {sess[held[r]].dev})
    BY <1>17, <2>1, HangupFacts DEF Hangup
  <2> QED
    BY <1>17, <2>1, <2>2, HangupFacts DEF DeviceInv, Touches
<1>18. ASSUME NEW r \in Requests, Clear(r) PROVE DeviceInv'
  BY <1>18 DEF Clear, DeviceInv, Touches, dbVars, managerVars
<1>19. ASSUME NEW r \in Requests, Recreate(r) PROVE DeviceInv'
  BY <1>19, <1>0, CreateFacts, NewSessionType DEF Recreate, dbVars, DeviceInv, Touches
<1>20. ASSUME NEW r \in Requests, StatementFails(r) PROVE DeviceInv'
  BY <1>20 DEF StatementFails, DeviceInv, Touches, dbVars, managerVars
<1>21. ASSUME NEW r \in Requests, Unregister(r) PROVE DeviceInv'
  BY <1>21 DEF Unregister, DeviceInv, Touches, dbVars, managerVars
<1>22. ASSUME NEW r \in Requests, Close(r) PROVE DeviceInv'
  <2>1. held[r] \in Sessions
    BY <1>22, <1>h DEF Close
  <2>2. UNCHANGED paired /\ (store' = store \/ store' = store \ {sess[held[r]].dev})
    BY <1>22, <2>1, CloseFacts DEF Close
  <2> QED
    BY <1>22, <2>1, <2>2, CloseFacts DEF DeviceInv, Touches
<1>23. ASSUME NEW r \in Requests, Erase(r) PROVE DeviceInv'
  <2>1. held[r] \in Sessions
    BY <1>23, <1>h DEF Erase
  <2>2. UNCHANGED paired /\ (store' = store \/ store' = store \ {sess[held[r]].dev})
    BY <1>23, <2>1, EraseFacts DEF Erase
  <2> QED
    BY <1>23, <2>1, <2>2, EraseFacts DEF DeviceInv, Touches
<1>24. ASSUME NEW r \in Requests, EraseFails(r) PROVE DeviceInv'
  BY <1>24 DEF EraseFails, DeviceInv, Touches, dbVars, managerVars
<1>25. ASSUME NEW r \in Requests, DeleteRow(r) PROVE DeviceInv'
  BY <1>25 DEF DeleteRow, DeviceInv, Touches, dbVars, managerVars
<1>26. ASSUME NEW r \in Requests, Update(r) PROVE DeviceInv'
  BY <1>26 DEF Update, DeviceInv, Touches, dbVars, managerVars
<1>27. CASE UNCHANGED vars
  BY <1>27 DEF vars, dbVars, managerVars, DeviceInv, Touches
<1> QED
  BY <1>1, <1>2, <1>3, <1>4, <1>5, <1>6, <1>7, <1>8, <1>9, <1>10, <1>11, <1>12, <1>13, <1>14,
     <1>15, <1>16, <1>17, <1>18, <1>19, <1>20, <1>21, <1>22, <1>23, <1>24, <1>25, <1>26, <1>27
     DEF Next

\* The row of a deleted instance.
LEMMA GoneStep == TypeOK /\ StageInv /\ GoneInv /\ [Next]_vars => GoneInv'
<1> SUFFICES ASSUME TypeOK, StageInv, GoneInv, [Next]_vars PROVE GoneInv'
  OBVIOUS
<1> USE LifecycleAssumption
<1>0. NoDevice \in Device /\ \A r \in Requests : copy[r].jid \in Device
  BY DEF TypeOK, Device
<1>h. \A r \in Requests :
        pc[r] \in {"status", "dial", "hangup", "close", "erase"} => held[r] \in Sessions
  BY DEF StageInv, Holding, Removing
<1>c. \A r \in Requests : copy[r].st \in Status
  BY DEF TypeOK
<1>1. ASSUME NEW o \in Sessions, Scanned(o) PROVE GoneInv'
  BY <1>1, ScannedFacts DEF Reports, GoneInv
<1>2. ASSUME NEW o \in Sessions, QrEnds(o) PROVE GoneInv'
  BY <1>2, QrEndsFacts DEF Reports, GoneInv
<1>3. ASSUME NEW o \in Sessions, LoggedIn(o) PROVE GoneInv'
  BY <1>3, LoggedInFacts DEF Reports, GoneInv
<1>4. ASSUME NEW o \in Sessions, Drop(o) PROVE GoneInv'
  BY <1>4, DropFacts DEF Reports, GoneInv
<1>5. ASSUME NEW o \in Sessions, LoggedOut(o) PROVE GoneInv'
  BY <1>5, LoggedOutFacts DEF Reports, GoneInv
<1>6. ASSUME NEW o \in Sessions, Redial(o) PROVE GoneInv'
  BY <1>6 DEF Redial, GoneInv, dbVars
<1>7. CASE Boot
  BY <1>7 DEF Boot, GoneInv, dbVars
<1>8. CASE NotRestored
  BY <1>8, NotRestoredFacts DEF GoneInv
<1>9. CASE Restored
  BY <1>9, RestoredFacts DEF GoneInv
<1>10. CASE Crash
  BY <1>10 DEF Crash, GoneInv, dbVars
<1>11. ASSUME NEW r \in Requests, Begin(r) PROVE GoneInv'
  BY <1>11 DEF Begin, GoneInv, dbVars
<1>12. ASSUME NEW r \in Requests, SessionFor(r) PROVE GoneInv'
  BY <1>12 DEF SessionFor, GoneInv, dbVars
<1>13. ASSUME NEW r \in Requests, CheckStatus(r) PROVE GoneInv'
  BY <1>13 DEF CheckStatus, GoneInv, dbVars
<1>14. ASSUME NEW r \in Requests, Dial(r) PROVE GoneInv'
  <2>1. held[r] \in Sessions
    BY <1>14, <1>h DEF Dial
  <2> QED
    BY <1>14, <2>1, DialFacts DEF Dial, Reports, GoneInv
<1>15. ASSUME NEW r \in Requests, MarkPairing(r) PROVE GoneInv'
  BY <1>15, <1>0, <1>c, SetConnectionFacts DEF MarkPairing, Status, GoneInv
<1>16. ASSUME NEW r \in Requests, GiveUp(r) PROVE GoneInv'
  BY <1>16 DEF GiveUp, GoneInv, dbVars
<1>17. ASSUME NEW r \in Requests, Hangup(r) PROVE GoneInv'
  <2>1. held[r] \in Sessions
    BY <1>17, <1>h DEF Hangup
  <2> QED
    BY <1>17, <2>1, HangupFacts DEF Hangup, Reports, GoneInv
<1>18. ASSUME NEW r \in Requests, Clear(r) PROVE GoneInv'
  BY <1>18, <1>0, <1>c, SetConnectionFacts DEF Clear, Status, GoneInv
<1>19. ASSUME NEW r \in Requests, Recreate(r) PROVE GoneInv'
  BY <1>19 DEF Recreate, GoneInv, dbVars
<1>20. ASSUME NEW r \in Requests, StatementFails(r) PROVE GoneInv'
  BY <1>20 DEF StatementFails, GoneInv, dbVars
<1>21. ASSUME NEW r \in Requests, Unregister(r) PROVE GoneInv'
  BY <1>21 DEF Unregister, GoneInv, dbVars
<1>22. ASSUME NEW r \in Requests, Close(r) PROVE GoneInv'
  <2>1. held[r] \in Sessions
    BY <1>22, <1>h DEF Close
  <2> QED
    BY <1>22, <2>1, CloseFacts DEF Close, Reports, GoneInv
<1>23. ASSUME NEW r \in Requests, Erase(r) PROVE GoneInv'
  <2>1. held[r] \in Sessions
    BY <1>23, <1>h DEF Erase
  <2> QED
    BY <1>23, <2>1, EraseFacts DEF Erase, Reports, GoneInv
<1>24. ASSUME NEW r \in Requests, EraseFails(r) PROVE GoneInv'
  BY <1>24 DEF EraseFails, GoneInv, dbVars
<1>25. ASSUME NEW r \in Requests, DeleteRow(r) PROVE GoneInv'
  BY <1>25 DEF DeleteRow, GoneInv, dbVars
<1>26. ASSUME NEW r \in Requests, Update(r) PROVE GoneInv'
  BY <1>26, <1>0, <1>c, SetConnectionFacts DEF Update, Status, GoneInv
<1>27. CASE UNCHANGED vars
  BY <1>27 DEF vars, GoneInv, dbVars
<1> QED
  BY <1>1, <1>2, <1>3, <1>4, <1>5, <1>6, <1>7, <1>8, <1>9, <1>10, <1>11, <1>12, <1>13, <1>14,
     <1>15, <1>16, <1>17, <1>18, <1>19, <1>20, <1>21, <1>22, <1>23, <1>24, <1>25, <1>26, <1>27
     DEF Next

-----------------------------------------------------------------------------
(* Strays                                                                  *)

\* Open sessions.
LEMMA CausedStep ==
    TypeOK /\ StageInv /\ RunInv /\ HolderInv /\ RemovalInv /\ StrayInv /\ [Next]_vars => OpenInv'
<1> SUFFICES ASSUME TypeOK, StageInv, RunInv, HolderInv, RemovalInv, StrayInv, [Next]_vars
             PROVE OpenInv'
  OBVIOUS
<1> USE LifecycleAssumption
<1>0. NoDevice \in Device /\ \A r \in Requests : copy[r].jid \in Device
  BY DEF TypeOK, Device
<1>h. \A r \in Requests :
        pc[r] \in {"status", "dial", "hangup", "close", "erase"} => held[r] \in Sessions
  BY DEF StageInv, Holding, Removing
<1>1. ASSUME NEW o \in Sessions, Scanned(o) PROVE OpenInv'
  <2>1. EnvUnchanged
    BY <1>1 DEF Scanned
  <2> QED
    BY <1>1, <2>1, <1>h, ScannedFacts DEF EnvUnchanged, requestVars, Touches, OpenInv, StrayInv,
       TornInv, RunInv, Touches, BeingRemoved, TypeOK
<1>2. ASSUME NEW o \in Sessions, QrEnds(o) PROVE OpenInv'
  <2>1. EnvUnchanged
    BY <1>2 DEF QrEnds
  <2> QED
    BY <1>2, <2>1, <1>h, QrEndsFacts DEF EnvUnchanged, requestVars, Touches, OpenInv, StrayInv,
       TornInv, RunInv, Touches, BeingRemoved, TypeOK
<1>3. ASSUME NEW o \in Sessions, LoggedIn(o) PROVE OpenInv'
  <2>1. EnvUnchanged
    BY <1>3 DEF LoggedIn
  <2> QED
    BY <1>3, <2>1, <1>h, LoggedInFacts DEF EnvUnchanged, requestVars, Touches, OpenInv, StrayInv,
       TornInv, RunInv, Touches, BeingRemoved, TypeOK
<1>4. ASSUME NEW o \in Sessions, Drop(o) PROVE OpenInv'
  <2>1. EnvUnchanged
    BY <1>4 DEF Drop
  <2> QED
    BY <1>4, <2>1, <1>h, DropFacts DEF EnvUnchanged, requestVars, Touches, OpenInv, StrayInv,
       TornInv, RunInv, Touches, BeingRemoved, TypeOK
<1>5. ASSUME NEW o \in Sessions, LoggedOut(o) PROVE OpenInv'
  <2>1. EnvUnchanged
    BY <1>5 DEF LoggedOut
  <2> QED
    BY <1>5, <2>1, <1>h, LoggedOutFacts DEF EnvUnchanged, requestVars, Touches, OpenInv, StrayInv,
       TornInv, RunInv, Touches, BeingRemoved, TypeOK
<1>6. ASSUME NEW o \in Sessions, Redial(o) PROVE OpenInv'
  <2>1. EnvUnchanged
    BY <1>6 DEF Redial
  <2> QED
    BY <1>6, <2>1, <1>h, RedialFacts DEF EnvUnchanged, requestVars, Touches, OpenInv, StrayInv,
       TornInv, RunInv, Touches, BeingRemoved, TypeOK
<1>7. CASE Boot
  BY <1>7, <1>h DEF Boot, requestVars, managerVars, historyVars, OpenInv, StrayInv, TornInv,
     RunInv, Touches, BeingRemoved, TypeOK
<1>8. CASE NotRestored
  BY <1>8, <1>h DEF NotRestored, requestVars, managerVars, historyVars, OpenInv, StrayInv,
     TornInv, RunInv, Touches, BeingRemoved, TypeOK
<1>9. CASE Restored
  <2>1. UNCHANGED <<requestVars, taken>> /\ reg = NoSession
        /\ \A r \in Requests : pc[r] = "idle"
    BY <1>9 DEF Restored, RunInv, historyVars
  <2> QED
    BY <1>9, <2>1, RestoredFacts DEF RunInv, requestVars, Touches, OpenInv, StrayInv, TornInv,
       RunInv, Touches, BeingRemoved, TypeOK
<1>10. CASE Crash
  BY <1>10, <1>0, NewSessionType DEF Crash, OpenInv, StrayInv, TornInv, RunInv, Touches,
     BeingRemoved, TypeOK
<1>11. ASSUME NEW r \in Requests, Begin(r) PROVE OpenInv'
  BY <1>11, <1>h DEF Begin, Answer, Proceed, Goto, dbVars, managerVars, historyVars, OpenInv,
     StrayInv, TornInv, RunInv, Touches, BeingRemoved, TypeOK
<1>12. ASSUME NEW r \in Requests, SessionFor(r) PROVE OpenInv'
  <2>1. CASE Create(r, copy[r].jid, AfterSession(r)) /\ UNCHANGED resume
    <3>1. /\ pc' = [pc EXCEPT ![r] = AfterSession(r)]
          /\ reg' \in Sessions /\ held' = [held EXCEPT ![r] = reg']
          /\ \/ reg # NoSession /\ UNCHANGED <<reg, used, sess>>
             \/ reg = NoSession /\ reg' \notin used /\ used' = used \cup {reg'} /\ Touches(reg')
                /\ ~sess'[reg'].open /\ ~sess'[reg'].loop
      BY <1>0, <2>1, CreateFacts, NewSessionType
    <3>2. AfterSession(r) \in {"status", "hangup"}
      BY DEF AfterSession
    <3> QED
      BY <1>12, <2>1, <3>1, <3>2, <1>h DEF SessionFor, historyVars, OpenInv, StrayInv, TornInv,
         RunInv, Touches, BeingRemoved, TypeOK
  <2>2. CASE ~(Create(r, copy[r].jid, AfterSession(r)) /\ UNCHANGED resume)
    BY <1>12, <2>2, <1>h DEF SessionFor, AfterSession, Goto, historyVars, OpenInv, StrayInv,
       TornInv, RunInv, Touches, BeingRemoved, TypeOK
  <2> QED
    BY <2>1, <2>2
<1>13. ASSUME NEW r \in Requests, CheckStatus(r) PROVE OpenInv'
  BY <1>13, <1>h DEF CheckStatus, Answer, Proceed, Goto, dbVars, managerVars, historyVars,
     OpenInv, StrayInv, TornInv, RunInv, Touches, BeingRemoved, TypeOK
<1>14. ASSUME NEW r \in Requests, Dial(r) PROVE OpenInv'
  <2>1. held[r] \in Sessions /\ (reg = held[r] \/ held[r] \in taken)
    BY <1>14, <1>h DEF Dial, HolderInv, Holding
  <2>2. /\ UNCHANGED <<reg, taken>> /\ pc'[r] \notin Removing /\ pc[r] \notin Removing
        /\ \A q \in Requests \ {r} : pc'[q] = pc[q] /\ held'[q] = held[q]
    BY <1>14, DialMoves DEF Removing, TypeOK
  <2> QED
    BY <1>14, <2>1, <2>2, <1>h, DialFacts DEF Touches, RemovalInv, Removing, OpenInv, StrayInv,
       TornInv, RunInv, Touches, BeingRemoved, TypeOK
<1>15. ASSUME NEW r \in Requests, MarkPairing(r) PROVE OpenInv'
  BY <1>15, <1>h DEF MarkPairing, Answer, Proceed, Goto, dbVars, managerVars, historyVars,
     OpenInv, StrayInv, TornInv, RunInv, Touches, BeingRemoved, TypeOK
<1>16. ASSUME NEW r \in Requests, GiveUp(r) PROVE OpenInv'
  BY <1>16, <1>h DEF GiveUp, Answer, Proceed, Goto, dbVars, managerVars, historyVars, OpenInv,
     StrayInv, TornInv, RunInv, Touches, BeingRemoved, TypeOK
<1>17. ASSUME NEW r \in Requests, Hangup(r) PROVE OpenInv'
  <2>1. held[r] \in Sessions
    BY <1>17, <1>h DEF Hangup
  <2> QED
    BY <1>17, <2>1, <1>h, HangupFacts DEF Hangup, Goto, Proceed, historyVars, Touches, RemovalInv,
       Removing, OpenInv, StrayInv, TornInv, RunInv, Touches, BeingRemoved, TypeOK
<1>18. ASSUME NEW r \in Requests, Clear(r) PROVE OpenInv'
  BY <1>18, <1>h DEF Clear, Answer, Proceed, Goto, dbVars, managerVars, historyVars, OpenInv,
     StrayInv, TornInv, RunInv, Touches, BeingRemoved, TypeOK
<1>19. ASSUME NEW r \in Requests, Recreate(r) PROVE OpenInv'
  <2>1. /\ pc' = [pc EXCEPT ![r] = resume[r]]
        /\ reg' \in Sessions /\ held' = [held EXCEPT ![r] = reg']
        /\ \/ reg # NoSession /\ UNCHANGED <<reg, used, sess>>
           \/ reg = NoSession /\ reg' \notin used /\ used' = used \cup {reg'} /\ Touches(reg')
              /\ ~sess'[reg'].open /\ ~sess'[reg'].loop
    BY <1>19, <1>0, CreateFacts, NewSessionType DEF Recreate
  <2> QED
    BY <1>19, <2>1, <1>h DEF Recreate, historyVars, OpenInv, StrayInv, TornInv, RunInv, Touches,
       BeingRemoved, TypeOK
<1>20. ASSUME NEW r \in Requests, StatementFails(r) PROVE OpenInv'
  BY <1>20, <1>h DEF StatementFails, Answer, Proceed, Goto, dbVars, managerVars, historyVars,
     OpenInv, StrayInv, TornInv, RunInv, Touches, BeingRemoved, TypeOK
<1>21. ASSUME NEW r \in Requests, Unregister(r) PROVE OpenInv'
  <2>1. CASE reg = NoSession
    BY <1>21, <2>1, AfterRemovalFacts DEF Unregister, OpenInv, StrayInv, TornInv, RunInv, Touches,
       BeingRemoved, TypeOK
  <2>2. CASE reg # NoSession
    BY <1>21, <2>2 DEF Unregister, Goto, OpenInv, StrayInv, TornInv, RunInv, Touches, BeingRemoved,
       TypeOK
  <2> QED
    BY <2>1, <2>2
<1>22. ASSUME NEW r \in Requests, Close(r) PROVE OpenInv'
  <2>1. held[r] \in Sessions
    BY <1>22, <1>h DEF Close
  <2> QED
    BY <1>22, <2>1, <1>h, CloseFacts DEF Close, Goto, Proceed, historyVars, Touches, RemovalInv,
       Removing, OpenInv, StrayInv, TornInv, RunInv, Touches, BeingRemoved, TypeOK
<1>23. ASSUME NEW r \in Requests, Erase(r) PROVE OpenInv'
  <2>1. held[r] \in Sessions /\ UNCHANGED <<reg, taken>> /\ pc[r] = "erase" /\ AfterRemoval(r)
    BY <1>23, <1>h DEF Erase
  <2>2. /\ pc'[r] \notin Removing
        /\ \A q \in Requests \ {r} : pc'[q] = pc[q] /\ held'[q] = held[q]
    BY <2>1, AfterRemovalFacts DEF Removing, TypeOK
  <2>3. /\ Touches(held[r]) /\ sess'[held[r]].open = sess[held[r]].open
        /\ sess'[held[r]].loop => sess[held[r]].loop
    BY <1>23, <2>1, EraseFacts
  <2> QED
    BY <2>1, <2>2, <2>3, <1>h DEF Touches, Removing, OpenInv, StrayInv, TornInv, BeingRemoved
<1>24. ASSUME NEW r \in Requests, EraseFails(r) PROVE OpenInv'
  BY <1>24, <1>h DEF EraseFails, Answer, Goto, RemovalInv, Removing, OpenInv, StrayInv,
     TornInv, RunInv, Touches, BeingRemoved, TypeOK
<1>25. ASSUME NEW r \in Requests, DeleteRow(r) PROVE OpenInv'
  BY <1>25, <1>h DEF DeleteRow, Answer, Proceed, Goto, dbVars, managerVars, historyVars,
     OpenInv, StrayInv, TornInv, RunInv, Touches, BeingRemoved, TypeOK
<1>26. ASSUME NEW r \in Requests, Update(r) PROVE OpenInv'
  BY <1>26, <1>h DEF Update, Answer, Proceed, Goto, dbVars, managerVars, historyVars, OpenInv,
     StrayInv, TornInv, RunInv, Touches, BeingRemoved, TypeOK
<1>27. CASE UNCHANGED vars
  BY <1>27, <1>h DEF vars, dbVars, requestVars, managerVars, historyVars, OpenInv, StrayInv,
     TornInv, RunInv, Touches, BeingRemoved, TypeOK
<1> QED
  BY <1>1, <1>2, <1>3, <1>4, <1>5, <1>6, <1>7, <1>8, <1>9, <1>10, <1>11, <1>12, <1>13, <1>14,
     <1>15, <1>16, <1>17, <1>18, <1>19, <1>20, <1>21, <1>22, <1>23, <1>24, <1>25, <1>26, <1>27
     DEF Next

\* Sessions that are torn down.
LEMMA TornStep ==
    TypeOK /\ StageInv /\ RunInv /\ HolderInv /\ RemovalInv /\ StrayInv /\ [Next]_vars => TornInv'
<1> SUFFICES ASSUME TypeOK, StageInv, RunInv, HolderInv, RemovalInv, StrayInv, [Next]_vars
             PROVE TornInv'
  OBVIOUS
<1> USE LifecycleAssumption
<1>0. NoDevice \in Device /\ \A r \in Requests : copy[r].jid \in Device
  BY DEF TypeOK, Device
<1>h. \A r \in Requests :
        pc[r] \in {"status", "dial", "hangup", "close", "erase"} => held[r] \in Sessions
  BY DEF StageInv, Holding, Removing
<1>1. ASSUME NEW o \in Sessions, Scanned(o) PROVE TornInv'
  <2>1. EnvUnchanged
    BY <1>1 DEF Scanned
  <2> QED
    BY <1>1, <2>1, <1>h, ScannedFacts DEF EnvUnchanged, requestVars, Touches, TornInv, StrayInv,
       OpenInv, RunInv, Touches, BeingRemoved, TypeOK
<1>2. ASSUME NEW o \in Sessions, QrEnds(o) PROVE TornInv'
  <2>1. EnvUnchanged
    BY <1>2 DEF QrEnds
  <2> QED
    BY <1>2, <2>1, <1>h, QrEndsFacts DEF EnvUnchanged, requestVars, Touches, TornInv, StrayInv,
       OpenInv, RunInv, Touches, BeingRemoved, TypeOK
<1>3. ASSUME NEW o \in Sessions, LoggedIn(o) PROVE TornInv'
  <2>1. EnvUnchanged
    BY <1>3 DEF LoggedIn
  <2> QED
    BY <1>3, <2>1, <1>h, LoggedInFacts DEF EnvUnchanged, requestVars, Touches, TornInv, StrayInv,
       OpenInv, RunInv, Touches, BeingRemoved, TypeOK
<1>4. ASSUME NEW o \in Sessions, Drop(o) PROVE TornInv'
  <2>1. EnvUnchanged
    BY <1>4 DEF Drop
  <2> QED
    BY <1>4, <2>1, <1>h, DropFacts DEF EnvUnchanged, requestVars, Touches, TornInv, StrayInv,
       OpenInv, RunInv, Touches, BeingRemoved, TypeOK
<1>5. ASSUME NEW o \in Sessions, LoggedOut(o) PROVE TornInv'
  <2>1. EnvUnchanged
    BY <1>5 DEF LoggedOut
  <2> QED
    BY <1>5, <2>1, <1>h, LoggedOutFacts DEF EnvUnchanged, requestVars, Touches, TornInv, StrayInv,
       OpenInv, RunInv, Touches, BeingRemoved, TypeOK
<1>6. ASSUME NEW o \in Sessions, Redial(o) PROVE TornInv'
  <2>1. EnvUnchanged
    BY <1>6 DEF Redial
  <2> QED
    BY <1>6, <2>1, <1>h, RedialFacts DEF EnvUnchanged, requestVars, Touches, TornInv, StrayInv,
       OpenInv, RunInv, Touches, BeingRemoved, TypeOK
<1>7. CASE Boot
  BY <1>7, <1>h DEF Boot, requestVars, managerVars, historyVars, TornInv, StrayInv, OpenInv,
     RunInv, Touches, BeingRemoved, TypeOK
<1>8. CASE NotRestored
  BY <1>8, <1>h DEF NotRestored, requestVars, managerVars, historyVars, TornInv, StrayInv,
     OpenInv, RunInv, Touches, BeingRemoved, TypeOK
<1>9. CASE Restored
  <2>1. UNCHANGED <<requestVars, taken>> /\ reg = NoSession
        /\ \A r \in Requests : pc[r] = "idle"
    BY <1>9 DEF Restored, RunInv, historyVars
  <2> QED
    BY <1>9, <2>1, RestoredFacts DEF RunInv, requestVars, Touches, TornInv, StrayInv, OpenInv,
       RunInv, Touches, BeingRemoved, TypeOK
<1>10. CASE Crash
  BY <1>10, <1>0, NewSessionType DEF Crash, TornInv, StrayInv, OpenInv, RunInv, Touches,
     BeingRemoved, TypeOK
<1>11. ASSUME NEW r \in Requests, Begin(r) PROVE TornInv'
  BY <1>11, <1>h DEF Begin, Answer, Proceed, Goto, dbVars, managerVars, historyVars, TornInv,
     StrayInv, OpenInv, RunInv, Touches, BeingRemoved, TypeOK
<1>12. ASSUME NEW r \in Requests, SessionFor(r) PROVE TornInv'
  <2>1. CASE Create(r, copy[r].jid, AfterSession(r)) /\ UNCHANGED resume
    <3>1. /\ pc' = [pc EXCEPT ![r] = AfterSession(r)]
          /\ reg' \in Sessions /\ held' = [held EXCEPT ![r] = reg']
          /\ \/ reg # NoSession /\ UNCHANGED <<reg, used, sess>>
             \/ reg = NoSession /\ reg' \notin used /\ used' = used \cup {reg'} /\ Touches(reg')
                /\ ~sess'[reg'].open /\ ~sess'[reg'].loop
      BY <1>0, <2>1, CreateFacts, NewSessionType
    <3>2. AfterSession(r) \in {"status", "hangup"}
      BY DEF AfterSession
    <3> QED
      BY <1>12, <2>1, <3>1, <3>2, <1>h DEF SessionFor, historyVars, TornInv, StrayInv, OpenInv,
         RunInv, Touches, BeingRemoved, TypeOK
  <2>2. CASE ~(Create(r, copy[r].jid, AfterSession(r)) /\ UNCHANGED resume)
    BY <1>12, <2>2, <1>h DEF SessionFor, AfterSession, Goto, historyVars, TornInv, StrayInv,
       OpenInv, RunInv, Touches, BeingRemoved, TypeOK
  <2> QED
    BY <2>1, <2>2
<1>13. ASSUME NEW r \in Requests, CheckStatus(r) PROVE TornInv'
  BY <1>13, <1>h DEF CheckStatus, Answer, Proceed, Goto, dbVars, managerVars, historyVars,
     TornInv, StrayInv, OpenInv, RunInv, Touches, BeingRemoved, TypeOK
<1>14. ASSUME NEW r \in Requests, Dial(r) PROVE TornInv'
  <2>1. held[r] \in Sessions /\ (reg = held[r] \/ held[r] \in taken)
    BY <1>14, <1>h DEF Dial, HolderInv, Holding
  <2>2. /\ UNCHANGED <<reg, taken>> /\ pc'[r] \notin Removing /\ pc[r] \notin Removing
        /\ \A q \in Requests \ {r} : pc'[q] = pc[q] /\ held'[q] = held[q]
    BY <1>14, DialMoves DEF Removing, TypeOK
  <2> QED
    BY <1>14, <2>1, <2>2, <1>h, DialFacts DEF Touches, RemovalInv, Removing, TornInv, StrayInv,
       OpenInv, RunInv, Touches, BeingRemoved, TypeOK
<1>15. ASSUME NEW r \in Requests, MarkPairing(r) PROVE TornInv'
  BY <1>15, <1>h DEF MarkPairing, Answer, Proceed, Goto, dbVars, managerVars, historyVars,
     TornInv, StrayInv, OpenInv, RunInv, Touches, BeingRemoved, TypeOK
<1>16. ASSUME NEW r \in Requests, GiveUp(r) PROVE TornInv'
  BY <1>16, <1>h DEF GiveUp, Answer, Proceed, Goto, dbVars, managerVars, historyVars, TornInv,
     StrayInv, OpenInv, RunInv, Touches, BeingRemoved, TypeOK
<1>17. ASSUME NEW r \in Requests, Hangup(r) PROVE TornInv'
  <2>1. held[r] \in Sessions
    BY <1>17, <1>h DEF Hangup
  <2> QED
    BY <1>17, <2>1, <1>h, HangupFacts DEF Hangup, Goto, Proceed, historyVars, Touches, RemovalInv,
       Removing, TornInv, StrayInv, OpenInv, RunInv, Touches, BeingRemoved, TypeOK
<1>18. ASSUME NEW r \in Requests, Clear(r) PROVE TornInv'
  BY <1>18, <1>h DEF Clear, Answer, Proceed, Goto, dbVars, managerVars, historyVars, TornInv,
     StrayInv, OpenInv, RunInv, Touches, BeingRemoved, TypeOK
<1>19. ASSUME NEW r \in Requests, Recreate(r) PROVE TornInv'
  <2>1. /\ pc' = [pc EXCEPT ![r] = resume[r]]
        /\ reg' \in Sessions /\ held' = [held EXCEPT ![r] = reg']
        /\ \/ reg # NoSession /\ UNCHANGED <<reg, used, sess>>
           \/ reg = NoSession /\ reg' \notin used /\ used' = used \cup {reg'} /\ Touches(reg')
              /\ ~sess'[reg'].open /\ ~sess'[reg'].loop
    BY <1>19, <1>0, CreateFacts, NewSessionType DEF Recreate
  <2> QED
    BY <1>19, <2>1, <1>h DEF Recreate, historyVars, TornInv, StrayInv, OpenInv, RunInv, Touches,
       BeingRemoved, TypeOK
<1>20. ASSUME NEW r \in Requests, StatementFails(r) PROVE TornInv'
  BY <1>20, <1>h DEF StatementFails, Answer, Proceed, Goto, dbVars, managerVars, historyVars,
     TornInv, StrayInv, OpenInv, RunInv, Touches, BeingRemoved, TypeOK
<1>21. ASSUME NEW r \in Requests, Unregister(r) PROVE TornInv'
  <2>1. CASE reg = NoSession
    BY <1>21, <2>1, AfterRemovalFacts DEF Unregister, TornInv, StrayInv, OpenInv, RunInv, Touches,
       BeingRemoved, TypeOK
  <2>2. CASE reg # NoSession
    BY <1>21, <2>2 DEF Unregister, Goto, TornInv, StrayInv, OpenInv, RunInv, Touches, BeingRemoved,
       TypeOK
  <2> QED
    BY <2>1, <2>2
<1>22. ASSUME NEW r \in Requests, Close(r) PROVE TornInv'
  <2>1. held[r] \in Sessions
    BY <1>22, <1>h DEF Close
  <2> QED
    <3>1. /\ pc[r] = "close" /\ UNCHANGED <<reg, taken, held>>
          /\ pc' = [pc EXCEPT ![r] = "erase"] /\ pc \in [Requests -> Steps]
          /\ held \in [Requests -> Sessions \cup {NoSession}]
      BY <1>22 DEF Close, Proceed, Goto, historyVars, TypeOK, Steps
    <3>2. /\ Touches(held[r]) /\ ~sess'[held[r]].open /\ ~sess'[held[r]].loop
      BY <1>22, <2>1, CloseFacts
    <3> QED
      BY <2>1, <3>1, <3>2, <1>h DEF Touches, RemovalInv, Removing, StrayInv, TornInv
<1>23. ASSUME NEW r \in Requests, Erase(r) PROVE TornInv'
  <2>1. held[r] \in Sessions /\ UNCHANGED <<reg, taken>> /\ pc[r] = "erase" /\ AfterRemoval(r)
    BY <1>23, <1>h DEF Erase
  <2>2. /\ pc'[r] \notin Removing
        /\ \A q \in Requests \ {r} : pc'[q] = pc[q] /\ held'[q] = held[q]
    BY <2>1, AfterRemovalFacts DEF Removing, TypeOK
  <2>3. /\ Touches(held[r]) /\ sess'[held[r]].open = sess[held[r]].open
        /\ sess'[held[r]].loop => sess[held[r]].loop
    BY <1>23, <2>1, EraseFacts
  <2> QED
    BY <2>1, <2>2, <2>3, <1>h DEF Touches, RemovalInv, Removing, TornInv, StrayInv, OpenInv,
       RunInv, Touches, BeingRemoved, TypeOK
<1>24. ASSUME NEW r \in Requests, EraseFails(r) PROVE TornInv'
  BY <1>24, <1>h DEF EraseFails, Answer, Goto, RemovalInv, Removing, TornInv, StrayInv,
     OpenInv, RunInv, Touches, BeingRemoved, TypeOK
<1>25. ASSUME NEW r \in Requests, DeleteRow(r) PROVE TornInv'
  BY <1>25, <1>h DEF DeleteRow, Answer, Proceed, Goto, dbVars, managerVars, historyVars,
     TornInv, StrayInv, OpenInv, RunInv, Touches, BeingRemoved, TypeOK
<1>26. ASSUME NEW r \in Requests, Update(r) PROVE TornInv'
  BY <1>26, <1>h DEF Update, Answer, Proceed, Goto, dbVars, managerVars, historyVars, TornInv,
     StrayInv, OpenInv, RunInv, Touches, BeingRemoved, TypeOK
<1>27. CASE UNCHANGED vars
  BY <1>27, <1>h DEF vars, dbVars, requestVars, managerVars, historyVars, TornInv, StrayInv,
     OpenInv, RunInv, Touches, BeingRemoved, TypeOK
<1> QED
  BY <1>1, <1>2, <1>3, <1>4, <1>5, <1>6, <1>7, <1>8, <1>9, <1>10, <1>11, <1>12, <1>13, <1>14,
     <1>15, <1>16, <1>17, <1>18, <1>19, <1>20, <1>21, <1>22, <1>23, <1>24, <1>25, <1>26, <1>27
     DEF Next

LEMMA StrayStep ==
    TypeOK /\ StageInv /\ RunInv /\ HolderInv /\ RemovalInv /\ StrayInv /\ [Next]_vars => StrayInv'
  BY CausedStep, TornStep DEF StrayInv

-----------------------------------------------------------------------------
(* Stored credentials                                                      *)

\* What was missed is not forgotten, and what is new has a cause.
StoreKept ==
    /\ missed \subseteq missed'
    /\ \A d \in store' \ store : d \in missed' \/ (row'.there /\ Registered(d)')

\* The causes of a stored device turn into one another.
RemovedKept ==
    \A d \in store \cap store' : Removed(d) =>
        d \in missed' \/ Removed(d)' \/ (row'.there /\ Registered(d)') \/ OnlyInRow(d)'

RegisteredKept ==
    \A d \in store \cap store' : Registered(d) =>
        d \in missed' \/ Removed(d)' \/ Registered(d)' \/ OnlyInRow(d)'

InRowKept ==
    \A d \in store \cap store' : OnlyInRow(d) => d \in missed' \/ Registered(d)' \/ OnlyInRow(d)'

\* Sessions that do anything were built in this run.
LEMMA LiveStep == TypeOK /\ StageInv /\ RunInv /\ LiveInv /\ [Next]_vars => LiveInv'
<1> SUFFICES ASSUME TypeOK, StageInv, RunInv, LiveInv, [Next]_vars PROVE LiveInv'
  OBVIOUS
<1> USE LifecycleAssumption
<1>0. NoDevice \in Device /\ \A r \in Requests : copy[r].jid \in Device
  BY DEF TypeOK, Device
<1>h. \A r \in Requests :
        pc[r] \in {"status", "dial", "hangup", "close", "erase"} => held[r] \in Sessions
  BY DEF StageInv, Holding, Removing
<1>c. \A r \in Requests : copy[r].st \in Status
  BY DEF TypeOK
<1>1. ASSUME NEW o \in Sessions, Scanned(o) PROVE LiveInv'
  <2>1. EnvUnchanged
    BY <1>1 DEF Scanned
  <2>2. missed \subseteq missed' /\ TRUE
    BY <1>1, Zenon DEF Scanned, dbVars
  <2> QED
    BY <1>1, <2>1, <2>2, <1>h, ScannedFacts DEF EnvUnchanged, requestVars, Touches, Reports,
       Touches, LiveInv, RunInv, TypeOK
<1>2. ASSUME NEW o \in Sessions, QrEnds(o) PROVE LiveInv'
  <2>1. EnvUnchanged
    BY <1>2 DEF QrEnds
  <2>2. missed \subseteq missed' /\ store' = store /\ sess[o].qr
    BY <1>2, Zenon DEF QrEnds, dbVars
  <2> QED
    BY <1>2, <2>1, <2>2, <1>h, QrEndsFacts DEF EnvUnchanged, requestVars, Touches, Reports,
       Touches, LiveInv, RunInv, TypeOK
<1>3. ASSUME NEW o \in Sessions, LoggedIn(o) PROVE LiveInv'
  <2>1. EnvUnchanged
    BY <1>3 DEF LoggedIn
  <2>2. missed \subseteq missed' /\ store' = store
    BY <1>3, Zenon DEF LoggedIn, dbVars
  <2> QED
    BY <1>3, <2>1, <2>2, <1>h, LoggedInFacts DEF EnvUnchanged, requestVars, Touches, Reports,
       Touches, LiveInv, RunInv, TypeOK
<1>4. ASSUME NEW o \in Sessions, Drop(o) PROVE LiveInv'
  <2>1. EnvUnchanged
    BY <1>4 DEF Drop
  <2>2. missed \subseteq missed' /\ store' = store
    BY <1>4, Zenon DEF Drop, dbVars
  <2> QED
    BY <1>4, <2>1, <2>2, <1>h, DropFacts DEF EnvUnchanged, requestVars, Touches, Reports, Touches,
       LiveInv, RunInv, TypeOK
<1>5. ASSUME NEW o \in Sessions, LoggedOut(o) PROVE LiveInv'
  <2>1. EnvUnchanged
    BY <1>5 DEF LoggedOut
  <2>2. missed \subseteq missed' /\ TRUE
    BY <1>5, Zenon DEF LoggedOut, dbVars
  <2> QED
    BY <1>5, <2>1, <2>2, <1>h, LoggedOutFacts DEF EnvUnchanged, requestVars, Touches, Reports,
       Touches, LiveInv, RunInv, TypeOK
<1>6. ASSUME NEW o \in Sessions, Redial(o) PROVE LiveInv'
  <2>1. EnvUnchanged
    BY <1>6 DEF Redial
  <2>2. missed \subseteq missed' /\ store' = store
    BY <1>6, Zenon DEF Redial, dbVars
  <2> QED
    BY <1>6, <2>1, <2>2, <1>h, RedialFacts DEF EnvUnchanged, requestVars, Touches, Reports,
       Touches, LiveInv, RunInv, TypeOK
<1>7. CASE Boot
  BY <1>7, <1>h DEF Boot, requestVars, managerVars, historyVars, Touches, LiveInv, RunInv,
     TypeOK
<1>8. CASE NotRestored
  BY <1>8, NotRestoredFacts DEF NotRestored, requestVars, historyVars, Touches, LiveInv,
     RunInv, TypeOK
<1>9. CASE Restored
  <2>1. UNCHANGED <<requestVars, store, taken, missed>> /\ reg = NoSession
        /\ \A r \in Requests : pc[r] = "idle"
    BY <1>9 DEF Restored, RunInv, historyVars
  <2> QED
    BY <1>9, <2>1, RestoredFacts DEF RunInv, requestVars, Touches, Touches, LiveInv, RunInv, TypeOK
<1>10. CASE Crash
  BY <1>10, <1>0, NewSessionType DEF Crash, Touches, LiveInv, RunInv, TypeOK
<1>11. ASSUME NEW r \in Requests, Begin(r) PROVE LiveInv'
  BY <1>11, <1>h DEF Begin, Answer, Proceed, Goto, dbVars, managerVars, historyVars, Touches,
     LiveInv, RunInv, TypeOK
<1>12. ASSUME NEW r \in Requests, SessionFor(r) PROVE LiveInv'
  <2>1. CASE Create(r, copy[r].jid, AfterSession(r)) /\ UNCHANGED resume
    <3>1. /\ pc' = [pc EXCEPT ![r] = AfterSession(r)]
          /\ reg' \in Sessions /\ held' = [held EXCEPT ![r] = reg']
          /\ \/ reg # NoSession /\ UNCHANGED <<reg, used, sess>>
             \/ reg = NoSession /\ reg' \notin used /\ used' = used \cup {reg'} /\ Touches(reg')
                /\ ~sess'[reg'].open /\ ~sess'[reg'].loop /\ ~sess'[reg'].qr
      BY <1>0, <2>1, CreateFacts, NewSessionType
    <3>2. AfterSession(r) \in {"status", "hangup"}
      BY DEF AfterSession
    <3> QED
      BY <1>12, <2>1, <3>1, <3>2, <1>h DEF SessionFor, historyVars, Touches, LiveInv, RunInv, TypeOK
  <2>2. CASE ~(Create(r, copy[r].jid, AfterSession(r)) /\ UNCHANGED resume)
    BY <1>12, <2>2, <1>h DEF SessionFor, AfterSession, Goto, historyVars, Touches, LiveInv, RunInv,
       TypeOK
  <2> QED
    BY <2>1, <2>2
<1>13. ASSUME NEW r \in Requests, CheckStatus(r) PROVE LiveInv'
  BY <1>13, <1>h DEF CheckStatus, Answer, Proceed, Goto, dbVars, managerVars, historyVars,
     Touches, LiveInv, RunInv, TypeOK
<1>14. ASSUME NEW r \in Requests, Dial(r) PROVE LiveInv'
  <2>1. held[r] \in Sessions
    BY <1>14, <1>h DEF Dial
  <2>2. /\ UNCHANGED <<reg, taken, store, missed, used>> /\ pc'[r] \notin Removing /\ pc[r] = "dial"
        /\ \A q \in Requests \ {r} : pc'[q] = pc[q] /\ held'[q] = held[q]
    BY <1>14, DialMoves DEF Removing, TypeOK
  <2> QED
    BY <1>14, <2>1, <2>2, <1>h, DialFacts DEF Touches, Reports, Removing, Touches, LiveInv, RunInv,
       TypeOK
<1>15. ASSUME NEW r \in Requests, MarkPairing(r) PROVE LiveInv'
  BY <1>15, <1>c, <1>0, SetConnectionFacts DEF MarkPairing, Status, Answer, Goto, managerVars,
     Touches, LiveInv, RunInv, TypeOK
<1>16. ASSUME NEW r \in Requests, GiveUp(r) PROVE LiveInv'
  BY <1>16, <1>h DEF GiveUp, Answer, Proceed, Goto, dbVars, managerVars, historyVars, Touches,
     LiveInv, RunInv, TypeOK
<1>17. ASSUME NEW r \in Requests, Hangup(r) PROVE LiveInv'
  <2>1. held[r] \in Sessions
    BY <1>17, <1>h DEF Hangup
  <2>2. /\ UNCHANGED <<reg, taken, missed, used, copy>> /\ pc'[r] = "clear"
        /\ held'[r] = NoSession /\ pc[r] = "hangup"
        /\ \A q \in Requests \ {r} : pc'[q] = pc[q] /\ held'[q] = held[q]
    BY <1>17, <2>1 DEF Hangup, Goto, Proceed, historyVars, TypeOK
  <2>3. row' = row \/ Reports(held[r])
    BY <1>17, <2>1, HangupFacts DEF Hangup
  <2> QED
    BY <1>17, <2>1, <2>2, <2>3, <1>h, HangupFacts DEF Touches, Reports, Removing, Touches, LiveInv,
       RunInv, TypeOK
<1>18. ASSUME NEW r \in Requests, Clear(r) PROVE LiveInv'
  BY <1>18, <1>c, <1>0, SetConnectionFacts DEF Clear, Status, Answer, Goto, managerVars,
     Touches, LiveInv, RunInv, TypeOK
<1>19. ASSUME NEW r \in Requests, Recreate(r) PROVE LiveInv'
  <2>1. /\ pc' = [pc EXCEPT ![r] = resume[r]]
        /\ reg' \in Sessions /\ held' = [held EXCEPT ![r] = reg']
        /\ \/ reg # NoSession /\ UNCHANGED <<reg, used, sess>>
           \/ reg = NoSession /\ reg' \notin used /\ used' = used \cup {reg'} /\ Touches(reg')
              /\ ~sess'[reg'].open /\ ~sess'[reg'].loop /\ ~sess'[reg'].qr
    BY <1>19, <1>0, CreateFacts, NewSessionType DEF Recreate
  <2> QED
    BY <1>19, <2>1, <1>h DEF Recreate, historyVars, Touches, LiveInv, RunInv, TypeOK
<1>20. ASSUME NEW r \in Requests, StatementFails(r) PROVE LiveInv'
  BY <1>20, <1>h DEF StatementFails, Answer, Proceed, Goto, dbVars, managerVars, historyVars,
     Touches, LiveInv, RunInv, TypeOK
<1>21. ASSUME NEW r \in Requests, Unregister(r) PROVE LiveInv'
  <2>1. CASE reg = NoSession
    BY <1>21, <2>1, AfterRemovalFacts DEF Unregister, Touches, LiveInv, RunInv, TypeOK
  <2>2. CASE reg # NoSession
    BY <1>21, <2>2 DEF Unregister, Goto, Touches, LiveInv, RunInv, TypeOK
  <2> QED
    BY <2>1, <2>2
<1>22. ASSUME NEW r \in Requests, Close(r) PROVE LiveInv'
  <2>1. held[r] \in Sessions
    BY <1>22, <1>h DEF Close
  <2>2. /\ UNCHANGED <<reg, taken, missed, used, copy>> /\ pc'[r] = "erase"
        /\ held'[r] = held[r] /\ pc[r] = "close"
        /\ \A q \in Requests \ {r} : pc'[q] = pc[q] /\ held'[q] = held[q]
    BY <1>22, <2>1 DEF Close, Goto, Proceed, historyVars, TypeOK
  <2>3. row' = row \/ Reports(held[r])
    BY <1>22, <2>1, CloseFacts DEF Close
  <2> QED
    BY <1>22, <2>1, <2>2, <2>3, <1>h, CloseFacts DEF Touches, Reports, Removing, Touches, LiveInv,
       RunInv, TypeOK
<1>23. ASSUME NEW r \in Requests, Erase(r) PROVE LiveInv'
  <2>1. held[r] \in Sessions /\ UNCHANGED <<reg, taken, missed, used>> /\ pc[r] = "erase"
          /\ AfterRemoval(r)
    BY <1>23, <1>h DEF Erase
  <2>2. /\ pc'[r] \notin Removing
        /\ \A q \in Requests \ {r} : pc'[q] = pc[q] /\ held'[q] = held[q]
    BY <2>1, AfterRemovalFacts DEF Removing, TypeOK
  <2> QED
    BY <1>23, <2>1, <2>2, EraseFacts, <1>h DEF Touches, Reports, Removing, Touches, LiveInv,
       RunInv, TypeOK
<1>24. ASSUME NEW r \in Requests, EraseFails(r) PROVE LiveInv'
  BY <1>24, <1>h DEF EraseFails, Answer, Goto, Removing, Touches, LiveInv, RunInv, TypeOK
<1>25. ASSUME NEW r \in Requests, DeleteRow(r) PROVE LiveInv'
  BY <1>25, <1>h DEF DeleteRow, Answer, Proceed, Goto, dbVars, managerVars, historyVars,
     Touches, LiveInv, RunInv, TypeOK
<1>26. ASSUME NEW r \in Requests, Update(r) PROVE LiveInv'
  BY <1>26, <1>c, <1>0, SetConnectionFacts DEF Update, Status, Answer, Goto, managerVars,
     Touches, LiveInv, RunInv, TypeOK
<1>27. CASE UNCHANGED vars
  BY <1>27, <1>h DEF vars, dbVars, requestVars, managerVars, historyVars, Touches, LiveInv,
     RunInv, TypeOK
<1> QED
  BY <1>1, <1>2, <1>3, <1>4, <1>5, <1>6, <1>7, <1>8, <1>9, <1>10, <1>11, <1>12, <1>13, <1>14,
     <1>15, <1>16, <1>17, <1>18, <1>19, <1>20, <1>21, <1>22, <1>23, <1>24, <1>25, <1>26, <1>27
     DEF Next

\* What is stored.
LEMMA StoreKeeps == TypeOK /\ StageInv /\ RunInv /\ LiveInv /\ DeviceInv /\ [Next]_vars => StoreKept
<1> SUFFICES ASSUME TypeOK, StageInv, RunInv, LiveInv, DeviceInv, [Next]_vars PROVE StoreKept
  OBVIOUS
<1> USE LifecycleAssumption
<1>0. NoDevice \in Device /\ \A r \in Requests : copy[r].jid \in Device
  BY DEF TypeOK, Device
<1>h. \A r \in Requests :
        pc[r] \in {"status", "dial", "hangup", "close", "erase"} => held[r] \in Sessions
  BY DEF StageInv, Holding, Removing
<1>c. \A r \in Requests : copy[r].st \in Status
  BY DEF TypeOK
<1>1. ASSUME NEW o \in Sessions, Scanned(o) PROVE StoreKept
  <2>1. EnvUnchanged
    BY <1>1 DEF Scanned
  <2>2. missed \subseteq missed' /\ TRUE
    BY <1>1, Zenon DEF Scanned, dbVars
  <2> QED
    BY <1>1, <2>1, <2>2, <1>h, ScannedFacts DEF EnvUnchanged, requestVars, Touches, Reports,
       Touches, dbVars, StoreKept, Registered, DeviceInv, TypeOK
<1>2. ASSUME NEW o \in Sessions, QrEnds(o) PROVE StoreKept
  <2>1. EnvUnchanged
    BY <1>2 DEF QrEnds
  <2>2. missed \subseteq missed' /\ store' = store /\ sess[o].qr
    BY <1>2, Zenon DEF QrEnds, dbVars
  <2> QED
    BY <1>2, <2>1, <2>2, <1>h, QrEndsFacts DEF EnvUnchanged, requestVars, Touches, Reports,
       Touches, dbVars, StoreKept, Registered, DeviceInv, TypeOK
<1>3. ASSUME NEW o \in Sessions, LoggedIn(o) PROVE StoreKept
  <2>1. EnvUnchanged
    BY <1>3 DEF LoggedIn
  <2>2. missed \subseteq missed' /\ store' = store
    BY <1>3, Zenon DEF LoggedIn, dbVars
  <2> QED
    BY <1>3, <2>1, <2>2, <1>h, LoggedInFacts DEF EnvUnchanged, requestVars, Touches, Reports,
       Touches, dbVars, StoreKept, Registered, DeviceInv, TypeOK
<1>4. ASSUME NEW o \in Sessions, Drop(o) PROVE StoreKept
  <2>1. EnvUnchanged
    BY <1>4 DEF Drop
  <2>2. missed \subseteq missed' /\ store' = store
    BY <1>4, Zenon DEF Drop, dbVars
  <2> QED
    BY <1>4, <2>1, <2>2, <1>h, DropFacts DEF EnvUnchanged, requestVars, Touches, Reports, Touches,
       dbVars, StoreKept, Registered, DeviceInv, TypeOK
<1>5. ASSUME NEW o \in Sessions, LoggedOut(o) PROVE StoreKept
  <2>1. EnvUnchanged
    BY <1>5 DEF LoggedOut
  <2>2. missed \subseteq missed' /\ TRUE
    BY <1>5, Zenon DEF LoggedOut, dbVars
  <2> QED
    BY <1>5, <2>1, <2>2, <1>h, LoggedOutFacts DEF EnvUnchanged, requestVars, Touches, Reports,
       Touches, dbVars, StoreKept, Registered, DeviceInv, TypeOK
<1>6. ASSUME NEW o \in Sessions, Redial(o) PROVE StoreKept
  <2>1. EnvUnchanged
    BY <1>6 DEF Redial
  <2>2. missed \subseteq missed' /\ store' = store
    BY <1>6, Zenon DEF Redial, dbVars
  <2> QED
    BY <1>6, <2>1, <2>2, <1>h, RedialFacts DEF EnvUnchanged, requestVars, Touches, Reports,
       Touches, dbVars, StoreKept, Registered, DeviceInv, TypeOK
<1>7. CASE Boot
  BY <1>7, <1>h DEF Boot, requestVars, managerVars, historyVars, Touches, dbVars, StoreKept,
     Registered, DeviceInv, TypeOK
<1>8. CASE NotRestored
  BY <1>8, NotRestoredFacts DEF NotRestored, requestVars, historyVars, Touches, dbVars,
     StoreKept, Registered, DeviceInv, TypeOK
<1>9. CASE Restored
  <2>1. UNCHANGED <<requestVars, store, taken, missed>> /\ reg = NoSession
        /\ \A r \in Requests : pc[r] = "idle"
    BY <1>9 DEF Restored, RunInv, historyVars
  <2> QED
    BY <1>9, <2>1, RestoredFacts DEF RunInv, requestVars, Touches, Touches, dbVars, StoreKept,
       Registered, DeviceInv, TypeOK
<1>10. CASE Crash
  BY <1>10, <1>0, NewSessionType DEF Crash, Touches, dbVars, StoreKept, Registered, DeviceInv,
     TypeOK
<1>11. ASSUME NEW r \in Requests, Begin(r) PROVE StoreKept
  BY <1>11, <1>h DEF Begin, Answer, Proceed, Goto, dbVars, managerVars, historyVars, Touches,
     dbVars, StoreKept, Registered, DeviceInv, TypeOK
<1>12. ASSUME NEW r \in Requests, SessionFor(r) PROVE StoreKept
  <2>1. CASE Create(r, copy[r].jid, AfterSession(r)) /\ UNCHANGED resume
    <3>1. /\ pc' = [pc EXCEPT ![r] = AfterSession(r)]
          /\ reg' \in Sessions /\ held' = [held EXCEPT ![r] = reg']
          /\ \/ reg # NoSession /\ UNCHANGED <<reg, used, sess>>
             \/ reg = NoSession /\ reg' \notin used /\ used' = used \cup {reg'} /\ Touches(reg')
                /\ sess'[reg'].dev = copy[r].jid
      BY <1>0, <2>1, CreateFacts, NewSessionType
    <3>2. AfterSession(r) \in {"status", "hangup"}
      BY DEF AfterSession
    <3> QED
      BY <1>12, <2>1, <3>1, <3>2, <1>h DEF SessionFor, historyVars, Touches, dbVars, StoreKept,
         Registered, DeviceInv, TypeOK
  <2>2. CASE ~(Create(r, copy[r].jid, AfterSession(r)) /\ UNCHANGED resume)
    BY <1>12, <2>2, <1>h DEF SessionFor, AfterSession, Goto, historyVars, Touches, dbVars,
       StoreKept, Registered, DeviceInv, TypeOK
  <2> QED
    BY <2>1, <2>2
<1>13. ASSUME NEW r \in Requests, CheckStatus(r) PROVE StoreKept
  BY <1>13, <1>h DEF CheckStatus, Answer, Proceed, Goto, dbVars, managerVars, historyVars,
     Touches, dbVars, StoreKept, Registered, DeviceInv, TypeOK
<1>14. ASSUME NEW r \in Requests, Dial(r) PROVE StoreKept
  <2>1. held[r] \in Sessions
    BY <1>14, <1>h DEF Dial
  <2>2. /\ UNCHANGED <<reg, taken, store, missed, used>> /\ pc'[r] \notin Removing /\ pc[r] = "dial"
        /\ \A q \in Requests \ {r} : pc'[q] = pc[q] /\ held'[q] = held[q]
    BY <1>14, DialMoves DEF Removing, TypeOK
  <2> QED
    BY <1>14, <2>1, <2>2, <1>h, DialFacts DEF Touches, Reports, Removing, Touches, dbVars,
       StoreKept, Registered, DeviceInv, TypeOK
<1>15. ASSUME NEW r \in Requests, MarkPairing(r) PROVE StoreKept
  BY <1>15, <1>c, <1>0, SetConnectionFacts DEF MarkPairing, Status, Answer, Goto, managerVars,
     Touches, dbVars, StoreKept, Registered, DeviceInv, TypeOK
<1>16. ASSUME NEW r \in Requests, GiveUp(r) PROVE StoreKept
  BY <1>16, <1>h DEF GiveUp, Answer, Proceed, Goto, dbVars, managerVars, historyVars, Touches,
     dbVars, StoreKept, Registered, DeviceInv, TypeOK
<1>17. ASSUME NEW r \in Requests, Hangup(r) PROVE StoreKept
  <2>1. held[r] \in Sessions
    BY <1>17, <1>h DEF Hangup
  <2>2. /\ UNCHANGED <<reg, taken, missed, used, copy>> /\ pc'[r] = "clear"
        /\ held'[r] = NoSession /\ pc[r] = "hangup"
        /\ \A q \in Requests \ {r} : pc'[q] = pc[q] /\ held'[q] = held[q]
    BY <1>17, <2>1 DEF Hangup, Goto, Proceed, historyVars, TypeOK
  <2>3. row' = row \/ Reports(held[r])
    BY <1>17, <2>1, HangupFacts DEF Hangup
  <2> QED
    BY <1>17, <2>1, <2>2, <2>3, <1>h, HangupFacts DEF Touches, Reports, Removing, Touches, dbVars,
       StoreKept, Registered, DeviceInv, TypeOK
<1>18. ASSUME NEW r \in Requests, Clear(r) PROVE StoreKept
  BY <1>18, <1>c, <1>0, SetConnectionFacts DEF Clear, Status, Answer, Goto, managerVars,
     Touches, dbVars, StoreKept, Registered, DeviceInv, TypeOK
<1>19. ASSUME NEW r \in Requests, Recreate(r) PROVE StoreKept
  <2>1. /\ pc' = [pc EXCEPT ![r] = resume[r]]
        /\ reg' \in Sessions /\ held' = [held EXCEPT ![r] = reg']
        /\ \/ reg # NoSession /\ UNCHANGED <<reg, used, sess>>
           \/ reg = NoSession /\ reg' \notin used /\ used' = used \cup {reg'} /\ Touches(reg')
              /\ sess'[reg'].dev = NoDevice
    BY <1>19, <1>0, CreateFacts, NewSessionType DEF Recreate
  <2> QED
    BY <1>19, <2>1, <1>h DEF Recreate, historyVars, Touches, dbVars, StoreKept, Registered,
       DeviceInv, TypeOK
<1>20. ASSUME NEW r \in Requests, StatementFails(r) PROVE StoreKept
  BY <1>20, <1>h DEF StatementFails, Answer, Proceed, Goto, dbVars, managerVars, historyVars,
     Touches, dbVars, StoreKept, Registered, DeviceInv, TypeOK
<1>21. ASSUME NEW r \in Requests, Unregister(r) PROVE StoreKept
  <2>1. CASE reg = NoSession
    BY <1>21, <2>1, AfterRemovalFacts DEF Unregister, Touches, dbVars, StoreKept, Registered,
       DeviceInv, TypeOK
  <2>2. CASE reg # NoSession
    BY <1>21, <2>2 DEF Unregister, Goto, Touches, dbVars, StoreKept, Registered, DeviceInv, TypeOK
  <2> QED
    BY <2>1, <2>2
<1>22. ASSUME NEW r \in Requests, Close(r) PROVE StoreKept
  <2>1. held[r] \in Sessions
    BY <1>22, <1>h DEF Close
  <2>2. /\ UNCHANGED <<reg, taken, missed, used, copy>> /\ pc'[r] = "erase"
        /\ held'[r] = held[r] /\ pc[r] = "close"
        /\ \A q \in Requests \ {r} : pc'[q] = pc[q] /\ held'[q] = held[q]
    BY <1>22, <2>1 DEF Close, Goto, Proceed, historyVars, TypeOK
  <2>3. row' = row \/ Reports(held[r])
    BY <1>22, <2>1, CloseFacts DEF Close
  <2> QED
    BY <1>22, <2>1, <2>2, <2>3, <1>h, CloseFacts DEF Touches, Reports, Removing, Touches, dbVars,
       StoreKept, Registered, DeviceInv, TypeOK
<1>23. ASSUME NEW r \in Requests, Erase(r) PROVE StoreKept
  <2>1. held[r] \in Sessions /\ UNCHANGED <<reg, taken, missed, used>> /\ pc[r] = "erase"
          /\ AfterRemoval(r)
    BY <1>23, <1>h DEF Erase
  <2>2. /\ pc'[r] \notin Removing
        /\ \A q \in Requests \ {r} : pc'[q] = pc[q] /\ held'[q] = held[q]
    BY <2>1, AfterRemovalFacts DEF Removing, TypeOK
  <2> QED
    BY <1>23, <2>1, <2>2, EraseFacts, <1>h DEF Touches, Reports, Removing, Touches, dbVars,
       StoreKept, Registered, DeviceInv, TypeOK
<1>24. ASSUME NEW r \in Requests, EraseFails(r) PROVE StoreKept
  BY <1>24, <1>h DEF EraseFails, Answer, Goto, Removing, Touches, dbVars, StoreKept,
     Registered, DeviceInv, TypeOK
<1>25. ASSUME NEW r \in Requests, DeleteRow(r) PROVE StoreKept
  BY <1>25, <1>h DEF DeleteRow, Answer, Proceed, Goto, dbVars, managerVars, historyVars,
     Touches, dbVars, StoreKept, Registered, DeviceInv, TypeOK
<1>26. ASSUME NEW r \in Requests, Update(r) PROVE StoreKept
  BY <1>26, <1>c, <1>0, SetConnectionFacts DEF Update, Status, Answer, Goto, managerVars,
     Touches, dbVars, StoreKept, Registered, DeviceInv, TypeOK
<1>27. CASE UNCHANGED vars
  BY <1>27, <1>h DEF vars, dbVars, requestVars, managerVars, historyVars, Touches, dbVars,
     StoreKept, Registered, DeviceInv, TypeOK
<1> QED
  BY <1>1, <1>2, <1>3, <1>4, <1>5, <1>6, <1>7, <1>8, <1>9, <1>10, <1>11, <1>12, <1>13, <1>14,
     <1>15, <1>16, <1>17, <1>18, <1>19, <1>20, <1>21, <1>22, <1>23, <1>24, <1>25, <1>26, <1>27
     DEF Next

\* Devices whose session is being removed.
LEMMA RemovedKeeps ==
    TypeOK /\ StageInv /\ RunInv /\ LiveInv /\ DeviceInv /\ RemovalInv /\ [Next]_vars => RemovedKept
<1> SUFFICES ASSUME TypeOK, StageInv, RunInv, LiveInv, DeviceInv, RemovalInv, [Next]_vars PROVE
             RemovedKept
  OBVIOUS
<1> USE LifecycleAssumption
<1>0. NoDevice \in Device /\ \A r \in Requests : copy[r].jid \in Device
  BY DEF TypeOK, Device
<1>h. \A r \in Requests :
        pc[r] \in {"status", "dial", "hangup", "close", "erase"} => held[r] \in Sessions
  BY DEF StageInv, Holding, Removing
<1>c. \A r \in Requests : copy[r].st \in Status
  BY DEF TypeOK
<1>1. ASSUME NEW o \in Sessions, Scanned(o) PROVE RemovedKept
  <2>1. EnvUnchanged
    BY <1>1 DEF Scanned
  <2>2. missed \subseteq missed' /\ TRUE
    BY <1>1, Zenon DEF Scanned, dbVars
  <2> QED
    BY <1>1, <2>1, <2>2, <1>h, ScannedFacts DEF EnvUnchanged, requestVars, Touches, Reports,
       Touches, dbVars, OnlyInRow, RemovedKept, Removed, Registered, BeingRemoved, DeviceInv,
       RunInv, TypeOK
<1>2. ASSUME NEW o \in Sessions, QrEnds(o) PROVE RemovedKept
  <2>1. EnvUnchanged
    BY <1>2 DEF QrEnds
  <2>2. missed \subseteq missed' /\ store' = store /\ sess[o].qr
    BY <1>2, Zenon DEF QrEnds, dbVars
  <2> QED
    BY <1>2, <2>1, <2>2, <1>h, QrEndsFacts DEF EnvUnchanged, requestVars, Touches, Reports,
       Touches, dbVars, OnlyInRow, RemovedKept, Removed, Registered, BeingRemoved, DeviceInv,
       RunInv, TypeOK
<1>3. ASSUME NEW o \in Sessions, LoggedIn(o) PROVE RemovedKept
  <2>1. EnvUnchanged
    BY <1>3 DEF LoggedIn
  <2>2. missed \subseteq missed' /\ store' = store
    BY <1>3, Zenon DEF LoggedIn, dbVars
  <2> QED
    BY <1>3, <2>1, <2>2, <1>h, LoggedInFacts DEF EnvUnchanged, requestVars, Touches, Reports,
       Touches, dbVars, OnlyInRow, RemovedKept, Removed, Registered, BeingRemoved, DeviceInv,
       RunInv, TypeOK
<1>4. ASSUME NEW o \in Sessions, Drop(o) PROVE RemovedKept
  <2>1. EnvUnchanged
    BY <1>4 DEF Drop
  <2>2. missed \subseteq missed' /\ store' = store
    BY <1>4, Zenon DEF Drop, dbVars
  <2> QED
    BY <1>4, <2>1, <2>2, <1>h, DropFacts DEF EnvUnchanged, requestVars, Touches, Reports, Touches,
       dbVars, OnlyInRow, RemovedKept, Removed, Registered, BeingRemoved, DeviceInv, RunInv, TypeOK
<1>5. ASSUME NEW o \in Sessions, LoggedOut(o) PROVE RemovedKept
  <2>1. EnvUnchanged
    BY <1>5 DEF LoggedOut
  <2>2. missed \subseteq missed' /\ TRUE
    BY <1>5, Zenon DEF LoggedOut, dbVars
  <2> QED
    BY <1>5, <2>1, <2>2, <1>h, LoggedOutFacts DEF EnvUnchanged, requestVars, Touches, Reports,
       Touches, dbVars, OnlyInRow, RemovedKept, Removed, Registered, BeingRemoved, DeviceInv,
       RunInv, TypeOK
<1>6. ASSUME NEW o \in Sessions, Redial(o) PROVE RemovedKept
  <2>1. EnvUnchanged
    BY <1>6 DEF Redial
  <2>2. missed \subseteq missed' /\ store' = store
    BY <1>6, Zenon DEF Redial, dbVars
  <2> QED
    BY <1>6, <2>1, <2>2, <1>h, RedialFacts DEF EnvUnchanged, requestVars, Touches, Reports,
       Touches, dbVars, OnlyInRow, RemovedKept, Removed, Registered, BeingRemoved, DeviceInv,
       RunInv, TypeOK
<1>7. CASE Boot
  BY <1>7, <1>h DEF Boot, requestVars, managerVars, historyVars, Touches, dbVars, OnlyInRow,
     RemovedKept, Removed, Registered, BeingRemoved, DeviceInv, RunInv, TypeOK
<1>8. CASE NotRestored
  BY <1>8, NotRestoredFacts DEF NotRestored, requestVars, historyVars, Touches, dbVars,
     OnlyInRow, RemovedKept, Removed, Registered, BeingRemoved, DeviceInv, RunInv, TypeOK
<1>9. CASE Restored
  <2>1. UNCHANGED <<requestVars, store, taken, missed>> /\ reg = NoSession
        /\ \A r \in Requests : pc[r] = "idle"
    BY <1>9 DEF Restored, RunInv, historyVars
  <2> QED
    BY <1>9, <2>1, RestoredFacts DEF RunInv, requestVars, Touches, Touches, dbVars, OnlyInRow,
       RemovedKept, Removed, Registered, BeingRemoved, DeviceInv, RunInv, TypeOK
<1>10. CASE Crash
  BY <1>10, <1>0, NewSessionType DEF Crash, Touches, dbVars, OnlyInRow, RemovedKept, Removed,
     Registered, BeingRemoved, DeviceInv, RunInv, TypeOK
<1>11. ASSUME NEW r \in Requests, Begin(r) PROVE RemovedKept
  BY <1>11, <1>h DEF Begin, Answer, Proceed, Goto, dbVars, managerVars, historyVars, Touches,
     dbVars, OnlyInRow, RemovedKept, Removed, Registered, BeingRemoved, DeviceInv, RunInv,
     TypeOK
<1>12. ASSUME NEW r \in Requests, SessionFor(r) PROVE RemovedKept
  <2>1. CASE Create(r, copy[r].jid, AfterSession(r)) /\ UNCHANGED resume
    <3>1. /\ pc' = [pc EXCEPT ![r] = AfterSession(r)]
          /\ reg' \in Sessions /\ held' = [held EXCEPT ![r] = reg']
          /\ \/ reg # NoSession /\ UNCHANGED <<reg, used, sess>>
             \/ reg = NoSession /\ reg' \notin used /\ used' = used \cup {reg'} /\ Touches(reg')
                /\ sess'[reg'].dev = copy[r].jid
      BY <1>0, <2>1, CreateFacts, NewSessionType
    <3>2. AfterSession(r) \in {"status", "hangup"}
      BY DEF AfterSession
    <3> QED
      BY <1>12, <2>1, <3>1, <3>2, <1>h DEF SessionFor, historyVars, Touches, dbVars, OnlyInRow,
         RemovedKept, Removed, Registered, BeingRemoved, DeviceInv, RunInv, TypeOK
  <2>2. CASE ~(Create(r, copy[r].jid, AfterSession(r)) /\ UNCHANGED resume)
    BY <1>12, <2>2, <1>h DEF SessionFor, AfterSession, Goto, historyVars, Touches, dbVars,
       OnlyInRow, RemovedKept, Removed, Registered, BeingRemoved, DeviceInv, RunInv, TypeOK
  <2> QED
    BY <2>1, <2>2
<1>13. ASSUME NEW r \in Requests, CheckStatus(r) PROVE RemovedKept
  BY <1>13, <1>h DEF CheckStatus, Answer, Proceed, Goto, dbVars, managerVars, historyVars,
     Touches, dbVars, OnlyInRow, RemovedKept, Removed, Registered, BeingRemoved, DeviceInv,
     RunInv, TypeOK
<1>14. ASSUME NEW r \in Requests, Dial(r) PROVE RemovedKept
  <2>1. held[r] \in Sessions
    BY <1>14, <1>h DEF Dial
  <2>2. /\ UNCHANGED <<reg, taken, store, missed, used>> /\ pc'[r] \notin Removing /\ pc[r] = "dial"
        /\ \A q \in Requests \ {r} : pc'[q] = pc[q] /\ held'[q] = held[q]
    BY <1>14, DialMoves DEF Removing, TypeOK
  <2> QED
    BY <1>14, <2>1, <2>2, <1>h, DialFacts DEF Touches, Reports, Removing, Touches, dbVars,
       OnlyInRow, RemovedKept, Removed, Registered, BeingRemoved, DeviceInv, RunInv, TypeOK
<1>15. ASSUME NEW r \in Requests, MarkPairing(r) PROVE RemovedKept
  BY <1>15, <1>c, <1>0, SetConnectionFacts DEF MarkPairing, Status, Answer, Goto, managerVars,
     Touches, dbVars, OnlyInRow, RemovedKept, Removed, Registered, BeingRemoved, DeviceInv,
     RunInv, TypeOK
<1>16. ASSUME NEW r \in Requests, GiveUp(r) PROVE RemovedKept
  BY <1>16, <1>h DEF GiveUp, Answer, Proceed, Goto, dbVars, managerVars, historyVars, Touches,
     dbVars, OnlyInRow, RemovedKept, Removed, Registered, BeingRemoved, DeviceInv, RunInv,
     TypeOK
<1>17. ASSUME NEW r \in Requests, Hangup(r) PROVE RemovedKept
  <2>1. held[r] \in Sessions
    BY <1>17, <1>h DEF Hangup
  <2>2. /\ UNCHANGED <<reg, taken, missed, used, copy>> /\ pc'[r] = "clear"
        /\ held'[r] = NoSession /\ pc[r] = "hangup"
        /\ \A q \in Requests \ {r} : pc'[q] = pc[q] /\ held'[q] = held[q]
    BY <1>17, <2>1 DEF Hangup, Goto, Proceed, historyVars, TypeOK
  <2>3. row' = row \/ Reports(held[r])
    BY <1>17, <2>1, HangupFacts DEF Hangup
  <2> QED
    BY <1>17, <2>1, <2>2, <2>3, <1>h, HangupFacts DEF Touches, Reports, Removing, Touches, dbVars,
       OnlyInRow, RemovedKept, Removed, Registered, BeingRemoved, DeviceInv, RunInv, TypeOK
<1>18. ASSUME NEW r \in Requests, Clear(r) PROVE RemovedKept
  BY <1>18, <1>c, <1>0, SetConnectionFacts DEF Clear, Status, Answer, Goto, managerVars,
     Touches, dbVars, OnlyInRow, RemovedKept, Removed, Registered, BeingRemoved, DeviceInv,
     RunInv, TypeOK
<1>19. ASSUME NEW r \in Requests, Recreate(r) PROVE RemovedKept
  <2>1. /\ pc' = [pc EXCEPT ![r] = resume[r]]
        /\ reg' \in Sessions /\ held' = [held EXCEPT ![r] = reg']
        /\ \/ reg # NoSession /\ UNCHANGED <<reg, used, sess>>
           \/ reg = NoSession /\ reg' \notin used /\ used' = used \cup {reg'} /\ Touches(reg')
              /\ sess'[reg'].dev = NoDevice
    BY <1>19, <1>0, CreateFacts, NewSessionType DEF Recreate
  <2> QED
    BY <1>19, <2>1, <1>h DEF Recreate, historyVars, Touches, dbVars, OnlyInRow, RemovedKept,
       Removed, Registered, BeingRemoved, DeviceInv, RunInv, TypeOK
<1>20. ASSUME NEW r \in Requests, StatementFails(r) PROVE RemovedKept
  BY <1>20, <1>h DEF StatementFails, Answer, Proceed, Goto, dbVars, managerVars, historyVars,
     Touches, dbVars, OnlyInRow, RemovedKept, Removed, Registered, BeingRemoved, DeviceInv,
     RunInv, TypeOK
<1>21. ASSUME NEW r \in Requests, Unregister(r) PROVE RemovedKept
  <2>1. CASE reg = NoSession
    BY <1>21, <2>1, AfterRemovalFacts DEF Unregister, Touches, dbVars, OnlyInRow, RemovedKept,
       Removed, Registered, BeingRemoved, DeviceInv, RunInv, TypeOK
  <2>2. CASE reg # NoSession
    BY <1>21, <2>2 DEF Unregister, Goto, Touches, dbVars, OnlyInRow, RemovedKept, Removed,
       Registered, BeingRemoved, DeviceInv, RunInv, TypeOK
  <2> QED
    BY <2>1, <2>2
<1>22. ASSUME NEW r \in Requests, Close(r) PROVE RemovedKept
  <2>1. held[r] \in Sessions
    BY <1>22, <1>h DEF Close
  <2>2. /\ UNCHANGED <<reg, taken, missed, used, copy>> /\ pc'[r] = "erase"
        /\ held'[r] = held[r] /\ pc[r] = "close"
        /\ \A q \in Requests \ {r} : pc'[q] = pc[q] /\ held'[q] = held[q]
    BY <1>22, <2>1 DEF Close, Goto, Proceed, historyVars, TypeOK
  <2>3. row' = row \/ Reports(held[r])
    BY <1>22, <2>1, CloseFacts DEF Close
  <2> QED
    BY <1>22, <2>1, <2>2, <2>3, <1>h, CloseFacts DEF Touches, Reports, Removing, Touches, dbVars,
       OnlyInRow, RemovedKept, Removed, Registered, BeingRemoved, DeviceInv, RunInv, TypeOK
<1>23. ASSUME NEW r \in Requests, Erase(r) PROVE RemovedKept
  <2>1. held[r] \in Sessions /\ UNCHANGED <<reg, taken, missed, used>> /\ pc[r] = "erase"
          /\ AfterRemoval(r)
    BY <1>23, <1>h DEF Erase
  <2>2. /\ pc'[r] \notin Removing
        /\ \A q \in Requests \ {r} : pc'[q] = pc[q] /\ held'[q] = held[q]
    BY <2>1, AfterRemovalFacts DEF Removing, TypeOK
  <2> QED
    BY <1>23, <2>1, <2>2, EraseFacts, <1>h DEF Touches, Reports, Removing, Touches, dbVars,
       OnlyInRow, RemovedKept, Removed, Registered, BeingRemoved, DeviceInv, RunInv, TypeOK
<1>24. ASSUME NEW r \in Requests, EraseFails(r) PROVE RemovedKept
  BY <1>24, <1>h DEF EraseFails, Answer, Goto, Removing, Touches, dbVars, OnlyInRow,
     RemovedKept, Removed, Registered, BeingRemoved, DeviceInv, RunInv, TypeOK
<1>25. ASSUME NEW r \in Requests, DeleteRow(r) PROVE RemovedKept
  BY <1>25, <1>h DEF DeleteRow, Answer, Proceed, Goto, dbVars, managerVars, historyVars,
     Touches, dbVars, OnlyInRow, RemovedKept, Removed, Registered, BeingRemoved, DeviceInv,
     RunInv, TypeOK
<1>26. ASSUME NEW r \in Requests, Update(r) PROVE RemovedKept
  BY <1>26, <1>c, <1>0, SetConnectionFacts DEF Update, Status, Answer, Goto, managerVars,
     Touches, dbVars, OnlyInRow, RemovedKept, Removed, Registered, BeingRemoved, DeviceInv,
     RunInv, TypeOK
<1>27. CASE UNCHANGED vars
  BY <1>27, <1>h DEF vars, dbVars, requestVars, managerVars, historyVars, Touches, dbVars,
     OnlyInRow, RemovedKept, Removed, Registered, BeingRemoved, DeviceInv, RunInv, TypeOK
<1> QED
  BY <1>1, <1>2, <1>3, <1>4, <1>5, <1>6, <1>7, <1>8, <1>9, <1>10, <1>11, <1>12, <1>13, <1>14,
     <1>15, <1>16, <1>17, <1>18, <1>19, <1>20, <1>21, <1>22, <1>23, <1>24, <1>25, <1>26, <1>27
     DEF Next

\* Devices whose session is registered.
LEMMA RegisteredKeeps ==
    TypeOK /\ StageInv /\ RunInv /\ LiveInv /\ DeviceInv /\ [Next]_vars => RegisteredKept
<1> SUFFICES ASSUME TypeOK, StageInv, RunInv, LiveInv, DeviceInv, [Next]_vars PROVE
             RegisteredKept
  OBVIOUS
<1> USE LifecycleAssumption
<1>0. NoDevice \in Device /\ \A r \in Requests : copy[r].jid \in Device
  BY DEF TypeOK, Device
<1>h. \A r \in Requests :
        pc[r] \in {"status", "dial", "hangup", "close", "erase"} => held[r] \in Sessions
  BY DEF StageInv, Holding, Removing
<1>c. \A r \in Requests : copy[r].st \in Status
  BY DEF TypeOK
<1>1. ASSUME NEW o \in Sessions, Scanned(o) PROVE RegisteredKept
  <2>1. EnvUnchanged
    BY <1>1 DEF Scanned
  <2>2. missed \subseteq missed' /\ TRUE
    BY <1>1, Zenon DEF Scanned, dbVars
  <2> QED
    BY <1>1, <2>1, <2>2, <1>h, ScannedFacts DEF EnvUnchanged, requestVars, Touches, Reports,
       Touches, dbVars, OnlyInRow, RegisteredKept, Removed, Registered, BeingRemoved, DeviceInv,
       RunInv, TypeOK
<1>2. ASSUME NEW o \in Sessions, QrEnds(o) PROVE RegisteredKept
  <2>1. EnvUnchanged
    BY <1>2 DEF QrEnds
  <2>2. missed \subseteq missed' /\ store' = store /\ sess[o].qr
    BY <1>2, Zenon DEF QrEnds, dbVars
  <2> QED
    BY <1>2, <2>1, <2>2, <1>h, QrEndsFacts DEF EnvUnchanged, requestVars, Touches, Reports,
       Touches, dbVars, OnlyInRow, RegisteredKept, Removed, Registered, BeingRemoved, DeviceInv,
       RunInv, TypeOK
<1>3. ASSUME NEW o \in Sessions, LoggedIn(o) PROVE RegisteredKept
  <2>1. EnvUnchanged
    BY <1>3 DEF LoggedIn
  <2>2. missed \subseteq missed' /\ store' = store
    BY <1>3, Zenon DEF LoggedIn, dbVars
  <2> QED
    BY <1>3, <2>1, <2>2, <1>h, LoggedInFacts DEF EnvUnchanged, requestVars, Touches, Reports,
       Touches, dbVars, OnlyInRow, RegisteredKept, Removed, Registered, BeingRemoved, DeviceInv,
       RunInv, TypeOK
<1>4. ASSUME NEW o \in Sessions, Drop(o) PROVE RegisteredKept
  <2>1. EnvUnchanged
    BY <1>4 DEF Drop
  <2>2. missed \subseteq missed' /\ store' = store
    BY <1>4, Zenon DEF Drop, dbVars
  <2> QED
    BY <1>4, <2>1, <2>2, <1>h, DropFacts DEF EnvUnchanged, requestVars, Touches, Reports, Touches,
       dbVars, OnlyInRow, RegisteredKept, Removed, Registered, BeingRemoved, DeviceInv, RunInv,
       TypeOK
<1>5. ASSUME NEW o \in Sessions, LoggedOut(o) PROVE RegisteredKept
  <2>1. EnvUnchanged
    BY <1>5 DEF LoggedOut
  <2>2. missed \subseteq missed' /\ TRUE
    BY <1>5, Zenon DEF LoggedOut, dbVars
  <2> QED
    BY <1>5, <2>1, <2>2, <1>h, LoggedOutFacts DEF EnvUnchanged, requestVars, Touches, Reports,
       Touches, dbVars, OnlyInRow, RegisteredKept, Removed, Registered, BeingRemoved, DeviceInv,
       RunInv, TypeOK
<1>6. ASSUME NEW o \in Sessions, Redial(o) PROVE RegisteredKept
  <2>1. EnvUnchanged
    BY <1>6 DEF Redial
  <2>2. missed \subseteq missed' /\ store' = store
    BY <1>6, Zenon DEF Redial, dbVars
  <2> QED
    BY <1>6, <2>1, <2>2, <1>h, RedialFacts DEF EnvUnchanged, requestVars, Touches, Reports,
       Touches, dbVars, OnlyInRow, RegisteredKept, Removed, Registered, BeingRemoved, DeviceInv,
       RunInv, TypeOK
<1>7. CASE Boot
  BY <1>7, <1>h DEF Boot, requestVars, managerVars, historyVars, Touches, dbVars, OnlyInRow,
     RegisteredKept, Removed, Registered, BeingRemoved, DeviceInv, RunInv, TypeOK
<1>8. CASE NotRestored
  BY <1>8, NotRestoredFacts DEF NotRestored, requestVars, historyVars, Touches, dbVars,
     OnlyInRow, RegisteredKept, Removed, Registered, BeingRemoved, DeviceInv, RunInv, TypeOK
<1>9. CASE Restored
  <2>1. UNCHANGED <<requestVars, store, taken, missed>> /\ reg = NoSession
        /\ \A r \in Requests : pc[r] = "idle"
    BY <1>9 DEF Restored, RunInv, historyVars
  <2> QED
    BY <1>9, <2>1, RestoredFacts DEF RunInv, requestVars, Touches, Touches, dbVars, OnlyInRow,
       RegisteredKept, Removed, Registered, BeingRemoved, DeviceInv, RunInv, TypeOK
<1>10. CASE Crash
  BY <1>10, <1>0, NewSessionType DEF Crash, Touches, dbVars, OnlyInRow, RegisteredKept,
     Removed, Registered, BeingRemoved, DeviceInv, RunInv, TypeOK
<1>11. ASSUME NEW r \in Requests, Begin(r) PROVE RegisteredKept
  BY <1>11, <1>h DEF Begin, Answer, Proceed, Goto, dbVars, managerVars, historyVars, Touches,
     dbVars, OnlyInRow, RegisteredKept, Removed, Registered, BeingRemoved, DeviceInv, RunInv,
     TypeOK
<1>12. ASSUME NEW r \in Requests, SessionFor(r) PROVE RegisteredKept
  <2>1. CASE Create(r, copy[r].jid, AfterSession(r)) /\ UNCHANGED resume
    <3>1. /\ pc' = [pc EXCEPT ![r] = AfterSession(r)]
          /\ reg' \in Sessions /\ held' = [held EXCEPT ![r] = reg']
          /\ \/ reg # NoSession /\ UNCHANGED <<reg, used, sess>>
             \/ reg = NoSession /\ reg' \notin used /\ used' = used \cup {reg'} /\ Touches(reg')
                /\ sess'[reg'].dev = copy[r].jid
      BY <1>0, <2>1, CreateFacts, NewSessionType
    <3>2. AfterSession(r) \in {"status", "hangup"}
      BY DEF AfterSession
    <3> QED
      BY <1>12, <2>1, <3>1, <3>2, <1>h DEF SessionFor, historyVars, Touches, dbVars, OnlyInRow,
         RegisteredKept, Removed, Registered, BeingRemoved, DeviceInv, RunInv, TypeOK
  <2>2. CASE ~(Create(r, copy[r].jid, AfterSession(r)) /\ UNCHANGED resume)
    BY <1>12, <2>2, <1>h DEF SessionFor, AfterSession, Goto, historyVars, Touches, dbVars,
       OnlyInRow, RegisteredKept, Removed, Registered, BeingRemoved, DeviceInv, RunInv, TypeOK
  <2> QED
    BY <2>1, <2>2
<1>13. ASSUME NEW r \in Requests, CheckStatus(r) PROVE RegisteredKept
  BY <1>13, <1>h DEF CheckStatus, Answer, Proceed, Goto, dbVars, managerVars, historyVars,
     Touches, dbVars, OnlyInRow, RegisteredKept, Removed, Registered, BeingRemoved, DeviceInv,
     RunInv, TypeOK
<1>14. ASSUME NEW r \in Requests, Dial(r) PROVE RegisteredKept
  <2>1. held[r] \in Sessions
    BY <1>14, <1>h DEF Dial
  <2>2. /\ UNCHANGED <<reg, taken, store, missed, used>> /\ pc'[r] \notin Removing /\ pc[r] = "dial"
        /\ \A q \in Requests \ {r} : pc'[q] = pc[q] /\ held'[q] = held[q]
    BY <1>14, DialMoves DEF Removing, TypeOK
  <2> QED
    BY <1>14, <2>1, <2>2, <1>h, DialFacts DEF Touches, Reports, Removing, Touches, dbVars,
       OnlyInRow, RegisteredKept, Removed, Registered, BeingRemoved, DeviceInv, RunInv, TypeOK
<1>15. ASSUME NEW r \in Requests, MarkPairing(r) PROVE RegisteredKept
  BY <1>15, <1>c, <1>0, SetConnectionFacts DEF MarkPairing, Status, Answer, Goto, managerVars,
     Touches, dbVars, OnlyInRow, RegisteredKept, Removed, Registered, BeingRemoved, DeviceInv,
     RunInv, TypeOK
<1>16. ASSUME NEW r \in Requests, GiveUp(r) PROVE RegisteredKept
  BY <1>16, <1>h DEF GiveUp, Answer, Proceed, Goto, dbVars, managerVars, historyVars, Touches,
     dbVars, OnlyInRow, RegisteredKept, Removed, Registered, BeingRemoved, DeviceInv, RunInv,
     TypeOK
<1>17. ASSUME NEW r \in Requests, Hangup(r) PROVE RegisteredKept
  <2>1. held[r] \in Sessions
    BY <1>17, <1>h DEF Hangup
  <2>2. /\ UNCHANGED <<reg, taken, missed, used, copy>> /\ pc'[r] = "clear"
        /\ held'[r] = NoSession /\ pc[r] = "hangup"
        /\ \A q \in Requests \ {r} : pc'[q] = pc[q] /\ held'[q] = held[q]
    BY <1>17, <2>1 DEF Hangup, Goto, Proceed, historyVars, TypeOK
  <2>3. row' = row \/ Reports(held[r])
    BY <1>17, <2>1, HangupFacts DEF Hangup
  <2> QED
    BY <1>17, <2>1, <2>2, <2>3, <1>h, HangupFacts DEF Touches, Reports, Removing, Touches, dbVars,
       OnlyInRow, RegisteredKept, Removed, Registered, BeingRemoved, DeviceInv, RunInv, TypeOK
<1>18. ASSUME NEW r \in Requests, Clear(r) PROVE RegisteredKept
  BY <1>18, <1>c, <1>0, SetConnectionFacts DEF Clear, Status, Answer, Goto, managerVars,
     Touches, dbVars, OnlyInRow, RegisteredKept, Removed, Registered, BeingRemoved, DeviceInv,
     RunInv, TypeOK
<1>19. ASSUME NEW r \in Requests, Recreate(r) PROVE RegisteredKept
  <2>1. /\ pc' = [pc EXCEPT ![r] = resume[r]]
        /\ reg' \in Sessions /\ held' = [held EXCEPT ![r] = reg']
        /\ \/ reg # NoSession /\ UNCHANGED <<reg, used, sess>>
           \/ reg = NoSession /\ reg' \notin used /\ used' = used \cup {reg'} /\ Touches(reg')
              /\ sess'[reg'].dev = NoDevice
    BY <1>19, <1>0, CreateFacts, NewSessionType DEF Recreate
  <2> QED
    BY <1>19, <2>1, <1>h DEF Recreate, historyVars, Touches, dbVars, OnlyInRow, RegisteredKept,
       Removed, Registered, BeingRemoved, DeviceInv, RunInv, TypeOK
<1>20. ASSUME NEW r \in Requests, StatementFails(r) PROVE RegisteredKept
  BY <1>20, <1>h DEF StatementFails, Answer, Proceed, Goto, dbVars, managerVars, historyVars,
     Touches, dbVars, OnlyInRow, RegisteredKept, Removed, Registered, BeingRemoved, DeviceInv,
     RunInv, TypeOK
<1>21. ASSUME NEW r \in Requests, Unregister(r) PROVE RegisteredKept
  <2>1. CASE reg = NoSession
    BY <1>21, <2>1, AfterRemovalFacts DEF Unregister, Touches, dbVars, OnlyInRow, RegisteredKept,
       Removed, Registered, BeingRemoved, DeviceInv, RunInv, TypeOK
  <2>2. CASE reg # NoSession
    BY <1>21, <2>2 DEF Unregister, Goto, Touches, dbVars, OnlyInRow, RegisteredKept, Removed,
       Registered, BeingRemoved, DeviceInv, RunInv, TypeOK
  <2> QED
    BY <2>1, <2>2
<1>22. ASSUME NEW r \in Requests, Close(r) PROVE RegisteredKept
  <2>1. held[r] \in Sessions
    BY <1>22, <1>h DEF Close
  <2>2. /\ UNCHANGED <<reg, taken, missed, used, copy>> /\ pc'[r] = "erase"
        /\ held'[r] = held[r] /\ pc[r] = "close"
        /\ \A q \in Requests \ {r} : pc'[q] = pc[q] /\ held'[q] = held[q]
    BY <1>22, <2>1 DEF Close, Goto, Proceed, historyVars, TypeOK
  <2>3. row' = row \/ Reports(held[r])
    BY <1>22, <2>1, CloseFacts DEF Close
  <2> QED
    BY <1>22, <2>1, <2>2, <2>3, <1>h, CloseFacts DEF Touches, Reports, Removing, Touches, dbVars,
       OnlyInRow, RegisteredKept, Removed, Registered, BeingRemoved, DeviceInv, RunInv, TypeOK
<1>23. ASSUME NEW r \in Requests, Erase(r) PROVE RegisteredKept
  <2>1. held[r] \in Sessions /\ UNCHANGED <<reg, taken, missed, used>> /\ pc[r] = "erase"
          /\ AfterRemoval(r)
    BY <1>23, <1>h DEF Erase
  <2>2. /\ pc'[r] \notin Removing
        /\ \A q \in Requests \ {r} : pc'[q] = pc[q] /\ held'[q] = held[q]
    BY <2>1, AfterRemovalFacts DEF Removing, TypeOK
  <2> QED
    BY <1>23, <2>1, <2>2, EraseFacts, <1>h DEF Touches, Reports, Removing, Touches, dbVars,
       OnlyInRow, RegisteredKept, Removed, Registered, BeingRemoved, DeviceInv, RunInv, TypeOK
<1>24. ASSUME NEW r \in Requests, EraseFails(r) PROVE RegisteredKept
  BY <1>24, <1>h DEF EraseFails, Answer, Goto, Removing, Touches, dbVars, OnlyInRow,
     RegisteredKept, Removed, Registered, BeingRemoved, DeviceInv, RunInv, TypeOK
<1>25. ASSUME NEW r \in Requests, DeleteRow(r) PROVE RegisteredKept
  BY <1>25, <1>h DEF DeleteRow, Answer, Proceed, Goto, dbVars, managerVars, historyVars,
     Touches, dbVars, OnlyInRow, RegisteredKept, Removed, Registered, BeingRemoved, DeviceInv,
     RunInv, TypeOK
<1>26. ASSUME NEW r \in Requests, Update(r) PROVE RegisteredKept
  BY <1>26, <1>c, <1>0, SetConnectionFacts DEF Update, Status, Answer, Goto, managerVars,
     Touches, dbVars, OnlyInRow, RegisteredKept, Removed, Registered, BeingRemoved, DeviceInv,
     RunInv, TypeOK
<1>27. CASE UNCHANGED vars
  BY <1>27, <1>h DEF vars, dbVars, requestVars, managerVars, historyVars, Touches, dbVars,
     OnlyInRow, RegisteredKept, Removed, Registered, BeingRemoved, DeviceInv, RunInv, TypeOK
<1> QED
  BY <1>1, <1>2, <1>3, <1>4, <1>5, <1>6, <1>7, <1>8, <1>9, <1>10, <1>11, <1>12, <1>13, <1>14,
     <1>15, <1>16, <1>17, <1>18, <1>19, <1>20, <1>21, <1>22, <1>23, <1>24, <1>25, <1>26, <1>27
     DEF Next

\* Devices without a session.
LEMMA InRowKeeps ==
    TypeOK /\ StageInv /\ RunInv /\ LiveInv /\ DeviceInv /\ GoneInv /\ [Next]_vars => InRowKept
<1> SUFFICES ASSUME TypeOK, StageInv, RunInv, LiveInv, DeviceInv, GoneInv, [Next]_vars PROVE
             InRowKept
  OBVIOUS
<1> USE LifecycleAssumption
<1>0. NoDevice \in Device /\ \A r \in Requests : copy[r].jid \in Device
  BY DEF TypeOK, Device
<1>h. \A r \in Requests :
        pc[r] \in {"status", "dial", "hangup", "close", "erase"} => held[r] \in Sessions
  BY DEF StageInv, Holding, Removing
<1>c. \A r \in Requests : copy[r].st \in Status
  BY DEF TypeOK
<1>1. ASSUME NEW o \in Sessions, Scanned(o) PROVE InRowKept
  <2>1. EnvUnchanged
    BY <1>1 DEF Scanned
  <2>2. missed \subseteq missed' /\ TRUE
    BY <1>1, Zenon DEF Scanned, dbVars
  <2> QED
    BY <1>1, <2>1, <2>2, <1>h, ScannedFacts DEF EnvUnchanged, requestVars, Touches, Reports,
       Touches, dbVars, InRowKept, OnlyInRow, Registered, DeviceInv, RunInv, LiveInv, TypeOK
<1>2. ASSUME NEW o \in Sessions, QrEnds(o) PROVE InRowKept
  <2>1. EnvUnchanged
    BY <1>2 DEF QrEnds
  <2>2. missed \subseteq missed' /\ store' = store /\ sess[o].qr
    BY <1>2, Zenon DEF QrEnds, dbVars
  <2> QED
    BY <1>2, <2>1, <2>2, <1>h, QrEndsFacts DEF EnvUnchanged, requestVars, Touches, Reports,
       Touches, dbVars, InRowKept, OnlyInRow, Registered, DeviceInv, RunInv, LiveInv, TypeOK
<1>3. ASSUME NEW o \in Sessions, LoggedIn(o) PROVE InRowKept
  <2>1. EnvUnchanged
    BY <1>3 DEF LoggedIn
  <2>2. missed \subseteq missed' /\ store' = store
    BY <1>3, Zenon DEF LoggedIn, dbVars
  <2> QED
    BY <1>3, <2>1, <2>2, <1>h, LoggedInFacts DEF EnvUnchanged, requestVars, Touches, Reports,
       Touches, dbVars, InRowKept, OnlyInRow, Registered, DeviceInv, RunInv, LiveInv, TypeOK
<1>4. ASSUME NEW o \in Sessions, Drop(o) PROVE InRowKept
  <2>1. EnvUnchanged
    BY <1>4 DEF Drop
  <2>2. missed \subseteq missed' /\ store' = store
    BY <1>4, Zenon DEF Drop, dbVars
  <2> QED
    BY <1>4, <2>1, <2>2, <1>h, DropFacts DEF EnvUnchanged, requestVars, Touches, Reports, Touches,
       dbVars, InRowKept, OnlyInRow, Registered, DeviceInv, RunInv, LiveInv, TypeOK
<1>5. ASSUME NEW o \in Sessions, LoggedOut(o) PROVE InRowKept
  <2>1. EnvUnchanged
    BY <1>5 DEF LoggedOut
  <2>2. missed \subseteq missed' /\ TRUE
    BY <1>5, Zenon DEF LoggedOut, dbVars
  <2> QED
    BY <1>5, <2>1, <2>2, <1>h, LoggedOutFacts DEF EnvUnchanged, requestVars, Touches, Reports,
       Touches, dbVars, InRowKept, OnlyInRow, Registered, DeviceInv, RunInv, LiveInv, TypeOK
<1>6. ASSUME NEW o \in Sessions, Redial(o) PROVE InRowKept
  <2>1. EnvUnchanged
    BY <1>6 DEF Redial
  <2>2. missed \subseteq missed' /\ store' = store
    BY <1>6, Zenon DEF Redial, dbVars
  <2> QED
    BY <1>6, <2>1, <2>2, <1>h, RedialFacts DEF EnvUnchanged, requestVars, Touches, Reports,
       Touches, dbVars, InRowKept, OnlyInRow, Registered, DeviceInv, RunInv, LiveInv, TypeOK
<1>7. CASE Boot
  BY <1>7, <1>h DEF Boot, requestVars, managerVars, historyVars, Touches, dbVars, InRowKept,
     OnlyInRow, Registered, DeviceInv, RunInv, LiveInv, TypeOK
<1>8. CASE NotRestored
  BY <1>8, NotRestoredFacts DEF NotRestored, requestVars, historyVars, Touches, dbVars,
     InRowKept, OnlyInRow, Registered, DeviceInv, RunInv, LiveInv, TypeOK
<1>9. CASE Restored
  <2>1. UNCHANGED <<requestVars, store, taken, missed>> /\ reg = NoSession
        /\ \A r \in Requests : pc[r] = "idle"
    BY <1>9 DEF Restored, RunInv, historyVars
  <2> QED
    BY <1>9, <2>1, RestoredFacts DEF RunInv, requestVars, Touches, Touches, dbVars, InRowKept,
       OnlyInRow, Registered, DeviceInv, RunInv, LiveInv, TypeOK
<1>10. CASE Crash
  BY <1>10, <1>0, NewSessionType DEF Crash, Touches, dbVars, InRowKept, OnlyInRow, Registered,
     DeviceInv, RunInv, LiveInv, TypeOK
<1>11. ASSUME NEW r \in Requests, Begin(r) PROVE InRowKept
  BY <1>11, <1>h DEF Begin, Answer, Proceed, Goto, dbVars, managerVars, historyVars, Touches,
     dbVars, InRowKept, OnlyInRow, Registered, DeviceInv, RunInv, LiveInv, TypeOK
<1>12. ASSUME NEW r \in Requests, SessionFor(r) PROVE InRowKept
  <2>1. CASE Create(r, copy[r].jid, AfterSession(r)) /\ UNCHANGED resume
    <3>1. /\ pc' = [pc EXCEPT ![r] = AfterSession(r)]
          /\ reg' \in Sessions /\ held' = [held EXCEPT ![r] = reg']
          /\ \/ reg # NoSession /\ UNCHANGED <<reg, used, sess>>
             \/ reg = NoSession /\ reg' \notin used /\ used' = used \cup {reg'} /\ Touches(reg')
                /\ sess'[reg'].dev = copy[r].jid
      BY <1>0, <2>1, CreateFacts, NewSessionType
    <3>2. AfterSession(r) \in {"status", "hangup"}
      BY DEF AfterSession
    <3> QED
      BY <1>12, <2>1, <3>1, <3>2, <1>h DEF SessionFor, historyVars, Touches, dbVars, InRowKept,
         OnlyInRow, Registered, DeviceInv, RunInv, LiveInv, TypeOK
  <2>2. CASE ~(Create(r, copy[r].jid, AfterSession(r)) /\ UNCHANGED resume)
    BY <1>12, <2>2, <1>h DEF SessionFor, AfterSession, Goto, historyVars, Touches, dbVars,
       InRowKept, OnlyInRow, Registered, DeviceInv, RunInv, LiveInv, TypeOK
  <2> QED
    BY <2>1, <2>2
<1>13. ASSUME NEW r \in Requests, CheckStatus(r) PROVE InRowKept
  BY <1>13, <1>h DEF CheckStatus, Answer, Proceed, Goto, dbVars, managerVars, historyVars,
     Touches, dbVars, InRowKept, OnlyInRow, Registered, DeviceInv, RunInv, LiveInv, TypeOK
<1>14. ASSUME NEW r \in Requests, Dial(r) PROVE InRowKept
  <2>1. held[r] \in Sessions
    BY <1>14, <1>h DEF Dial
  <2>2. /\ UNCHANGED <<reg, taken, store, missed, used>> /\ pc'[r] \notin Removing /\ pc[r] = "dial"
        /\ \A q \in Requests \ {r} : pc'[q] = pc[q] /\ held'[q] = held[q]
    BY <1>14, DialMoves DEF Removing, TypeOK
  <2> QED
    BY <1>14, <2>1, <2>2, <1>h, DialFacts DEF Touches, Reports, Removing, Touches, dbVars,
       InRowKept, OnlyInRow, Registered, DeviceInv, RunInv, LiveInv, TypeOK
<1>15. ASSUME NEW r \in Requests, MarkPairing(r) PROVE InRowKept
  BY <1>15, <1>c, <1>0, SetConnectionFacts DEF MarkPairing, Status, Answer, Goto, managerVars,
     Touches, dbVars, InRowKept, OnlyInRow, Registered, DeviceInv, RunInv, LiveInv, TypeOK
<1>16. ASSUME NEW r \in Requests, GiveUp(r) PROVE InRowKept
  BY <1>16, <1>h DEF GiveUp, Answer, Proceed, Goto, dbVars, managerVars, historyVars, Touches,
     dbVars, InRowKept, OnlyInRow, Registered, DeviceInv, RunInv, LiveInv, TypeOK
<1>17. ASSUME NEW r \in Requests, Hangup(r) PROVE InRowKept
  <2>1. held[r] \in Sessions
    BY <1>17, <1>h DEF Hangup
  <2>2. /\ UNCHANGED <<reg, taken, missed, used, copy>> /\ pc'[r] = "clear"
        /\ held'[r] = NoSession /\ pc[r] = "hangup"
        /\ \A q \in Requests \ {r} : pc'[q] = pc[q] /\ held'[q] = held[q]
    BY <1>17, <2>1 DEF Hangup, Goto, Proceed, historyVars, TypeOK
  <2>3. row' = row \/ Reports(held[r])
    BY <1>17, <2>1, HangupFacts DEF Hangup
  <2> QED
    BY <1>17, <2>1, <2>2, <2>3, <1>h, HangupFacts DEF Touches, Reports, Removing, Touches, dbVars,
       InRowKept, OnlyInRow, Registered, DeviceInv, RunInv, LiveInv, TypeOK
<1>18. ASSUME NEW r \in Requests, Clear(r) PROVE InRowKept
  BY <1>18, <1>c, <1>0, SetConnectionFacts DEF Clear, Status, Answer, Goto, managerVars,
     Touches, dbVars, InRowKept, OnlyInRow, Registered, DeviceInv, RunInv, LiveInv, TypeOK
<1>19. ASSUME NEW r \in Requests, Recreate(r) PROVE InRowKept
  <2>1. /\ pc' = [pc EXCEPT ![r] = resume[r]]
        /\ reg' \in Sessions /\ held' = [held EXCEPT ![r] = reg']
        /\ \/ reg # NoSession /\ UNCHANGED <<reg, used, sess>>
           \/ reg = NoSession /\ reg' \notin used /\ used' = used \cup {reg'} /\ Touches(reg')
              /\ sess'[reg'].dev = NoDevice
    BY <1>19, <1>0, CreateFacts, NewSessionType DEF Recreate
  <2> QED
    BY <1>19, <2>1, <1>h DEF Recreate, historyVars, Touches, dbVars, InRowKept, OnlyInRow,
       Registered, DeviceInv, RunInv, LiveInv, TypeOK
<1>20. ASSUME NEW r \in Requests, StatementFails(r) PROVE InRowKept
  BY <1>20, <1>h DEF StatementFails, Answer, Proceed, Goto, dbVars, managerVars, historyVars,
     Touches, dbVars, InRowKept, OnlyInRow, Registered, DeviceInv, RunInv, LiveInv, TypeOK
<1>21. ASSUME NEW r \in Requests, Unregister(r) PROVE InRowKept
  <2>1. CASE reg = NoSession
    BY <1>21, <2>1, AfterRemovalFacts DEF Unregister, Touches, dbVars, InRowKept, OnlyInRow,
       Registered, DeviceInv, RunInv, LiveInv, TypeOK
  <2>2. CASE reg # NoSession
    BY <1>21, <2>2 DEF Unregister, Goto, Touches, dbVars, InRowKept, OnlyInRow, Registered,
       DeviceInv, RunInv, LiveInv, TypeOK
  <2> QED
    BY <2>1, <2>2
<1>22. ASSUME NEW r \in Requests, Close(r) PROVE InRowKept
  <2>1. held[r] \in Sessions
    BY <1>22, <1>h DEF Close
  <2>2. /\ UNCHANGED <<reg, taken, missed, used, copy>> /\ pc'[r] = "erase"
        /\ held'[r] = held[r] /\ pc[r] = "close"
        /\ \A q \in Requests \ {r} : pc'[q] = pc[q] /\ held'[q] = held[q]
    BY <1>22, <2>1 DEF Close, Goto, Proceed, historyVars, TypeOK
  <2>3. row' = row \/ Reports(held[r])
    BY <1>22, <2>1, CloseFacts DEF Close
  <2> QED
    BY <1>22, <2>1, <2>2, <2>3, <1>h, CloseFacts DEF Touches, Reports, Removing, Touches, dbVars,
       InRowKept, OnlyInRow, Registered, DeviceInv, RunInv, LiveInv, TypeOK
<1>23. ASSUME NEW r \in Requests, Erase(r) PROVE InRowKept
  <2>1. held[r] \in Sessions /\ UNCHANGED <<reg, taken, missed, used>> /\ pc[r] = "erase"
          /\ AfterRemoval(r)
    BY <1>23, <1>h DEF Erase
  <2>2. /\ pc'[r] \notin Removing
        /\ \A q \in Requests \ {r} : pc'[q] = pc[q] /\ held'[q] = held[q]
    BY <2>1, AfterRemovalFacts DEF Removing, TypeOK
  <2> QED
    BY <1>23, <2>1, <2>2, EraseFacts, <1>h DEF Touches, Reports, Removing, Touches, dbVars,
       InRowKept, OnlyInRow, Registered, DeviceInv, RunInv, LiveInv, TypeOK
<1>24. ASSUME NEW r \in Requests, EraseFails(r) PROVE InRowKept
  BY <1>24, <1>h DEF EraseFails, Answer, Goto, Removing, Touches, dbVars, InRowKept, OnlyInRow,
     Registered, DeviceInv, RunInv, LiveInv, TypeOK
<1>25. ASSUME NEW r \in Requests, DeleteRow(r) PROVE InRowKept
  BY <1>25, <1>h DEF DeleteRow, Answer, Proceed, Goto, dbVars, managerVars, historyVars,
     Touches, dbVars, InRowKept, OnlyInRow, Registered, DeviceInv, RunInv, LiveInv, TypeOK
<1>26. ASSUME NEW r \in Requests, Update(r) PROVE InRowKept
  BY <1>26, <1>c, <1>0, SetConnectionFacts DEF Update, Status, Answer, Goto, managerVars,
     Touches, dbVars, InRowKept, OnlyInRow, Registered, DeviceInv, RunInv, LiveInv, TypeOK
<1>27. CASE UNCHANGED vars
  BY <1>27, <1>h DEF vars, dbVars, requestVars, managerVars, historyVars, Touches, dbVars,
     InRowKept, OnlyInRow, Registered, DeviceInv, RunInv, LiveInv, TypeOK
<1> QED
  BY <1>1, <1>2, <1>3, <1>4, <1>5, <1>6, <1>7, <1>8, <1>9, <1>10, <1>11, <1>12, <1>13, <1>14,
     <1>15, <1>16, <1>17, <1>18, <1>19, <1>20, <1>21, <1>22, <1>23, <1>24, <1>25, <1>26, <1>27
     DEF Next

LEMMA CoverStep ==
    ASSUME TypeOK, StageInv, RunInv, LiveInv, DeviceInv, RemovalInv, GoneInv, CoverInv, [Next]_vars
    PROVE  CoverInv'
<1>1. StoreKept /\ RemovedKept /\ RegisteredKept /\ InRowKept
  BY StoreKeeps, RemovedKeeps, RegisteredKeeps, InRowKeeps
<1> SUFFICES ASSUME NEW d \in store'
             PROVE  d \in missed' \/ Removed(d)' \/ Registered(d)' \/ OnlyInRow(d)'
  BY DEF CoverInv
<1>2. CASE d \notin store
  BY <1>1, <1>2 DEF StoreKept
<1>3. CASE d \in store
  <2>1. d \in missed \/ Removed(d) \/ Registered(d) \/ OnlyInRow(d)
    BY <1>3 DEF CoverInv
  <2>2. CASE d \in missed
    BY <1>1, <2>2 DEF StoreKept
  <2>3. CASE Removed(d)
    BY <1>1, <1>3, <2>3 DEF RemovedKept
  <2>4. CASE Registered(d)
    BY <1>1, <1>3, <2>4 DEF RegisteredKept
  <2>5. CASE OnlyInRow(d)
    BY <1>1, <1>3, <2>5 DEF InRowKept
  <2> QED
    BY <2>1, <2>2, <2>3, <2>4, <2>5
<1> QED
  BY <1>2, <1>3

\* LeakHasCause, device by device.
LEMMA LeakParts == LeakHasCause <=> (~row.there => \A d \in store : d \in missed \/ Removed(d))
  BY DEF LeakHasCause, Removed

\* Only a DELETE removes the row, and it is remembered what it leaves.
RowKept ==
    \/ row'.there <=> row.there
    \/ /\ UNCHANGED <<store, sess, reg>>
       /\ \A d \in store : Removed(d) => Removed(d)'
       /\ reg # NoSession => store \subseteq missed'
       /\ \A d \in store : ~OnlyInRow(d)

\* The row is deleted once.
LEMMA RowKeeps == TypeOK /\ StageInv /\ [Next]_vars => RowKept
<1> SUFFICES ASSUME TypeOK, StageInv, [Next]_vars PROVE RowKept
  OBVIOUS
<1> USE LifecycleAssumption
<1>0. NoDevice \in Device /\ \A r \in Requests : copy[r].jid \in Device
  BY DEF TypeOK, Device
<1>h. \A r \in Requests :
        pc[r] \in {"status", "dial", "hangup", "close", "erase"} => held[r] \in Sessions
  BY DEF StageInv, Holding, Removing
<1>c. \A r \in Requests : copy[r].st \in Status
  BY DEF TypeOK
<1>1. ASSUME NEW o \in Sessions, Scanned(o) PROVE RowKept
  BY <1>1, ScannedFacts DEF Reports, RowKept
<1>2. ASSUME NEW o \in Sessions, QrEnds(o) PROVE RowKept
  BY <1>2, QrEndsFacts DEF Reports, RowKept
<1>3. ASSUME NEW o \in Sessions, LoggedIn(o) PROVE RowKept
  BY <1>3, LoggedInFacts DEF Reports, RowKept
<1>4. ASSUME NEW o \in Sessions, Drop(o) PROVE RowKept
  BY <1>4, DropFacts DEF Reports, RowKept
<1>5. ASSUME NEW o \in Sessions, LoggedOut(o) PROVE RowKept
  BY <1>5, LoggedOutFacts DEF Reports, RowKept
<1>6. ASSUME NEW o \in Sessions, Redial(o) PROVE RowKept
  BY <1>6 DEF Redial, RowKept, dbVars
<1>7. CASE Boot
  BY <1>7 DEF Boot, RowKept, dbVars
<1>8. CASE NotRestored
  BY <1>8, NotRestoredFacts DEF RowKept
<1>9. CASE Restored
  BY <1>9, RestoredFacts DEF RowKept
<1>10. CASE Crash
  BY <1>10 DEF Crash, RowKept, dbVars
<1>11. ASSUME NEW r \in Requests, Begin(r) PROVE RowKept
  BY <1>11 DEF Begin, RowKept, dbVars
<1>12. ASSUME NEW r \in Requests, SessionFor(r) PROVE RowKept
  BY <1>12 DEF SessionFor, RowKept, dbVars
<1>13. ASSUME NEW r \in Requests, CheckStatus(r) PROVE RowKept
  BY <1>13 DEF CheckStatus, RowKept, dbVars
<1>14. ASSUME NEW r \in Requests, Dial(r) PROVE RowKept
  <2>1. held[r] \in Sessions
    BY <1>14, <1>h DEF Dial
  <2> QED
    BY <1>14, <2>1, DialFacts DEF Dial, Reports, RowKept
<1>15. ASSUME NEW r \in Requests, MarkPairing(r) PROVE RowKept
  BY <1>15, <1>0, <1>c, SetConnectionFacts DEF MarkPairing, Status, RowKept
<1>16. ASSUME NEW r \in Requests, GiveUp(r) PROVE RowKept
  BY <1>16 DEF GiveUp, RowKept, dbVars
<1>17. ASSUME NEW r \in Requests, Hangup(r) PROVE RowKept
  <2>1. held[r] \in Sessions
    BY <1>17, <1>h DEF Hangup
  <2> QED
    BY <1>17, <2>1, HangupFacts DEF Hangup, Reports, RowKept
<1>18. ASSUME NEW r \in Requests, Clear(r) PROVE RowKept
  BY <1>18, <1>0, <1>c, SetConnectionFacts DEF Clear, Status, RowKept
<1>19. ASSUME NEW r \in Requests, Recreate(r) PROVE RowKept
  BY <1>19 DEF Recreate, RowKept, dbVars
<1>20. ASSUME NEW r \in Requests, StatementFails(r) PROVE RowKept
  BY <1>20 DEF StatementFails, RowKept, dbVars
<1>21. ASSUME NEW r \in Requests, Unregister(r) PROVE RowKept
  BY <1>21 DEF Unregister, RowKept, dbVars
<1>22. ASSUME NEW r \in Requests, Close(r) PROVE RowKept
  <2>1. held[r] \in Sessions
    BY <1>22, <1>h DEF Close
  <2> QED
    BY <1>22, <2>1, CloseFacts DEF Close, Reports, RowKept
<1>23. ASSUME NEW r \in Requests, Erase(r) PROVE RowKept
  <2>1. held[r] \in Sessions
    BY <1>23, <1>h DEF Erase
  <2> QED
    BY <1>23, <2>1, EraseFacts DEF Erase, Reports, RowKept
<1>24. ASSUME NEW r \in Requests, EraseFails(r) PROVE RowKept
  BY <1>24 DEF EraseFails, RowKept, dbVars
<1>25. ASSUME NEW r \in Requests, DeleteRow(r) PROVE RowKept
  BY <1>25, <1>h DEF DeleteRow, Answer, Goto, managerVars, Removed, BeingRemoved, OnlyInRow,
     TypeOK, RowKept
<1>26. ASSUME NEW r \in Requests, Update(r) PROVE RowKept
  BY <1>26, <1>0, <1>c, SetConnectionFacts DEF Update, Status, RowKept
<1>27. CASE UNCHANGED vars
  BY <1>27 DEF vars, RowKept, dbVars
<1> QED
  BY <1>1, <1>2, <1>3, <1>4, <1>5, <1>6, <1>7, <1>8, <1>9, <1>10, <1>11, <1>12, <1>13, <1>14,
     <1>15, <1>16, <1>17, <1>18, <1>19, <1>20, <1>21, <1>22, <1>23, <1>24, <1>25, <1>26, <1>27
     DEF Next

LEMMA LeakStep ==
    ASSUME TypeOK, TypeOK', StageInv, RunInv, LiveInv, DeviceInv, RemovalInv, GoneInv, GoneInv',
           CoverInv, LeakHasCause, [Next]_vars
    PROVE  LeakHasCause'
<1>1. StoreKept /\ RemovedKept /\ RowKept
  BY StoreKeeps, RemovedKeeps, RowKeeps
<1> SUFFICES ASSUME ~row'.there, NEW d \in store' PROVE d \in missed' \/ Removed(d)'
  BY DEF LeakHasCause, Removed
<1>2. missed \subseteq missed' /\ ~OnlyInRow(d)'
  <2>1. d # NoDevice
    BY LifecycleAssumption DEF TypeOK
  <2>2. row'.jid = NoDevice
    BY DEF GoneInv
  <2> QED
    BY <1>1, <2>1, <2>2 DEF StoreKept, OnlyInRow
<1>3. CASE row'.there <=> row.there
  <2>1. CASE d \in store
    BY <1>1, <1>2, <1>3, <2>1, LeakParts DEF RemovedKept
  <2>2. CASE d \notin store
    BY <1>1, <2>2 DEF StoreKept
  <2> QED
    BY <2>1, <2>2
<1>4. CASE ~(row'.there <=> row.there)
  <2>1. d \in store /\ (d \in missed \/ Removed(d) \/ Registered(d))
    BY <1>1, <1>4 DEF RowKept, CoverInv
  <2>2. CASE Registered(d)
    BY <1>1, <1>4, <2>1, <2>2 DEF RowKept, Registered
  <2> QED
    BY <1>1, <1>2, <1>4, <2>1, <2>2 DEF RowKept
<1> QED
  BY <1>3, <1>4

\* A step that works on session o records its identity, or leaves what was
\* recorded.
LEMMA IdentityKept ==
    ASSUME TypeOK, IdentityRecorded, NEW o \in Sessions, Touches(o), reg' = reg,
           Reports(o) \/ (row' = row /\ stale' = stale),
           \A p \in Sessions \ {o} : sess[p].dev \in store' => sess[p].dev \in store,
           sess'[o].status = "connected" /\ sess'[o].dev \in store' =>
              \/ row.there => row'.jid = sess'[o].dev
              \/ /\ row' = row /\ sess[o].status = "connected"
                 /\ sess'[o].dev = sess[o].dev /\ sess[o].dev \in store
    PROVE  IdentityRecorded'
<1> SUFFICES ASSUME row'.there, reg # NoSession, sess'[reg].status = "connected",
                    sess'[reg].dev \in store', row'.jid # sess'[reg].dev
             PROVE  stale'
  BY DEF IdentityRecorded
<1>1. reg \in Sessions /\ row.there
  BY DEF TypeOK, Reports
<1>2. CASE reg = o
  <2>1. row' = row /\ sess[o].status = "connected" /\ sess'[o].dev = sess[o].dev
        /\ sess[o].dev \in store
    BY <1>1, <1>2
  <2>2. stale
    BY <1>1, <1>2, <2>1 DEF IdentityRecorded
  <2> QED
    BY <2>1, <2>2 DEF Reports
<1>3. CASE reg # o
  <2>1. sess'[reg] = sess[reg] /\ sess[reg].dev \in store
    BY <1>1, <1>3 DEF Touches
  <2>2. row.jid = sess[reg].dev \/ stale
    BY <1>1, <2>1 DEF IdentityRecorded
  <2>3. CASE row' = row /\ stale' = stale
    BY <2>1, <2>2, <2>3
  <2>4. CASE Reports(o)
    BY <1>3, <2>1, <2>2, <2>4 DEF Reports
  <2> QED
    BY <2>3, <2>4
<1> QED
  BY <1>2, <1>3

\* The identity in the row.
LEMMA IdentityStep ==
    TypeOK /\ StageInv /\ DeviceInv /\ RemovalInv /\ IdentityRecorded /\ [Next]_vars =>
        IdentityRecorded'
<1> SUFFICES ASSUME TypeOK, StageInv, DeviceInv, RemovalInv, IdentityRecorded, [Next]_vars
             PROVE IdentityRecorded'
  OBVIOUS
<1> USE LifecycleAssumption
<1>0. NoDevice \in Device /\ \A r \in Requests : copy[r].jid \in Device
  BY DEF TypeOK, Device
<1>h. \A r \in Requests :
        pc[r] \in {"status", "dial", "hangup", "close", "erase"} => held[r] \in Sessions
  BY DEF StageInv, Holding, Removing
<1>c. \A r \in Requests : copy[r].st \in Status
  BY DEF TypeOK
<1>d. \A d \in Devices : d # NoDevice
  OBVIOUS
<1>1. ASSUME NEW o \in Sessions, Scanned(o) PROVE IdentityRecorded'
  <2>1. reg' = reg
    BY <1>1 DEF Scanned, EnvUnchanged
  <2>2. /\ Touches(o) /\ Reports(o)
        /\ \A p \in Sessions \ {o} : sess[p].dev \in store' => sess[p].dev \in store
    BY <1>1, <1>d, ScannedFacts DEF DeviceInv
  <2>3. row.there => row'.jid = sess'[o].dev
    BY <1>1, ScannedFacts DEF DeviceInv
  <2> QED
    BY <2>1, <2>2, <2>3, IdentityKept
<1>2. ASSUME NEW o \in Sessions, QrEnds(o) PROVE IdentityRecorded'
  <2>1. reg' = reg /\ store' = store
    BY <1>2, Zenon DEF QrEnds, EnvUnchanged, dbVars
  <2> QED
    BY <1>2, <2>1, QrEndsFacts, IdentityKept
<1>3. ASSUME NEW o \in Sessions, LoggedIn(o) PROVE IdentityRecorded'
  <2>1. reg' = reg /\ store' = store
    BY <1>3, Zenon DEF LoggedIn, EnvUnchanged, dbVars
  <2> QED
    BY <1>3, <2>1, LoggedInFacts, IdentityKept
<1>4. ASSUME NEW o \in Sessions, Drop(o) PROVE IdentityRecorded'
  <2>1. reg' = reg /\ store' = store
    BY <1>4, Zenon DEF Drop, EnvUnchanged, dbVars
  <2> QED
    BY <1>4, <2>1, DropFacts, IdentityKept
<1>5. ASSUME NEW o \in Sessions, LoggedOut(o) PROVE IdentityRecorded'
  <2>1. reg' = reg /\ store' = store \ {sess[o].dev}
    BY <1>5, Zenon DEF LoggedOut, EnvUnchanged, dbVars
  <2> QED
    BY <1>5, <2>1, LoggedOutFacts, IdentityKept
<1>6. ASSUME NEW o \in Sessions, Redial(o) PROVE IdentityRecorded'
  <2>1. reg' = reg /\ store' = store /\ row' = row /\ stale' = stale
    BY <1>6, Zenon DEF Redial, EnvUnchanged, dbVars
  <2> QED
    BY <1>6, <2>1, RedialFacts, IdentityKept
<1>7. CASE Boot
  BY <1>7 DEF Boot, dbVars, managerVars, historyVars, IdentityRecorded, Touches, DeviceInv
<1>8. CASE NotRestored
  BY <1>8, NotRestoredFacts DEF NotRestored, historyVars, IdentityRecorded, Touches, DeviceInv
<1>9. CASE Restored
  BY <1>9, RestoredFacts DEF IdentityRecorded, Touches, DeviceInv
<1>10. CASE Crash
  BY <1>10 DEF Crash, IdentityRecorded, Touches, DeviceInv
<1>11. ASSUME NEW r \in Requests, Begin(r) PROVE IdentityRecorded'
  BY <1>11 DEF Begin, dbVars, managerVars, historyVars, IdentityRecorded, Touches, DeviceInv
<1>12. ASSUME NEW r \in Requests, SessionFor(r) PROVE IdentityRecorded'
  BY <1>12, <1>0, CreateFacts, NewSessionType DEF SessionFor, dbVars, historyVars,
     IdentityRecorded, Touches, DeviceInv
<1>13. ASSUME NEW r \in Requests, CheckStatus(r) PROVE IdentityRecorded'
  BY <1>13 DEF CheckStatus, dbVars, managerVars, historyVars, IdentityRecorded, Touches,
     DeviceInv
<1>14. ASSUME NEW r \in Requests, Dial(r) PROVE IdentityRecorded'
  <2>1. held[r] \in Sessions /\ reg' = reg /\ store' = store
    BY <1>14, <1>h DEF Dial, historyVars
  <2>2. store' \subseteq store
    BY <1>14, <2>1, DialFacts
  <2>3. NoDevice \notin store
    BY DEF TypeOK
  <2> QED
    BY <1>14, <2>1, <2>2, <2>3, DialFacts, IdentityKept DEF DeviceInv
<1>15. ASSUME NEW r \in Requests, MarkPairing(r) PROVE IdentityRecorded'
  BY <1>15, <1>0, <1>c, SetConnectionFacts DEF MarkPairing, Status, managerVars,
     IdentityRecorded, Touches, DeviceInv
<1>16. ASSUME NEW r \in Requests, GiveUp(r) PROVE IdentityRecorded'
  BY <1>16 DEF GiveUp, dbVars, managerVars, historyVars, IdentityRecorded, Touches, DeviceInv
<1>17. ASSUME NEW r \in Requests, Hangup(r) PROVE IdentityRecorded'
  <2>1. held[r] \in Sessions /\ reg' = reg /\ TRUE
    BY <1>17, <1>h DEF Hangup, historyVars
  <2>2. store' \subseteq store
    BY <1>17, <2>1, HangupFacts
  <2>3. NoDevice \notin store
    BY DEF TypeOK
  <2> QED
    BY <1>17, <2>1, <2>2, <2>3, HangupFacts, IdentityKept DEF DeviceInv
<1>18. ASSUME NEW r \in Requests, Clear(r) PROVE IdentityRecorded'
  BY <1>18, <1>0, <1>c, SetConnectionFacts DEF Clear, Status, managerVars, IdentityRecorded,
     Touches, DeviceInv
<1>19. ASSUME NEW r \in Requests, Recreate(r) PROVE IdentityRecorded'
  BY <1>19, <1>0, CreateFacts, NewSessionType DEF Recreate, dbVars, historyVars,
     IdentityRecorded, Touches, DeviceInv
<1>20. ASSUME NEW r \in Requests, StatementFails(r) PROVE IdentityRecorded'
  BY <1>20 DEF StatementFails, dbVars, managerVars, historyVars, IdentityRecorded, Touches,
     DeviceInv
<1>21. ASSUME NEW r \in Requests, Unregister(r) PROVE IdentityRecorded'
  BY <1>21 DEF Unregister, dbVars, managerVars, historyVars, IdentityRecorded, Touches,
     DeviceInv
<1>22. ASSUME NEW r \in Requests, Close(r) PROVE IdentityRecorded'
  <2>1. held[r] \in Sessions /\ reg' = reg /\ row' = row /\ stale' = stale
    BY <1>22, <1>h DEF Close, historyVars
  <2>2. store' \subseteq store
    BY <1>22, <2>1, CloseFacts
  <2>3. NoDevice \notin store
    BY DEF TypeOK
  <2> QED
    BY <1>22, <2>1, <2>2, <2>3, CloseFacts, IdentityKept DEF DeviceInv
<1>23. ASSUME NEW r \in Requests, Erase(r) PROVE IdentityRecorded'
  <2>1. held[r] \in Sessions /\ reg' = reg /\ TRUE
    BY <1>23, <1>h DEF Erase, historyVars
  <2>2. store' \subseteq store
    BY <1>23, <2>1, EraseFacts
  <2>3. NoDevice \notin store
    BY DEF TypeOK
  <2> QED
    BY <1>23, <2>1, <2>2, <2>3, EraseFacts, IdentityKept DEF DeviceInv
<1>24. ASSUME NEW r \in Requests, EraseFails(r) PROVE IdentityRecorded'
  BY <1>24, <1>h DEF EraseFails, dbVars, IdentityRecorded, Touches, DeviceInv
<1>25. ASSUME NEW r \in Requests, DeleteRow(r) PROVE IdentityRecorded'
  BY <1>25 DEF DeleteRow, dbVars, managerVars, historyVars, IdentityRecorded, Touches,
     DeviceInv
<1>26. ASSUME NEW r \in Requests, Update(r) PROVE IdentityRecorded'
  BY <1>26, <1>0, <1>c, SetConnectionFacts DEF Update, Status, managerVars, IdentityRecorded,
     Touches, DeviceInv
<1>27. CASE UNCHANGED vars
  BY <1>27 DEF vars, dbVars, managerVars, historyVars, IdentityRecorded, Touches, DeviceInv
<1> QED
  BY <1>1, <1>2, <1>3, <1>4, <1>5, <1>6, <1>7, <1>8, <1>9, <1>10, <1>11, <1>12, <1>13, <1>14,
     <1>15, <1>16, <1>17, <1>18, <1>19, <1>20, <1>21, <1>22, <1>23, <1>24, <1>25, <1>26, <1>27
     DEF Next

-----------------------------------------------------------------------------
(* The invariant                                                           *)

LEMMA InitInv == Init => IInv
<1> SUFFICES ASSUME Init PROVE IInv
  OBVIOUS
<1> USE LifecycleAssumption
<1>1. PICK d \in Device :
         /\ row = [there |-> TRUE, st |-> "disconnected", jid |-> d]
         /\ store = {d} \ {NoDevice} /\ paired = {d} \ {NoDevice}
  BY DEF Init
<1>2. NewSession(NoDevice) \in Session /\ NewSession(NoDevice).dev = NoDevice
      /\ ~NewSession(NoDevice).open /\ ~NewSession(NoDevice).qr /\ ~NewSession(NoDevice).loop
  BY NewSessionType DEF Device
<1>3. LocalsOK
  BY NoCopyType DEF Init, LocalsOK, Steps
<1>4. StateOK
  <2>1. row \in Row
    BY <1>1 DEF Row, Status
  <2>2. store \in SUBSET Devices /\ paired \in SUBSET Devices
    BY <1>1 DEF Device
  <2> QED
    BY <1>2, <2>1, <2>2 DEF Init, StateOK
<1>5. stale \in BOOLEAN
  BY DEF Init
<1>6. TypeOK
  BY <1>3, <1>4, <1>5, TypeParts
<1>7. RunInv /\ LiveInv /\ StageInv
  BY <1>2 DEF Init, RunInv, LiveInv, StageInv, Holding, Removing
<1>8. DeviceInv
  BY <1>1, <1>2 DEF Init, DeviceInv
<1>9. HolderInv /\ RemovalInv /\ StrayInv
  BY <1>2 DEF Init, HolderInv, RemovalInv, StrayInv, OpenInv, TornInv, Holding, Removing
<1>10. GoneInv /\ LeakHasCause /\ row.there
  BY <1>1 DEF GoneInv, LeakHasCause
<1>11. CoverInv
  BY <1>1 DEF Init, CoverInv, OnlyInRow
<1>12. IdentityRecorded
  BY DEF Init, IdentityRecorded
<1> QED
  BY <1>6, <1>7, <1>8, <1>9, <1>10, <1>11, <1>12 DEF IInv

LEMMA InvInductive == IInv /\ [Next]_vars => IInv'
<1> SUFFICES ASSUME IInv, [Next]_vars PROVE IInv'
  OBVIOUS
<1>1. /\ TypeOK /\ RunInv /\ LiveInv /\ StageInv /\ DeviceInv /\ HolderInv /\ RemovalInv
      /\ StrayInv /\ GoneInv /\ CoverInv /\ LeakHasCause /\ IdentityRecorded
  BY DEF IInv
<1>2. TypeOK' /\ StageInv' /\ RunInv' /\ LiveInv'
  BY <1>1, TypeStep, StageStep, RunStep, LiveStep
<1>3. DeviceInv' /\ HolderInv' /\ RemovalInv' /\ StrayInv' /\ GoneInv'
  BY <1>1, DeviceStep, HolderStep, RemovalStep, StrayStep, GoneStep
<1>4. CoverInv' /\ LeakHasCause'
  BY <1>1, <1>2, <1>3, CoverStep, LeakStep
<1>5. IdentityRecorded'
  BY <1>1, IdentityStep
<1> QED
  BY <1>2, <1>3, <1>4, <1>5 DEF IInv

THEOREM Invariance == Spec => []IInv
<1>1. Init => IInv
  BY InitInv
<1>2. IInv /\ [Next]_vars => IInv'
  BY InvInductive
<1> QED
  BY <1>1, <1>2, PTL DEF Spec

\* The state keeps its type: the row, the registry, the sessions and the locals
\* of the requests.
THEOREM TypeCorrect == Spec => []TypeOK
<1>1. IInv => TypeOK
  BY DEF IInv
<1> QED
  BY <1>1, Invariance, PTL

\* A session that the manager does not list is open only while remove tears it
\* down, or because a request of Service held it when Manager.Remove took it.
THEOREM StraysAreExplained == Spec => []StrayHasCause
<1>1. IInv => StrayHasCause
  BY DEF IInv, StrayInv, OpenInv, StrayHasCause
<1> QED
  BY <1>1, Invariance, PTL

\* Service.Delete leaves no credentials behind but those whose session was not
\* registered when it was removed, or paired, or those a crash lost the JID of.
THEOREM LeaksAreExplained == Spec => []LeakHasCause
<1>1. IInv => LeakHasCause
  BY DEF IInv
<1> QED
  BY <1>1, Invariance, PTL

\* The row names the device of the connected session, so that RestoreAll finds
\* it, unless the last write of the JID came from a request or from a stray.
THEOREM IdentityIsRecorded == Spec => []IdentityRecorded
<1>1. IInv => IdentityRecorded
  BY DEF IInv
<1> QED
  BY <1>1, Invariance, PTL
=============================================================================
