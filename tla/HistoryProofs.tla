--------------------------- MODULE HistoryProofs ---------------------------
(***************************************************************************)
(* Proofs about History: for any history, triggers, live messages, failed  *)
(* calls and crashes, no failed run forgets a message, none is imported    *)
(* twice, and a contact has one open conversation unless a known race let  *)
(* a second one through.                                                   *)
(*                                                                         *)
(* The argument: what a run read and has not written is in its rows or in  *)
(* Chatwoot (RunInv); a caller that lists or creates holds its key, or its *)
(* contact slipped (CallInv); what is about to be created is not there     *)
(* (FreshInv).                                                             *)
(***************************************************************************)
EXTENDS History, SequenceTheorems, FiniteSetTheorems, WellFoundedInduction, TLAPS

\* What a run still has to write is in its rows, or in Chatwoot; the chunk it
\* holds is not.
Importing == {"lookup", "select", "max", "conversation", "insert"}
Holding   == {"select", "max", "conversation", "insert"}

RunInv ==
    /\ run.pc \in Importing =>
          \A m \in run.snap \ Cut : m \in run.todo \cup run.chunk \/ InChatwoot(m)
    /\ run.pc \notin Holding => run.chunk = {}
    /\ \A m \in run.chunk : imports[m] = 0

Busy(c) == call[c].pc # "idle"

\* A caller of the Resolver holds the key it works under, or its contact
\* slipped.
CallInv ==
    \A c \in Callers : Busy(c) =>
        /\ call[c].contact \in ContactsOf(call[c].key)
        /\ call[c].stale => call[c].contact \in slips
        /\ call[c].pc \in {"list", "create"} =>
              lock[call[c].key] = c \/ call[c].contact \in slips

\* What is about to be created is not there, or the contact slipped.
FreshInv ==
    /\ \A c \in Callers : \A x \in Contacts :
          call[c].pc = "create" /\ call[c].contact = x => Open(x) = {} \/ x \in slips
    /\ Writing => Of("ident") = {} \/ "ident" \in slips
    /\ \A c \in Callers : Writing /\ call[c].pc = "create" /\ call[c].contact = "ident" =>
          "ident" \in slips

OneInv == \A x \in Contacts \ slips : \A i, j \in Open(x) : i = j

JobInv == Busy("mirror") <=> job # Nothing

IInv ==
    /\ TypeOK /\ RunInv /\ ForgottenHasCause /\ ImportedOnce
    /\ CallInv /\ FreshInv /\ OneInv /\ JobInv

-----------------------------------------------------------------------------
(* What the helpers do                                                     *)

LEMMA BusyFacts == NoCall \in Call /\ NoCall.pc = "idle" /\ NoRun \in Run
<1>1. NoCall \in Call /\ NoCall.pc = "idle"
  BY DEF NoCall, Call, Keys, Contacts
<1>2. 0 \in 0..(MaxConvs + 1) /\ 0 \in 0..(MaxAttempts - 1)
  BY HistoryAssumption
<1>3. NoRun \in Run
  BY <1>2 DEF NoRun, Run, Nothing
<1> QED
  BY <1>1, <1>3

\* A set of positions has a newest one.
LEMMA NewestFacts ==
    ASSUME convs \in Seq(Conversation), NEW S \in SUBSET (DOMAIN convs), S # {}
    PROVE  Newest(S) \in S
<1>1. DOMAIN convs = 1..Len(convs) /\ Len(convs) \in Nat
  OBVIOUS
<1> DEFINE T == {Len(convs) - i : i \in S}
           R == OpToRel(<, Nat)
<1>2. T \subseteq Nat /\ T # {}
  BY <1>1
<1>3. PICK x \in T : \A y \in T : ~(<<y, x>> \in R)
  <2> HIDE DEF T, R
  <2>1. IsWellFoundedOn(R, Nat)
    BY NatLessThanWellFounded DEF R
  <2> QED
    BY <1>2, <2>1, WFMin
<1>4. \A y \in T : ~(y < x)
  BY <1>2, <1>3 DEF OpToRel
<1>5. PICK i \in S : x = Len(convs) - i
  OBVIOUS
<1>6. \A j \in S : j <= i
  <2> SUFFICES ASSUME NEW j \in S PROVE j <= i
    OBVIOUS
  <2>1. ~(Len(convs) - j < Len(convs) - i)
    BY <1>4, <1>5
  <2> QED
    BY <1>1, <2>1
<1> QED
  BY <1>6 DEF Newest

LEMMA OfFacts ==
    ASSUME TypeOK, NEW x, Of(x) # {}
    PROVE  /\ Newest(Of(x)) \in Of(x) /\ Newest(Of(x)) \in DOMAIN convs
           /\ Newest(Of(x)) \in ConvId
<1>1. Of(x) \in SUBSET (DOMAIN convs) /\ convs \in Seq(Conversation)
  BY DEF Of, TypeOK
<1>2. Newest(Of(x)) \in Of(x)
  BY <1>1, NewestFacts
<1>3. Len(convs) <= MaxConvs /\ MaxConvs \in Nat /\ Len(convs) \in Nat
  BY HistoryAssumption DEF TypeOK
<1> QED
  BY <1>1, <1>2, <1>3 DEF ConvId

LEMMA OpenFacts ==
    ASSUME TypeOK, NEW x, Open(x) # {}
    PROVE  Newest(Open(x)) \in Open(x) /\ Newest(Open(x)) \in ConvId
<1>1. Open(x) \in SUBSET (DOMAIN convs) /\ convs \in Seq(Conversation)
  BY DEF Open, Of, TypeOK
<1>2. Newest(Open(x)) \in Open(x)
  BY <1>1, NewestFacts
<1>3. Len(convs) <= MaxConvs /\ MaxConvs \in Nat /\ Len(convs) \in Nat
  BY HistoryAssumption DEF TypeOK
<1> QED
  BY <1>1, <1>2, <1>3 DEF ConvId

LEMMA NewConvFacts ==
    ASSUME TypeOK, NEW x \in Contacts, NewConv(x)
    PROVE  /\ convs' \in Seq(Conversation) /\ Len(convs') <= MaxConvs
           /\ Len(convs) + 1 \in ConvId
           /\ \A y : y # x => Of(y)' = Of(y) /\ Open(y)' = Open(y)
           /\ Open(x)' = Open(x) \cup {Len(convs) + 1}
<1> DEFINE e == [contact |-> x, status |-> "open"]
<1>1. e \in Conversation
  BY DEF Conversation
<1>2. convs \in Seq(Conversation) /\ Len(convs) \in Nat /\ MaxConvs \in Nat
  BY HistoryAssumption DEF TypeOK
<1>3. convs' = Append(convs, e) /\ Len(convs) < MaxConvs
  BY DEF NewConv
<1>4. /\ convs' \in Seq(Conversation) /\ Len(convs') = Len(convs) + 1
      /\ \A i \in 1..Len(convs) : convs'[i] = convs[i]
      /\ convs'[Len(convs) + 1] = e
  <2> HIDE DEF e
  <2> QED
    BY <1>1, <1>2, <1>3, AppendProperties
<1>5. DOMAIN convs' = DOMAIN convs \cup {Len(convs) + 1} /\ DOMAIN convs = 1..Len(convs)
  BY <1>2, <1>4
<1>6. e.contact = x /\ e.status = "open"
  OBVIOUS
<1>7. \A y : Of(y)' = IF y = x THEN Of(y) \cup {Len(convs) + 1} ELSE Of(y)
  <2> HIDE DEF e
  <2> QED
    BY <1>4, <1>5, <1>6 DEF Of
<1>8. \A y : Open(y)' = IF y = x THEN Open(y) \cup {Len(convs) + 1} ELSE Open(y)
  <2> HIDE DEF e
  <2> QED
    BY <1>4, <1>5, <1>6, <1>7 DEF Open, Of
<1> QED
  BY <1>2, <1>3, <1>4, <1>7, <1>8 DEF ConvId

LEMMA StatusFacts ==
    ASSUME TypeOK, NEW n \in DOMAIN convs, NEW s \in {"open", "resolved"},
           convs' = [convs EXCEPT ![n].status = s]
    PROVE  /\ convs' \in Seq(Conversation) /\ Len(convs') <= MaxConvs
           /\ \A x : Of(x)' = Of(x)
           /\ \A x : \A i \in DOMAIN convs : i \in Open(x)' <=>
                 IF i = n THEN i \in Of(x) /\ s = "open" ELSE i \in Open(x)
           /\ \A x : Open(x)' \subseteq DOMAIN convs
<1>1. convs \in Seq(Conversation) /\ Len(convs) \in Nat /\ Len(convs) <= MaxConvs
  BY DEF TypeOK
<1>2. DOMAIN convs = 1..Len(convs)
  BY <1>1
<1>3. convs[n] \in Conversation
  BY <1>1, <1>2, ElementOfSeq
<1> DEFINE e == [contact |-> convs[n].contact, status |-> s]
<1>4. e \in Conversation /\ e.contact = convs[n].contact /\ e.status = s
  BY <1>3 DEF Conversation
<1>5. convs' = [convs EXCEPT ![n] = e]
  <2>1. [convs[n] EXCEPT !.status = s] = e
    BY <1>3 DEF Conversation
  <2> QED
    BY <2>1, Zenon
<1> HIDE DEF e
<1>6. /\ convs' \in Seq(Conversation) /\ Len(convs') = Len(convs)
      /\ \A j \in 1..Len(convs) : convs'[j] = IF j = n THEN e ELSE convs[j]
  BY <1>1, <1>2, <1>4, <1>5, ExceptSeq
<1>7. DOMAIN convs' = DOMAIN convs
  BY <1>2, <1>6
<1>8. \A x : Of(x)' = Of(x)
  BY <1>2, <1>4, <1>6, <1>7 DEF Of
<1> QED
  BY <1>1, <1>2, <1>4, <1>6, <1>7, <1>8 DEF Open, Of

LEMMA StepFacts ==
    ASSUME TypeOK, NEW c \in Callers, NEW pc, Step(c, pc),
           pc \in {"idle", "cache", "lock", "list", "create", "done", "failed"}
    PROVE  /\ call' \in [Callers -> Call]
           /\ call'[c].pc = pc /\ call'[c].key = call[c].key
           /\ call'[c].contact = call[c].contact /\ call'[c].stale = call[c].stale
           /\ \A d \in Callers \ {c} : call'[d] = call[d]
<1>1. call \in [Callers -> Call] /\ call[c] \in Call
  BY DEF TypeOK
<1> DEFINE e == [pc |-> pc, key |-> call[c].key, contact |-> call[c].contact,
                 stale |-> call[c].stale]
<1>2. e \in Call
  BY <1>1 DEF Call
<1>3. [call[c] EXCEPT !.pc = pc] = e
  BY <1>1 DEF Call
<1>4. call' = [call EXCEPT ![c] = e]
  BY <1>3, Zenon DEF Step
<1>5. /\ e.pc = pc /\ e.key = call[c].key /\ e.contact = call[c].contact
      /\ e.stale = call[c].stale
  OBVIOUS
<1> HIDE DEF e
<1> QED
  BY <1>1, <1>2, <1>4, <1>5

LEMMA ResolveFacts ==
    ASSUME TypeOK, NEW c \in Callers, NEW k \in Keys, NEW x \in Contacts, Resolve(c, k, x)
    PROVE  /\ call' \in [Callers -> Call]
           /\ call'[c] = [pc |-> "cache", key |-> k, contact |-> x, stale |-> FALSE]
           /\ \A d \in Callers \ {c} : call'[d] = call[d]
<1> DEFINE e == [pc |-> "cache", key |-> k, contact |-> x, stale |-> FALSE]
<1>1. e \in Call
  BY DEF Call
<1>2. call \in [Callers -> Call] /\ call' = [call EXCEPT ![c] = e]
  BY DEF TypeOK, Resolve
<1> HIDE DEF e
<1>3. /\ call' \in [Callers -> Call] /\ call'[c] = e
      /\ \A d \in Callers \ {c} : call'[d] = call[d]
  BY <1>1, <1>2
<1> QED
  BY <1>3 DEF e

LEMMA HangFacts ==
    ASSUME TypeOK, NEW c \in Callers, Hang(c)
    PROVE  /\ call' \in [Callers -> Call] /\ call'[c] = NoCall
           /\ \A d \in Callers \ {c} : call'[d] = call[d]
<1>1. call \in [Callers -> Call] /\ call' = [call EXCEPT ![c] = NoCall]
  BY DEF TypeOK, Hang
<1> QED
  BY <1>1, BusyFacts

LEMMA KeyType ==
    ASSUME TypeOK, NEW c \in Callers
    PROVE  /\ call[c] \in Call /\ call[c].key \in Keys /\ call[c].contact \in Contacts
           /\ CallKey(c) \in Keys /\ CallContact(c) \in Contacts
<1>1. call[c] \in Call
  BY DEF TypeOK
<1> QED
  BY <1>1 DEF Call, CallKey, CallContact

LEMMA ReleaseFacts ==
    ASSUME TypeOK, NEW c \in Callers, Release(c)
    PROVE  /\ lock' \in [Keys -> Callers \cup {Nothing}]
           /\ \A k \in Keys : lock[k] # c => lock'[k] = lock[k]
  BY KeyType DEF TypeOK, Release

LEMMA StoreFacts ==
    ASSUME TypeOK, NEW c \in Callers, NEW i \in ConvId \cup {0}, Store(c, i)
    PROVE  cache' \in [Keys -> ConvId \cup {0}]
  BY KeyType DEF TypeOK, Store

LEMMA SlipFacts ==
    ASSUME NEW c \in Callers, NEW d \in Callers, CallInv, TypeOK,
           call[c].pc \in {"list", "create"}, call[d].pc \in {"list", "create"},
           call[c].contact = call[d].contact, call[c].contact \notin slips
    PROVE  c = d
<1>1. /\ call[c].contact \in ContactsOf(call[c].key) /\ lock[call[c].key] = c
      /\ call[d].contact \in ContactsOf(call[d].key) /\ lock[call[d].key] = d
  BY DEF CallInv, Busy
<1>2. call[c].key = call[d].key
  BY <1>1, KeyType DEF ContactsOf, Keys
<1> QED
  BY <1>1, <1>2

-----------------------------------------------------------------------------
(* What a step does to the run                                             *)

\* The fields of a run, but pc, display and tries.
Rows(r, s) ==
    /\ r.by = s.by /\ r.snap = s.snap /\ r.todo = s.todo /\ r.chunk = s.chunk
    /\ r.some = s.some /\ r.lost = s.lost

LEMMA GoFacts ==
    ASSUME TypeOK, NEW pc, Go(pc),
           pc \in {"idle", "config", "started", "snapshot", "lookup", "select",
                   "max", "conversation", "insert", "reset", "result"}
    PROVE  run' \in Run /\ run'.pc = pc /\ Rows(run', run)
<1>1. run \in Run /\ run' = [run EXCEPT !.pc = pc]
  BY DEF TypeOK, Go
<1> QED
  BY <1>1, Zenon DEF Run, Rows

LEMMA StartFacts ==
    ASSUME TypeOK, NEW t \in Triggers, StartRun(t)
    PROVE  /\ run' \in Run /\ run'.pc = "config" /\ run'.by = t
           /\ run'.snap = {} /\ run'.todo = {} /\ run'.chunk = {}
           /\ run.by = Nothing /\ waiting' = waiting \ {t}
           /\ UNCHANGED <<imports, faults>> /\ Alone
<1>1. run' = [NoRun EXCEPT !.by = t, !.pc = "config"]
  BY DEF StartRun
<1>2. NoRun \in Run /\ NoRun.snap = {} /\ NoRun.todo = {} /\ NoRun.chunk = {}
  BY BusyFacts DEF NoRun
<1>3. /\ run' \in Run /\ run'.pc = "config" /\ run'.by = t
      /\ run'.snap = NoRun.snap /\ run'.todo = NoRun.todo /\ run'.chunk = NoRun.chunk
  BY <1>1, <1>2, Zenon DEF Run
<1> QED
  BY <1>2, <1>3, Zenon DEF StartRun

LEMMA SnapshotFacts ==
    ASSUME TypeOK, Snapshot
    PROVE  /\ run.pc = "snapshot"
           /\ run' \in Run /\ run'.pc = "lookup" /\ run'.by = run.by
           /\ run'.snap = feed /\ run'.todo = feed \ Cut /\ run'.chunk = run.chunk
           /\ contacts' \in {contacts, contacts \cup (IF feed = {} THEN {} ELSE {"ident"})}
           /\ UNCHANGED <<waiting, imports, faults, convs, reopen, cache, lock, call, slips>>
           /\ KeepRest
<1> DEFINE l == IF run.by = "cron" THEN missed ELSE {}
<1>1. /\ run' = [run EXCEPT !.pc = "lookup", !.snap = feed, !.todo = feed \ Cut, !.lost = l]
      /\ run \in Run
  BY Zenon DEF Snapshot, TypeOK
<1>2. l \in SUBSET Live /\ feed \in SUBSET Synced /\ feed \ Cut \in SUBSET Synced
  BY DEF TypeOK
<1> HIDE DEF l
<1>3. /\ run' \in Run /\ run'.pc = "lookup" /\ run'.by = run.by
      /\ run'.snap = feed /\ run'.todo = feed \ Cut /\ run'.chunk = run.chunk
  BY <1>1, <1>2, Zenon DEF Run
<1> QED
  BY <1>3, Zenon DEF Snapshot, Running

LEMMA LookupFacts ==
    ASSUME TypeOK, NEW S \in SUBSET Synced, Lookup(S)
    PROVE  /\ run.pc = "lookup"
           /\ run' \in Run /\ run'.pc \in {"lookup", "select"} /\ run'.by = run.by
           /\ run'.snap = run.snap /\ run'.todo = run.todo \ S
           /\ run'.chunk \subseteq S
           /\ \A m \in S : m \in run'.chunk <=> ~InChatwoot(m)
           /\ run'.pc = "lookup" => run'.chunk = {}
           /\ contacts' \subseteq contacts \cup {"ident"}
           /\ UNCHANGED <<waiting, imports, faults, convs, reopen, cache, lock, call, slips>>
           /\ KeepRest
<1> DEFINE fresh == {m \in S : ~InChatwoot(m)}
           pc == IF fresh = {} THEN "lookup" ELSE "select"
           rest == run.todo \ S
<1>1. run' = [run EXCEPT !.todo = rest, !.chunk = fresh, !.pc = pc] /\ run \in Run
  BY Zenon DEF Lookup, TypeOK
<1>2. contacts' = (IF fresh = {} THEN contacts ELSE contacts \cup {"ident"})
  BY Zenon DEF Lookup
<1>3. fresh \subseteq S /\ \A m \in S : m \in fresh <=> ~InChatwoot(m)
  BY Zenon
<1>4. rest \in SUBSET Synced
  BY DEF TypeOK, Run
<1> HIDE DEF fresh, rest
<1>5. pc \in {"lookup", "select"} /\ (pc = "lookup" => fresh = {})
  OBVIOUS
<1>6. contacts' \subseteq contacts \cup {"ident"}
  BY <1>2
<1> HIDE DEF pc
<1>7. fresh \in SUBSET Synced
  BY <1>3
<1>8. pc \in {"idle", "config", "started", "snapshot", "lookup", "select",
              "max", "conversation", "insert", "reset", "result"}
  BY <1>5
<1>9. run' \in Run
  BY <1>1, <1>4, <1>7, <1>8, Zenon DEF Run
<1>10. /\ run'.pc = pc /\ run'.by = run.by
       /\ run'.snap = run.snap /\ run'.todo = rest /\ run'.chunk = fresh
  BY <1>1, Zenon DEF Run
<1>11. /\ run.pc = "lookup" /\ KeepRest
       /\ UNCHANGED <<waiting, imports, faults, convs, reopen, cache, lock, call, slips>>
  BY Zenon DEF Lookup, Running
<1>12. rest = run.todo \ S
  BY DEF rest
<1>13. run'.chunk \subseteq S /\ \A m \in S : m \in run'.chunk <=> ~InChatwoot(m)
  BY <1>3, <1>10
<1> QED
  BY <1>5, <1>6, <1>9, <1>10, <1>11, <1>12, <1>13, Zenon

LEMMA NextDisplayFacts ==
    ASSUME TypeOK, NextDisplay
    PROVE  /\ run.pc = "max"
           /\ run' \in Run /\ run'.pc = "conversation" /\ Rows(run', run)
           /\ UNCHANGED <<waiting, imports, faults>> /\ Alone
<1> DEFINE n == Len(convs) + 1
<1>1. run' = [run EXCEPT !.pc = "conversation", !.display = n] /\ run \in Run
  BY Zenon DEF NextDisplay, TypeOK
<1>2. n \in 0..(MaxConvs + 1)
  BY HistoryAssumption DEF TypeOK
<1> HIDE DEF n
<1>3. run' \in Run /\ run'.pc = "conversation" /\ Rows(run', run)
  BY <1>1, <1>2, Zenon DEF Run, Rows
<1> QED
  BY <1>3, Zenon DEF NextDisplay, Running

LEMMA InsertConversationFacts ==
    ASSUME TypeOK, InsertConversation
    PROVE  /\ run.pc = "conversation" /\ NewConv("ident")
           /\ run' \in Run /\ run'.pc = "insert" /\ Rows(run', run)
           /\ UNCHANGED <<waiting, imports, faults, contacts, reopen, cache, lock, call, slips>>
           /\ KeepRest
<1>1. run' = [run EXCEPT !.pc = "insert", !.display = 0, !.tries = 0] /\ run \in Run
  BY Zenon DEF InsertConversation, TypeOK
<1>2. 0 \in 0..(MaxConvs + 1) /\ 0 \in 0..(MaxAttempts - 1)
  BY HistoryAssumption
<1>3. run' \in Run /\ run'.pc = "insert" /\ Rows(run', run)
  BY <1>1, <1>2, Zenon DEF Run, Rows
<1> QED
  BY <1>3, Zenon DEF InsertConversation, Running

LEMMA DisplayTakenFacts ==
    ASSUME TypeOK, DisplayTaken
    PROVE  /\ run.pc = "conversation" /\ run' \in Run
           /\ \/ run'.pc = "insert" /\ Rows(run', run)
              \/ run'.pc = "max" /\ Rows(run', run) /\ Of("ident") = {}
              \/ run' = NoRun
           /\ UNCHANGED <<waiting, imports, faults>> /\ Alone
<1>1. run \in Run /\ run.tries \in 0..(MaxAttempts - 1)
  BY DEF TypeOK, Run
<1>2. 0 \in 0..(MaxConvs + 1) /\ 0 \in 0..(MaxAttempts - 1)
  BY HistoryAssumption
<1>3. ASSUME run' = [run EXCEPT !.pc = "insert", !.display = 0, !.tries = 0]
      PROVE  run' \in Run /\ run'.pc = "insert" /\ Rows(run', run)
  BY <1>1, <1>2, <1>3, Zenon DEF Run, Rows
<1>4. ASSUME Retries,
             run' = [run EXCEPT !.pc = "max", !.display = 0, !.tries = run.tries + 1]
      PROVE  run' \in Run /\ run'.pc = "max" /\ Rows(run', run)
  <2>1. run.tries + 1 \in 0..(MaxAttempts - 1)
    BY <1>1, <1>4, HistoryAssumption DEF Retries
  <2> QED
    BY <1>1, <1>2, <1>4, <2>1, Zenon DEF Run, Rows
<1>5. \/ run' = [run EXCEPT !.pc = "insert", !.display = 0, !.tries = 0]
      \/ /\ Retries /\ Of("ident") = {}
         /\ run' = [run EXCEPT !.pc = "max", !.display = 0, !.tries = run.tries + 1]
      \/ run' = NoRun
  BY Zenon DEF DisplayTaken
<1>6. /\ run.pc = "conversation"
      /\ UNCHANGED <<waiting, imports, faults>> /\ Alone
  BY Zenon DEF DisplayTaken, Running
<1> QED
  BY <1>3, <1>4, <1>5, <1>6, BusyFacts, Zenon

LEMMA InsertFacts ==
    ASSUME TypeOK, Insert
    PROVE  /\ run.pc = "insert" /\ imports' = Written
           /\ run' \in Run /\ run'.pc = "lookup" /\ run'.by = run.by
           /\ run'.snap = run.snap /\ run'.todo = run.todo /\ run'.chunk = {}
           /\ UNCHANGED <<waiting, faults>> /\ Alone
<1> DEFINE s == run.by = "cron"
<1>1. run' = [run EXCEPT !.pc = "lookup", !.chunk = {}, !.some = s] /\ run \in Run
  BY Zenon DEF Insert, TypeOK
<1>2. s \in BOOLEAN /\ {} \in SUBSET Synced
  BY Zenon
<1> HIDE DEF s
<1>3. /\ run' \in Run /\ run'.pc = "lookup" /\ run'.by = run.by
      /\ run'.snap = run.snap /\ run'.todo = run.todo /\ run'.chunk = {}
  BY <1>1, <1>2, Zenon DEF Run
<1> QED
  BY <1>3, Zenon DEF Insert, Running

LEMMA ResetFacts ==
    ASSUME TypeOK, Reset
    PROVE  /\ run.pc = "lookup" /\ run.todo = {} /\ feed' = {}
           /\ erased' = erased \cup (feed \ run.snap) \cup (run.snap \cap Cut)
           /\ run' \in Run /\ run'.pc = "result" /\ run'.chunk = {}
           /\ Resolve("run", "ops", "ops")
           /\ UNCHANGED <<waiting, imports, arrived, liveVars>>
           /\ UNCHANGED <<convs, contacts, reopen, cache, lock, slips, faults>>
<1> DEFINE b == run.by
           s == run.some
           l == run.lost
<1>1. run' = [NoRun EXCEPT !.by = b, !.pc = "result", !.some = s, !.lost = l]
  BY Zenon DEF Reset
<1>2. b \in Triggers \cup {Nothing} /\ s \in BOOLEAN /\ l \in SUBSET Live
  BY Zenon DEF TypeOK, Run
<1>3. NoRun \in Run /\ NoRun.chunk = {}
  BY BusyFacts DEF NoRun
<1> HIDE DEF b, s, l
<1>4. run' \in Run /\ run'.pc = "result" /\ run'.chunk = NoRun.chunk
  BY <1>1, <1>2, <1>3, Zenon DEF Run
<1> QED
  BY <1>3, <1>4, Zenon DEF Reset, Running

LEMMA EndFacts ==
    ASSUME TypeOK, EndRun
    PROVE  /\ run.pc = "result" /\ run' = NoRun
           /\ call' \in [Callers -> Call] /\ call'["run"] = NoCall
           /\ \/ /\ call'["mirror"] = call["mirror"]
                 /\ UNCHANGED <<cache, lock, slips>>
              \/ /\ job = Nothing /\ call'["mirror"] = call["mirror"]
                 /\ UNCHANGED slips /\ lock' = [k \in Keys |-> Nothing]
                 /\ cache' = [k \in Keys |-> 0]
              \/ /\ call'["mirror"].pc = call["mirror"].pc
                 /\ call'["mirror"].key = call["mirror"].key
                 /\ call'["mirror"].contact = call["mirror"].contact
                 /\ slips' = slips \cup {CallContact("mirror")}
                 /\ lock' = [k \in Keys |-> Nothing]
                 /\ cache' = [k \in Keys |-> 0]
           /\ UNCHANGED <<waiting, imports, convs, contacts, reopen, faults>> /\ KeepRest
<1> DEFINE stale == [call["mirror"] EXCEPT !.stale = TRUE]
           m == IF job = Nothing THEN call["mirror"] ELSE stale
<1>1. call \in [Callers -> Call] /\ "run" \in Callers /\ "mirror" \in Callers
  BY DEF TypeOK, Callers
<1>2. call["mirror"] \in Call
  BY <1>1
<1>3. /\ stale \in Call /\ stale.pc = call["mirror"].pc /\ stale.key = call["mirror"].key
      /\ stale.contact = call["mirror"].contact
  BY <1>2, Zenon DEF Call
<1> HIDE DEF stale
<1>4. m \in Call
  BY <1>2, <1>3
<1>5. /\ run.pc = "result" /\ run' = NoRun
      /\ UNCHANGED <<waiting, imports, convs, contacts, reopen, faults>> /\ KeepRest
  BY Zenon DEF EndRun, Running
<1>6. \/ /\ cache' = [k \in Keys |-> 0] /\ lock' = [k \in Keys |-> Nothing]
         /\ call' = [call EXCEPT !["run"] = NoCall, !["mirror"] = m]
         /\ slips' = (IF job = Nothing THEN slips ELSE slips \cup {CallContact("mirror")})
      \/ Hang("run") /\ UNCHANGED <<cache, lock, slips>>
  BY Zenon DEF EndRun, stale
<1>7. CASE Hang("run") /\ UNCHANGED <<cache, lock, slips>>
  BY <1>1, <1>5, <1>7, HangFacts DEF Callers
<1>8. CASE /\ cache' = [k \in Keys |-> 0] /\ lock' = [k \in Keys |-> Nothing]
           /\ call' = [call EXCEPT !["run"] = NoCall, !["mirror"] = m]
           /\ slips' = (IF job = Nothing THEN slips ELSE slips \cup {CallContact("mirror")})
  <2> HIDE DEF m
  <2>1. NoCall \in Call
    BY BusyFacts
  <2>2. [call EXCEPT !["run"] = NoCall] \in [Callers -> Call]
    BY <1>1, <2>1
  <2>3. call' = [[call EXCEPT !["run"] = NoCall] EXCEPT !["mirror"] = m]
    BY <1>8, Zenon
  <2>4. call' \in [Callers -> Call] /\ call'["run"] = NoCall /\ call'["mirror"] = m
    BY <1>1, <1>4, <2>2, <2>3
  <2> QED
    BY <1>3, <1>5, <1>8, <2>4 DEF m
<1> QED
  BY <1>6, <1>7, <1>8

-----------------------------------------------------------------------------
(* Types                                                                   *)

SetsOK ==
    /\ feed \in SUBSET Synced
    /\ arrived \in SUBSET Synced
    /\ waiting \in SUBSET Triggers
    /\ mirrored \in SUBSET Live
    /\ missed \in SUBSET Live
    /\ job \in Live \cup {Nothing, "notice"}
    /\ contacts \in SUBSET (Contacts \ {"ops"})
    /\ erased \in SUBSET Synced
    /\ slips \in SUBSET Contacts
    /\ reopen \in Reopen
    /\ faults \in 0..MaxFaults

RunOK == run \in Run /\ imports \in [Messages -> 0..2]

ConvOK == convs \in Seq(Conversation) /\ Len(convs) <= MaxConvs

CallOK ==
    /\ cache \in [Keys -> ConvId \cup {0}]
    /\ lock \in [Keys -> Callers \cup {Nothing}]
    /\ call \in [Callers -> Call]

LEMMA TypeParts == TypeOK <=> SetsOK /\ RunOK /\ ConvOK /\ CallOK
  BY DEF TypeOK, SetsOK, RunOK, ConvOK, CallOK

\* The sets.
LEMMA SetsStep == TypeOK /\ [Next]_vars => SetsOK'
<1> SUFFICES ASSUME TypeOK, [Next]_vars PROVE SetsOK'
  OBVIOUS
<1> USE HistoryAssumption DEF SetsOK
<1>a. SetsOK
  BY TypeParts
<1> USE <1>a
<1>1. ASSUME NEW m \in Synced, Observe(m) PROVE SetsOK'
  BY <1>1 DEF Observe, Alone, KeepRest, feedVars, runVars, liveVars, convVars, Fault
<1>2. ASSUME NEW t \in Triggers, Trigger(t) PROVE SetsOK'
  BY <1>2 DEF Trigger, Alone, KeepRest, feedVars, runVars, liveVars, convVars
<1>3. ASSUME NEW t \in Triggers, GiveUp(t) PROVE SetsOK'
  BY <1>3 DEF GiveUp, Alone, KeepRest, feedVars, runVars, liveVars, convVars, Fault
<1>4. ASSUME NEW t \in Triggers, StartRun(t) PROVE SetsOK'
  BY <1>4, StartFacts DEF Alone, KeepRest, feedVars, runVars, liveVars, convVars
<1>5. CASE Inert
  BY <1>5 DEF Inert, Alone, KeepRest, feedVars, runVars, liveVars, convVars
<1>6. CASE Announce
  BY <1>6 DEF Announce, Alone, KeepRest, feedVars, runVars, liveVars, convVars
<1>7. CASE Announced
  BY <1>7 DEF Announced, Alone, KeepRest, feedVars, runVars, liveVars, convVars
<1>8. CASE Snapshot
  BY <1>8, SnapshotFacts DEF Alone, KeepRest, feedVars, runVars, liveVars, convVars, Contacts,
     Running
<1>9. ASSUME NEW S \in SUBSET Synced, Lookup(S) PROVE SetsOK'
  BY <1>9, LookupFacts DEF Alone, KeepRest, feedVars, runVars, liveVars, convVars, Contacts,
     Running
<1>10. CASE Select
  BY <1>10 DEF Select, Alone, KeepRest, feedVars, runVars, liveVars, convVars, Contacts,
     Running
<1>11. CASE NextDisplay
  BY <1>11, NextDisplayFacts DEF Alone, KeepRest, feedVars, runVars, liveVars, convVars
<1>12. CASE InsertConversation
  BY <1>12, InsertConversationFacts DEF Alone, KeepRest, feedVars, runVars, liveVars, convVars
<1>13. CASE DisplayTaken
  BY <1>13, DisplayTakenFacts DEF Alone, KeepRest, feedVars, runVars, liveVars, convVars
<1>14. CASE Insert
  BY <1>14, InsertFacts DEF Alone, KeepRest, feedVars, runVars, liveVars, convVars
<1>15. CASE InsertFails
  BY <1>15 DEF InsertFails, Alone, KeepRest, feedVars, runVars, liveVars, convVars, Fault
<1>16. CASE RunFails
  BY <1>16 DEF RunFails, Alone, KeepRest, feedVars, runVars, liveVars, convVars, Fault
<1>17. CASE Reset
  BY <1>17, ResetFacts DEF TypeOK, Run, Alone, KeepRest, feedVars, runVars, liveVars, convVars
<1>18. CASE EndRun
  BY <1>18, EndFacts, KeyType DEF Alone, KeepRest, feedVars, runVars, liveVars, convVars,
     Callers
<1>19. ASSUME NEW m \in Live, NEW x \in Contacts, MirrorMessage(m, x) PROVE SetsOK'
  BY <1>19 DEF MirrorMessage, Alone, KeepRest, feedVars, runVars, liveVars, convVars, Contacts,
     Running
<1>20. CASE MirrorNotice
  BY <1>20 DEF MirrorNotice, Alone, KeepRest, feedVars, runVars, liveVars, convVars
<1>21. CASE MirrorPosts
  BY <1>21 DEF MirrorPosts, Alone, KeepRest, feedVars, runVars, liveVars, convVars
<1>22. CASE MirrorFails
  BY <1>22 DEF MirrorFails, Alone, KeepRest, feedVars, runVars, liveVars, convVars
<1>23. ASSUME NEW c \in Callers, CheckCache(c) PROVE SetsOK'
  BY <1>23 DEF CheckCache, Others, Alone, KeepRest, feedVars, runVars, liveVars, convVars,
     Fault
<1>24. ASSUME NEW c \in Callers, Acquire(c) PROVE SetsOK'
  BY <1>24 DEF Acquire, Others, Alone, KeepRest, feedVars, runVars, liveVars, convVars, Fault
<1>25. ASSUME NEW c \in Callers, AcquireTimeout(c) PROVE SetsOK'
  BY <1>25 DEF AcquireTimeout, Others, Alone, KeepRest, feedVars, runVars, liveVars, convVars,
     Fault
<1>26. ASSUME NEW c \in Callers, List(c) PROVE SetsOK'
  BY <1>26, KeyType DEF List, Others, Alone, KeepRest, feedVars, runVars, liveVars, convVars,
     CallContact, Step, Store, Release
<1>27. ASSUME NEW c \in Callers, Create(c) PROVE SetsOK'
  BY <1>27 DEF Create, Others, Alone, KeepRest, feedVars, runVars, liveVars, convVars
<1>28. ASSUME NEW c \in Callers, CreateUnanswered(c) PROVE SetsOK'
  BY <1>28 DEF CreateUnanswered, Others, Alone, KeepRest, feedVars, runVars, liveVars,
     convVars, Fault
<1>29. ASSUME NEW c \in Callers, ResolveFails(c) PROVE SetsOK'
  BY <1>29 DEF ResolveFails, Others, Alone, KeepRest, feedVars, runVars, liveVars, convVars,
     Fault
<1>30. ASSUME NEW k \in Keys, LockExpires(k) PROVE SetsOK'
  BY <1>30 DEF LockExpires, Others, Alone, KeepRest, feedVars, runVars, liveVars, convVars,
     Fault, ContactsOf, Contacts
<1>31. CASE Reconfigure
  BY <1>31, KeyType DEF Reconfigure, Others, Alone, KeepRest, feedVars, runVars, liveVars,
     convVars, Fault, NewResolver, CallContact
<1>32. ASSUME NEW i \in ConvId, Close(i) PROVE SetsOK'
  BY <1>32 DEF Close, Others, Alone, KeepRest, feedVars, runVars, liveVars, convVars, Fault
<1>33. CASE Restart
  BY <1>33 DEF Restart, Alone, KeepRest, feedVars, runVars, liveVars, convVars, Fault
<1>34. CASE UNCHANGED vars
  BY <1>34 DEF vars, Alone, KeepRest, feedVars, runVars, liveVars, convVars
<1> QED
  BY <1>1, <1>2, <1>3, <1>4, <1>5, <1>6, <1>7, <1>8, <1>9, <1>10, <1>11, <1>12, <1>13, <1>14,
     <1>15, <1>16, <1>17, <1>18, <1>19, <1>20, <1>21, <1>22, <1>23, <1>24, <1>25, <1>26, <1>27,
     <1>28, <1>29, <1>30, <1>31, <1>32, <1>33, <1>34 DEF Next, ImportStep, Resolution

\* The run and what it wrote.
LEMMA RunStep == TypeOK /\ RunInv /\ ImportedOnce /\ [Next]_vars => RunOK'
<1> SUFFICES ASSUME TypeOK, RunInv, ImportedOnce, [Next]_vars PROVE RunOK'
  OBVIOUS
<1> USE DEF RunOK
<1>a. RunOK
  BY TypeParts
<1> USE <1>a
<1>1. ASSUME NEW m \in Synced, Observe(m) PROVE RunOK'
  BY <1>1 DEF Observe, Alone, KeepRest, feedVars, runVars, liveVars, convVars
<1>2. ASSUME NEW t \in Triggers, Trigger(t) PROVE RunOK'
  BY <1>2 DEF Trigger, Alone, KeepRest, feedVars, runVars, liveVars, convVars
<1>3. ASSUME NEW t \in Triggers, GiveUp(t) PROVE RunOK'
  BY <1>3 DEF GiveUp, Alone, KeepRest, feedVars, runVars, liveVars, convVars
<1>4. ASSUME NEW t \in Triggers, StartRun(t) PROVE RunOK'
  BY <1>4, StartFacts DEF Alone, KeepRest, feedVars, runVars, liveVars, convVars
<1>5. CASE Inert
  BY <1>5, BusyFacts DEF Inert, Alone, KeepRest, feedVars, runVars, liveVars, convVars
<1>6. CASE Announce
  <2>1. run' \in Run
    BY <1>6, GoFacts DEF Announce
  <2> QED
    BY <1>6, <2>1 DEF Announce
<1>7. CASE Announced
  <2>1. run' \in Run
    BY <1>7, GoFacts DEF Announced
  <2> QED
    BY <1>7, <2>1 DEF Announced
<1>8. CASE Snapshot
  BY <1>8, SnapshotFacts DEF Alone, KeepRest, feedVars, runVars, liveVars, convVars
<1>9. ASSUME NEW S \in SUBSET Synced, Lookup(S) PROVE RunOK'
  BY <1>9, LookupFacts DEF Alone, KeepRest, feedVars, runVars, liveVars, convVars
<1>10. CASE Select
  <2>1. run' \in Run
    BY <1>10, GoFacts DEF Select
  <2> QED
    BY <1>10, <2>1 DEF Select
<1>11. CASE NextDisplay
  BY <1>11, NextDisplayFacts DEF Alone, KeepRest, feedVars, runVars, liveVars, convVars
<1>12. CASE InsertConversation
  BY <1>12, InsertConversationFacts DEF Alone, KeepRest, feedVars, runVars, liveVars, convVars
<1>13. CASE DisplayTaken
  BY <1>13, DisplayTakenFacts DEF Alone, KeepRest, feedVars, runVars, liveVars, convVars
<1>14. CASE Insert
  <2>1. Written \in [Messages -> 0..2]
    BY <1>a DEF Written, RunInv, ImportedOnce, Run
  <2> QED
    BY <1>14, <2>1, InsertFacts
<1>15. CASE InsertFails
  <2>1. Written \in [Messages -> 0..2]
    BY <1>a DEF Written, RunInv, ImportedOnce, Run
  <2> QED
    BY <1>15, <2>1, BusyFacts DEF InsertFails
<1>16. CASE RunFails
  BY <1>16, BusyFacts DEF RunFails, Alone, KeepRest, feedVars, runVars, liveVars, convVars
<1>17. CASE Reset
  BY <1>17, ResetFacts DEF Alone, KeepRest, feedVars, runVars, liveVars, convVars
<1>18. CASE EndRun
  BY <1>18, EndFacts, BusyFacts
<1>19. ASSUME NEW m \in Live, NEW x \in Contacts, MirrorMessage(m, x) PROVE RunOK'
  BY <1>19 DEF MirrorMessage, Alone, KeepRest, feedVars, runVars, liveVars, convVars
<1>20. CASE MirrorNotice
  BY <1>20 DEF MirrorNotice, Alone, KeepRest, feedVars, runVars, liveVars, convVars
<1>21. CASE MirrorPosts
  BY <1>21 DEF MirrorPosts, Alone, KeepRest, feedVars, runVars, liveVars, convVars
<1>22. CASE MirrorFails
  BY <1>22 DEF MirrorFails, Alone, KeepRest, feedVars, runVars, liveVars, convVars
<1>23. ASSUME NEW c \in Callers, CheckCache(c) PROVE RunOK'
  BY <1>23 DEF CheckCache, Others, Alone, KeepRest, feedVars, runVars, liveVars, convVars
<1>24. ASSUME NEW c \in Callers, Acquire(c) PROVE RunOK'
  BY <1>24 DEF Acquire, Others, Alone, KeepRest, feedVars, runVars, liveVars, convVars
<1>25. ASSUME NEW c \in Callers, AcquireTimeout(c) PROVE RunOK'
  BY <1>25 DEF AcquireTimeout, Others, Alone, KeepRest, feedVars, runVars, liveVars, convVars
<1>26. ASSUME NEW c \in Callers, List(c) PROVE RunOK'
  BY <1>26 DEF List, Others, Alone, KeepRest, feedVars, runVars, liveVars, convVars
<1>27. ASSUME NEW c \in Callers, Create(c) PROVE RunOK'
  BY <1>27 DEF Create, Others, Alone, KeepRest, feedVars, runVars, liveVars, convVars
<1>28. ASSUME NEW c \in Callers, CreateUnanswered(c) PROVE RunOK'
  BY <1>28 DEF CreateUnanswered, Others, Alone, KeepRest, feedVars, runVars, liveVars, convVars
<1>29. ASSUME NEW c \in Callers, ResolveFails(c) PROVE RunOK'
  BY <1>29 DEF ResolveFails, Others, Alone, KeepRest, feedVars, runVars, liveVars, convVars
<1>30. ASSUME NEW k \in Keys, LockExpires(k) PROVE RunOK'
  BY <1>30 DEF LockExpires, Others, Alone, KeepRest, feedVars, runVars, liveVars, convVars
<1>31. CASE Reconfigure
  BY <1>31 DEF Reconfigure, Others, Alone, KeepRest, feedVars, runVars, liveVars, convVars
<1>32. ASSUME NEW i \in ConvId, Close(i) PROVE RunOK'
  BY <1>32 DEF Close, Others, Alone, KeepRest, feedVars, runVars, liveVars, convVars
<1>33. CASE Restart
  BY <1>33, BusyFacts DEF Restart, Alone, KeepRest, feedVars, runVars, liveVars, convVars
<1>34. CASE UNCHANGED vars
  BY <1>34 DEF vars, Alone, KeepRest, feedVars, runVars, liveVars, convVars
<1> QED
  BY <1>1, <1>2, <1>3, <1>4, <1>5, <1>6, <1>7, <1>8, <1>9, <1>10, <1>11, <1>12, <1>13, <1>14,
     <1>15, <1>16, <1>17, <1>18, <1>19, <1>20, <1>21, <1>22, <1>23, <1>24, <1>25, <1>26, <1>27,
     <1>28, <1>29, <1>30, <1>31, <1>32, <1>33, <1>34 DEF Next, ImportStep, Resolution

\* The conversations.
LEMMA ConvStep == TypeOK /\ [Next]_vars => ConvOK'
<1> SUFFICES ASSUME TypeOK, [Next]_vars PROVE ConvOK'
  OBVIOUS
<1> USE DEF ConvOK
<1>a. ConvOK
  BY TypeParts
<1> USE <1>a
<1>1. ASSUME NEW m \in Synced, Observe(m) PROVE ConvOK'
  BY <1>1 DEF Observe, Alone, KeepRest, feedVars, runVars, liveVars, convVars
<1>2. ASSUME NEW t \in Triggers, Trigger(t) PROVE ConvOK'
  BY <1>2 DEF Trigger, Alone, KeepRest, feedVars, runVars, liveVars, convVars
<1>3. ASSUME NEW t \in Triggers, GiveUp(t) PROVE ConvOK'
  BY <1>3 DEF GiveUp, Alone, KeepRest, feedVars, runVars, liveVars, convVars
<1>4. ASSUME NEW t \in Triggers, StartRun(t) PROVE ConvOK'
  BY <1>4, StartFacts DEF Alone, KeepRest, feedVars, runVars, liveVars, convVars
<1>5. CASE Inert
  BY <1>5 DEF Inert, Alone, KeepRest, feedVars, runVars, liveVars, convVars
<1>6. CASE Announce
  BY <1>6 DEF Announce, Alone, KeepRest, feedVars, runVars, liveVars, convVars
<1>7. CASE Announced
  BY <1>7 DEF Announced, Alone, KeepRest, feedVars, runVars, liveVars, convVars
<1>8. CASE Snapshot
  BY <1>8, SnapshotFacts DEF Alone, KeepRest, feedVars, runVars, liveVars, convVars
<1>9. ASSUME NEW S \in SUBSET Synced, Lookup(S) PROVE ConvOK'
  BY <1>9, LookupFacts DEF Alone, KeepRest, feedVars, runVars, liveVars, convVars
<1>10. CASE Select
  BY <1>10 DEF Select, Alone, KeepRest, feedVars, runVars, liveVars, convVars
<1>11. CASE NextDisplay
  BY <1>11, NextDisplayFacts DEF Alone, KeepRest, feedVars, runVars, liveVars, convVars
<1>12. CASE InsertConversation
  BY <1>12, InsertConversationFacts, NewConvFacts DEF Contacts
<1>13. CASE DisplayTaken
  BY <1>13, DisplayTakenFacts DEF Alone, KeepRest, feedVars, runVars, liveVars, convVars
<1>14. CASE Insert
  BY <1>14, InsertFacts DEF Alone, KeepRest, feedVars, runVars, liveVars, convVars
<1>15. CASE InsertFails
  BY <1>15 DEF InsertFails, Alone, KeepRest, feedVars, runVars, liveVars, convVars
<1>16. CASE RunFails
  BY <1>16 DEF RunFails, Alone, KeepRest, feedVars, runVars, liveVars, convVars
<1>17. CASE Reset
  BY <1>17, ResetFacts DEF Alone, KeepRest, feedVars, runVars, liveVars, convVars
<1>18. CASE EndRun
  BY <1>18, EndFacts DEF Alone, KeepRest, feedVars, runVars, liveVars, convVars
<1>19. ASSUME NEW m \in Live, NEW x \in Contacts, MirrorMessage(m, x) PROVE ConvOK'
  BY <1>19 DEF MirrorMessage, Alone, KeepRest, feedVars, runVars, liveVars, convVars
<1>20. CASE MirrorNotice
  BY <1>20 DEF MirrorNotice, Alone, KeepRest, feedVars, runVars, liveVars, convVars
<1>21. CASE MirrorPosts
  BY <1>21 DEF MirrorPosts, Alone, KeepRest, feedVars, runVars, liveVars, convVars
<1>22. CASE MirrorFails
  BY <1>22 DEF MirrorFails, Alone, KeepRest, feedVars, runVars, liveVars, convVars
<1>23. ASSUME NEW c \in Callers, CheckCache(c) PROVE ConvOK'
  BY <1>23 DEF CheckCache, Others, Alone, KeepRest, feedVars, runVars, liveVars, convVars
<1>24. ASSUME NEW c \in Callers, Acquire(c) PROVE ConvOK'
  BY <1>24 DEF Acquire, Others, Alone, KeepRest, feedVars, runVars, liveVars, convVars
<1>25. ASSUME NEW c \in Callers, AcquireTimeout(c) PROVE ConvOK'
  BY <1>25 DEF AcquireTimeout, Others, Alone, KeepRest, feedVars, runVars, liveVars, convVars
<1>26. ASSUME NEW c \in Callers, List(c) PROVE ConvOK'
  <2>1. CASE Open(CallContact(c)) = {} /\ Of(CallContact(c)) /= {} /\ reopen
    <3>1. Newest(Of(CallContact(c))) \in DOMAIN convs
      BY <2>1, OfFacts
    <3>2. convs' = [convs EXCEPT ![Newest(Of(CallContact(c)))].status = "open"]
      BY <1>26, <2>1 DEF List
    <3> QED
      BY <3>1, <3>2, StatusFacts
  <2>2. CASE ~(Open(CallContact(c)) = {} /\ Of(CallContact(c)) /= {} /\ reopen)
    BY <1>26, <2>2 DEF List
  <2> QED
    BY <2>1, <2>2
<1>27. ASSUME NEW c \in Callers, Create(c) PROVE ConvOK'
  BY <1>27, KeyType, NewConvFacts DEF Create
<1>28. ASSUME NEW c \in Callers, CreateUnanswered(c) PROVE ConvOK'
  BY <1>28, KeyType, NewConvFacts DEF CreateUnanswered
<1>29. ASSUME NEW c \in Callers, ResolveFails(c) PROVE ConvOK'
  BY <1>29 DEF ResolveFails, Others, Alone, KeepRest, feedVars, runVars, liveVars, convVars
<1>30. ASSUME NEW k \in Keys, LockExpires(k) PROVE ConvOK'
  BY <1>30 DEF LockExpires, Others, Alone, KeepRest, feedVars, runVars, liveVars, convVars
<1>31. CASE Reconfigure
  BY <1>31 DEF Reconfigure, NewResolver
<1>32. ASSUME NEW i \in ConvId, Close(i) PROVE ConvOK'
  BY <1>32, StatusFacts DEF Close
<1>33. CASE Restart
  BY <1>33 DEF Restart, Alone, KeepRest, feedVars, runVars, liveVars, convVars
<1>34. CASE UNCHANGED vars
  BY <1>34 DEF vars, Alone, KeepRest, feedVars, runVars, liveVars, convVars
<1> QED
  BY <1>1, <1>2, <1>3, <1>4, <1>5, <1>6, <1>7, <1>8, <1>9, <1>10, <1>11, <1>12, <1>13, <1>14,
     <1>15, <1>16, <1>17, <1>18, <1>19, <1>20, <1>21, <1>22, <1>23, <1>24, <1>25, <1>26, <1>27,
     <1>28, <1>29, <1>30, <1>31, <1>32, <1>33, <1>34 DEF Next, ImportStep, Resolution

\* The calls, their locks and their caches.
LEMMA CallStep == TypeOK /\ [Next]_vars => CallOK'
<1> SUFFICES ASSUME TypeOK, [Next]_vars PROVE CallOK'
  OBVIOUS
<1> USE DEF CallOK
<1>a. CallOK
  BY TypeParts
<1> USE <1>a
<1>1. ASSUME NEW m \in Synced, Observe(m) PROVE CallOK'
  BY <1>1 DEF Observe, Alone, KeepRest, feedVars, runVars, liveVars, convVars
<1>2. ASSUME NEW t \in Triggers, Trigger(t) PROVE CallOK'
  BY <1>2 DEF Trigger, Alone, KeepRest, feedVars, runVars, liveVars, convVars
<1>3. ASSUME NEW t \in Triggers, GiveUp(t) PROVE CallOK'
  BY <1>3 DEF GiveUp, Alone, KeepRest, feedVars, runVars, liveVars, convVars
<1>4. ASSUME NEW t \in Triggers, StartRun(t) PROVE CallOK'
  BY <1>4, StartFacts DEF Alone, KeepRest, feedVars, runVars, liveVars, convVars
<1>5. CASE Inert
  BY <1>5 DEF Inert, Alone, KeepRest, feedVars, runVars, liveVars, convVars
<1>6. CASE Announce
  <2>1. Resolve("run", "ops", "ops")
    BY <1>6 DEF Announce
  <2>2. call' \in [Callers -> Call]
    BY <2>1, ResolveFacts DEF Callers, Keys, Contacts
  <2> QED
    BY <1>6, <2>2 DEF Announce
<1>7. CASE Announced
  <2>1. call' \in [Callers -> Call]
    BY <1>7, HangFacts DEF Announced, Callers
  <2> QED
    BY <1>7, <2>1 DEF Announced
<1>8. CASE Snapshot
  BY <1>8, SnapshotFacts DEF Alone, KeepRest, feedVars, runVars, liveVars, convVars
<1>9. ASSUME NEW S \in SUBSET Synced, Lookup(S) PROVE CallOK'
  BY <1>9, LookupFacts DEF Alone, KeepRest, feedVars, runVars, liveVars, convVars
<1>10. CASE Select
  BY <1>10 DEF Select, Alone, KeepRest, feedVars, runVars, liveVars, convVars
<1>11. CASE NextDisplay
  BY <1>11, NextDisplayFacts DEF Alone, KeepRest, feedVars, runVars, liveVars, convVars
<1>12. CASE InsertConversation
  BY <1>12, InsertConversationFacts DEF Alone, KeepRest, feedVars, runVars, liveVars, convVars
<1>13. CASE DisplayTaken
  BY <1>13, DisplayTakenFacts DEF Alone, KeepRest, feedVars, runVars, liveVars, convVars
<1>14. CASE Insert
  BY <1>14, InsertFacts DEF Alone, KeepRest, feedVars, runVars, liveVars, convVars
<1>15. CASE InsertFails
  BY <1>15 DEF InsertFails, Alone, KeepRest, feedVars, runVars, liveVars, convVars
<1>16. CASE RunFails
  BY <1>16 DEF RunFails, Alone, KeepRest, feedVars, runVars, liveVars, convVars
<1>17. CASE Reset
  <2>1. call' \in [Callers -> Call]
    BY <1>17, ResetFacts, ResolveFacts DEF Callers, Keys, Contacts
  <2> QED
    BY <1>17, <2>1, ResetFacts
<1>18. CASE EndRun
  BY <1>18, EndFacts
<1>19. ASSUME NEW m \in Live, NEW x \in Contacts, MirrorMessage(m, x) PROVE CallOK'
  <2>1. Resolve("mirror", "chat", x)
    BY <1>19 DEF MirrorMessage
  <2>2. call' \in [Callers -> Call]
    BY <2>1, ResolveFacts DEF Callers, Keys, Contacts
  <2> QED
    BY <1>19, <2>2 DEF MirrorMessage
<1>20. CASE MirrorNotice
  <2>1. Resolve("mirror", "ops", "ops")
    BY <1>20 DEF MirrorNotice
  <2>2. call' \in [Callers -> Call]
    BY <2>1, ResolveFacts DEF Callers, Keys, Contacts
  <2> QED
    BY <1>20, <2>2 DEF MirrorNotice
<1>21. CASE MirrorPosts
  <2>1. call' \in [Callers -> Call]
    BY <1>21, HangFacts DEF MirrorPosts, Callers
  <2> QED
    BY <1>21, <2>1 DEF MirrorPosts
<1>22. CASE MirrorFails
  <2>1. call' \in [Callers -> Call]
    BY <1>22, HangFacts DEF MirrorFails, Callers
  <2> QED
    BY <1>22, <2>1 DEF MirrorFails
<1>23. ASSUME NEW c \in Callers, CheckCache(c) PROVE CallOK'
  <2>1. call' \in [Callers -> Call] /\ lock' = lock
    BY <1>23, StepFacts DEF CheckCache
  <2>2. cache' \in [Keys -> ConvId \cup {0}]
    BY <1>23, StoreFacts DEF CheckCache
  <2> QED
    BY <2>1, <2>2
<1>24. ASSUME NEW c \in Callers, Acquire(c) PROVE CallOK'
  <2>1. call' \in [Callers -> Call] /\ cache' = cache
    BY <1>24, StepFacts DEF Acquire
  <2>2. lock' \in [Keys -> Callers \cup {Nothing}]
    BY <1>24, KeyType DEF Acquire
  <2> QED
    BY <2>1, <2>2
<1>25. ASSUME NEW c \in Callers, AcquireTimeout(c) PROVE CallOK'
  BY <1>25, StepFacts DEF AcquireTimeout
<1>26. ASSUME NEW c \in Callers, List(c) PROVE CallOK'
  <2>1. call' \in [Callers -> Call]
    BY <1>26, StepFacts DEF List
  <2>2. lock' \in [Keys -> Callers \cup {Nothing}]
    BY <1>26, ReleaseFacts DEF List
  <2>3. cache' \in [Keys -> ConvId \cup {0}]
    BY <1>26, StoreFacts, OfFacts, OpenFacts DEF List
  <2> QED
    BY <2>1, <2>2, <2>3
<1>27. ASSUME NEW c \in Callers, Create(c) PROVE CallOK'
  <2>1. NewConv(CallContact(c)) /\ CallContact(c) \in Contacts
    BY <1>27, KeyType DEF Create
  <2>2. Len(convs) + 1 \in ConvId
    BY <2>1, NewConvFacts
  <2> QED
    BY <1>27, <2>2, StepFacts, ReleaseFacts, StoreFacts DEF Create
<1>28. ASSUME NEW c \in Callers, CreateUnanswered(c) PROVE CallOK'
  BY <1>28, StepFacts, ReleaseFacts DEF CreateUnanswered
<1>29. ASSUME NEW c \in Callers, ResolveFails(c) PROVE CallOK'
  BY <1>29, StepFacts, ReleaseFacts DEF ResolveFails
<1>30. ASSUME NEW k \in Keys, LockExpires(k) PROVE CallOK'
  BY <1>30 DEF LockExpires, Others, Alone, KeepRest, feedVars, runVars, liveVars, convVars
<1>31. CASE Reconfigure
  <2>1. ASSUME NEW c \in Callers
        PROVE  (IF Calling(c, "idle") THEN NoCall ELSE [call[c] EXCEPT !.stale = TRUE]) \in Call
    <3>1. call[c] \in Call
      OBVIOUS
    <3>2. [call[c] EXCEPT !.stale = TRUE] \in Call
      BY <3>1, Zenon DEF Call
    <3> QED
      BY <3>2, BusyFacts
  <2>2. call' \in [Callers -> Call]
    BY <1>31, <2>1 DEF Reconfigure, NewResolver
  <2>3. cache' = [k \in Keys |-> 0] /\ lock' = [k \in Keys |-> Nothing]
    BY <1>31 DEF Reconfigure, NewResolver
  <2> QED
    BY <2>2, <2>3
<1>32. ASSUME NEW i \in ConvId, Close(i) PROVE CallOK'
  BY <1>32 DEF Close, Others, Alone, KeepRest, feedVars, runVars, liveVars, convVars
<1>33. CASE Restart
  BY <1>33, BusyFacts DEF Restart
<1>34. CASE UNCHANGED vars
  BY <1>34 DEF vars, Alone, KeepRest, feedVars, runVars, liveVars, convVars
<1> QED
  BY <1>1, <1>2, <1>3, <1>4, <1>5, <1>6, <1>7, <1>8, <1>9, <1>10, <1>11, <1>12, <1>13, <1>14,
     <1>15, <1>16, <1>17, <1>18, <1>19, <1>20, <1>21, <1>22, <1>23, <1>24, <1>25, <1>26, <1>27,
     <1>28, <1>29, <1>30, <1>31, <1>32, <1>33, <1>34 DEF Next, ImportStep, Resolution

-----------------------------------------------------------------------------
(* What a run forgets and what it repeats                                  *)

\* The rows of a run.
LEMMA RunInvStep == TypeOK /\ RunInv /\ [Next]_vars => RunInv'
<1> SUFFICES ASSUME TypeOK, RunInv, [Next]_vars PROVE RunInv'
  OBVIOUS
<1> USE DEF RunInv, InChatwoot, Cut, Importing, Holding
<1>a. run \in Run /\ imports \in [Messages -> 0..2]
  BY DEF TypeOK
<1>1. ASSUME NEW m \in Synced, Observe(m) PROVE RunInv'
  BY <1>1 DEF Observe, Alone, KeepRest, feedVars, runVars, liveVars, convVars
<1>2. ASSUME NEW t \in Triggers, Trigger(t) PROVE RunInv'
  BY <1>2 DEF Trigger, Alone, KeepRest, feedVars, runVars, liveVars, convVars
<1>3. ASSUME NEW t \in Triggers, GiveUp(t) PROVE RunInv'
  BY <1>3 DEF GiveUp, Alone, KeepRest, feedVars, runVars, liveVars, convVars
<1>4. ASSUME NEW t \in Triggers, StartRun(t) PROVE RunInv'
  BY <1>4, StartFacts DEF Alone, KeepRest, feedVars, runVars, liveVars, convVars
<1>5. CASE Inert
  BY <1>5 DEF Inert, Alone, KeepRest, feedVars, runVars, liveVars, convVars, NoRun
<1>6. CASE Announce
  BY <1>6, GoFacts DEF Announce, Rows, Running, Alone, KeepRest, feedVars, runVars, liveVars,
     convVars
<1>7. CASE Announced
  BY <1>7, GoFacts DEF Announced, Rows, Running, Alone, KeepRest, feedVars, runVars, liveVars,
     convVars
<1>8. CASE Snapshot
  BY <1>8, SnapshotFacts DEF Alone, KeepRest, feedVars, runVars, liveVars, convVars
<1>9. ASSUME NEW S \in SUBSET Synced, Lookup(S) PROVE RunInv'
  <2>1. /\ run.pc = "lookup" /\ run.chunk = {}
        /\ run'.by = run.by /\ run'.snap = run.snap /\ run'.todo = run.todo \ S
        /\ run'.chunk \subseteq S /\ \A m \in S : m \in run'.chunk <=> ~InChatwoot(m)
        /\ run'.pc \in {"lookup", "select"}
        /\ run'.pc = "lookup" => run'.chunk = {}
        /\ mirrored' = mirrored /\ imports' = imports
    BY <1>9, LookupFacts DEF Alone, KeepRest, feedVars, runVars, liveVars, convVars
  <2>2. \A m \in run'.snap \ Cut' : m \in run'.todo \cup run'.chunk \/ InChatwoot(m)'
    BY <2>1
  <2>3. \A m \in run'.chunk : imports'[m] = 0
    BY <1>9, <1>a, <2>1 DEF Messages
  <2> QED
    BY <2>1, <2>2, <2>3
<1>10. CASE Select
  BY <1>10, GoFacts DEF Select, Rows, Running, Alone, KeepRest, feedVars, runVars, liveVars,
     convVars
<1>11. CASE NextDisplay
  BY <1>11, NextDisplayFacts DEF Alone, KeepRest, feedVars, runVars, liveVars, convVars, Rows
<1>12. CASE InsertConversation
  BY <1>12, InsertConversationFacts DEF Alone, KeepRest, feedVars, runVars, liveVars, convVars,
     Rows
<1>13. CASE DisplayTaken
  <2>1. CASE run' = NoRun
    BY <2>1 DEF NoRun
  <2>2. CASE run' /= NoRun
    BY <1>13, <2>2, DisplayTakenFacts DEF Rows, Alone, KeepRest, feedVars, runVars, liveVars,
       convVars
  <2> QED
    BY <2>1, <2>2
<1>14. CASE Insert
  <2>1. /\ run'.by = run.by /\ run'.snap = run.snap /\ run'.todo = run.todo /\ run'.chunk = {}
        /\ run.pc = "insert" /\ run'.pc = "lookup" /\ mirrored' = mirrored
    BY <1>14, InsertFacts DEF Alone, KeepRest, feedVars, runVars, liveVars, convVars
  <2>2. \A m \in Synced : /\ m \in run.chunk => imports'[m] > 0
                          /\ imports[m] > 0 => imports'[m] > 0
    BY <1>14, <1>a, InsertFacts DEF Written, Messages
  <2>3. run.snap \subseteq Synced
    BY <1>a DEF Run
  <2> QED
    BY <2>1, <2>2, <2>3
<1>15. CASE InsertFails
  BY <1>15 DEF InsertFails, NoRun
<1>16. CASE RunFails
  BY <1>16 DEF RunFails, Alone, KeepRest, feedVars, runVars, liveVars, convVars, NoRun
<1>17. CASE Reset
  BY <1>17, ResetFacts DEF Alone, KeepRest, feedVars, runVars, liveVars, convVars
<1>18. CASE EndRun
  BY <1>18, EndFacts DEF NoRun
<1>19. ASSUME NEW m \in Live, NEW x \in Contacts, MirrorMessage(m, x) PROVE RunInv'
  BY <1>19 DEF MirrorMessage, Alone, KeepRest, feedVars, runVars, liveVars, convVars
<1>20. CASE MirrorNotice
  BY <1>20 DEF MirrorNotice, Alone, KeepRest, feedVars, runVars, liveVars, convVars
<1>21. CASE MirrorPosts
  BY <1>21 DEF MirrorPosts, Alone, KeepRest, feedVars, runVars, liveVars, convVars
<1>22. CASE MirrorFails
  BY <1>22 DEF MirrorFails, Alone, KeepRest, feedVars, runVars, liveVars, convVars
<1>23. ASSUME NEW c \in Callers, CheckCache(c) PROVE RunInv'
  BY <1>23 DEF CheckCache, Others, Alone, KeepRest, feedVars, runVars, liveVars, convVars
<1>24. ASSUME NEW c \in Callers, Acquire(c) PROVE RunInv'
  BY <1>24 DEF Acquire, Others, Alone, KeepRest, feedVars, runVars, liveVars, convVars
<1>25. ASSUME NEW c \in Callers, AcquireTimeout(c) PROVE RunInv'
  BY <1>25 DEF AcquireTimeout, Others, Alone, KeepRest, feedVars, runVars, liveVars, convVars
<1>26. ASSUME NEW c \in Callers, List(c) PROVE RunInv'
  BY <1>26 DEF List, Others, Alone, KeepRest, feedVars, runVars, liveVars, convVars
<1>27. ASSUME NEW c \in Callers, Create(c) PROVE RunInv'
  BY <1>27 DEF Create, Others, Alone, KeepRest, feedVars, runVars, liveVars, convVars
<1>28. ASSUME NEW c \in Callers, CreateUnanswered(c) PROVE RunInv'
  BY <1>28 DEF CreateUnanswered, Others, Alone, KeepRest, feedVars, runVars, liveVars, convVars
<1>29. ASSUME NEW c \in Callers, ResolveFails(c) PROVE RunInv'
  BY <1>29 DEF ResolveFails, Others, Alone, KeepRest, feedVars, runVars, liveVars, convVars
<1>30. ASSUME NEW k \in Keys, LockExpires(k) PROVE RunInv'
  BY <1>30 DEF LockExpires, Others, Alone, KeepRest, feedVars, runVars, liveVars, convVars
<1>31. CASE Reconfigure
  BY <1>31 DEF Reconfigure, Others, Alone, KeepRest, feedVars, runVars, liveVars, convVars
<1>32. ASSUME NEW i \in ConvId, Close(i) PROVE RunInv'
  BY <1>32 DEF Close, Others, Alone, KeepRest, feedVars, runVars, liveVars, convVars
<1>33. CASE Restart
  BY <1>33 DEF Restart, Alone, KeepRest, feedVars, runVars, liveVars, convVars, NoRun
<1>34. CASE UNCHANGED vars
  BY <1>34 DEF vars, Alone, KeepRest, feedVars, runVars, liveVars, convVars
<1> QED
  BY <1>1, <1>2, <1>3, <1>4, <1>5, <1>6, <1>7, <1>8, <1>9, <1>10, <1>11, <1>12, <1>13, <1>14,
     <1>15, <1>16, <1>17, <1>18, <1>19, <1>20, <1>21, <1>22, <1>23, <1>24, <1>25, <1>26, <1>27,
     <1>28, <1>29, <1>30, <1>31, <1>32, <1>33, <1>34 DEF Next, ImportStep, Resolution

\* The history that arrived.
LEMMA ForgottenStep == TypeOK /\ RunInv /\ ForgottenHasCause /\ [Next]_vars => ForgottenHasCause'
<1> SUFFICES ASSUME TypeOK, RunInv, ForgottenHasCause, [Next]_vars PROVE ForgottenHasCause'
  OBVIOUS
<1> USE DEF ForgottenHasCause
<1>a. arrived \subseteq Synced /\ imports \in [Messages -> 0..2]
  BY DEF TypeOK
<1>1. ASSUME NEW m \in Synced, Observe(m) PROVE ForgottenHasCause'
  BY <1>1 DEF Observe, Alone, KeepRest, feedVars, runVars, liveVars, convVars, InChatwoot
<1>2. ASSUME NEW t \in Triggers, Trigger(t) PROVE ForgottenHasCause'
  BY <1>2 DEF Trigger, Alone, KeepRest, feedVars, runVars, liveVars, convVars, InChatwoot
<1>3. ASSUME NEW t \in Triggers, GiveUp(t) PROVE ForgottenHasCause'
  BY <1>3 DEF GiveUp, Alone, KeepRest, feedVars, runVars, liveVars, convVars, InChatwoot
<1>4. ASSUME NEW t \in Triggers, StartRun(t) PROVE ForgottenHasCause'
  BY <1>4, StartFacts DEF Alone, KeepRest, feedVars, runVars, liveVars, convVars, InChatwoot
<1>5. CASE Inert
  BY <1>5 DEF Inert, Alone, KeepRest, feedVars, runVars, liveVars, convVars, InChatwoot
<1>6. CASE Announce
  BY <1>6 DEF Announce, Alone, KeepRest, feedVars, runVars, liveVars, convVars, InChatwoot
<1>7. CASE Announced
  BY <1>7 DEF Announced, Alone, KeepRest, feedVars, runVars, liveVars, convVars, InChatwoot
<1>8. CASE Snapshot
  BY <1>8, SnapshotFacts DEF Alone, KeepRest, feedVars, runVars, liveVars, convVars, InChatwoot
<1>9. ASSUME NEW S \in SUBSET Synced, Lookup(S) PROVE ForgottenHasCause'
  BY <1>9, LookupFacts DEF Alone, KeepRest, feedVars, runVars, liveVars, convVars, InChatwoot
<1>10. CASE Select
  BY <1>10 DEF Select, Alone, KeepRest, feedVars, runVars, liveVars, convVars, InChatwoot
<1>11. CASE NextDisplay
  BY <1>11, NextDisplayFacts DEF Alone, KeepRest, feedVars, runVars, liveVars, convVars,
     InChatwoot
<1>12. CASE InsertConversation
  BY <1>12, InsertConversationFacts DEF Alone, KeepRest, feedVars, runVars, liveVars, convVars,
     InChatwoot
<1>13. CASE DisplayTaken
  BY <1>13, DisplayTakenFacts DEF Alone, KeepRest, feedVars, runVars, liveVars, convVars,
     InChatwoot
<1>14. CASE Insert
  <2>1. /\ feed' = feed /\ arrived' = arrived /\ erased' = erased /\ mirrored' = mirrored
        /\ imports' \in {imports, Written}
    BY <1>14, InsertFacts DEF Alone, KeepRest, feedVars, runVars, liveVars, convVars
  <2>2. \A m \in Synced : imports[m] > 0 => imports'[m] > 0
    BY <1>a, <2>1 DEF Written, Messages
  <2> QED
    BY <1>a, <2>1, <2>2 DEF InChatwoot
<1>15. CASE InsertFails
  <2>1. /\ feed' = feed /\ arrived' = arrived /\ erased' = erased /\ mirrored' = mirrored
        /\ imports' \in {imports, Written}
    BY <1>15 DEF InsertFails, Alone, KeepRest, feedVars, runVars, liveVars, convVars
  <2>2. \A m \in Synced : imports[m] > 0 => imports'[m] > 0
    BY <1>a, <2>1 DEF Written, Messages
  <2> QED
    BY <1>a, <2>1, <2>2 DEF InChatwoot
<1>16. CASE RunFails
  BY <1>16 DEF RunFails, Alone, KeepRest, feedVars, runVars, liveVars, convVars, InChatwoot
<1>17. CASE Reset
  <2>1. \A m \in arrived : m \in feed => m \in erased' \/ InChatwoot(m)
    BY <1>17, ResetFacts DEF RunInv, Importing, Holding
  <2>2. arrived' = arrived /\ erased \subseteq erased' /\ mirrored' = mirrored /\ imports' = imports
    BY <1>17, ResetFacts DEF liveVars
  <2> QED
    BY <2>1, <2>2 DEF InChatwoot
<1>18. CASE EndRun
  BY <1>18, EndFacts DEF InChatwoot, Alone, KeepRest, feedVars, runVars, liveVars, convVars
<1>19. ASSUME NEW m \in Live, NEW x \in Contacts, MirrorMessage(m, x) PROVE ForgottenHasCause'
  BY <1>19 DEF MirrorMessage, Alone, KeepRest, feedVars, runVars, liveVars, convVars,
     InChatwoot
<1>20. CASE MirrorNotice
  BY <1>20 DEF MirrorNotice, Alone, KeepRest, feedVars, runVars, liveVars, convVars, InChatwoot
<1>21. CASE MirrorPosts
  BY <1>21 DEF MirrorPosts, Alone, KeepRest, feedVars, runVars, liveVars, convVars, InChatwoot
<1>22. CASE MirrorFails
  BY <1>22 DEF MirrorFails, Alone, KeepRest, feedVars, runVars, liveVars, convVars, InChatwoot
<1>23. ASSUME NEW c \in Callers, CheckCache(c) PROVE ForgottenHasCause'
  BY <1>23 DEF CheckCache, Others, Alone, KeepRest, feedVars, runVars, liveVars, convVars,
     InChatwoot
<1>24. ASSUME NEW c \in Callers, Acquire(c) PROVE ForgottenHasCause'
  BY <1>24 DEF Acquire, Others, Alone, KeepRest, feedVars, runVars, liveVars, convVars,
     InChatwoot
<1>25. ASSUME NEW c \in Callers, AcquireTimeout(c) PROVE ForgottenHasCause'
  BY <1>25 DEF AcquireTimeout, Others, Alone, KeepRest, feedVars, runVars, liveVars, convVars,
     InChatwoot
<1>26. ASSUME NEW c \in Callers, List(c) PROVE ForgottenHasCause'
  BY <1>26 DEF List, Others, Alone, KeepRest, feedVars, runVars, liveVars, convVars, InChatwoot
<1>27. ASSUME NEW c \in Callers, Create(c) PROVE ForgottenHasCause'
  BY <1>27 DEF Create, Others, Alone, KeepRest, feedVars, runVars, liveVars, convVars,
     InChatwoot
<1>28. ASSUME NEW c \in Callers, CreateUnanswered(c) PROVE ForgottenHasCause'
  BY <1>28 DEF CreateUnanswered, Others, Alone, KeepRest, feedVars, runVars, liveVars,
     convVars, InChatwoot
<1>29. ASSUME NEW c \in Callers, ResolveFails(c) PROVE ForgottenHasCause'
  BY <1>29 DEF ResolveFails, Others, Alone, KeepRest, feedVars, runVars, liveVars, convVars,
     InChatwoot
<1>30. ASSUME NEW k \in Keys, LockExpires(k) PROVE ForgottenHasCause'
  BY <1>30 DEF LockExpires, Others, Alone, KeepRest, feedVars, runVars, liveVars, convVars,
     InChatwoot
<1>31. CASE Reconfigure
  BY <1>31 DEF Reconfigure, Others, Alone, KeepRest, feedVars, runVars, liveVars, convVars,
     InChatwoot
<1>32. ASSUME NEW i \in ConvId, Close(i) PROVE ForgottenHasCause'
  BY <1>32 DEF Close, Others, Alone, KeepRest, feedVars, runVars, liveVars, convVars,
     InChatwoot
<1>33. CASE Restart
  BY <1>33 DEF Restart, Alone, KeepRest, feedVars, runVars, liveVars, convVars, InChatwoot
<1>34. CASE UNCHANGED vars
  BY <1>34 DEF vars, Alone, KeepRest, feedVars, runVars, liveVars, convVars, InChatwoot
<1> QED
  BY <1>1, <1>2, <1>3, <1>4, <1>5, <1>6, <1>7, <1>8, <1>9, <1>10, <1>11, <1>12, <1>13, <1>14,
     <1>15, <1>16, <1>17, <1>18, <1>19, <1>20, <1>21, <1>22, <1>23, <1>24, <1>25, <1>26, <1>27,
     <1>28, <1>29, <1>30, <1>31, <1>32, <1>33, <1>34 DEF Next, ImportStep, Resolution

\* What the runs write.
LEMMA OnceStep == TypeOK /\ RunInv /\ ImportedOnce /\ [Next]_vars => ImportedOnce'
<1> SUFFICES ASSUME TypeOK, RunInv, ImportedOnce, [Next]_vars PROVE ImportedOnce'
  OBVIOUS
<1> USE DEF ImportedOnce
<1>a. imports \in [Messages -> 0..2]
  BY DEF TypeOK
<1>1. ASSUME NEW m \in Synced, Observe(m) PROVE ImportedOnce'
  BY <1>1 DEF Observe, Alone, KeepRest, feedVars, runVars, liveVars, convVars
<1>2. ASSUME NEW t \in Triggers, Trigger(t) PROVE ImportedOnce'
  BY <1>2 DEF Trigger, Alone, KeepRest, feedVars, runVars, liveVars, convVars
<1>3. ASSUME NEW t \in Triggers, GiveUp(t) PROVE ImportedOnce'
  BY <1>3 DEF GiveUp, Alone, KeepRest, feedVars, runVars, liveVars, convVars
<1>4. ASSUME NEW t \in Triggers, StartRun(t) PROVE ImportedOnce'
  BY <1>4, StartFacts DEF Alone, KeepRest, feedVars, runVars, liveVars, convVars
<1>5. CASE Inert
  BY <1>5 DEF Inert, Alone, KeepRest, feedVars, runVars, liveVars, convVars
<1>6. CASE Announce
  BY <1>6 DEF Announce, Alone, KeepRest, feedVars, runVars, liveVars, convVars
<1>7. CASE Announced
  BY <1>7 DEF Announced, Alone, KeepRest, feedVars, runVars, liveVars, convVars
<1>8. CASE Snapshot
  BY <1>8, SnapshotFacts DEF Alone, KeepRest, feedVars, runVars, liveVars, convVars
<1>9. ASSUME NEW S \in SUBSET Synced, Lookup(S) PROVE ImportedOnce'
  BY <1>9, LookupFacts DEF Alone, KeepRest, feedVars, runVars, liveVars, convVars
<1>10. CASE Select
  BY <1>10 DEF Select, Alone, KeepRest, feedVars, runVars, liveVars, convVars
<1>11. CASE NextDisplay
  BY <1>11, NextDisplayFacts DEF Alone, KeepRest, feedVars, runVars, liveVars, convVars
<1>12. CASE InsertConversation
  BY <1>12, InsertConversationFacts DEF Alone, KeepRest, feedVars, runVars, liveVars, convVars
<1>13. CASE DisplayTaken
  BY <1>13, DisplayTakenFacts DEF Alone, KeepRest, feedVars, runVars, liveVars, convVars
<1>14. CASE Insert
  <2>1. imports' \in {imports, Written}
    BY <1>14, InsertFacts
  <2>2. \A m \in Messages : Written[m] <= 1
    BY <1>a DEF Written, RunInv
  <2> QED
    BY <2>1, <2>2
<1>15. CASE InsertFails
  <2>1. imports' \in {imports, Written}
    BY <1>15 DEF InsertFails
  <2>2. \A m \in Messages : Written[m] <= 1
    BY <1>a DEF Written, RunInv
  <2> QED
    BY <2>1, <2>2
<1>16. CASE RunFails
  BY <1>16 DEF RunFails, Alone, KeepRest, feedVars, runVars, liveVars, convVars
<1>17. CASE Reset
  BY <1>17, ResetFacts DEF Alone, KeepRest, feedVars, runVars, liveVars, convVars
<1>18. CASE EndRun
  BY <1>18, EndFacts
<1>19. ASSUME NEW m \in Live, NEW x \in Contacts, MirrorMessage(m, x) PROVE ImportedOnce'
  BY <1>19 DEF MirrorMessage, Alone, KeepRest, feedVars, runVars, liveVars, convVars
<1>20. CASE MirrorNotice
  BY <1>20 DEF MirrorNotice, Alone, KeepRest, feedVars, runVars, liveVars, convVars
<1>21. CASE MirrorPosts
  BY <1>21 DEF MirrorPosts, Alone, KeepRest, feedVars, runVars, liveVars, convVars
<1>22. CASE MirrorFails
  BY <1>22 DEF MirrorFails, Alone, KeepRest, feedVars, runVars, liveVars, convVars
<1>23. ASSUME NEW c \in Callers, CheckCache(c) PROVE ImportedOnce'
  BY <1>23 DEF CheckCache, Others, Alone, KeepRest, feedVars, runVars, liveVars, convVars
<1>24. ASSUME NEW c \in Callers, Acquire(c) PROVE ImportedOnce'
  BY <1>24 DEF Acquire, Others, Alone, KeepRest, feedVars, runVars, liveVars, convVars
<1>25. ASSUME NEW c \in Callers, AcquireTimeout(c) PROVE ImportedOnce'
  BY <1>25 DEF AcquireTimeout, Others, Alone, KeepRest, feedVars, runVars, liveVars, convVars
<1>26. ASSUME NEW c \in Callers, List(c) PROVE ImportedOnce'
  BY <1>26 DEF List, Others, Alone, KeepRest, feedVars, runVars, liveVars, convVars
<1>27. ASSUME NEW c \in Callers, Create(c) PROVE ImportedOnce'
  BY <1>27 DEF Create, Others, Alone, KeepRest, feedVars, runVars, liveVars, convVars
<1>28. ASSUME NEW c \in Callers, CreateUnanswered(c) PROVE ImportedOnce'
  BY <1>28 DEF CreateUnanswered, Others, Alone, KeepRest, feedVars, runVars, liveVars, convVars
<1>29. ASSUME NEW c \in Callers, ResolveFails(c) PROVE ImportedOnce'
  BY <1>29 DEF ResolveFails, Others, Alone, KeepRest, feedVars, runVars, liveVars, convVars
<1>30. ASSUME NEW k \in Keys, LockExpires(k) PROVE ImportedOnce'
  BY <1>30 DEF LockExpires, Others, Alone, KeepRest, feedVars, runVars, liveVars, convVars
<1>31. CASE Reconfigure
  BY <1>31 DEF Reconfigure, Others, Alone, KeepRest, feedVars, runVars, liveVars, convVars
<1>32. ASSUME NEW i \in ConvId, Close(i) PROVE ImportedOnce'
  BY <1>32 DEF Close, Others, Alone, KeepRest, feedVars, runVars, liveVars, convVars
<1>33. CASE Restart
  BY <1>33 DEF Restart, Alone, KeepRest, feedVars, runVars, liveVars, convVars
<1>34. CASE UNCHANGED vars
  BY <1>34 DEF vars, Alone, KeepRest, feedVars, runVars, liveVars, convVars
<1> QED
  BY <1>1, <1>2, <1>3, <1>4, <1>5, <1>6, <1>7, <1>8, <1>9, <1>10, <1>11, <1>12, <1>13, <1>14,
     <1>15, <1>16, <1>17, <1>18, <1>19, <1>20, <1>21, <1>22, <1>23, <1>24, <1>25, <1>26, <1>27,
     <1>28, <1>29, <1>30, <1>31, <1>32, <1>33, <1>34 DEF Next, ImportStep, Resolution

\* The mirror resolves a conversation for what it has at hand.
LEMMA JobStep == TypeOK /\ JobInv /\ [Next]_vars => JobInv'
<1> SUFFICES ASSUME TypeOK, JobInv, [Next]_vars PROVE JobInv'
  OBVIOUS
<1> USE DEF JobInv, Busy, Callers, Nothing
<1>1. ASSUME NEW m \in Synced, Observe(m) PROVE JobInv'
  BY <1>1 DEF Observe, Alone, KeepRest, feedVars, runVars, liveVars, convVars
<1>2. ASSUME NEW t \in Triggers, Trigger(t) PROVE JobInv'
  BY <1>2 DEF Trigger, Alone, KeepRest, feedVars, runVars, liveVars, convVars
<1>3. ASSUME NEW t \in Triggers, GiveUp(t) PROVE JobInv'
  BY <1>3 DEF GiveUp, Alone, KeepRest, feedVars, runVars, liveVars, convVars
<1>4. ASSUME NEW t \in Triggers, StartRun(t) PROVE JobInv'
  BY <1>4, StartFacts DEF Alone, KeepRest, feedVars, runVars, liveVars, convVars
<1>5. CASE Inert
  BY <1>5 DEF Inert, Alone, KeepRest, feedVars, runVars, liveVars, convVars
<1>6. CASE Announce
  <2>1. Resolve("run", "ops", "ops")
    BY <1>6 DEF Announce
  <2>2. call'["run"].pc = "cache" /\ \A d \in Callers \ {"run"} : call'[d] = call[d]
    BY <2>1, ResolveFacts DEF Callers, Keys, Contacts
  <2> QED
    BY <1>6, <2>2, HistoryAssumption DEF Announce, Alone, KeepRest, feedVars, runVars,
       liveVars, convVars
<1>7. CASE Announced
  <2>1. call'["run"] = NoCall /\ \A d \in Callers \ {"run"} : call'[d] = call[d]
    BY <1>7, HangFacts DEF Announced, Callers
  <2> QED
    BY <1>7, <2>1, BusyFacts DEF Announced, Alone, KeepRest, feedVars, runVars, liveVars,
       convVars
<1>8. CASE Snapshot
  BY <1>8, SnapshotFacts DEF Alone, KeepRest, feedVars, runVars, liveVars, convVars
<1>9. ASSUME NEW S \in SUBSET Synced, Lookup(S) PROVE JobInv'
  BY <1>9, LookupFacts DEF Alone, KeepRest, feedVars, runVars, liveVars, convVars
<1>10. CASE Select
  BY <1>10 DEF Select, Alone, KeepRest, feedVars, runVars, liveVars, convVars
<1>11. CASE NextDisplay
  BY <1>11, NextDisplayFacts DEF Alone, KeepRest, feedVars, runVars, liveVars, convVars
<1>12. CASE InsertConversation
  BY <1>12, InsertConversationFacts DEF Alone, KeepRest, feedVars, runVars, liveVars, convVars
<1>13. CASE DisplayTaken
  BY <1>13, DisplayTakenFacts DEF Alone, KeepRest, feedVars, runVars, liveVars, convVars
<1>14. CASE Insert
  BY <1>14, InsertFacts DEF Alone, KeepRest, feedVars, runVars, liveVars, convVars
<1>15. CASE InsertFails
  BY <1>15 DEF InsertFails, Alone, KeepRest, feedVars, runVars, liveVars, convVars
<1>16. CASE RunFails
  BY <1>16 DEF RunFails, Alone, KeepRest, feedVars, runVars, liveVars, convVars
<1>17. CASE Reset
  <2>1. call'["mirror"] = call["mirror"]
    BY <1>17, ResetFacts, ResolveFacts DEF Callers, Keys, Contacts
  <2> QED
    BY <1>17, <2>1, ResetFacts DEF liveVars
<1>18. CASE EndRun
  BY <1>18, EndFacts DEF Alone, KeepRest, feedVars, runVars, liveVars, convVars
<1>19. ASSUME NEW m \in Live, NEW x \in Contacts, MirrorMessage(m, x) PROVE JobInv'
  <2>1. Resolve("mirror", "chat", x)
    BY <1>19 DEF MirrorMessage
  <2>2. call'["mirror"].pc = "cache" /\ \A d \in Callers \ {"mirror"} : call'[d] = call[d]
    BY <2>1, ResolveFacts DEF Callers, Keys, Contacts
  <2> QED
    BY <1>19, <2>2, HistoryAssumption DEF MirrorMessage, Alone, KeepRest, feedVars, runVars,
       liveVars, convVars
<1>20. CASE MirrorNotice
  <2>1. Resolve("mirror", "ops", "ops")
    BY <1>20 DEF MirrorNotice
  <2>2. call'["mirror"].pc = "cache" /\ \A d \in Callers \ {"mirror"} : call'[d] = call[d]
    BY <2>1, ResolveFacts DEF Callers, Keys, Contacts
  <2> QED
    BY <1>20, <2>2, HistoryAssumption DEF MirrorNotice, Alone, KeepRest, feedVars, runVars,
       liveVars, convVars
<1>21. CASE MirrorPosts
  <2>1. call'["mirror"] = NoCall /\ \A d \in Callers \ {"mirror"} : call'[d] = call[d]
    BY <1>21, HangFacts DEF MirrorPosts, Callers
  <2> QED
    BY <1>21, <2>1, BusyFacts DEF MirrorPosts, Alone, KeepRest, feedVars, runVars, liveVars,
       convVars
<1>22. CASE MirrorFails
  <2>1. call'["mirror"] = NoCall /\ \A d \in Callers \ {"mirror"} : call'[d] = call[d]
    BY <1>22, HangFacts DEF MirrorFails, Callers
  <2> QED
    BY <1>22, <2>1, BusyFacts DEF MirrorFails, Alone, KeepRest, feedVars, runVars, liveVars,
       convVars
<1>23. ASSUME NEW c \in Callers, CheckCache(c) PROVE JobInv'
  <2>1. \E pc \in {"done", "lock"} : Step(c, pc)
    BY <1>23 DEF CheckCache
  <2>2. call[c].pc /= "idle" /\ call'[c].pc /= "idle" /\ \A d \in Callers \ {c} : call'[d] = call[d]
    BY <1>23, <2>1, StepFacts DEF CheckCache, Calling
  <2> QED
    BY <1>23, <2>2 DEF CheckCache, Others, liveVars
<1>24. ASSUME NEW c \in Callers, Acquire(c) PROVE JobInv'
  <2>1. \E pc \in {"done", "list"} : Step(c, pc)
    BY <1>24 DEF Acquire
  <2>2. call[c].pc /= "idle" /\ call'[c].pc /= "idle" /\ \A d \in Callers \ {c} : call'[d] = call[d]
    BY <1>24, <2>1, StepFacts DEF Acquire, Calling
  <2> QED
    BY <1>24, <2>2 DEF Acquire, Others, liveVars
<1>25. ASSUME NEW c \in Callers, AcquireTimeout(c) PROVE JobInv'
  <2>1. \E pc \in {"failed"} : Step(c, pc)
    BY <1>25 DEF AcquireTimeout
  <2>2. call[c].pc /= "idle" /\ call'[c].pc /= "idle" /\ \A d \in Callers \ {c} : call'[d] = call[d]
    BY <1>25, <2>1, StepFacts DEF AcquireTimeout, Calling
  <2> QED
    BY <1>25, <2>2 DEF AcquireTimeout, Others, liveVars
<1>26. ASSUME NEW c \in Callers, List(c) PROVE JobInv'
  <2>1. \E pc \in {"done", "create"} : Step(c, pc)
    BY <1>26 DEF List
  <2>2. call[c].pc /= "idle" /\ call'[c].pc /= "idle" /\ \A d \in Callers \ {c} : call'[d] = call[d]
    BY <1>26, <2>1, StepFacts DEF List, Calling
  <2> QED
    BY <1>26, <2>2 DEF List, Others, liveVars
<1>27. ASSUME NEW c \in Callers, Create(c) PROVE JobInv'
  <2>1. \E pc \in {"done"} : Step(c, pc)
    BY <1>27 DEF Create
  <2>2. call[c].pc /= "idle" /\ call'[c].pc /= "idle" /\ \A d \in Callers \ {c} : call'[d] = call[d]
    BY <1>27, <2>1, StepFacts DEF Create, Calling
  <2> QED
    BY <1>27, <2>2 DEF Create, Others, liveVars
<1>28. ASSUME NEW c \in Callers, CreateUnanswered(c) PROVE JobInv'
  <2>1. \E pc \in {"failed"} : Step(c, pc)
    BY <1>28 DEF CreateUnanswered
  <2>2. call[c].pc /= "idle" /\ call'[c].pc /= "idle" /\ \A d \in Callers \ {c} : call'[d] = call[d]
    BY <1>28, <2>1, StepFacts DEF CreateUnanswered, Calling
  <2> QED
    BY <1>28, <2>2 DEF CreateUnanswered, Others, liveVars
<1>29. ASSUME NEW c \in Callers, ResolveFails(c) PROVE JobInv'
  <2>1. \E pc \in {"failed"} : Step(c, pc)
    BY <1>29 DEF ResolveFails
  <2>2. call[c].pc /= "idle" /\ call'[c].pc /= "idle" /\ \A d \in Callers \ {c} : call'[d] = call[d]
    BY <1>29, <2>1, StepFacts DEF ResolveFails, Calling
  <2> QED
    BY <1>29, <2>2 DEF ResolveFails, Others, liveVars
<1>30. ASSUME NEW k \in Keys, LockExpires(k) PROVE JobInv'
  BY <1>30 DEF LockExpires, Others, Alone, KeepRest, feedVars, runVars, liveVars, convVars
<1>31. CASE Reconfigure
  <2>1. call'["mirror"].pc = call["mirror"].pc
    <3>1. ASSUME call["mirror"].pc /= "idle"
          PROVE  [call["mirror"] EXCEPT !.stale = TRUE].pc = call["mirror"].pc
      <4>1. call["mirror"] \in Call
        BY DEF TypeOK
      <4> QED
        BY <4>1, Zenon DEF Call
    <3> QED
      BY <1>31, <3>1, BusyFacts DEF Reconfigure, NewResolver, Calling
  <2> QED
    BY <1>31, <2>1 DEF Reconfigure, Others, liveVars
<1>32. ASSUME NEW i \in ConvId, Close(i) PROVE JobInv'
  BY <1>32 DEF Close, Others, Alone, KeepRest, feedVars, runVars, liveVars, convVars
<1>33. CASE Restart
  BY <1>33, BusyFacts DEF Restart
<1>34. CASE UNCHANGED vars
  BY <1>34 DEF vars, Alone, KeepRest, feedVars, runVars, liveVars, convVars
<1> QED
  BY <1>1, <1>2, <1>3, <1>4, <1>5, <1>6, <1>7, <1>8, <1>9, <1>10, <1>11, <1>12, <1>13, <1>14,
     <1>15, <1>16, <1>17, <1>18, <1>19, <1>20, <1>21, <1>22, <1>23, <1>24, <1>25, <1>26, <1>27,
     <1>28, <1>29, <1>30, <1>31, <1>32, <1>33, <1>34 DEF Next, ImportStep, Resolution

-----------------------------------------------------------------------------
(* The conversation of a contact                                           *)

\* Who lists or creates holds its key.
LEMMA CallInvStep == TypeOK /\ JobInv /\ CallInv /\ [Next]_vars => CallInv'
<1> SUFFICES ASSUME TypeOK, JobInv, CallInv, [Next]_vars PROVE CallInv'
  OBVIOUS
<1> USE DEF CallInv, Busy
<1>a. call \in [Callers -> Call]
  BY DEF TypeOK
<1>b. lock \in [Keys -> Callers \cup {Nothing}]
  BY DEF TypeOK
<1>c. contacts \subseteq Contacts \ {"ops"}
  BY DEF TypeOK
<1>1. ASSUME NEW m \in Synced, Observe(m) PROVE CallInv'
  BY <1>1 DEF Observe, Alone, KeepRest, feedVars, runVars, liveVars, convVars
<1>2. ASSUME NEW t \in Triggers, Trigger(t) PROVE CallInv'
  BY <1>2 DEF Trigger, Alone, KeepRest, feedVars, runVars, liveVars, convVars
<1>3. ASSUME NEW t \in Triggers, GiveUp(t) PROVE CallInv'
  BY <1>3 DEF GiveUp, Alone, KeepRest, feedVars, runVars, liveVars, convVars
<1>4. ASSUME NEW t \in Triggers, StartRun(t) PROVE CallInv'
  BY <1>4, StartFacts DEF Alone, KeepRest, feedVars, runVars, liveVars, convVars
<1>5. CASE Inert
  BY <1>5 DEF Inert, Alone, KeepRest, feedVars, runVars, liveVars, convVars
<1>6. CASE Announce
  <2>1. Resolve("run", "ops", "ops")
    BY <1>6 DEF Announce
  <2>2. /\ call'["run"].pc = "cache" /\ call'["run"].contact = "ops" /\ call'["run"].key = "ops"
        /\ ~call'["run"].stale /\ \A d \in Callers \ {"run"} : call'[d] = call[d]
    BY <2>1, ResolveFacts DEF Callers, Keys, Contacts
  <2> QED
    BY <1>6, <2>2 DEF Announce, ContactsOf
<1>7. CASE Announced
  <2>1. call'["run"].pc = "idle" /\ \A d \in Callers \ {"run"} : call'[d] = call[d]
    BY <1>7, HangFacts, BusyFacts DEF Announced, Callers
  <2> QED
    BY <1>7, <2>1 DEF Announced
<1>8. CASE Snapshot
  BY <1>8, SnapshotFacts DEF Alone, KeepRest, feedVars, runVars, liveVars, convVars
<1>9. ASSUME NEW S \in SUBSET Synced, Lookup(S) PROVE CallInv'
  BY <1>9, LookupFacts DEF Alone, KeepRest, feedVars, runVars, liveVars, convVars
<1>10. CASE Select
  BY <1>10 DEF Select
<1>11. CASE NextDisplay
  BY <1>11, NextDisplayFacts DEF Alone, KeepRest, feedVars, runVars, liveVars, convVars
<1>12. CASE InsertConversation
  BY <1>12, InsertConversationFacts DEF Alone, KeepRest, feedVars, runVars, liveVars, convVars
<1>13. CASE DisplayTaken
  BY <1>13, DisplayTakenFacts DEF Alone, KeepRest, feedVars, runVars, liveVars, convVars
<1>14. CASE Insert
  BY <1>14, InsertFacts DEF Alone, KeepRest, feedVars, runVars, liveVars, convVars
<1>15. CASE InsertFails
  BY <1>15 DEF InsertFails, Alone, KeepRest, feedVars, runVars, liveVars, convVars
<1>16. CASE RunFails
  BY <1>16 DEF RunFails, Alone, KeepRest, feedVars, runVars, liveVars, convVars
<1>17. CASE Reset
  <2>1. Resolve("run", "ops", "ops")
    BY <1>17, ResetFacts
  <2>2. /\ call'["run"].pc = "cache" /\ call'["run"].contact = "ops" /\ call'["run"].key = "ops"
        /\ ~call'["run"].stale /\ \A d \in Callers \ {"run"} : call'[d] = call[d]
    BY <2>1, ResolveFacts DEF Callers, Keys, Contacts
  <2> QED
    BY <1>17, <2>2, ResetFacts DEF ContactsOf
<1>18. CASE EndRun
  <2>1. /\ call'["run"].pc = "idle" /\ call'["mirror"].pc = call["mirror"].pc
        /\ call'["mirror"].key = call["mirror"].key
        /\ call'["mirror"].contact = call["mirror"].contact
    BY <1>18, EndFacts, BusyFacts
  <2>2. \/ /\ call'["mirror"] = call["mirror"] /\ lock' = lock /\ slips' = slips
        \/ call["mirror"].pc = "idle"
        \/ call["mirror"].contact \in slips'
    BY <1>18, EndFacts DEF JobInv, Busy, CallContact
  <2>3. slips \subseteq slips'
    BY <1>18, EndFacts
  <2> QED
    BY <2>1, <2>2, <2>3 DEF Callers
<1>19. ASSUME NEW m \in Live, NEW x \in Contacts, MirrorMessage(m, x) PROVE CallInv'
  <2>1. Resolve("mirror", "chat", x)
    BY <1>19 DEF MirrorMessage
  <2>2. /\ call'["mirror"].pc = "cache" /\ call'["mirror"].contact = x /\ call'["mirror"].key = "chat"
        /\ ~call'["mirror"].stale /\ \A d \in Callers \ {"mirror"} : call'[d] = call[d]
    BY <2>1, ResolveFacts DEF Callers, Keys, Contacts
  <2>3. x \in ContactsOf("chat")
    BY <1>19, <1>c DEF MirrorMessage, ContactsOf, Contacts
  <2> QED
    BY <1>19, <2>2, <2>3 DEF MirrorMessage
<1>20. CASE MirrorNotice
  <2>1. Resolve("mirror", "ops", "ops")
    BY <1>20 DEF MirrorNotice
  <2>2. /\ call'["mirror"].pc = "cache" /\ call'["mirror"].contact = "ops" /\ call'["mirror"].key = "ops"
        /\ ~call'["mirror"].stale /\ \A d \in Callers \ {"mirror"} : call'[d] = call[d]
    BY <2>1, ResolveFacts DEF Callers, Keys, Contacts
  <2> QED
    BY <1>20, <2>2 DEF MirrorNotice, ContactsOf
<1>21. CASE MirrorPosts
  <2>1. call'["mirror"].pc = "idle" /\ \A d \in Callers \ {"mirror"} : call'[d] = call[d]
    BY <1>21, HangFacts, BusyFacts DEF MirrorPosts, Callers
  <2> QED
    BY <1>21, <2>1 DEF MirrorPosts
<1>22. CASE MirrorFails
  <2>1. call'["mirror"].pc = "idle" /\ \A d \in Callers \ {"mirror"} : call'[d] = call[d]
    BY <1>22, HangFacts, BusyFacts DEF MirrorFails, Callers
  <2> QED
    BY <1>22, <2>1 DEF MirrorFails
<1>23. ASSUME NEW c \in Callers, CheckCache(c) PROVE CallInv'
  <2>1. \E pc \in {"done", "lock"} : Step(c, pc)
    BY <1>23 DEF CheckCache
  <2>2. /\ call'[c].pc \in {"done", "lock"} /\ call'[c].key = call[c].key
        /\ call'[c].contact = call[c].contact /\ call'[c].stale = call[c].stale
        /\ \A d \in Callers \ {c} : call'[d] = call[d]
    BY <2>1, StepFacts
  <2>3. call[c].pc /= "idle" /\ slips \subseteq slips'
    BY <1>23 DEF CheckCache, Calling
  <2> QED
    BY <1>23, <2>2, <2>3 DEF CheckCache
<1>24. ASSUME NEW c \in Callers, Acquire(c) PROVE CallInv'
  <2>1. \E pc \in {"done", "list"} : Step(c, pc)
    BY <1>24 DEF Acquire
  <2>2. /\ call'[c].pc \in {"done", "list"} /\ call'[c].key = call[c].key
        /\ call'[c].contact = call[c].contact /\ call'[c].stale = call[c].stale
        /\ \A d \in Callers \ {c} : call'[d] = call[d]
    BY <2>1, StepFacts
  <2>3. call[c].pc /= "idle" /\ slips \subseteq slips'
    BY <1>24 DEF Acquire, Calling
  <2>4. \/ call'[c].pc = "done" /\ lock' = lock
        \/ call[c].stale /\ lock' = lock
        \/ lock[call[c].key] = Nothing /\ lock' = [lock EXCEPT ![call[c].key] = c]
    <3>1. Step(c, "done") => call'[c].pc = "done"
      BY StepFacts
    <3> QED
      BY <1>24, <3>1 DEF Acquire, CallKey
  <2>5. \A k \in Keys : lock[k] \in Callers => lock'[k] = lock[k]
    BY <1>b, <2>4, KeyType DEF Nothing, Callers
  <2>6. call'[c].pc = "list" => lock'[call[c].key] = c \/ call[c].contact \in slips
    BY <1>b, <2>2, <2>3, <2>4, KeyType
  <2> QED
    BY <1>b, <2>2, <2>3, <2>5, <2>6, KeyType
<1>25. ASSUME NEW c \in Callers, AcquireTimeout(c) PROVE CallInv'
  <2>1. \E pc \in {"failed"} : Step(c, pc)
    BY <1>25 DEF AcquireTimeout
  <2>2. /\ call'[c].pc \in {"failed"} /\ call'[c].key = call[c].key
        /\ call'[c].contact = call[c].contact /\ call'[c].stale = call[c].stale
        /\ \A d \in Callers \ {c} : call'[d] = call[d]
    BY <2>1, StepFacts
  <2>3. call[c].pc /= "idle" /\ slips \subseteq slips'
    BY <1>25 DEF AcquireTimeout, Calling
  <2> QED
    BY <1>25, <2>2, <2>3 DEF AcquireTimeout
<1>26. ASSUME NEW c \in Callers, List(c) PROVE CallInv'
  <2>1. \E pc \in {"done", "create"} : Step(c, pc)
    BY <1>26 DEF List
  <2>2. /\ call'[c].pc \in {"done", "create"} /\ call'[c].key = call[c].key
        /\ call'[c].contact = call[c].contact /\ call'[c].stale = call[c].stale
        /\ \A d \in Callers \ {c} : call'[d] = call[d]
    BY <2>1, StepFacts
  <2>3. call[c].pc /= "idle" /\ slips \subseteq slips'
    BY <1>26 DEF List, Calling
  <2>4. \A k \in Keys : lock'[k] = lock[k] \/ (lock[k] = c /\ call'[c].pc = "done")
    <3>1. Step(c, "done") => call'[c].pc = "done"
      BY StepFacts
    <3>2. Release(c) => \A k \in Keys : lock'[k] = lock[k] \/ lock[k] = c
      BY ReleaseFacts
    <3> QED
      BY <1>26, <3>1, <3>2 DEF List
  <2>5. call[c].pc = "list"
    BY <1>26 DEF List, Calling
  <2> QED
    BY <1>b, <2>2, <2>3, <2>4, <2>5, KeyType
<1>27. ASSUME NEW c \in Callers, Create(c) PROVE CallInv'
  <2>1. \E pc \in {"done"} : Step(c, pc)
    BY <1>27 DEF Create
  <2>2. /\ call'[c].pc \in {"done"} /\ call'[c].key = call[c].key
        /\ call'[c].contact = call[c].contact /\ call'[c].stale = call[c].stale
        /\ \A d \in Callers \ {c} : call'[d] = call[d]
    BY <2>1, StepFacts
  <2>3. call[c].pc /= "idle" /\ slips \subseteq slips'
    BY <1>27 DEF Create, Calling
  <2>4. \A k \in Keys : lock[k] /= c => lock'[k] = lock[k]
    BY <1>27, ReleaseFacts DEF Create
  <2> QED
    BY <1>b, <2>2, <2>3, <2>4, KeyType
<1>28. ASSUME NEW c \in Callers, CreateUnanswered(c) PROVE CallInv'
  <2>1. \E pc \in {"failed"} : Step(c, pc)
    BY <1>28 DEF CreateUnanswered
  <2>2. /\ call'[c].pc \in {"failed"} /\ call'[c].key = call[c].key
        /\ call'[c].contact = call[c].contact /\ call'[c].stale = call[c].stale
        /\ \A d \in Callers \ {c} : call'[d] = call[d]
    BY <2>1, StepFacts
  <2>3. call[c].pc /= "idle" /\ slips \subseteq slips'
    BY <1>28 DEF CreateUnanswered, Calling
  <2>4. \A k \in Keys : lock[k] /= c => lock'[k] = lock[k]
    BY <1>28, ReleaseFacts DEF CreateUnanswered
  <2> QED
    BY <1>b, <2>2, <2>3, <2>4, KeyType
<1>29. ASSUME NEW c \in Callers, ResolveFails(c) PROVE CallInv'
  <2>1. \E pc \in {"failed"} : Step(c, pc)
    BY <1>29 DEF ResolveFails
  <2>2. /\ call'[c].pc \in {"failed"} /\ call'[c].key = call[c].key
        /\ call'[c].contact = call[c].contact /\ call'[c].stale = call[c].stale
        /\ \A d \in Callers \ {c} : call'[d] = call[d]
    BY <2>1, StepFacts
  <2>3. call[c].pc /= "idle" /\ slips \subseteq slips'
    BY <1>29 DEF ResolveFails, Calling
  <2>4. \A k \in Keys : lock[k] /= c => lock'[k] = lock[k]
    BY <1>29, ReleaseFacts DEF ResolveFails
  <2> QED
    BY <1>b, <2>2, <2>3, <2>4, KeyType
<1>30. ASSUME NEW k \in Keys, LockExpires(k) PROVE CallInv'
  <2>1. /\ call' = call /\ slips' = slips \cup ContactsOf(k)
        /\ \A l \in Keys \ {k} : lock'[l] = lock[l]
    BY <1>30, <1>b DEF LockExpires
  <2> QED
    BY <2>1, KeyType
<1>31. CASE Reconfigure
  <2>1. ASSUME NEW c \in Callers, call'[c].pc /= "idle"
        PROVE  /\ call[c].pc /= "idle" /\ call'[c].contact = call[c].contact
               /\ call'[c].key = call[c].key
    <3>1. /\ [call[c] EXCEPT !.stale = TRUE].contact = call[c].contact
          /\ [call[c] EXCEPT !.stale = TRUE].key = call[c].key
      <4>1. call[c] \in Call
        BY DEF TypeOK
      <4> QED
        BY <4>1, Zenon DEF Call
    <3> QED
      BY <1>31, <2>1, <3>1, BusyFacts DEF Reconfigure, NewResolver, Calling
  <2>2. \A c \in Callers : call[c].pc /= "idle" => call[c].contact \in slips'
    BY <1>31 DEF Reconfigure, NewResolver, Calling, CallContact
  <2> QED
    BY <2>1, <2>2
<1>32. ASSUME NEW i \in ConvId, Close(i) PROVE CallInv'
  BY <1>32 DEF Close, Others, Alone, KeepRest, feedVars, runVars, liveVars, convVars
<1>33. CASE Restart
  BY <1>33, BusyFacts DEF Restart
<1>34. CASE UNCHANGED vars
  BY <1>34 DEF vars, Alone, KeepRest, feedVars, runVars, liveVars, convVars
<1> QED
  BY <1>1, <1>2, <1>3, <1>4, <1>5, <1>6, <1>7, <1>8, <1>9, <1>10, <1>11, <1>12, <1>13, <1>14,
     <1>15, <1>16, <1>17, <1>18, <1>19, <1>20, <1>21, <1>22, <1>23, <1>24, <1>25, <1>26, <1>27,
     <1>28, <1>29, <1>30, <1>31, <1>32, <1>33, <1>34 DEF Next, ImportStep, Resolution

\* What an action may do to the conversations without touching FreshInv.
Calm ==
    /\ \A x \in Contacts : Of(x)' = Of(x) /\ Open(x)' \subseteq Open(x)
    /\ slips \subseteq slips'
    /\ Writing' => Writing
    /\ \A c \in Callers : call'[c].pc = "create" =>
          call[c].pc = "create" /\ call'[c].contact = call[c].contact

LEMMA CalmFresh == ASSUME TypeOK, FreshInv, OneInv, Calm PROVE FreshInv' /\ OneInv'
<1>1. "ident" \in Contacts
  BY DEF Contacts
<1>2. FreshInv'
  <2>1. ASSUME NEW c \in Callers, NEW y \in Contacts, call'[c].pc = "create",
               call'[c].contact = y
        PROVE  Open(y)' = {} \/ y \in slips'
    BY <2>1 DEF Calm, FreshInv
  <2>2. Writing' => Of("ident")' = {} \/ "ident" \in slips'
    BY <1>1 DEF Calm, FreshInv
  <2>3. ASSUME NEW c \in Callers, Writing', call'[c].pc = "create", call'[c].contact = "ident"
        PROVE  "ident" \in slips'
    BY <2>3 DEF Calm, FreshInv
  <2> QED
    BY <2>1, <2>2, <2>3 DEF FreshInv
<1>3. OneInv'
  BY DEF Calm, OneInv
<1> QED
  BY <1>2, <1>3

LEMMA SameConvs ==
    ASSUME UNCHANGED convs
    PROVE  \A x \in Contacts : Of(x)' = Of(x) /\ Open(x)' \subseteq Open(x)
  BY DEF Of, Open

\* A conversation made for a contact that has none open, or that slipped.
LEMMA MadeOne ==
    ASSUME OneInv, TypeOK, NEW x \in Contacts, NewConv(x), slips \subseteq slips',
           Open(x) = {} \/ x \in slips
    PROVE  OneInv'
  BY NewConvFacts DEF OneInv

\* The conversations and those about to be created.
LEMMA OneStep == TypeOK /\ CallInv /\ FreshInv /\ OneInv /\ [Next]_vars => FreshInv' /\ OneInv'
<1> SUFFICES ASSUME TypeOK, CallInv, FreshInv, OneInv, [Next]_vars PROVE FreshInv' /\ OneInv'
  OBVIOUS
<1>1. ASSUME NEW m \in Synced, Observe(m) PROVE FreshInv' /\ OneInv'
  <2>8. \A d \in Callers : call'[d].pc = "create" =>
           call[d].pc = "create" /\ call'[d].contact = call[d].contact
    BY <1>1 DEF Observe, Alone, KeepRest, feedVars, runVars, liveVars, convVars
  <2>9. /\ UNCHANGED convs /\ slips \subseteq slips'
        /\ Writing' => Writing
    BY <1>1 DEF Observe, Writing, NoRun, Alone, KeepRest, feedVars, runVars, liveVars, convVars
  <2> QED
    BY <2>8, <2>9, SameConvs, CalmFresh DEF Calm
<1>2. ASSUME NEW t \in Triggers, Trigger(t) PROVE FreshInv' /\ OneInv'
  <2>8. \A d \in Callers : call'[d].pc = "create" =>
           call[d].pc = "create" /\ call'[d].contact = call[d].contact
    BY <1>2 DEF Trigger, Alone, KeepRest, feedVars, runVars, liveVars, convVars
  <2>9. /\ UNCHANGED convs /\ slips \subseteq slips'
        /\ Writing' => Writing
    BY <1>2 DEF Trigger, Writing, NoRun, Alone, KeepRest, feedVars, runVars, liveVars, convVars
  <2> QED
    BY <2>8, <2>9, SameConvs, CalmFresh DEF Calm
<1>3. ASSUME NEW t \in Triggers, GiveUp(t) PROVE FreshInv' /\ OneInv'
  <2>8. \A d \in Callers : call'[d].pc = "create" =>
           call[d].pc = "create" /\ call'[d].contact = call[d].contact
    BY <1>3 DEF GiveUp, Alone, KeepRest, feedVars, runVars, liveVars, convVars
  <2>9. /\ UNCHANGED convs /\ slips \subseteq slips'
        /\ Writing' => Writing
    BY <1>3 DEF GiveUp, Writing, NoRun, Alone, KeepRest, feedVars, runVars, liveVars, convVars
  <2> QED
    BY <2>8, <2>9, SameConvs, CalmFresh DEF Calm
<1>4. ASSUME NEW t \in Triggers, StartRun(t) PROVE FreshInv' /\ OneInv'
  <2>8. \A d \in Callers : call'[d].pc = "create" =>
           call[d].pc = "create" /\ call'[d].contact = call[d].contact
    BY <1>4, StartFacts DEF Rows, Alone, KeepRest, feedVars, runVars, liveVars, convVars
  <2>9. /\ UNCHANGED convs /\ slips \subseteq slips'
        /\ Writing' => Writing
    BY <1>4, StartFacts DEF Writing, NoRun, Rows, Alone, KeepRest, feedVars, runVars, liveVars,
       convVars
  <2> QED
    BY <2>8, <2>9, SameConvs, CalmFresh DEF Calm
<1>5. CASE Inert
  <2>8. \A d \in Callers : call'[d].pc = "create" =>
           call[d].pc = "create" /\ call'[d].contact = call[d].contact
    BY <1>5 DEF Inert, Alone, KeepRest, feedVars, runVars, liveVars, convVars
  <2>9. /\ UNCHANGED convs /\ slips \subseteq slips'
        /\ Writing' => Writing
    BY <1>5 DEF Inert, Writing, NoRun, Alone, KeepRest, feedVars, runVars, liveVars, convVars
  <2> QED
    BY <2>8, <2>9, SameConvs, CalmFresh DEF Calm
<1>6. CASE Announce
  <2>1. Resolve("run", "ops", "ops")
    BY <1>6 DEF Announce
  <2>2. /\ call'["run"].pc = "cache" /\ call'["run"].contact = "ops" /\ call'["run"].key = "ops"
        /\ ~call'["run"].stale /\ \A d \in Callers \ {"run"} : call'[d] = call[d]
    BY <2>1, ResolveFacts DEF Callers, Keys, Contacts
  <2>8. \A d \in Callers : call'[d].pc = "create" =>
           call[d].pc = "create" /\ call'[d].contact = call[d].contact
    BY <2>2 DEF Callers
  <2>9. /\ UNCHANGED convs /\ slips \subseteq slips'
        /\ Writing' => Writing
    BY <1>6, GoFacts DEF Announce, Writing, Alone, KeepRest, feedVars, runVars, liveVars,
       convVars
  <2> QED
    BY <2>8, <2>9, SameConvs, CalmFresh DEF Calm
<1>7. CASE Announced
  <2>1. call'["run"].pc = "idle" /\ \A d \in Callers \ {"run"} : call'[d] = call[d]
    BY <1>7, HangFacts, BusyFacts DEF Announced, Callers
  <2>8. \A d \in Callers : call'[d].pc = "create" =>
           call[d].pc = "create" /\ call'[d].contact = call[d].contact
    BY <2>1 DEF Callers
  <2>9. /\ UNCHANGED convs /\ slips \subseteq slips'
        /\ Writing' => Writing
    BY <1>7, GoFacts DEF Announced, Writing, Alone, KeepRest, feedVars, runVars, liveVars,
       convVars
  <2> QED
    BY <2>8, <2>9, SameConvs, CalmFresh DEF Calm
<1>8. CASE Snapshot
  <2>8. \A d \in Callers : call'[d].pc = "create" =>
           call[d].pc = "create" /\ call'[d].contact = call[d].contact
    BY <1>8, SnapshotFacts DEF Rows, Alone, KeepRest, feedVars, runVars, liveVars, convVars
  <2>9. /\ UNCHANGED convs /\ slips \subseteq slips'
        /\ Writing' => Writing
    BY <1>8, SnapshotFacts DEF Writing, NoRun, Rows, Alone, KeepRest, feedVars, runVars,
       liveVars, convVars
  <2> QED
    BY <2>8, <2>9, SameConvs, CalmFresh DEF Calm
<1>9. ASSUME NEW S \in SUBSET Synced, Lookup(S) PROVE FreshInv' /\ OneInv'
  <2>8. \A d \in Callers : call'[d].pc = "create" =>
           call[d].pc = "create" /\ call'[d].contact = call[d].contact
    BY <1>9, LookupFacts DEF Rows, Alone, KeepRest, feedVars, runVars, liveVars, convVars
  <2>9. /\ UNCHANGED convs /\ slips \subseteq slips'
        /\ Writing' => Writing
    BY <1>9, LookupFacts DEF Writing, NoRun, Rows, Alone, KeepRest, feedVars, runVars,
       liveVars, convVars
  <2> QED
    BY <2>8, <2>9, SameConvs, CalmFresh DEF Calm
<1>10. CASE Select
  <2>1. /\ UNCHANGED convs /\ slips \subseteq slips' /\ UNCHANGED call
        /\ ~Writing
    BY <1>10 DEF Select, Running, Writing
  <2>2. Writing' => Of("ident") = {}
    BY <1>10, GoFacts DEF Select, Writing
  <2>3. ASSUME NEW c \in Callers, Writing', call'[c].pc = "create", call'[c].contact = "ident"
        PROVE  "ident" \in slips'
    BY <1>10, <2>1, <2>2, <2>3 DEF Select, Calling, CallContact
  <2>4. ASSUME NEW c \in Callers, NEW y \in Contacts, call'[c].pc = "create",
               call'[c].contact = y
        PROVE  Open(y)' = {} \/ y \in slips'
    BY <2>1, <2>4, SameConvs DEF FreshInv
  <2>5. Of("ident")' = Of("ident")
    BY <2>1 DEF Of
  <2>6. OneInv'
    BY <2>1, SameConvs DEF OneInv
  <2> QED
    BY <2>2, <2>3, <2>4, <2>5, <2>6 DEF FreshInv
<1>11. CASE NextDisplay
  <2>8. \A d \in Callers : call'[d].pc = "create" =>
           call[d].pc = "create" /\ call'[d].contact = call[d].contact
    BY <1>11, NextDisplayFacts DEF Rows, Alone, KeepRest, feedVars, runVars, liveVars, convVars
  <2>9. /\ UNCHANGED convs /\ slips \subseteq slips'
        /\ Writing' => Writing
    BY <1>11, NextDisplayFacts DEF Writing, NoRun, Rows, Alone, KeepRest, feedVars, runVars,
       liveVars, convVars
  <2> QED
    BY <2>8, <2>9, SameConvs, CalmFresh DEF Calm
<1>12. CASE InsertConversation
  <2>1. /\ NewConv("ident") /\ call' = call /\ slips' = slips /\ ~Writing' /\ Writing
        /\ "ident" \in Contacts
    BY <1>12, InsertConversationFacts DEF Writing, Contacts
  <2>2. Open("ident") = {} \/ "ident" \in slips
    BY <2>1 DEF FreshInv, Open
  <2>3. OneInv'
    BY <2>1, <2>2, MadeOne
  <2>4. ASSUME NEW c \in Callers, NEW y \in Contacts, call'[c].pc = "create",
               call'[c].contact = y
        PROVE  Open(y)' = {} \/ y \in slips'
    <3>1. y = "ident" => "ident" \in slips
      BY <2>1, <2>4 DEF FreshInv
    <3>2. y /= "ident" => Open(y)' = Open(y)
      BY <2>1, NewConvFacts
    <3> QED
      BY <2>1, <2>4, <3>1, <3>2 DEF FreshInv
  <2> QED
    BY <2>1, <2>3, <2>4 DEF FreshInv
<1>13. CASE DisplayTaken
  <2>8. \A d \in Callers : call'[d].pc = "create" =>
           call[d].pc = "create" /\ call'[d].contact = call[d].contact
    BY <1>13, DisplayTakenFacts DEF Alone, convVars
  <2>9. /\ UNCHANGED convs /\ slips \subseteq slips'
        /\ Writing' => Writing
    BY <1>13, DisplayTakenFacts DEF Writing, NoRun, Alone, convVars
  <2> QED
    BY <2>8, <2>9, SameConvs, CalmFresh DEF Calm
<1>14. CASE Insert
  <2>8. \A d \in Callers : call'[d].pc = "create" =>
           call[d].pc = "create" /\ call'[d].contact = call[d].contact
    BY <1>14, InsertFacts DEF Rows, Alone, KeepRest, feedVars, runVars, liveVars, convVars
  <2>9. /\ UNCHANGED convs /\ slips \subseteq slips'
        /\ Writing' => Writing
    BY <1>14, InsertFacts DEF Writing, NoRun, Rows, Alone, KeepRest, feedVars, runVars,
       liveVars, convVars
  <2> QED
    BY <2>8, <2>9, SameConvs, CalmFresh DEF Calm
<1>15. CASE InsertFails
  <2>8. \A d \in Callers : call'[d].pc = "create" =>
           call[d].pc = "create" /\ call'[d].contact = call[d].contact
    BY <1>15 DEF InsertFails, Alone, KeepRest, feedVars, runVars, liveVars, convVars
  <2>9. /\ UNCHANGED convs /\ slips \subseteq slips'
        /\ Writing' => Writing
    BY <1>15 DEF InsertFails, Writing, NoRun, Alone, KeepRest, feedVars, runVars, liveVars,
       convVars
  <2> QED
    BY <2>8, <2>9, SameConvs, CalmFresh DEF Calm
<1>16. CASE RunFails
  <2>8. \A d \in Callers : call'[d].pc = "create" =>
           call[d].pc = "create" /\ call'[d].contact = call[d].contact
    BY <1>16 DEF RunFails, Alone, KeepRest, feedVars, runVars, liveVars, convVars
  <2>9. /\ UNCHANGED convs /\ slips \subseteq slips'
        /\ Writing' => Writing
    BY <1>16 DEF RunFails, Writing, NoRun, Alone, KeepRest, feedVars, runVars, liveVars, convVars
  <2> QED
    BY <2>8, <2>9, SameConvs, CalmFresh DEF Calm
<1>17. CASE Reset
  <2>1. Resolve("run", "ops", "ops")
    BY <1>17, ResetFacts
  <2>2. /\ call'["run"].pc = "cache" /\ call'["run"].contact = "ops" /\ call'["run"].key = "ops"
        /\ ~call'["run"].stale /\ \A d \in Callers \ {"run"} : call'[d] = call[d]
    BY <2>1, ResolveFacts DEF Callers, Keys, Contacts
  <2>8. \A d \in Callers : call'[d].pc = "create" =>
           call[d].pc = "create" /\ call'[d].contact = call[d].contact
    BY <2>2 DEF Callers
  <2>9. /\ UNCHANGED convs /\ slips \subseteq slips'
        /\ Writing' => Writing
    BY <1>17, ResetFacts DEF Writing
  <2> QED
    BY <2>8, <2>9, SameConvs, CalmFresh DEF Calm
<1>18. CASE EndRun
  <2>8. \A d \in Callers : call'[d].pc = "create" =>
           call[d].pc = "create" /\ call'[d].contact = call[d].contact
    BY <1>18, EndFacts, BusyFacts DEF Callers
  <2>9. /\ UNCHANGED convs /\ slips \subseteq slips'
        /\ Writing' => Writing
    BY <1>18, EndFacts DEF Writing, NoRun
  <2> QED
    BY <2>8, <2>9, SameConvs, CalmFresh DEF Calm
<1>19. ASSUME NEW m \in Live, NEW x \in Contacts, MirrorMessage(m, x) PROVE FreshInv' /\ OneInv'
  <2>1. Resolve("mirror", "chat", x)
    BY <1>19 DEF MirrorMessage
  <2>2. /\ call'["mirror"].pc = "cache" /\ call'["mirror"].contact = x /\ call'["mirror"].key = "chat"
        /\ ~call'["mirror"].stale /\ \A d \in Callers \ {"mirror"} : call'[d] = call[d]
    BY <2>1, ResolveFacts DEF Callers, Keys, Contacts
  <2>8. \A d \in Callers : call'[d].pc = "create" =>
           call[d].pc = "create" /\ call'[d].contact = call[d].contact
    BY <2>2 DEF Callers
  <2>9. /\ UNCHANGED convs /\ slips \subseteq slips'
        /\ Writing' => Writing
    BY <1>19 DEF MirrorMessage, Writing, Alone, KeepRest, feedVars, runVars, liveVars, convVars
  <2> QED
    BY <2>8, <2>9, SameConvs, CalmFresh DEF Calm
<1>20. CASE MirrorNotice
  <2>1. Resolve("mirror", "ops", "ops")
    BY <1>20 DEF MirrorNotice
  <2>2. /\ call'["mirror"].pc = "cache" /\ call'["mirror"].contact = "ops" /\ call'["mirror"].key = "ops"
        /\ ~call'["mirror"].stale /\ \A d \in Callers \ {"mirror"} : call'[d] = call[d]
    BY <2>1, ResolveFacts DEF Callers, Keys, Contacts
  <2>8. \A d \in Callers : call'[d].pc = "create" =>
           call[d].pc = "create" /\ call'[d].contact = call[d].contact
    BY <2>2 DEF Callers
  <2>9. /\ UNCHANGED convs /\ slips \subseteq slips'
        /\ Writing' => Writing
    BY <1>20 DEF MirrorNotice, Writing, Alone, KeepRest, feedVars, runVars, liveVars, convVars
  <2> QED
    BY <2>8, <2>9, SameConvs, CalmFresh DEF Calm
<1>21. CASE MirrorPosts
  <2>1. call'["mirror"].pc = "idle" /\ \A d \in Callers \ {"mirror"} : call'[d] = call[d]
    BY <1>21, HangFacts, BusyFacts DEF MirrorPosts, Callers
  <2>8. \A d \in Callers : call'[d].pc = "create" =>
           call[d].pc = "create" /\ call'[d].contact = call[d].contact
    BY <2>1 DEF Callers
  <2>9. /\ UNCHANGED convs /\ slips \subseteq slips'
        /\ Writing' => Writing
    BY <1>21 DEF MirrorPosts, Writing, Alone, KeepRest, feedVars, runVars, liveVars, convVars
  <2> QED
    BY <2>8, <2>9, SameConvs, CalmFresh DEF Calm
<1>22. CASE MirrorFails
  <2>1. call'["mirror"].pc = "idle" /\ \A d \in Callers \ {"mirror"} : call'[d] = call[d]
    BY <1>22, HangFacts, BusyFacts DEF MirrorFails, Callers
  <2>8. \A d \in Callers : call'[d].pc = "create" =>
           call[d].pc = "create" /\ call'[d].contact = call[d].contact
    BY <2>1 DEF Callers
  <2>9. /\ UNCHANGED convs /\ slips \subseteq slips'
        /\ Writing' => Writing
    BY <1>22 DEF MirrorFails, Writing, Alone, KeepRest, feedVars, runVars, liveVars, convVars
  <2> QED
    BY <2>8, <2>9, SameConvs, CalmFresh DEF Calm
<1>23. ASSUME NEW c \in Callers, CheckCache(c) PROVE FreshInv' /\ OneInv'
  <2>1. \E pc \in {"done", "lock"} : Step(c, pc)
    BY <1>23 DEF CheckCache
  <2>8. \A d \in Callers : call'[d].pc = "create" =>
           call[d].pc = "create" /\ call'[d].contact = call[d].contact
    BY <2>1, StepFacts
  <2>9. /\ UNCHANGED convs /\ slips \subseteq slips'
        /\ Writing' => Writing
    BY <1>23 DEF CheckCache, Others, runVars, Writing
  <2> QED
    BY <2>8, <2>9, SameConvs, CalmFresh DEF Calm
<1>24. ASSUME NEW c \in Callers, Acquire(c) PROVE FreshInv' /\ OneInv'
  <2>1. \E pc \in {"done", "list"} : Step(c, pc)
    BY <1>24 DEF Acquire
  <2>8. \A d \in Callers : call'[d].pc = "create" =>
           call[d].pc = "create" /\ call'[d].contact = call[d].contact
    BY <2>1, StepFacts
  <2>9. /\ UNCHANGED convs /\ slips \subseteq slips'
        /\ Writing' => Writing
    BY <1>24 DEF Acquire, Others, runVars, Writing
  <2> QED
    BY <2>8, <2>9, SameConvs, CalmFresh DEF Calm
<1>25. ASSUME NEW c \in Callers, AcquireTimeout(c) PROVE FreshInv' /\ OneInv'
  <2>1. \E pc \in {"failed"} : Step(c, pc)
    BY <1>25 DEF AcquireTimeout
  <2>8. \A d \in Callers : call'[d].pc = "create" =>
           call[d].pc = "create" /\ call'[d].contact = call[d].contact
    BY <2>1, StepFacts
  <2>9. /\ UNCHANGED convs /\ slips \subseteq slips'
        /\ Writing' => Writing
    BY <1>25 DEF AcquireTimeout, Others, runVars, Writing
  <2> QED
    BY <2>8, <2>9, SameConvs, CalmFresh DEF Calm
<1>26. ASSUME NEW c \in Callers, List(c) PROVE FreshInv' /\ OneInv'
  <2>0. PICK x \in Contacts : x = call[c].contact
    BY KeyType
  <2>1. x = call[c].contact /\ call[c].pc = "list" /\ run' = run /\ slips \subseteq slips'
    BY <1>26, <2>0 DEF List, Calling, Others, runVars
  <2>2. CASE Step(c, "done") /\ UNCHANGED convs
    <3>1. \A d \in Callers : call'[d].pc = "create" =>
             call[d].pc = "create" /\ call'[d].contact = call[d].contact
      BY <2>2, StepFacts
    <3> QED
      BY <2>1, <2>2, <3>1, SameConvs, CalmFresh DEF Calm, Writing
  <2>3. CASE /\ Step(c, "done") /\ Open(x) = {} /\ Of(x) /= {}
             /\ convs' = [convs EXCEPT ![Newest(Of(x))].status = "open"]
    <3>1. /\ call'[c].pc = "done" /\ \A d \in Callers \ {c} : call'[d] = call[d]
      BY <2>3, StepFacts
    <3>2. Newest(Of(x)) \in Of(x) /\ Newest(Of(x)) \in DOMAIN convs
      BY <2>3, OfFacts
    <3>3. /\ \A y : Of(y)' = Of(y)
          /\ \A y : \A i \in DOMAIN convs : i \in Open(y)' <=>
                IF i = Newest(Of(x)) THEN i \in Of(y) ELSE i \in Open(y)
          /\ \A y : Open(y)' \subseteq DOMAIN convs
      BY <2>3, <3>2, StatusFacts
    <3>4. \A y : y /= x => Newest(Of(x)) \notin Of(y)
      BY <3>2 DEF Of
    <3>5. \A y : y /= x => Open(y)' \subseteq Open(y)
      BY <3>3, <3>4
    <3>6. Open(x)' \subseteq {Newest(Of(x))}
      BY <2>3, <3>3
    <3>7. OneInv'
      BY <2>1, <3>5, <3>6 DEF OneInv
    <3>8. ASSUME NEW d \in Callers, NEW y \in Contacts, call'[d].pc = "create",
                 call'[d].contact = y
          PROVE  Open(y)' = {} \/ y \in slips'
      <4>1. d /= c /\ call'[d] = call[d] /\ call[d].pc = "create"
        BY <3>1, <3>8
      <4>2. y = x => x \in slips
        BY <2>1, <3>8, <4>1, SlipFacts
      <4> QED
        BY <2>1, <3>5, <3>8, <4>1, <4>2 DEF FreshInv
    <3>9. ASSUME NEW d \in Callers, Writing', call'[d].pc = "create",
                 call'[d].contact = "ident"
          PROVE  "ident" \in slips'
      BY <2>1, <3>1, <3>9 DEF FreshInv, Writing
    <3> QED
      BY <2>1, <3>3, <3>7, <3>8, <3>9 DEF FreshInv, Writing
  <2>4. CASE /\ Step(c, "create") /\ Open(x) = {} /\ UNCHANGED convs
             /\ x /= "ops" /\ Writing => x \in slips'
    <3>1. /\ call'[c].contact = x /\ \A d \in Callers \ {c} : call'[d] = call[d]
      BY <2>1, <2>4, StepFacts
    <3>2. OneInv'
      BY <2>1, <2>4, SameConvs DEF OneInv
    <3>3. ASSUME NEW d \in Callers, NEW y \in Contacts, call'[d].pc = "create",
                 call'[d].contact = y
          PROVE  Open(y)' = {} \/ y \in slips'
      BY <2>1, <2>4, <3>1, <3>3, SameConvs DEF FreshInv
    <3>4. ASSUME NEW d \in Callers, Writing', call'[d].pc = "create",
                 call'[d].contact = "ident"
          PROVE  "ident" \in slips'
      BY <2>1, <2>4, <3>1, <3>4 DEF FreshInv, Writing
    <3>5. Writing' => Of("ident")' = {} \/ "ident" \in slips'
      BY <2>1, <2>4 DEF FreshInv, Writing, Of
    <3> QED
      BY <3>2, <3>3, <3>4, <3>5 DEF FreshInv
  <2> QED
    BY <1>26, <2>0, <2>2, <2>3, <2>4 DEF List, CallContact
<1>27. ASSUME NEW c \in Callers, Create(c) PROVE FreshInv' /\ OneInv'
  <2>0. PICK x \in Contacts : x = call[c].contact
    BY KeyType
  <2>1. x = call[c].contact /\ NewConv(x) /\ call[c].pc = "create" /\ slips' = slips /\ run' = run
    BY <1>27, <2>0 DEF Create, CallContact, Calling, Others, runVars
  <2>2. /\ call'[c].pc \in {"done"}
        /\ \A d \in Callers \ {c} : call'[d] = call[d]
    BY <1>27, StepFacts DEF Create
  <2>3. Open(x) = {} \/ x \in slips
    BY <2>1 DEF FreshInv
  <2>4. OneInv'
    BY <2>1, <2>3, MadeOne
  <2>5. \A y : y /= x => Of(y)' = Of(y) /\ Open(y)' = Open(y)
    BY <2>1, NewConvFacts
  <2>6. ASSUME NEW d \in Callers, NEW y \in Contacts, call'[d].pc = "create",
               call'[d].contact = y
        PROVE  Open(y)' = {} \/ y \in slips'
    <3>1. d /= c /\ call'[d] = call[d] /\ call[d].pc = "create"
      BY <2>2, <2>6
    <3>2. y = x => x \in slips
      BY <2>1, <2>6, <3>1, SlipFacts
    <3> QED
      BY <2>1, <2>5, <2>6, <3>1, <3>2 DEF FreshInv
  <2>7. Writing' => Of("ident")' = {} \/ "ident" \in slips'
    BY <2>1, <2>5 DEF FreshInv, Writing
  <2>8. ASSUME NEW d \in Callers, Writing', call'[d].pc = "create", call'[d].contact = "ident"
        PROVE  "ident" \in slips'
    BY <2>1, <2>2, <2>8 DEF FreshInv, Writing
  <2> QED
    BY <2>4, <2>6, <2>7, <2>8 DEF FreshInv
<1>28. ASSUME NEW c \in Callers, CreateUnanswered(c) PROVE FreshInv' /\ OneInv'
  <2>0. PICK x \in Contacts : x = call[c].contact
    BY KeyType
  <2>1. x = call[c].contact /\ NewConv(x) /\ call[c].pc = "create" /\ slips' = slips /\ run' = run
    BY <1>28, <2>0 DEF CreateUnanswered, CallContact, Calling, Others, runVars
  <2>2. /\ call'[c].pc \in {"failed"}
        /\ \A d \in Callers \ {c} : call'[d] = call[d]
    BY <1>28, StepFacts DEF CreateUnanswered
  <2>3. Open(x) = {} \/ x \in slips
    BY <2>1 DEF FreshInv
  <2>4. OneInv'
    BY <2>1, <2>3, MadeOne
  <2>5. \A y : y /= x => Of(y)' = Of(y) /\ Open(y)' = Open(y)
    BY <2>1, NewConvFacts
  <2>6. ASSUME NEW d \in Callers, NEW y \in Contacts, call'[d].pc = "create",
               call'[d].contact = y
        PROVE  Open(y)' = {} \/ y \in slips'
    <3>1. d /= c /\ call'[d] = call[d] /\ call[d].pc = "create"
      BY <2>2, <2>6
    <3>2. y = x => x \in slips
      BY <2>1, <2>6, <3>1, SlipFacts
    <3> QED
      BY <2>1, <2>5, <2>6, <3>1, <3>2 DEF FreshInv
  <2>7. Writing' => Of("ident")' = {} \/ "ident" \in slips'
    BY <2>1, <2>5 DEF FreshInv, Writing
  <2>8. ASSUME NEW d \in Callers, Writing', call'[d].pc = "create", call'[d].contact = "ident"
        PROVE  "ident" \in slips'
    BY <2>1, <2>2, <2>8 DEF FreshInv, Writing
  <2> QED
    BY <2>4, <2>6, <2>7, <2>8 DEF FreshInv
<1>29. ASSUME NEW c \in Callers, ResolveFails(c) PROVE FreshInv' /\ OneInv'
  <2>1. \E pc \in {"failed"} : Step(c, pc)
    BY <1>29 DEF ResolveFails
  <2>8. \A d \in Callers : call'[d].pc = "create" =>
           call[d].pc = "create" /\ call'[d].contact = call[d].contact
    BY <2>1, StepFacts
  <2>9. /\ UNCHANGED convs /\ slips \subseteq slips'
        /\ Writing' => Writing
    BY <1>29 DEF ResolveFails, Others, runVars, Writing
  <2> QED
    BY <2>8, <2>9, SameConvs, CalmFresh DEF Calm
<1>30. ASSUME NEW k \in Keys, LockExpires(k) PROVE FreshInv' /\ OneInv'
  <2>8. \A d \in Callers : call'[d].pc = "create" =>
           call[d].pc = "create" /\ call'[d].contact = call[d].contact
    BY <1>30 DEF LockExpires
  <2>9. /\ UNCHANGED convs /\ slips \subseteq slips'
        /\ Writing' => Writing
    BY <1>30 DEF LockExpires, Others, runVars, Writing
  <2> QED
    BY <2>8, <2>9, SameConvs, CalmFresh DEF Calm
<1>31. CASE Reconfigure
  <2>8. \A d \in Callers : call'[d].pc = "create" =>
           call[d].pc = "create" /\ call'[d].contact = call[d].contact
    <3>1. ASSUME NEW c \in Callers
          PROVE  /\ [call[c] EXCEPT !.stale = TRUE].contact = call[c].contact
                 /\ [call[c] EXCEPT !.stale = TRUE].pc = call[c].pc
      <4>1. call[c] \in Call
        BY DEF TypeOK
      <4> QED
        BY <4>1, Zenon DEF Call
    <3> QED
      BY <1>31, <3>1, BusyFacts DEF Reconfigure, NewResolver
  <2>9. /\ UNCHANGED convs /\ slips \subseteq slips'
        /\ Writing' => Writing
    BY <1>31 DEF Reconfigure, NewResolver, Others, runVars, Writing
  <2> QED
    BY <2>8, <2>9, SameConvs, CalmFresh DEF Calm
<1>32. ASSUME NEW i \in ConvId, Close(i) PROVE FreshInv' /\ OneInv'
  <2>8. \A d \in Callers : call'[d].pc = "create" =>
           call[d].pc = "create" /\ call'[d].contact = call[d].contact
    BY <1>32 DEF Close
  <2>1. \A x \in Contacts : Of(x)' = Of(x) /\ Open(x)' \subseteq Open(x)
    BY <1>32, StatusFacts DEF Close
  <2>2. slips \subseteq slips' /\ (Writing' => Writing)
    BY <1>32 DEF Close, Others, runVars, Writing
  <2> QED
    BY <2>1, <2>2, <2>8, CalmFresh DEF Calm
<1>33. CASE Restart
  <2>8. \A d \in Callers : call'[d].pc = "create" =>
           call[d].pc = "create" /\ call'[d].contact = call[d].contact
    BY <1>33, BusyFacts DEF Restart
  <2>9. /\ UNCHANGED convs /\ slips \subseteq slips'
        /\ Writing' => Writing
    BY <1>33 DEF Restart, Writing, NoRun
  <2> QED
    BY <2>8, <2>9, SameConvs, CalmFresh DEF Calm
<1>34. CASE UNCHANGED vars
  <2>8. \A d \in Callers : call'[d].pc = "create" =>
           call[d].pc = "create" /\ call'[d].contact = call[d].contact
    BY <1>34 DEF vars, Alone, KeepRest, feedVars, runVars, liveVars, convVars
  <2>9. /\ UNCHANGED convs /\ slips \subseteq slips'
        /\ Writing' => Writing
    BY <1>34 DEF vars, Writing, NoRun, Alone, KeepRest, feedVars, runVars, liveVars, convVars
  <2> QED
    BY <2>8, <2>9, SameConvs, CalmFresh DEF Calm
<1> QED
  BY <1>1, <1>2, <1>3, <1>4, <1>5, <1>6, <1>7, <1>8, <1>9, <1>10, <1>11, <1>12, <1>13, <1>14,
     <1>15, <1>16, <1>17, <1>18, <1>19, <1>20, <1>21, <1>22, <1>23, <1>24, <1>25, <1>26, <1>27,
     <1>28, <1>29, <1>30, <1>31, <1>32, <1>33, <1>34 DEF Next, ImportStep, Resolution

-----------------------------------------------------------------------------

LEMMA InitInv == Init => IInv
<1> SUFFICES ASSUME Init PROVE IInv
  OBVIOUS
<1>1. TypeOK
  <2>1. convs \in Seq(Conversation) /\ Len(convs) <= MaxConvs
    BY HistoryAssumption DEF Init
  <2>2. call \in [Callers -> Call]
    BY BusyFacts DEF Init
  <2>3. run \in Run
    BY BusyFacts DEF Init
  <2> QED
    BY <2>1, <2>2, <2>3, HistoryAssumption DEF Init, TypeOK
<1>2. RunInv
  BY DEF Init, RunInv, NoRun, Importing, Holding
<1>3. ForgottenHasCause
  BY DEF Init, ForgottenHasCause
<1>4. ImportedOnce
  BY DEF Init, ImportedOnce
<1>5. \A c \in Callers : call[c].pc = "idle"
  BY BusyFacts DEF Init
<1>6. CallInv /\ JobInv
  BY <1>5 DEF CallInv, JobInv, Busy, Init, Callers
<1>7. FreshInv /\ OneInv
  <2>1. \A x : Of(x) = {} /\ Open(x) = {}
    BY DEF Init, Of, Open
  <2> QED
    BY <1>5, <2>1 DEF FreshInv, OneInv
<1> QED
  BY <1>1, <1>2, <1>3, <1>4, <1>6, <1>7 DEF IInv

LEMMA InvInductive == IInv /\ [Next]_vars => IInv'
<1> SUFFICES ASSUME IInv, [Next]_vars PROVE IInv'
  OBVIOUS
<1>1. /\ TypeOK /\ RunInv /\ ForgottenHasCause /\ ImportedOnce
      /\ CallInv /\ FreshInv /\ OneInv /\ JobInv
  BY DEF IInv
<1>2. SetsOK' /\ RunOK' /\ ConvOK' /\ CallOK'
  BY <1>1, SetsStep, RunStep, ConvStep, CallStep
<1>3. TypeOK'
  BY <1>2 DEF TypeOK, SetsOK, RunOK, ConvOK, CallOK
<1>4. RunInv' /\ ForgottenHasCause' /\ ImportedOnce'
  BY <1>1, RunInvStep, ForgottenStep, OnceStep
<1>5. CallInv' /\ JobInv'
  BY <1>1, CallInvStep, JobStep
<1>6. FreshInv' /\ OneInv'
  BY <1>1, OneStep
<1> QED
  BY <1>3, <1>4, <1>5, <1>6 DEF IInv

THEOREM Invariance == Spec => []IInv
  BY InitInv, InvInductive, PTL DEF Spec

-----------------------------------------------------------------------------

\* The type invariant of the feed, the run, the conversations and their
\* Resolver.
THEOREM TypeCorrect == Spec => []TypeOK
<1>1. IInv => TypeOK
  BY DEF IInv
<1> QED
  BY <1>1, Invariance, PTL

\* No failed run forgets history (RunImport resets the accumulator only after
\* the whole of it was written).
THEOREM NothingForgotten == Spec => []ForgottenHasCause
<1>1. IInv => ForgottenHasCause
  BY DEF IInv
<1> QED
  BY <1>1, Invariance, PTL

\* The import writes a message once, however often it runs over the same
\* history (importMessageChunk).
THEOREM NothingTwice == Spec => []ImportedOnce
<1>1. IInv => ImportedOnce
  BY DEF IInv
<1> QED
  BY <1>1, Invariance, PTL

\* Two open conversations of a contact are the work of an expired lock, a
\* replaced Resolver or the import meeting the mirror (Resolver.Resolve,
\* ensureConversation).
THEOREM OneEach == Spec => []OneConversation
<1>1. IInv => OneConversation
  <2> SUFFICES ASSUME IInv, NEW x \in Contacts, x \notin slips
               PROVE  ~(Cardinality(Open(x)) > 1)
    BY DEF OneConversation
  <2>1. \A i, j \in Open(x) : i = j
    BY DEF IInv, OneInv
  <2>2. CASE Open(x) = {}
    BY <2>2, FS_EmptySet
  <2>3. CASE Open(x) /= {}
    <3>1. PICK i \in Open(x) : Open(x) = {i}
      BY <2>1, <2>3
    <3> QED
      BY <3>1, FS_Singleton
  <2> QED
    BY <2>2, <2>3
<1> QED
  BY <1>1, Invariance, PTL
=============================================================================
