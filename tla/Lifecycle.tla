----------------------------- MODULE Lifecycle -----------------------------
(***************************************************************************)
(* The life of one instance: the manager's registry of sessions, the       *)
(* stored credentials, the row, and the requests that pair, disconnect,    *)
(* change and delete the instance while the library connects, drops and    *)
(* logs out.                                                               *)
(*                                                                         *)
(* Source: internal/instance/service.go (Connect, QR, resetPairing,        *)
(* Disconnect, Update, Delete), internal/session/whatsmeow/manager.go      *)
(* (Create, Remove, RestoreAll, remove, Disconnect), pairing.go (Connect)  *)
(* and internal/storage/postgres/instances.go.                             *)
(*                                                                         *)
(* setStatus with its projection is one step here: module Session has its  *)
(* interleavings.  A device stands for its JID.  whatsmeow is the          *)
(* environment; QR is Connect with other answers.                          *)
(***************************************************************************)
EXTENDS Integers, FiniteSets, Faults

CONSTANTS
    Requests,    \* requests about the instance, served at a time
    Sessions,    \* bound: instanceSession values built in one run of the process
    Devices,     \* bound: devices paired
    NoSession,
    NoDevice
    \* MaxFaults of Faults bounds drops, bans, logouts, failed writes, crashes

ASSUME LifecycleAssumption ==
    /\ NoSession \notin Sessions
    /\ NoDevice \notin Devices
    /\ MaxFaults \in Nat

VARIABLES
    \* Postgres
    row,     \* the row of instances
    store,   \* devices whose credentials are stored
    \* Manager
    up,      \* "down", "restoring" or "serving"
    reg,     \* m.sessions of the instance
    sess,    \* the instanceSession values
    used,    \* those built
    paired,  \* devices paired so far
    \* requests
    pc, op, copy, held, resume,
    \* History, not stored by the program
    taken,   \* sessions unregistered while another request held them
    missed,  \* devices whose session was not registered when removed, or paired, or after a
             \* failed removal, and those the row did not name at a crash
    stale    \* the identity in the row was last written by a request or a stray session,
             \* or a session came back to the registry

dbVars      == <<row, store>>
managerVars == <<up, reg, sess, used, paired>>
requestVars == <<pc, op, copy, held, resume>>
historyVars == <<taken, missed, stale>>
vars == <<dbVars, managerVars, requestVars, historyVars, faults>>

-----------------------------------------------------------------------------
(* Values                                                                  *)

Status == {"disconnected", "pairing", "connected", "error"}
Reason == {"", "asked", "removed", "qr", "logout", "ban"}
Device == Devices \cup {NoDevice}

\* instanceSession: the device of its client, s.jid, the socket, the QR channel
\* and the reconnect loop.
Session == [dev: Device, deleted: BOOLEAN, jid: Device, status: Status, why: Reason,
            open: BOOLEAN, qr: BOOLEAN, loop: BOOLEAN]

\* newSession.
NewSession(d) == [dev |-> d, deleted |-> FALSE, jid |-> d, status |-> "disconnected", why |-> "",
                  open |-> FALSE, qr |-> FALSE, loop |-> FALSE]

Row == [there: BOOLEAN, st: Status, jid: Device]

TypeOK ==
    /\ row \in Row
    /\ store \in SUBSET Devices
    /\ up \in {"down", "restoring", "serving"}
    /\ reg \in Sessions \cup {NoSession}
    /\ sess \in [Sessions -> Session]
    /\ used \in SUBSET Sessions
    /\ paired \in SUBSET Devices
    /\ pc \in [Requests -> {"idle", "session", "status", "dial", "mark", "hangup", "clear",
                            "unregister", "close", "erase", "recreate", "deleteRow", "update"}]
    /\ op \in [Requests -> {"none", "connect", "disconnect", "delete", "update"}]
    /\ copy \in [Requests -> [st: Status, jid: Device]]
    /\ held \in [Requests -> Sessions \cup {NoSession}]
    /\ resume \in [Requests -> {"no", "status", "dial", "hangup"}]
    /\ taken \in SUBSET Sessions
    /\ missed \in SUBSET Devices
    /\ stale \in BOOLEAN
    /\ faults \in 0..MaxFaults

NoCopy == [st |-> "disconnected", jid |-> NoDevice]

\* An instance that was created, or one that was paired before.
Init ==
    /\ \E d \in Device :
          /\ row = [there |-> TRUE, st |-> "disconnected", jid |-> d]
          /\ store = {d} \ {NoDevice}
          /\ paired = {d} \ {NoDevice}
    /\ up = "down"
    /\ reg = NoSession
    /\ sess = [o \in Sessions |-> NewSession(NoDevice)]
    /\ used = {}
    /\ pc = [r \in Requests |-> "idle"]
    /\ op = [r \in Requests |-> "none"]
    /\ copy = [r \in Requests |-> NoCopy]
    /\ held = [r \in Requests |-> NoSession]
    /\ resume = [r \in Requests |-> "no"]
    /\ taken = {}
    /\ missed = {}
    /\ stale = FALSE
    /\ faults = 0

-----------------------------------------------------------------------------
(* Helpers                                                                 *)

Goto(r, step) == pc' = [pc EXCEPT ![r] = step]
Proceed(r, step) == Goto(r, step) /\ UNCHANGED <<op, copy, held, resume>>

Answer(r) ==
    /\ Goto(r, "idle")
    /\ op' = [op EXCEPT ![r] = "none"]
    /\ copy' = [copy EXCEPT ![r] = NoCopy]
    /\ held' = [held EXCEPT ![r] = NoSession]
    /\ resume' = [resume EXCEPT ![r] = "no"]

\* s.terminal.
Terminal(s) == s.status = "error" \/ (s.status = "disconnected" /\ s.why # "")

\* setStatus drops a plain disconnection of a terminal session, and repeats.
Dropped(s, st, why) ==
    \/ st = "disconnected" /\ why = "" /\ Terminal(s)
    \/ s.status = st /\ s.why = why

\* Mutant: the JID of a pairing is not kept by the session.
After_Forgets(s, st, jid, why) ==
    IF Dropped(s, st, why) THEN s
    ELSE [s EXCEPT !.status = st, !.why = why,
                   !.loop = st = "disconnected" /\ why = "" /\ s.jid # NoDevice]

\* The session after setStatus(st, jid, why) and the reconnect policy.
After(s, st, jid, why) ==
    IF Dropped(s, st, why) THEN s
    ELSE LET known == IF jid # NoDevice THEN jid ELSE s.jid IN
         [s EXCEPT !.status = st, !.why = why, !.jid = known,
                   !.loop = st = "disconnected" /\ why = "" /\ known # NoDevice]

\* SetConnectionState keeps the stored JID while the session knows none.
SetConnectionState(st, jid) ==
    row' = [row EXCEPT !.st = IF row.there THEN st ELSE @,
                       !.jid = IF row.there /\ jid # NoDevice THEN jid ELSE @]

\* Session o is s, which then calls setStatus(st, jid, why).
SetStatus(o, s, st, jid, why) ==
    /\ sess' = [sess EXCEPT ![o] = After(s, st, jid, why)]
    /\ IF Dropped(s, st, why) THEN UNCHANGED row
       ELSE SetConnectionState(st, After(s, st, jid, why).jid)
    /\ stale' = IF row'.jid = row.jid THEN stale ELSE reg # o

\* SetConnection stores the JID it is given, or none.
SetConnection(st, jid) ==
    /\ row.there
    /\ row' = [row EXCEPT !.st = st, !.jid = jid]
    /\ stale' = (stale \/ jid # row.jid)

-----------------------------------------------------------------------------
(* The library                                                             *)

EnvUnchanged == UNCHANGED <<up, reg, used, requestVars, taken>>

\* The phone scans the QR code: PairSuccess.
Scanned(o) ==
    /\ sess[o].qr /\ sess[o].open
    /\ \E d \in Devices \ paired :
          /\ store' = store \cup {d}
          /\ paired' = paired \cup {d}
          /\ missed' = IF reg = o /\ row.there THEN missed ELSE missed \cup {d}
          /\ SetStatus(o, [sess[o] EXCEPT !.dev = d, !.qr = FALSE], "connected", d, "")
    /\ EnvUnchanged /\ UNCHANGED faults

\* The QR channel times out, is closed or fails: monitorQR.
QrEnds(o) ==
    /\ sess[o].qr
    /\ \E st \in {"disconnected", "error"} :
          SetStatus(o, [sess[o] EXCEPT !.qr = FALSE, !.open = FALSE], st, NoDevice, "qr")
    /\ EnvUnchanged /\ UNCHANGED <<store, paired, missed, faults>>

\* events.Connected.
LoggedIn(o) ==
    /\ sess[o].open /\ sess[o].dev # NoDevice
    /\ SetStatus(o, sess[o], "connected", sess[o].dev, "")
    /\ EnvUnchanged /\ UNCHANGED <<store, paired, missed, faults>>

\* events.Disconnected, or an error of the connection.
Drop(o) ==
    /\ sess[o].open
    /\ Fault
    /\ \E end \in {<<"disconnected", "">>, <<"error", "ban">>} :
          SetStatus(o, [sess[o] EXCEPT !.open = FALSE], end[1], NoDevice, end[2])
    /\ EnvUnchanged /\ UNCHANGED <<store, paired, missed>>

\* The phone removes the device: the library deletes it from its store.
LoggedOut(o) ==
    /\ sess[o].open /\ sess[o].dev # NoDevice
    /\ Fault
    /\ store' = store \ {sess[o].dev}
    /\ SetStatus(o, [sess[o] EXCEPT !.open = FALSE, !.dev = NoDevice, !.deleted = TRUE],
                 "disconnected", NoDevice, "logout")
    /\ EnvUnchanged /\ UNCHANGED <<paired, missed>>

\* reconnectLoop dials; a device that is gone is retried for ever.
Redial(o) ==
    /\ sess[o].loop /\ ~sess[o].deleted
    /\ sess' = [sess EXCEPT ![o].loop = FALSE, ![o].open = TRUE]
    /\ EnvUnchanged /\ UNCHANGED <<dbVars, paired, missed, stale, faults>>

-----------------------------------------------------------------------------
(* Boot: RestoreAll, then serving                                          *)

\* The instance has no JID, or its restore ran out of time or found no device
\* or no database: it is not registered, and only the row tells.
NotRestored ==
    /\ up = "restoring"
    /\ \/ row.there /\ row.jid = NoDevice /\ UNCHANGED <<row, faults>>
       \/ ~row.there /\ UNCHANGED <<row, faults>>
       \/ /\ row.there /\ row.jid # NoDevice
          /\ row.jid \in store => Fault
          /\ row.jid \notin store => UNCHANGED faults
          /\ row' = [row EXCEPT !.st = "error"]
    /\ up' = "serving"
    /\ UNCHANGED <<store, reg, sess, used, paired, requestVars, historyVars>>

\* attachAndConnect, whose dial may fail.
Restored ==
    /\ up = "restoring"
    /\ row.there /\ row.jid \in store
    /\ \E o \in Sessions \ used, dialed \in BOOLEAN :
          /\ used' = used \cup {o}
          /\ reg' = o
          /\ sess' = [sess EXCEPT ![o] = [NewSession(row.jid) EXCEPT !.open = dialed]]
          /\ IF dialed THEN UNCHANGED <<row, faults>>
             ELSE Fault /\ row' = [row EXCEPT !.st = "error"]
    /\ up' = "serving"
    /\ UNCHANGED <<store, paired, requestVars, historyVars>>

Boot ==
    /\ up = "down"
    /\ up' = "restoring"
    /\ UNCHANGED <<dbVars, reg, sess, used, paired, requestVars, historyVars, faults>>

Crash ==
    /\ up = "serving"
    /\ Fault
    /\ up' = "down"
    /\ reg' = NoSession
    /\ sess' = [o \in Sessions |-> NewSession(NoDevice)]
    /\ used' = {}
    /\ taken' = {}
    /\ pc' = [r \in Requests |-> "idle"]
    /\ op' = [r \in Requests |-> "none"]
    /\ copy' = [r \in Requests |-> NoCopy]
    /\ held' = [r \in Requests |-> NoSession]
    /\ resume' = [r \in Requests |-> "no"]
    /\ missed' = missed \cup (store \ {row.jid})
    /\ UNCHANGED <<dbVars, paired, stale>>

-----------------------------------------------------------------------------
(* Requests                                                                *)

\* The row is read; the request works on its copy.
Begin(r) ==
    /\ up = "serving"
    /\ pc[r] = "idle"
    /\ row.there
    /\ \E o \in {"connect", "disconnect", "delete", "update"} :
          /\ op' = [op EXCEPT ![r] = o]
          /\ Goto(r, CASE o \in {"connect", "disconnect"} -> "session"
                       [] o = "delete" -> "unregister"
                       [] o = "update" -> "update")
          /\ copy' = [copy EXCEPT ![r] =
                         CASE o = "delete" -> NoCopy
                           [] o = "update" -> [st |-> row.st, jid |-> row.jid]
                           [] OTHER        -> [NoCopy EXCEPT !.jid = row.jid]]
    /\ UNCHANGED <<dbVars, managerVars, held, resume, historyVars, faults>>

\* Manager.Create with JID d: the registered session, or a new one.
Create(r, d, next) ==
    /\ \/ /\ reg # NoSession
          /\ held' = [held EXCEPT ![r] = reg]
          /\ UNCHANGED <<reg, sess, used>>
       \/ /\ reg = NoSession
          /\ d = NoDevice \/ d \in store
          /\ \E o \in Sessions \ used :
                /\ used' = used \cup {o}
                /\ reg' = o
                /\ sess' = [sess EXCEPT ![o] = NewSession(d)]
                /\ held' = [held EXCEPT ![r] = o]
    /\ Goto(r, next)

AfterSession(r) == IF op[r] = "connect" THEN "status" ELSE "hangup"

\* sessionFor.
SessionFor(r) ==
    /\ pc[r] = "session"
    /\ \/ Create(r, copy[r].jid, AfterSession(r)) /\ UNCHANGED resume
       \/ /\ reg = NoSession /\ copy[r].jid \notin store \cup {NoDevice}
          /\ resume' = [resume EXCEPT ![r] = AfterSession(r)]
          /\ Goto(r, "unregister")
          /\ UNCHANGED <<reg, sess, used, held>>
    /\ UNCHANGED <<dbVars, up, paired, op, copy, historyVars, faults>>

\* A session connected or pairing is answered as it is.
CheckStatus(r) ==
    /\ pc[r] = "status"
    /\ IF sess[held[r]].status \in {"connected", "pairing"} THEN Answer(r) ELSE Proceed(r, "dial")
    /\ UNCHANGED <<dbVars, managerVars, historyVars, faults>>

\* Session.Connect: the reconnect loop is cancelled, then by the state of the
\* client; a dial may fail.
Dial(r) ==
    /\ pc[r] = "dial"
    /\ LET o == held[r]
           s == [sess[o] EXCEPT !.loop = FALSE] IN
       \/ /\ s.deleted
          /\ sess' = [sess EXCEPT ![o] = s]
          /\ IF resume[r] = "dial" THEN Answer(r)
             ELSE resume' = [resume EXCEPT ![r] = "dial"] /\ Goto(r, "unregister")
                  /\ UNCHANGED <<op, copy, held>>
          /\ UNCHANGED <<row, stale>>
       \/ /\ ~s.deleted
          /\ \E opened \in {s.open, s.dev # NoDevice} : sess' = [sess EXCEPT ![o] = [s EXCEPT !.open = opened \/ @]]
          /\ Answer(r)
          /\ UNCHANGED <<row, stale>>
       \/ /\ ~s.deleted /\ s.dev = NoDevice /\ ~s.open
          /\ SetStatus(o, [s EXCEPT !.open = TRUE, !.qr = TRUE], "pairing", NoDevice, "")
          /\ Proceed(r, "mark")
    /\ UNCHANGED <<store, up, reg, used, paired, taken, missed, faults>>

\* The first QR code arrived: markPairing writes the JID that was read.
MarkPairing(r) ==
    /\ pc[r] = "mark"
    /\ SetConnection("pairing", copy[r].jid)
    /\ Answer(r)
    /\ UNCHANGED <<store, managerVars, taken, missed, faults>>

\* No code came, the client went away, or the row is gone.
GiveUp(r) ==
    /\ pc[r] = "mark"
    /\ Answer(r)
    /\ UNCHANGED <<dbVars, managerVars, historyVars, faults>>

-----------------------------------------------------------------------------
(* Tearing a session down                                                  *)

\* Mutant: the reconnect loop is not cancelled.
Teardown_KeepsLoop(s, out) ==
    IF out THEN [s EXCEPT !.open = FALSE, !.dev = NoDevice, !.deleted = TRUE]
    ELSE [s EXCEPT !.open = FALSE]

\* cancelQR, cancelReconnect, logoutTolerantly and Client.Disconnect.  A client
\* that is logged in logs out, and the library deletes its device, unless the
\* server cannot be reached.
Teardown(s, out) ==
    IF out THEN [s EXCEPT !.open = FALSE, !.loop = FALSE, !.dev = NoDevice, !.deleted = TRUE]
    ELSE [s EXCEPT !.open = FALSE, !.loop = FALSE]

LoggedOn(s) == s.open /\ s.dev # NoDevice /\ s.status = "connected"

LogoutTolerantly(o, out) ==
    /\ out => LoggedOn(sess[o])
    /\ store' = IF out THEN store \ {sess[o].dev} ELSE store
    /\ IF LoggedOn(sess[o]) /\ ~out THEN Fault ELSE UNCHANGED faults

\* Session.Disconnect.
Hangup(r) ==
    /\ pc[r] = "hangup"
    /\ \E out \in BOOLEAN :
          /\ LogoutTolerantly(held[r], out)
          /\ SetStatus(held[r], [Teardown(sess[held[r]], out) EXCEPT !.jid = NoDevice],
                       "disconnected", NoDevice, "asked")
    /\ Goto(r, "clear")
    /\ held' = [held EXCEPT ![r] = NoSession]
    /\ UNCHANGED <<op, copy, resume, up, reg, used, paired, taken, missed>>

\* SetConnection(disconnected, ""), of Disconnect or of resetPairing.
Clear(r) ==
    /\ pc[r] = "clear"
    /\ SetConnection("disconnected", NoDevice)
    /\ copy' = [copy EXCEPT ![r] = NoCopy]
    /\ Goto(r, IF resume[r] = "no" THEN "unregister" ELSE "recreate")
    /\ UNCHANGED <<store, managerVars, op, held, resume, taken, missed, faults>>

\* resetPairing: a fresh session, or the one registered meanwhile.
Recreate(r) ==
    /\ pc[r] = "recreate"
    /\ Create(r, NoDevice, resume[r])
    /\ resume' = [resume EXCEPT ![r] = IF @ = "dial" THEN @ ELSE "no"]
    /\ UNCHANGED <<dbVars, up, paired, op, copy, historyVars, faults>>

\* The statement of this step fails, or finds no row: the request ends here.
StatementFails(r) ==
    /\ pc[r] \in {"clear", "deleteRow", "update"}
    /\ IF row.there THEN Fault ELSE UNCHANGED faults
    /\ Answer(r)
    /\ UNCHANGED <<dbVars, managerVars, historyVars>>

\* What follows the removal of the session.
AfterRemoval(r) ==
    IF resume[r] = "no" /\ op[r] # "delete" THEN Answer(r)
    ELSE /\ Goto(r, IF resume[r] # "no" THEN "clear" ELSE "deleteRow")
         /\ held' = [held EXCEPT ![r] = NoSession]
         /\ UNCHANGED <<op, copy, resume>>

Holders(r, o) == {q \in Requests \ {r} : held[q] = o /\ pc[q] \in {"status", "dial", "hangup"}}

\* Manager.Remove: the session leaves the registry; without one nothing is
\* removed.
Unregister(r) ==
    /\ pc[r] = "unregister"
    /\ IF reg = NoSession
       THEN /\ AfterRemoval(r)
            /\ missed' = missed \cup store
            /\ UNCHANGED <<reg, taken>>
       ELSE /\ held' = [held EXCEPT ![r] = reg]
            /\ reg' = NoSession
            /\ taken' = IF Holders(r, reg) # {} THEN taken \cup {reg} ELSE taken
            /\ Goto(r, "close")
            /\ UNCHANGED <<op, copy, resume, missed>>
    /\ UNCHANGED <<dbVars, up, sess, used, paired, stale, faults>>

\* remove, up to Client.Disconnect.
Close(r) ==
    /\ pc[r] = "close"
    /\ \E out \in BOOLEAN :
          /\ LogoutTolerantly(held[r], out)
          /\ sess' = [sess EXCEPT ![held[r]] = Teardown(@, out)]
    /\ Proceed(r, "erase")
    /\ UNCHANGED <<row, up, reg, used, paired, historyVars>>

\* remove: Store.Delete, and the report of a session that was not down.
Erase(r) ==
    /\ pc[r] = "erase"
    /\ LET o == held[r]
           s == IF sess[o].dev = NoDevice THEN sess[o]
                ELSE [sess[o] EXCEPT !.dev = NoDevice, !.deleted = TRUE] IN
       /\ store' = store \ {sess[o].dev}
       /\ IF s.status = "disconnected" THEN sess' = [sess EXCEPT ![o] = s] /\ UNCHANGED <<row, stale>>
          ELSE SetStatus(o, s, "disconnected", NoDevice, "removed")
    /\ AfterRemoval(r)
    /\ UNCHANGED <<up, reg, used, paired, taken, missed, faults>>

\* Mutant: the error is ignored.
EraseFails_Ignored(r) ==
    /\ pc[r] = "erase"
    /\ sess[held[r]].dev # NoDevice
    /\ Fault
    /\ AfterRemoval(r)
    /\ UNCHANGED <<dbVars, managerVars, historyVars>>

\* Store.Delete fails: the session is registered again, unless another one is.
EraseFails(r) ==
    /\ pc[r] = "erase"
    /\ sess[held[r]].dev # NoDevice
    /\ Fault
    /\ reg' = IF reg = NoSession THEN held[r] ELSE reg
    /\ missed' = IF row.there /\ reg = NoSession THEN missed ELSE missed \cup {sess[held[r]].dev}
    /\ stale' = (stale \/ sess[held[r]].dev # row.jid)
    /\ Answer(r)
    /\ UNCHANGED <<dbVars, up, sess, used, paired, taken>>

DeleteRow(r) ==
    /\ pc[r] = "deleteRow"
    /\ row.there
    /\ row' = [there |-> FALSE, st |-> "disconnected", jid |-> NoDevice]
    /\ missed' = IF reg = NoSession THEN missed ELSE missed \cup store
    /\ Answer(r)
    /\ UNCHANGED <<store, managerVars, taken, stale, faults>>

\* PATCH: the whole row is written back as it was read.
Update(r) ==
    /\ pc[r] = "update"
    /\ SetConnection(copy[r].st, copy[r].jid)
    /\ Answer(r)
    /\ UNCHANGED <<store, managerVars, taken, missed, faults>>

-----------------------------------------------------------------------------

Next ==
    \/ \E o \in Sessions : Scanned(o) \/ QrEnds(o) \/ LoggedIn(o) \/ Drop(o) \/ LoggedOut(o) \/ Redial(o)
    \/ Boot \/ NotRestored \/ Restored \/ Crash
    \/ \E r \in Requests :
          \/ Begin(r) \/ SessionFor(r) \/ CheckStatus(r) \/ Dial(r) \/ MarkPairing(r) \/ GiveUp(r)
          \/ Hangup(r) \/ Clear(r) \/ Recreate(r) \/ StatementFails(r)
          \/ Unregister(r) \/ Close(r) \/ Erase(r) \/ EraseFails(r) \/ DeleteRow(r) \/ Update(r)

Spec == Init /\ [][Next]_vars

-----------------------------------------------------------------------------
(* Properties                                                              *)

BeingRemoved(o) == \E r \in Requests : held[r] = o /\ pc[r] \in {"close", "erase"}

\* A client that is not in the manager is never connected
\* (session/whatsmeow/manager.go, the comment of attachAndConnect), but for
\* the time a removal takes, or when another request held the session that a
\* removal took: that request connects, or pairs, a client nobody finds again.
StrayHasCause ==
    \A o \in Sessions : sess[o].open /\ reg # o => BeingRemoved(o) \/ o \in taken

\* An instance is deleted only after its credentials (instance/service.go, the
\* comment of Delete), unless no session was registered for them, a stray
\* client paired, or the row lost the JID that names them.
LeakHasCause ==
    ~row.there =>
        store \subseteq missed \cup {sess[o].dev : o \in {p \in Sessions : BeingRemoved(p)}}

\* The identity of a connected session is in its row, so that a restart can
\* restore it, unless a write put back what a request had read before.
IdentityRecorded ==
    /\ row.there
    /\ reg # NoSession
    /\ sess[reg].status = "connected"
    /\ sess[reg].dev \in store
    => row.jid = sess[reg].dev \/ stale
=============================================================================
