------------------------------ MODULE Session ------------------------------
(***************************************************************************)
(* One WhatsApp session: its status, the goroutines that change it, the    *)
(* auto-reconnect loops, pairing through the API, and the projection of    *)
(* the status into the instances row and the connection events.            *)
(*                                                                         *)
(* Source: internal/session/whatsmeow/{manager,reconnect,pairing,events}   *)
(* .go, internal/app/runtime.go (OnConnection) and the Connect operation   *)
(* of internal/instance/service.go.                                        *)
(*                                                                         *)
(* whatsmeow is the environment: it dispatches events on goroutines of its *)
(* own, which may run concurrently (events.go, the comment of dispatch).   *)
(* setStatus is three steps, as it unlocks before it reports: "enter" the  *)
(* critical section, the "sink", the reconnect "policy".  A reason is ""   *)
(* or "why".                                                               *)
(***************************************************************************)
EXTENDS Integers, FiniteSets, Faults

CONSTANTS
    Handlers,   \* event goroutines of whatsmeow
    Api,        \* the goroutine serving POST /connect
    Monitor,    \* monitorQR
    Loops,      \* reconnectLoop goroutines
    NoLoop      \* reconnectRun = nil
    \* MaxFaults of Faults bounds socket drops, bans, logouts, failed writes

Callers == Handlers \cup {Api, Monitor}

ASSUME SessionAssumption ==
    /\ Api \notin Handlers
    /\ Monitor \notin Handlers \cup {Api}
    /\ NoLoop \notin Loops
    /\ MaxFaults \in Nat

VARIABLES
    \* instanceSession
    status,     \* s.status
    reason,     \* s.lastReason
    terminal,   \* s.terminal
    paired,     \* s.paired, and s.jid # ""
    run,        \* s.reconnectRun
    \* goroutines
    at,         \* where each caller is in setStatus
    arg,        \* status, reason and jid it carries
    loop,       \* where each reconnect loop is
    cancelled,  \* loops whose context was cancelled
    api,        \* where the Connect operation is
    rowJid,     \* instance.WhatsAppJID as Connect read it is not ""
    \* the client
    device,     \* client.Store: "none", "stored" or "deleted"
    socket,     \* client.IsConnected()
    loggedIn,   \* this socket's Connected event was dispatched
    qr,         \* the QR channel: "closed", "open" or "scanned"
    \* Postgres
    row,        \* instances.status and whether whatsapp_jid is set
    told,       \* the status of the last connection event
    silent      \* history: the row changed with no event

sessVars   == <<status, reason, terminal, paired>>
loopVars   == <<run, loop, cancelled>>
callVars   == <<at, arg>>
apiVars    == <<api, rowJid>>
clientVars == <<device, socket, loggedIn, qr>>
dbVars     == <<row, told, silent>>
vars == <<sessVars, loopVars, callVars, apiVars, clientVars, dbVars, faults>>

-----------------------------------------------------------------------------
(* Values                                                                  *)

Status == {"disconnected", "pairing", "connected", "error"}
Reason == {"", "why"}
Arg    == [st: Status, why: Reason, jid: BOOLEAN]
NoArg  == [st |-> "disconnected", why |-> "", jid |-> FALSE]

TypeOK ==
    /\ status \in Status
    /\ reason \in Reason
    /\ terminal \in BOOLEAN
    /\ paired \in BOOLEAN
    /\ run \in Loops \cup {NoLoop}
    /\ at \in [Callers -> {"idle", "enter", "sink", "policy"}]
    /\ arg \in [Callers -> Arg]
    /\ loop \in [Loops -> {"idle", "waiting", "dialing", "ending"}]
    /\ cancelled \in SUBSET Loops
    /\ api \in {"idle", "cancel", "dial", "qr", "setStatus", "wait"}
    /\ rowJid \in BOOLEAN
    /\ device \in {"none", "stored", "deleted"}
    /\ socket \in BOOLEAN
    /\ loggedIn \in BOOLEAN
    /\ qr \in {"closed", "open", "scanned"}
    /\ row \in [st: Status, jid: BOOLEAN]
    /\ told \in Status
    /\ silent \in BOOLEAN
    /\ faults \in 0..MaxFaults

\* A session newSession built: for a restored device RestoreAll opened the
\* socket already; without a device nothing happened yet.
Init ==
    /\ status = "disconnected"
    /\ reason = ""
    /\ terminal = FALSE
    /\ run = NoLoop
    /\ at = [c \in Callers |-> "idle"]
    /\ arg = [c \in Callers |-> NoArg]
    /\ loop = [l \in Loops |-> "idle"]
    /\ cancelled = {}
    /\ api = "idle"
    /\ rowJid = FALSE
    /\ \E restored \in BOOLEAN :
          /\ paired = restored
          /\ socket = restored
          /\ device = IF restored THEN "stored" ELSE "none"
          /\ row = [st |-> "disconnected", jid |-> restored]
    /\ loggedIn = FALSE
    /\ qr = "closed"
    /\ told = "disconnected"
    /\ silent = FALSE
    /\ faults = 0

-----------------------------------------------------------------------------
(* Helpers                                                                 *)

\* Goroutine c calls setStatus(s, jid, why).
Call(c, s, why, jid) ==
    /\ at[c] = "idle"
    /\ at' = [at EXCEPT ![c] = "enter"]
    /\ arg' = [arg EXCEPT ![c] = [st |-> s, why |-> why, jid |-> jid]]

\* whatsmeow dispatches a connection event on a goroutine of its own.
Dispatch(s, why, jid) == \E h \in Handlers : Call(h, s, why, jid)

Return(c) == at' = [at EXCEPT ![c] = "idle"]

Live(l) == loop[l] \in {"waiting", "dialing"} /\ l \notin cancelled

-----------------------------------------------------------------------------
(* setStatus                                                               *)

\* A socket close does not leave a terminal state, and a report that changes
\* nothing is dropped.
Ignored(s, why) ==
    \/ s = "disconnected" /\ why = "" /\ terminal
    \/ s = status /\ why = reason

Terminal(s, why) == s = "error" \/ (s = "disconnected" /\ why # "")

\* The critical section of setStatus.
EnterStatus(c) ==
    /\ at[c] = "enter"
    /\ LET a == arg[c] IN
       IF Ignored(a.st, a.why)
       THEN Return(c) /\ UNCHANGED <<sessVars, arg>>
       ELSE /\ status' = a.st
            /\ reason' = a.why
            /\ terminal' = Terminal(a.st, a.why)
            /\ paired' = (paired \/ a.jid)
            /\ arg' = [arg EXCEPT ![c].jid = paired']
            /\ at' = [at EXCEPT ![c] = "sink"]
    /\ UNCHANGED <<loopVars, apiVars, clientVars, dbVars, faults>>

\* SetConnectionState: the status always, the jid when it is known.
SetConnectionState(a) == row' = [st |-> a.st, jid |-> row.jid \/ a.jid]

\* Runtime.OnConnection, one caller at a time under its mutex: the row, then
\* the event.
Sink(c) ==
    /\ at[c] = "sink"
    /\ SetConnectionState(arg[c])
    /\ told' = arg[c].st
    /\ silent' = FALSE
    /\ at' = [at EXCEPT ![c] = "policy"]
    /\ UNCHANGED <<sessVars, loopVars, arg, apiVars, clientVars, faults>>

\* Mutant: the event is written before the row.
SinkFails_EventFirst(c) ==
    /\ at[c] = "sink"
    /\ Fault
    /\ told' = arg[c].st
    /\ at' = [at EXCEPT ![c] = "policy"]
    /\ UNCHANGED <<row, silent, sessVars, loopVars, arg, apiVars, clientVars>>

\* OnConnection fails to record the change and skips its event, or records it
\* and fails to write the event.
SinkFails(c) ==
    /\ at[c] = "sink"
    /\ Fault
    /\ \/ UNCHANGED dbVars
       \/ /\ SetConnectionState(arg[c])
          /\ silent' = TRUE
          /\ UNCHANGED told
    /\ at' = [at EXCEPT ![c] = "policy"]
    /\ UNCHANGED <<sessVars, loopVars, arg, apiVars, clientVars>>

\* scheduleReconnect: one loop per session, none for a session that cannot
\* or must not reconnect.
ScheduleReconnect ==
    IF ~paired \/ terminal \/ run # NoLoop
    THEN UNCHANGED loopVars
    ELSE \E l \in Loops :
            /\ loop[l] = "idle"
            /\ run' = l
            /\ loop' = [loop EXCEPT ![l] = "waiting"]
            /\ cancelled' = cancelled \ {l}

\* cancelReconnect.
CancelReconnect ==
    /\ run' = NoLoop
    /\ cancelled' = cancelled \cup ({run} \ {NoLoop})
    /\ UNCHANGED loop

Transient(a) == a.st = "disconnected" /\ a.why = ""

\* applyConnectionPolicy, on the arguments of the call, whatever the status is
\* by now.
Policy(c) ==
    /\ at[c] = "policy"
    /\ IF Transient(arg[c]) THEN ScheduleReconnect ELSE CancelReconnect
    /\ Return(c)
    /\ UNCHANGED <<sessVars, arg, apiVars, clientVars, dbVars, faults>>

-----------------------------------------------------------------------------
(* reconnectLoop                                                           *)

\* The wait is over, or its context was cancelled.
LoopWakes(l) ==
    /\ loop[l] = "waiting"
    /\ loop' = [loop EXCEPT ![l] = IF l \in cancelled THEN "ending" ELSE "dialing"]
    /\ UNCHANGED <<sessVars, run, cancelled, callVars, apiVars, clientVars, dbVars, faults>>

\* connectExisting: an open socket counts as success.
LoopDials(l) ==
    /\ loop[l] = "dialing"
    /\ \/ /\ socket \/ device = "stored"
          /\ socket' = TRUE
          /\ loop' = [loop EXCEPT ![l] = "ending"]
       \/ /\ ~socket
          /\ loop' = [loop EXCEPT ![l] = "waiting"]
          /\ UNCHANGED socket
    /\ UNCHANGED <<sessVars, run, cancelled, callVars, apiVars, device, loggedIn,
                   qr, dbVars, faults>>

\* Mutant: the clean-up clears any handle.
LoopEnds_AnyHandle(l) ==
    /\ loop[l] = "ending"
    /\ loop' = [loop EXCEPT ![l] = "idle"]
    /\ cancelled' = cancelled \ {l}
    /\ run' = NoLoop
    /\ UNCHANGED <<sessVars, callVars, apiVars, clientVars, dbVars, faults>>

\* The deferred clean-up clears the handle only if it is still its own.
LoopEnds(l) ==
    /\ loop[l] = "ending"
    /\ loop' = [loop EXCEPT ![l] = "idle"]
    /\ cancelled' = cancelled \ {l}
    /\ run' = IF run = l THEN NoLoop ELSE run
    /\ UNCHANGED <<sessVars, callVars, apiVars, clientVars, dbVars, faults>>

-----------------------------------------------------------------------------
(* whatsmeow                                                               *)

\* The login on the open socket completes: Connected.
LogsIn ==
    /\ socket /\ ~loggedIn /\ device = "stored"
    /\ loggedIn' = TRUE
    /\ Dispatch("connected", "", TRUE)
    /\ UNCHANGED <<sessVars, loopVars, apiVars, device, socket, qr, dbVars, faults>>

\* The socket drops: Disconnected.
Drops ==
    /\ socket
    /\ Fault
    /\ socket' = FALSE
    /\ loggedIn' = FALSE
    /\ Dispatch("disconnected", "", FALSE)
    /\ UNCHANGED <<sessVars, loopVars, apiVars, device, qr, dbVars>>

\* TemporaryBan, StreamReplaced, ClientOutdated, ConnectFailure, ...
Restricted ==
    /\ socket
    /\ device = "stored"
    /\ Fault
    /\ Dispatch("error", "why", FALSE)
    /\ UNCHANGED <<sessVars, loopVars, apiVars, clientVars, dbVars>>

\* LoggedOut: the library deletes the device.
LoggedOut ==
    /\ socket
    /\ device = "stored"
    /\ Fault
    /\ device' = "deleted"
    /\ Dispatch("disconnected", "why", FALSE)
    /\ UNCHANGED <<sessVars, loopVars, apiVars, socket, loggedIn, qr, dbVars>>

\* The phone scans the code: PairSuccess, and the QR channel succeeds.
Scanned ==
    /\ qr = "open"
    /\ socket
    /\ qr' = "scanned"
    /\ device' = "stored"
    /\ Dispatch("connected", "", TRUE)
    /\ UNCHANGED <<sessVars, loopVars, apiVars, socket, loggedIn, dbVars, faults>>

\* monitorQR reports the success of the pairing.
MonitorSucceeds ==
    /\ qr = "scanned"
    /\ qr' = "closed"
    /\ Call(Monitor, "connected", "", TRUE)
    /\ UNCHANGED <<sessVars, loopVars, apiVars, device, socket, loggedIn, dbVars, faults>>

\* The code expires, the pairing fails or the channel closes; the library
\* closes the socket.
MonitorFails ==
    /\ qr = "open"
    /\ qr' = "closed"
    /\ socket' = FALSE
    /\ \E s \in {"disconnected", "error"} : Call(Monitor, s, "why", FALSE)
    /\ UNCHANGED <<sessVars, loopVars, apiVars, device, loggedIn, dbVars, faults>>

-----------------------------------------------------------------------------
(* POST /connect                                                           *)

\* service.Connect reads the row and the status; a connected session is a
\* no-op and one pairing already answers its code.
ApiConnect ==
    /\ api = "idle"
    /\ status \notin {"connected", "pairing"}
    /\ api' = "cancel"
    /\ rowJid' = row.jid
    /\ UNCHANGED <<sessVars, loopVars, callVars, clientVars, dbVars, faults>>

\* session.Connect cancels the reconnection first, then decides: a deleted
\* device or a connection already open is an error, a stored device dials, a
\* fresh one pairs.
ApiCancel ==
    /\ api = "cancel"
    /\ CancelReconnect
    /\ api' = CASE device = "deleted"                  -> "idle"
                [] socket /\ status = "connected"      -> "idle"
                [] device = "stored"                   -> "dial"
                [] device = "none" /\ socket           -> "idle"
                [] OTHER                               -> "qr"
    /\ UNCHANGED <<sessVars, callVars, rowJid, clientVars, dbVars, faults>>

\* ConnectContext with a stored device; its error, an already open socket
\* included, goes to the client.
ApiDial ==
    /\ api = "dial"
    /\ api' = "idle"
    /\ socket' \in {TRUE, socket}
    /\ UNCHANGED <<sessVars, loopVars, callVars, rowJid, device, loggedIn, qr, dbVars, faults>>

\* The QR channel opens and the client connects, or the operation fails.
ApiQR ==
    /\ api = "qr"
    /\ \/ /\ qr = "closed"
          /\ ~socket
          /\ socket' = TRUE
          /\ api' = "setStatus"
          /\ Call(Api, "pairing", "", FALSE)
       \/ /\ api' = "idle"
          /\ UNCHANGED <<socket, callVars>>
    /\ UNCHANGED <<sessVars, loopVars, rowJid, device, loggedIn, qr, dbVars, faults>>

\* setStatus returned: monitorQR starts.
ApiMonitor ==
    /\ api = "setStatus"
    /\ at[Api] = "idle"
    /\ qr' = "open"
    /\ api' = "wait"
    /\ UNCHANGED <<sessVars, loopVars, callVars, rowJid, device, socket, loggedIn, dbVars, faults>>

\* The first code arrived: markPairing writes the status and the jid Connect
\* read, without an event.  Without a code the operation fails.
ApiMark ==
    /\ api = "wait"
    /\ api' = "idle"
    /\ \/ /\ row' = [st |-> "pairing", jid |-> rowJid]
          /\ silent' = TRUE
          /\ UNCHANGED told
       \/ UNCHANGED dbVars
    /\ UNCHANGED <<sessVars, loopVars, callVars, rowJid, clientVars, faults>>

-----------------------------------------------------------------------------

Next ==
    \/ \E c \in Callers : EnterStatus(c) \/ Sink(c) \/ SinkFails(c) \/ Policy(c)
    \/ \E l \in Loops : LoopWakes(l) \/ LoopDials(l) \/ LoopEnds(l)
    \/ LogsIn \/ Drops \/ Restricted \/ LoggedOut
    \/ Scanned \/ MonitorSucceeds \/ MonitorFails
    \/ ApiConnect \/ ApiCancel \/ ApiDial \/ ApiQR \/ ApiMonitor \/ ApiMark

Spec == Init /\ [][Next]_vars

-----------------------------------------------------------------------------
(* Properties                                                              *)

\* A caller past the critical section that will cancel the reconnection.
WillCancel == \E c \in Callers : at[c] \in {"sink", "policy"} /\ ~Transient(arg[c])

\* At most one loop retries with a live context, and reconnectRun is its
\* handle: a loop that lost its handle was cancelled, and a finished loop
\* never clears the handle of a newer one (reconnect.go, reconnectRun).
OneLiveLoop ==
    /\ \A l \in Loops : Live(l) => run = l
    /\ run # NoLoop => loop[run] # "idle" /\ run \notin cancelled

\* A session in a terminal state is not reconnected: a loop is alive only
\* while the caller that made the state terminal is still to cancel it
\* (reconnect.go, scheduleReconnect; README: a restriction does not reconnect).
TerminalHasNoLoop == terminal /\ run # NoLoop => WillCancel

\* The connection events tell what the row says, unless a write changed the
\* row without one: OnConnection serializes both (runtime.go, Runtime.mu).
EventsMatchRow == silent \/ told = row.st

\* Nobody is inside setStatus or Connect.
Quiet == api = "idle" /\ \A c \in Callers : at[c] = "idle"

\* A transient drop reconnects: a paired session without a socket, whose last
\* report was a plain disconnection, has a reconnect loop.
DropIsRetried ==
    Quiet /\ paired /\ ~socket /\ status = "disconnected" /\ reason = ""
        => run # NoLoop

\* The row settles on the session's status once every transition was
\* reported.
RowInSync == Quiet /\ faults = 0 /\ ~silent => row.st = status
=============================================================================
