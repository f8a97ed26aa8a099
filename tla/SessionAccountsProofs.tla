------------------------ MODULE SessionAccountsProofs ------------------------
(***************************************************************************)
(* Proofs about the session of one instance, for any set of event goroutines*)
(* and reconnect loops, and about the accounts, for any set of requests,   *)
(* users and instances; both for any number of faults.                     *)
(***************************************************************************)
EXTENDS Session, Accounts, FiniteSetTheorems, TLAPS

-----------------------------------------------------------------------------
(* PART ONE: the session                                                   *)
-----------------------------------------------------------------------------
(* The type invariant                                                      *)

\* A session as newSession leaves it.
LEMMA InitType == Init => TypeOK
<1> SUFFICES ASSUME Init PROVE TypeOK
  OBVIOUS
<1>1. NoArg \in Arg
  BY DEF NoArg, Arg, Status, Reason
<1>2. at \in [Callers -> {"idle", "enter", "sink", "policy"}] /\ arg \in [Callers -> Arg]
  BY <1>1 DEF Init
<1>3. /\ paired \in BOOLEAN /\ socket \in BOOLEAN
      /\ device \in {"none", "stored", "deleted"}
      /\ row \in [st: Status, jid: BOOLEAN]
  <2>1. PICK restored \in BOOLEAN :
           /\ paired = restored
           /\ socket = restored
           /\ device = IF restored THEN "stored" ELSE "none"
           /\ row = [st |-> "disconnected", jid |-> restored]
    BY Zenon DEF Init
  <2> QED
    BY <2>1 DEF Status
<1>4. faults \in 0..MaxFaults
  <2>1. faults = 0
    BY Zenon DEF Init
  <2> QED
    BY <2>1, SessionAssumption
<1>5. /\ status \in Status /\ reason \in Reason /\ told \in Status
      /\ terminal \in BOOLEAN /\ silent \in BOOLEAN /\ loggedIn \in BOOLEAN
      /\ rowJid \in BOOLEAN
  BY DEF Init, Status, Reason
<1>6. /\ run \in Loops \cup {NoLoop} /\ cancelled \in SUBSET Loops
      /\ loop \in [Loops -> {"idle", "waiting", "dialing", "ending"}]
      /\ api \in {"idle", "cancel", "dial", "qr", "setStatus", "wait"}
      /\ qr \in {"closed", "open", "scanned"}
  BY DEF Init
<1> QED
  BY <1>2, <1>3, <1>4, <1>5, <1>6 DEF TypeOK

\* A call keeps the types of the callers.
LEMMA CallType ==
    ASSUME TypeOK, NEW c \in Callers, NEW s \in Status, NEW why \in Reason,
           NEW jid \in BOOLEAN, Call(c, s, why, jid)
    PROVE  /\ at' \in [Callers -> {"idle", "enter", "sink", "policy"}]
           /\ arg' \in [Callers -> Arg]
  BY DEF TypeOK, Call, Arg

\* So does an event of the library.
LEMMA DispatchType ==
    ASSUME TypeOK, NEW s \in Status, NEW why \in Reason, NEW jid \in BOOLEAN,
           Dispatch(s, why, jid)
    PROVE  /\ at' \in [Callers -> {"idle", "enter", "sink", "policy"}]
           /\ arg' \in [Callers -> Arg]
  BY CallType DEF Dispatch, Callers

\* The fault counter stays within its bound.
LEMMA FaultType == TypeOK /\ Fault => faults' \in 0..MaxFaults
  BY SessionAssumption DEF TypeOK, Fault

\* setStatus.
LEMMA StatusType ==
    ASSUME TypeOK, NEW c \in Callers,
           EnterStatus(c) \/ Sink(c) \/ SinkFails(c) \/ Policy(c)
    PROVE  TypeOK'
<1>0. arg[c] \in Arg
  BY DEF TypeOK
<1>1. CASE EnterStatus(c)
  <2>1. CASE Ignored(arg[c].st, arg[c].why)
    BY <1>1, <2>1 DEF TypeOK, EnterStatus, Return, sessVars, loopVars, apiVars,
       clientVars, dbVars
  <2>2. CASE ~Ignored(arg[c].st, arg[c].why)
    <3>1. /\ status' = arg[c].st /\ reason' = arg[c].why
          /\ terminal' = Terminal(arg[c].st, arg[c].why)
          /\ paired' = (paired \/ arg[c].jid)
          /\ arg' = [arg EXCEPT ![c].jid = paired']
          /\ at' = [at EXCEPT ![c] = "sink"]
      BY <1>1, <2>2 DEF EnterStatus
    <3>2. status' \in Status /\ reason' \in Reason /\ terminal' \in BOOLEAN
          /\ paired' \in BOOLEAN
      BY <1>0, <3>1 DEF TypeOK, Arg, Terminal
    <3>3. arg' \in [Callers -> Arg]
      BY <3>1, <3>2 DEF TypeOK, Arg
    <3>4. at' \in [Callers -> {"idle", "enter", "sink", "policy"}]
      BY <3>1 DEF TypeOK
    <3> QED
      BY <1>1, <3>2, <3>3, <3>4 DEF TypeOK, EnterStatus, loopVars, apiVars, clientVars,
         dbVars
  <2> QED
    BY <2>1, <2>2
<1>2. CASE Sink(c) \/ SinkFails(c)
  <2>1. row' \in [st: Status, jid: BOOLEAN] /\ told' \in Status /\ silent' \in BOOLEAN
    <3>1. arg[c].st \in Status /\ arg[c].jid \in BOOLEAN
      BY <1>0 DEF Arg
    <3>2. row.jid \in BOOLEAN
      BY DEF TypeOK
    <3>3. ASSUME SetConnectionState(arg[c]) PROVE row' \in [st: Status, jid: BOOLEAN]
      <4>1. (row.jid \/ arg[c].jid) \in BOOLEAN
        OBVIOUS
      <4> QED
        BY <3>1, <3>3, <4>1, Zenon DEF SetConnectionState
    <3> QED
      BY <1>2, <3>1, <3>3 DEF TypeOK, Sink, SinkFails, dbVars
  <2>2. at' \in [Callers -> {"idle", "enter", "sink", "policy"}]
    BY <1>2 DEF TypeOK, Sink, SinkFails
  <2>3. faults' \in 0..MaxFaults
    BY <1>2, FaultType DEF TypeOK, Sink, SinkFails
  <2>4. UNCHANGED <<sessVars, loopVars, arg, apiVars, clientVars>>
    BY <1>2 DEF Sink, SinkFails
  <2> QED
    BY <2>1, <2>2, <2>3, <2>4 DEF TypeOK, sessVars, loopVars, apiVars, clientVars
<1>3. CASE Policy(c)
  <2>1. /\ run' \in Loops \cup {NoLoop} /\ cancelled' \in SUBSET Loops
        /\ loop' \in [Loops -> {"idle", "waiting", "dialing", "ending"}]
    BY <1>3 DEF TypeOK, Policy, ScheduleReconnect, CancelReconnect, loopVars
  <2>2. at' \in [Callers -> {"idle", "enter", "sink", "policy"}]
    BY <1>3 DEF TypeOK, Policy, Return
  <2> QED
    BY <1>3, <2>1, <2>2 DEF TypeOK, Policy, sessVars, apiVars, clientVars, dbVars
<1> QED
  BY <1>1, <1>2, <1>3

\* The reconnect loops.
LEMMA LoopType ==
    ASSUME TypeOK, NEW l \in Loops, LoopWakes(l) \/ LoopDials(l) \/ LoopEnds(l)
    PROVE  TypeOK'
<1>1. loop' \in [Loops -> {"idle", "waiting", "dialing", "ending"}]
  BY DEF TypeOK, LoopWakes, LoopDials, LoopEnds
<1>2. run' \in Loops \cup {NoLoop} /\ cancelled' \in SUBSET Loops /\ socket' \in BOOLEAN
  BY DEF TypeOK, LoopWakes, LoopDials, LoopEnds, clientVars
<1>3. UNCHANGED <<sessVars, callVars, apiVars, device, loggedIn, qr, dbVars, faults>>
  BY DEF LoopWakes, LoopDials, LoopEnds, clientVars
<1> QED
  BY <1>1, <1>2, <1>3 DEF TypeOK, sessVars, callVars, apiVars, dbVars

\* The library's events and monitorQR.
LEMMA LibraryType ==
    ASSUME TypeOK,
           \/ LogsIn \/ Drops \/ Restricted \/ LoggedOut
           \/ Scanned \/ MonitorSucceeds \/ MonitorFails
    PROVE  TypeOK'
<1>0. {"disconnected", "connected", "error"} \subseteq Status /\ {"", "why"} \subseteq Reason
      /\ Monitor \in Callers
  BY DEF Status, Reason, Callers
<1>1. /\ at' \in [Callers -> {"idle", "enter", "sink", "policy"}]
      /\ arg' \in [Callers -> Arg]
  <2>1. ASSUME NEW s \in Status, NEW why \in Reason, NEW jid \in BOOLEAN,
               Dispatch(s, why, jid) \/ Call(Monitor, s, why, jid)
        PROVE  /\ at' \in [Callers -> {"idle", "enter", "sink", "policy"}]
               /\ arg' \in [Callers -> Arg]
    BY <1>0, <2>1, CallType, DispatchType
  <2>2. \E s \in Status, why \in Reason, jid \in BOOLEAN :
           Dispatch(s, why, jid) \/ Call(Monitor, s, why, jid)
    BY <1>0 DEF LogsIn, Drops, Restricted, LoggedOut, Scanned, MonitorSucceeds, MonitorFails
  <2> QED
    BY <2>1, <2>2
<1>2. faults' \in 0..MaxFaults
  BY FaultType DEF TypeOK, LogsIn, Drops, Restricted, LoggedOut, Scanned,
     MonitorSucceeds, MonitorFails
<1>3. /\ device' \in {"none", "stored", "deleted"} /\ socket' \in BOOLEAN
      /\ loggedIn' \in BOOLEAN /\ qr' \in {"closed", "open", "scanned"}
  BY DEF TypeOK, LogsIn, Drops, Restricted, LoggedOut, Scanned, MonitorSucceeds,
     MonitorFails, clientVars
<1>4. UNCHANGED <<sessVars, loopVars, apiVars, dbVars>>
  BY DEF LogsIn, Drops, Restricted, LoggedOut, Scanned, MonitorSucceeds, MonitorFails
<1> QED
  BY <1>1, <1>2, <1>3, <1>4 DEF TypeOK, sessVars, loopVars, apiVars, dbVars

\* POST /connect.
LEMMA ApiType ==
    ASSUME TypeOK,
           ApiConnect \/ ApiCancel \/ ApiDial \/ ApiQR \/ ApiMonitor \/ ApiMark
    PROVE  TypeOK'
<1>1. CASE ApiConnect
  BY <1>1 DEF TypeOK, ApiConnect, sessVars, loopVars, callVars, clientVars, dbVars
<1>2. CASE ApiCancel
  <2>1. api' \in {"idle", "dial", "qr"}
    BY <1>2 DEF ApiCancel
  <2>2. run' \in Loops \cup {NoLoop} /\ cancelled' \in SUBSET Loops /\ loop' = loop
    BY <1>2 DEF TypeOK, ApiCancel, CancelReconnect
  <2>3. UNCHANGED <<sessVars, callVars, rowJid, clientVars, dbVars, faults>>
    BY <1>2 DEF ApiCancel
  <2> QED
    BY <2>1, <2>2, <2>3 DEF TypeOK, sessVars, callVars, clientVars, dbVars
<1>3. CASE ApiDial
  <2>1. api' = "idle" /\ socket' \in BOOLEAN
    BY <1>3 DEF ApiDial, TypeOK
  <2>2. UNCHANGED <<sessVars, loopVars, callVars, rowJid, device, loggedIn, qr, dbVars, faults>>
    BY <1>3 DEF ApiDial
  <2> QED
    BY <2>1, <2>2 DEF TypeOK, sessVars, loopVars, callVars, dbVars
<1>4. CASE ApiQR
  <2>1. /\ at' \in [Callers -> {"idle", "enter", "sink", "policy"}]
        /\ arg' \in [Callers -> Arg]
    BY <1>4, CallType DEF ApiQR, TypeOK, callVars, Callers, Status, Reason
  <2>2. api' \in {"idle", "setStatus"} /\ socket' \in BOOLEAN
    BY <1>4 DEF ApiQR, TypeOK
  <2>3. UNCHANGED <<sessVars, loopVars, rowJid, device, loggedIn, qr, dbVars, faults>>
    BY <1>4 DEF ApiQR
  <2> QED
    BY <2>1, <2>2, <2>3 DEF TypeOK, sessVars, loopVars, dbVars
<1>5. CASE ApiMonitor
  BY <1>5 DEF TypeOK, ApiMonitor, sessVars, loopVars, callVars, dbVars
<1>6. CASE ApiMark
  <2>1. row' \in [st: Status, jid: BOOLEAN] /\ silent' \in BOOLEAN /\ told' = told
    <3>1. CASE UNCHANGED dbVars
      BY <3>1 DEF TypeOK, dbVars
    <3>2. CASE row' = [st |-> "pairing", jid |-> rowJid] /\ silent' = TRUE /\ told' = told
      BY <3>2 DEF TypeOK, Status
    <3> QED
      BY <1>6, <3>1, <3>2 DEF ApiMark
  <2>2. api' = "idle" /\ UNCHANGED <<sessVars, loopVars, callVars, rowJid, clientVars, faults>>
    BY <1>6 DEF ApiMark
  <2> QED
    BY <2>1, <2>2 DEF TypeOK, sessVars, loopVars, callVars, clientVars
<1> QED
  BY <1>1, <1>2, <1>3, <1>4, <1>5, <1>6

\* Every step preserves the types.
LEMMA NextType == TypeOK /\ [Next]_vars => TypeOK'
<1> SUFFICES ASSUME TypeOK, [Next]_vars PROVE TypeOK'
  OBVIOUS
<1>1. CASE UNCHANGED vars
  BY <1>1 DEF TypeOK, vars, sessVars, loopVars, callVars, apiVars, clientVars, dbVars
<1> QED
  BY <1>1, StatusType, LoopType, LibraryType, ApiType DEF Next

\* The variables of every reachable state have their types.
THEOREM TypeCorrect == Spec => []TypeOK
  BY InitType, NextType, PTL DEF Spec

-----------------------------------------------------------------------------
(* Reconnect loops                                                         *)

\* Only the policy, the loops and Connect touch the loops.
LEMMA LoopSteps ==
    ASSUME [Next]_vars
    PROVE  \/ UNCHANGED loopVars
           \/ \E c \in Callers : Policy(c)
           \/ \E l \in Loops : LoopWakes(l) \/ LoopDials(l) \/ LoopEnds(l)
           \/ ApiCancel
  BY DEF Next, vars, EnterStatus, Sink, SinkFails, LogsIn, Drops, Restricted, LoggedOut,
     Scanned, MonitorSucceeds, MonitorFails, ApiConnect, ApiDial, ApiQR, ApiMonitor, ApiMark

\* A loop is registered where none was, cancelled as its handle is taken away,
\* and clears only its own handle: the invariant is inductive.
LEMMA NextOneLiveLoop == TypeOK /\ OneLiveLoop /\ [Next]_vars => OneLiveLoop'
<1> SUFFICES ASSUME TypeOK, OneLiveLoop, [Next]_vars PROVE OneLiveLoop'
  OBVIOUS
<1> USE SessionAssumption DEF OneLiveLoop, Live, TypeOK
<1>1. CASE UNCHANGED loopVars
  BY <1>1 DEF loopVars
<1>2. ASSUME CancelReconnect PROVE OneLiveLoop'
  BY <1>2 DEF CancelReconnect
<1>3. ASSUME ScheduleReconnect PROVE OneLiveLoop'
  BY <1>3 DEF ScheduleReconnect, loopVars
<1>4. ASSUME NEW l \in Loops, LoopWakes(l) PROVE OneLiveLoop'
  BY <1>4 DEF LoopWakes
<1>5. ASSUME NEW l \in Loops, LoopDials(l) PROVE OneLiveLoop'
  BY <1>5 DEF LoopDials
<1>6. ASSUME NEW l \in Loops, LoopEnds(l) PROVE OneLiveLoop'
  BY <1>6 DEF LoopEnds
<1> QED
  BY <1>1, <1>2, <1>3, <1>4, <1>5, <1>6, LoopSteps DEF Policy, ApiCancel

\* At most one loop retries with a live context, and reconnectRun is its
\* handle (reconnect.go, scheduleReconnect and cancelReconnect).
THEOREM LiveLoopUnique == Spec => []OneLiveLoop
<1>1. Init => OneLiveLoop
  BY DEF Init, OneLiveLoop, Live
<1> QED
  BY <1>1, TypeCorrect, NextOneLiveLoop, PTL DEF Spec

-----------------------------------------------------------------------------
(* Terminal states                                                         *)

\* A caller that will cancel goes on, or does so.
LEMMA CancelComes ==
    ASSUME TypeOK, [Next]_vars, WillCancel
    PROVE  WillCancel' \/ run' = NoLoop
<1>1. PICK c \in Callers : at[c] \in {"sink", "policy"} /\ ~Transient(arg[c])
  BY DEF WillCancel
<1>2. ASSUME at'[c] \in {"sink", "policy"}, arg'[c] = arg[c] PROVE WillCancel'
  BY <1>1, <1>2 DEF WillCancel, Transient
<1>3. ASSUME NEW d \in Callers, NEW s, NEW why, NEW jid, Call(d, s, why, jid)
      PROVE  WillCancel'
  BY <1>1, <1>2, <1>3 DEF Call, TypeOK
<1>4. ASSUME NEW d \in Callers, EnterStatus(d) PROVE WillCancel'
  <2>1. d # c /\ at'[c] = at[c] /\ arg'[c] = arg[c]
    BY <1>1, <1>4 DEF EnterStatus, Return, TypeOK
  <2> QED
    BY <1>1, <1>2, <2>1
<1>5. ASSUME NEW d \in Callers, Sink(d) \/ SinkFails(d) PROVE WillCancel'
  <2>1. at'[c] \in {"sink", "policy"} /\ arg'[c] = arg[c]
    BY <1>1, <1>5 DEF Sink, SinkFails, TypeOK
  <2> QED
    BY <1>2, <2>1
<1>6. ASSUME NEW d \in Callers, Policy(d) PROVE WillCancel' \/ run' = NoLoop
  <2>1. CASE d = c
    BY <1>1, <1>6, <2>1 DEF Policy, CancelReconnect
  <2>2. CASE d # c
    <3>1. at'[c] = at[c] /\ arg'[c] = arg[c]
      BY <1>6, <2>2 DEF Policy, Return, TypeOK
    <3> QED
      BY <1>1, <1>2, <3>1
  <2> QED
    BY <2>1, <2>2
<1>7. ASSUME UNCHANGED callVars PROVE WillCancel'
  BY <1>1, <1>2, <1>7 DEF callVars
<1>8. ASSUME \/ LogsIn \/ Drops \/ Restricted \/ LoggedOut \/ Scanned
             \/ MonitorSucceeds \/ MonitorFails \/ ApiQR
      PROVE  \/ UNCHANGED callVars
             \/ \E d \in Callers : \E s, why, jid : Call(d, s, why, jid)
  BY <1>8 DEF LogsIn, Drops, Restricted, LoggedOut, Scanned, MonitorSucceeds,
     MonitorFails, ApiQR, Dispatch, Callers
<1>9. ASSUME \/ \E l \in Loops : LoopWakes(l) \/ LoopDials(l) \/ LoopEnds(l)
             \/ ApiConnect \/ ApiCancel \/ ApiDial \/ ApiMonitor \/ ApiMark
             \/ UNCHANGED vars
      PROVE  UNCHANGED callVars
  BY <1>9 DEF LoopWakes, LoopDials, LoopEnds, ApiConnect, ApiCancel, ApiDial,
     ApiMonitor, ApiMark, vars
<1> QED
  BY <1>3, <1>4, <1>5, <1>6, <1>7, <1>8, <1>9 DEF Next

\* Only the critical section makes a state terminal, and its caller will
\* cancel; only the policy starts a loop, and not in a terminal state.
LEMMA TerminalSteps ==
    ASSUME TypeOK, [Next]_vars, terminal', run' # NoLoop
    PROVE  (terminal /\ run # NoLoop) \/ WillCancel'
<1>1. ASSUME NEW c \in Callers, EnterStatus(c), ~Ignored(arg[c].st, arg[c].why)
      PROVE  WillCancel'
  <2>1. arg[c] \in Arg
    BY DEF TypeOK
  <2>2. Terminal(arg[c].st, arg[c].why) /\ at'[c] = "sink"
        /\ arg' = [arg EXCEPT ![c].jid = paired']
    BY <1>1 DEF EnterStatus, TypeOK
  <2>3. arg'[c].st = arg[c].st /\ arg'[c].why = arg[c].why
    BY <2>1, <2>2 DEF TypeOK, Arg
  <2>4. ~Transient(arg'[c])
    BY <2>2, <2>3 DEF Terminal, Transient
  <2> QED
    BY <2>2, <2>4 DEF WillCancel
<1>2. ASSUME NEW c \in Callers, EnterStatus(c), Ignored(arg[c].st, arg[c].why)
      PROVE  terminal /\ run # NoLoop
  BY <1>2 DEF EnterStatus, sessVars, loopVars
<1>3. ASSUME NEW c \in Callers, Policy(c) PROVE terminal /\ run # NoLoop
  BY <1>3 DEF Policy, ScheduleReconnect, CancelReconnect, loopVars, sessVars
<1>4. ASSUME NEW l \in Loops, LoopWakes(l) \/ LoopDials(l) \/ LoopEnds(l)
      PROVE  terminal /\ run # NoLoop
  BY <1>4 DEF LoopWakes, LoopDials, LoopEnds, sessVars
<1>5. CASE ApiCancel
  BY <1>5 DEF ApiCancel, CancelReconnect
<1>6. ASSUME UNCHANGED sessVars, UNCHANGED loopVars PROVE terminal /\ run # NoLoop
  BY <1>6 DEF sessVars, loopVars
<1>7. ASSUME \/ \E c \in Callers : Sink(c) \/ SinkFails(c)
             \/ LogsIn \/ Drops \/ Restricted \/ LoggedOut
             \/ Scanned \/ MonitorSucceeds \/ MonitorFails
             \/ ApiConnect \/ ApiDial \/ ApiQR \/ ApiMonitor \/ ApiMark
             \/ UNCHANGED vars
      PROVE  UNCHANGED sessVars /\ UNCHANGED loopVars
  BY <1>7 DEF Sink, SinkFails, LogsIn, Drops, Restricted, LoggedOut, Scanned,
     MonitorSucceeds, MonitorFails, ApiConnect, ApiDial, ApiQR, ApiMonitor, ApiMark, vars
<1> QED
  BY <1>1, <1>2, <1>3, <1>4, <1>5, <1>6, <1>7 DEF Next

\* A session in a terminal state has a reconnect loop only while the caller
\* that made it terminal is still to cancel it (scheduleReconnect reads
\* `terminal` under the lock that registers the loop).
THEOREM TerminalStopsLoops == Spec => []TerminalHasNoLoop
<1>1. Init => TerminalHasNoLoop
  BY DEF Init, TerminalHasNoLoop
<1>2. TypeOK /\ TerminalHasNoLoop /\ [Next]_vars => TerminalHasNoLoop'
  BY CancelComes, TerminalSteps DEF TerminalHasNoLoop
<1> QED
  BY <1>1, <1>2, TypeCorrect, PTL DEF Spec

-----------------------------------------------------------------------------
(* Events                                                                  *)

\* The row and the connection event change together, or the row is marked.
LEMMA NextEventsMatch == EventsMatchRow /\ [Next]_vars => EventsMatchRow'
<1> SUFFICES ASSUME EventsMatchRow, [Next]_vars PROVE EventsMatchRow'
  OBVIOUS
<1>1. ASSUME UNCHANGED dbVars PROVE EventsMatchRow'
  BY <1>1 DEF EventsMatchRow, dbVars
<1>2. ASSUME NEW c \in Callers, Sink(c) PROVE EventsMatchRow'
  BY <1>2 DEF Sink, SetConnectionState, EventsMatchRow
<1>3. ASSUME NEW c \in Callers, SinkFails(c) PROVE EventsMatchRow'
  BY <1>1, <1>3 DEF SinkFails, EventsMatchRow
<1>4. CASE ApiMark
  BY <1>1, <1>4 DEF ApiMark, EventsMatchRow
<1>5. ASSUME \/ \E c \in Callers : EnterStatus(c) \/ Policy(c)
             \/ \E l \in Loops : LoopWakes(l) \/ LoopDials(l) \/ LoopEnds(l)
             \/ LogsIn \/ Drops \/ Restricted \/ LoggedOut
             \/ Scanned \/ MonitorSucceeds \/ MonitorFails
             \/ ApiConnect \/ ApiCancel \/ ApiDial \/ ApiQR \/ ApiMonitor
             \/ UNCHANGED vars
      PROVE  UNCHANGED dbVars
  BY <1>5 DEF EnterStatus, Policy, LoopWakes, LoopDials, LoopEnds, LogsIn, Drops,
     Restricted, LoggedOut, Scanned, MonitorSucceeds, MonitorFails, ApiConnect,
     ApiCancel, ApiDial, ApiQR, ApiMonitor, vars
<1> QED
  BY <1>1, <1>2, <1>3, <1>4, <1>5 DEF Next

\* The last connection event tells what the row says, unless a later write
\* changed the row without one (Runtime.OnConnection under its mutex).
THEOREM EventsTellTheRow == Spec => []EventsMatchRow
<1>1. ASSUME Init PROVE EventsMatchRow
  <2>1. PICK restored \in BOOLEAN : row = [st |-> "disconnected", jid |-> restored]
    BY <1>1, Zenon DEF Init
  <2>2. told = "disconnected"
    BY <1>1, Zenon DEF Init
  <2> QED
    BY <2>1, <2>2 DEF EventsMatchRow
<1> QED
  BY <1>1, NextEventsMatch, PTL DEF Spec

-----------------------------------------------------------------------------
(* PART TWO: the accounts                                                  *)
-----------------------------------------------------------------------------
(* The inductive invariant                                                 *)

Creating == {"ceiling", "quota", "owned", "owner", "insert"}

\* A creation runs with the scope of a user that exists or existed, and what
\* is not an admin's is for that user.
ScopeInv ==
    \A r \in Requests :
        /\ scope[r].kind = "user" => scope[r].user \in Users /\ user[scope[r].user].st # "absent"
        /\ pc[r] \in Creating /\ ~Admin(scope[r]) =>
              scope[r].kind = "user" /\ owner[r] = scope[r].user

\* The quota a user has, or had when a creation read it, is within limit.
LimitInv ==
    /\ \A u \in Users : Exists(u) =>
          limit[u] = Unlimited \/ (user[u].quota > 0 /\ user[u].quota <= limit[u])
    /\ \A r \in Requests : pc[r] = "owned" =>
          owner[r] \in Users /\ (limit[owner[r]] = Unlimited \/ quota[r] <= limit[owner[r]])

\* What users created for themselves is theirs.
SelfInv ==
    \A i \in self : Present(i) /\ inst[i].owner \in Users /\ user[inst[i].owner].st # "absent"

\* The requests that passed the ceiling, and those that passed the quota of u.
PastCeiling ==
    {r \in Requests : pc[r] \in {"quota", "owned", "owner", "insert"} /\ ~Admin(scope[r])}
PastQuota(u) == {r \in Requests : pc[r] \in {"owner", "insert"} /\ ~Admin(scope[r]) /\ owner[r] = u}

\* Each may still insert one instance.
CeilingInv == MaxInstances > 0 =>
    Cardinality(SelfMade) + Cardinality(PastCeiling) <= MaxInstances + Concurrent

\* The same for the quota of a user, as long as the user exists.
QuotaInv ==
    \A u \in Users : limit[u] # Unlimited =>
        Cardinality(SelfMadeBy(u)) + (IF Exists(u) THEN Cardinality(PastQuota(u)) ELSE 0)
            <= limit[u] + Concurrent

\* The steps that work on a row, and those between its write and the cache's.
Targeting == {"hash", "undo", "store", "delete", "rotate", "revoke", "evict"}
Writing   == {"hash", "undo", "store", "evict"}

\* An instance that is worked on was created.
TargetInv ==
    \A r \in Requests : pc[r] \in Targeting =>
        target[r] \in Instances /\ inst[target[r]].st # "absent"

\* No two requests write the key of an instance, unless it is torn.
AloneInv ==
    \A q, r \in Requests :
        pc[q] \in Writing /\ pc[r] \in Writing /\ target[q] = target[r] /\ q # r =>
            target[r] \in torn

\* What is about to be cached is in the row.
StoreInv ==
    \A r \in Requests : pc[r] = "store" =>
        target[r] \in torn \/ (Present(target[r]) /\ inst[target[r]].key = key[r])

\* No key of an instance that is being created is cached.
FreshInv ==
    \A r \in Requests : pc[r] \in {"hash", "undo"} =>
        target[r] \in torn \/ cache[target[r]] = NoKey

\* Nor is one of an instance that does not exist yet.
AbsentInv ==
    \A i \in Instances : inst[i].st = "absent" => cache[i] = NoKey

WriterInv == AloneInv /\ StoreInv /\ FreshInv /\ AbsentInv /\ CachedKeyIsValid

AccountsIInv ==
    /\ AccountsTypeOK /\ ScopeInv /\ LimitInv /\ SelfInv /\ CeilingInv /\ QuotaInv
    /\ TargetInv /\ WriterInv /\ KeylessHasCause

USE DEF NoKey, Key

-----------------------------------------------------------------------------
(* What the statements do to a row                                         *)

LEMMA HashStoredFacts ==
    ASSUME AccountsTypeOK, NEW i \in Instances, NEW k \in Key \cup {NoKey}, HashStored(i, k)
    PROVE  /\ inst' \in [Instances -> Row]
           /\ inst'[i].key = k /\ inst'[i].st = inst[i].st /\ inst'[i].owner = inst[i].owner
           /\ \A j \in Instances \ {i} : inst'[j] = inst[j]
<1> DEFINE n == [inst[i] EXCEPT !.key = k]
<1>1. inst[i] \in Row /\ inst \in [Instances -> Row]
  BY DEF AccountsTypeOK
<1>2. inst' = [inst EXCEPT ![i] = n]
  BY Zenon DEF HashStored
<1>3. n \in Row /\ n.key = k /\ n.st = inst[i].st /\ n.owner = inst[i].owner
  BY <1>1, Zenon DEF Row
<1> HIDE DEF n
<1> QED
  BY <1>1, <1>2, <1>3

LEMMA HashClearedFacts ==
    ASSUME AccountsTypeOK, NEW i \in Instances, HashCleared(i)
    PROVE  /\ inst' \in [Instances -> Row]
           /\ inst'[i].key = NoKey /\ inst'[i].st = inst[i].st /\ inst'[i].owner = inst[i].owner
           /\ \A j \in Instances \ {i} : inst'[j] = inst[j]
  BY HashStoredFacts DEF HashCleared, HashStored

LEMMA RowInsertedFacts ==
    ASSUME AccountsTypeOK, NEW i \in Instances, NEW u \in Users \cup {NoUser}, RowInserted(i, u)
    PROVE  /\ inst' \in [Instances -> Row]
           /\ inst'[i].key = NoKey /\ inst'[i].st = "present" /\ inst'[i].owner = u
           /\ \A j \in Instances \ {i} : inst'[j] = inst[j]
  BY DEF AccountsTypeOK, RowInserted, Row

LEMMA GoneFacts ==
    ASSUME AccountsTypeOK, NEW i \in Instances, Gone(i)
    PROVE  /\ inst' \in [Instances -> Row]
           /\ inst'[i].st = "gone"
           /\ \A j \in Instances \ {i} : inst'[j] = inst[j]
           /\ self' = self \ {i} /\ keyless' = keyless \ {i}
  BY DEF AccountsTypeOK, Gone, Row

\* A legacy instance is claimed; no other is touched.
LEMMA ClaimedFacts ==
    ASSUME AccountsTypeOK, NEW u \in Users, inst' = Claimed(u)
    PROVE  /\ inst' \in [Instances -> Row]
           /\ \A i \in Instances :
                 /\ inst'[i].st = inst[i].st /\ inst'[i].key = inst[i].key
                 /\ inst[i].owner # NoUser => inst'[i].owner = inst[i].owner
<1>1. inst \in [Instances -> Row]
  BY DEF AccountsTypeOK
<1>2. ASSUME NEW i \in Instances
      PROVE  LET n == [inst[i] EXCEPT !.owner = u]
             IN  n \in Row /\ n.st = inst[i].st /\ n.key = inst[i].key
  <2>1. inst[i] \in Row
    BY <1>1
  <2> QED
    BY <2>1, Zenon DEF Row
<1>3. ASSUME NEW i \in Instances
      PROVE  /\ inst'[i] \in Row
             /\ inst'[i].st = inst[i].st /\ inst'[i].key = inst[i].key
             /\ inst[i].owner # NoUser => inst'[i].owner = inst[i].owner
  <2> DEFINE n == [inst[i] EXCEPT !.owner = u]
  <2>1. inst'[i] = IF Present(i) /\ inst[i].owner = NoUser THEN n ELSE inst[i]
    BY DEF Claimed
  <2>2. n \in Row /\ n.st = inst[i].st /\ n.key = inst[i].key
    BY <1>2
  <2> HIDE DEF n
  <2> QED
    BY <1>1, <2>1, <2>2
<1>4. inst' = [i \in Instances |-> inst'[i]]
  BY DEF Claimed
<1> QED
  BY <1>3, <1>4

LEMMA UpdateQuotaFacts ==
    ASSUME AccountsTypeOK, NEW u \in Users, NEW q \in Quotas, UpdateQuota(u, q)
    PROVE  \E w \in UserRow : /\ user' = [user EXCEPT ![u] = w]
                              /\ w.st = "present" /\ w.role = user[u].role /\ w.quota = q
<1> DEFINE w == [user[u] EXCEPT !.quota = q]
<1>1. user[u] \in UserRow /\ user[u].st = "present"
  BY DEF AccountsTypeOK, UpdateQuota, Exists
<1>2. user' = [user EXCEPT ![u] = w]
  BY Zenon DEF UpdateQuota
<1>3. w \in UserRow /\ w.st = "present" /\ w.role = user[u].role /\ w.quota = q
  BY <1>1, Zenon DEF UserRow
<1> HIDE DEF w
<1> QED
  BY <1>2, <1>3

LEMMA DeleteUserFacts ==
    ASSUME AccountsTypeOK, NEW r \in Requests, DeleteUser(r), user' # user
    PROVE  /\ Exists(owner[r]) /\ OwnedBy(owner[r]) = {}
           /\ \E w \in UserRow : /\ user' = [user EXCEPT ![owner[r]] = w]
                                 /\ w.st = "gone" /\ w.role = user[owner[r]].role
<1> DEFINE u == owner[r]
           w == [user[u] EXCEPT !.st = "gone", !.quota = 0]
<1>1. Exists(u) /\ OwnedBy(u) = {} /\ user' = [user EXCEPT ![u] = w]
  BY DEF DeleteUser
<1>2. user[u] \in UserRow
  BY <1>1 DEF AccountsTypeOK, Exists
<1>3. w \in UserRow /\ w.st = "gone" /\ w.role = user[u].role
  BY <1>2, Zenon DEF UserRow
<1> HIDE DEF w
<1> QED
  BY <1>1, <1>3

LEMMA RecordedFacts ==
    ASSUME AccountsTypeOK, NEW u \in Users, NEW q \in Quotas, Recorded(u, q)
    PROVE  /\ limit' \in [Users -> Quotas \cup {0, Unlimited}]
           /\ limit[u] = Unlimited \/ q = 0 => limit'[u] = Unlimited
           /\ limit[u] # Unlimited /\ q # 0 => limit'[u] >= limit[u] /\ limit'[u] >= q
              /\ limit'[u] \in Nat
           /\ \A v \in Users \ {u} : limit'[v] = limit[v]
<1>0. limit \in [Users -> Quotas \cup {0, Unlimited}]
  BY DEF AccountsTypeOK
<1>a. limit[u] \in Quotas \cup {0, Unlimited}
  BY <1>0
<1>b. q \in Nat /\ \A x \in Quotas : x \in Nat
  BY AccountsAssumption
<1>c. q \in Nat
  BY <1>b
<1>d. limit[u] = Unlimited \/ limit[u] \in Nat
  <2>1. 0 \in Nat
    OBVIOUS
  <2> QED
    BY <1>a, <1>b, <2>1, Zenon
<1>1. (limit[u] = Unlimited \/ limit[u] \in Nat) /\ q \in Nat
  BY <1>c, <1>d
<1> DEFINE n == IF q = 0 \/ limit[u] = Unlimited THEN Unlimited
                ELSE IF q > limit[u] THEN q ELSE limit[u]
<1>2. limit' = [limit EXCEPT ![u] = n]
  BY DEF Recorded
<1>3. n \in Quotas \cup {0, Unlimited}
  BY <1>0, <1>1
<1>4. /\ limit[u] = Unlimited \/ q = 0 => n = Unlimited
      /\ limit[u] # Unlimited /\ q # 0 => n >= limit[u] /\ n >= q /\ n \in Nat
  BY <1>1
<1> HIDE DEF n
<1> QED
  BY <1>0, <1>2, <1>3, <1>4

-----------------------------------------------------------------------------
(* Types                                                                   *)

\* The instances.
LEMMA RowTypes ==
    AccountsTypeOK /\ TargetInv /\ [AccountsNext]_accountsVars => inst' \in [Instances -> Row]
<1> SUFFICES ASSUME AccountsTypeOK, TargetInv, [AccountsNext]_accountsVars
             PROVE inst' \in [Instances -> Row]
  OBVIOUS
<1> USE AccountsAssumption
<1>1. ASSUME NEW r \in Requests, NEW s \in Credentials, Create(r, s) PROVE inst' \in [Instances
             -> Row]
  BY <1>1 DEF Create, Authenticate, rowVars, historyVars, AccountsTypeOK
<1>2. ASSUME NEW r \in Requests, NEW s \in Credentials, Load(r, s) PROVE inst' \in [Instances
             -> Row]
  BY <1>2 DEF Load, Authenticate, Present, rowVars, historyVars, AccountsTypeOK
<1>3. ASSUME NEW r \in Requests, NEW s \in Credentials, CountBeforeDelete(r, s) PROVE inst' \in
             [Instances -> Row]
  BY <1>3 DEF CountBeforeDelete, Authenticate, OwnedBy, rowVars, historyVars, All, Present,
     AccountsTypeOK
<1>4. ASSUME NEW r \in Requests, Refuse(r) PROVE inst' \in [Instances -> Row]
  BY <1>4 DEF Refuse, rowVars, historyVars, AccountsTypeOK
<1>5. ASSUME NEW r \in Requests, Ceiling(r) PROVE inst' \in [Instances -> Row]
  BY <1>5 DEF Ceiling, All, rowVars, historyVars, Present, AccountsTypeOK
<1>6. ASSUME NEW r \in Requests, ReadQuota(r) PROVE inst' \in [Instances -> Row]
  BY <1>6 DEF ReadQuota, Exists, rowVars, historyVars, AccountsTypeOK
<1>7. ASSUME NEW r \in Requests, CountOwned(r) PROVE inst' \in [Instances -> Row]
  BY <1>7 DEF CountOwned, OwnedBy, rowVars, historyVars, All, Present, AccountsTypeOK
<1>8. ASSUME NEW r \in Requests, CheckOwner(r) PROVE inst' \in [Instances -> Row]
  BY <1>8 DEF CheckOwner, Exists, rowVars, historyVars, AccountsTypeOK
<1>9. ASSUME NEW r \in Requests, InsertRow(r) PROVE inst' \in [Instances -> Row]
  BY <1>9, RowInsertedFacts DEF InsertRow, Exists, Answer, AccountsTypeOK
<1>10. ASSUME NEW r \in Requests, SetHash(r) PROVE inst' \in [Instances -> Row]
  BY <1>10, HashStoredFacts DEF SetHash, TargetInv, Targeting, AccountsTypeOK
<1>11. ASSUME NEW r \in Requests, SetHashFails(r) PROVE inst' \in [Instances -> Row]
  BY <1>11, HashStoredFacts DEF SetHashFails, TargetInv, Targeting, AccountsTypeOK
<1>12. ASSUME NEW r \in Requests, Undo(r) PROVE inst' \in [Instances -> Row]
  BY <1>12, GoneFacts DEF Undo, TargetInv, Targeting, AccountsTypeOK
<1>13. ASSUME NEW r \in Requests, StoreKey(r) PROVE inst' \in [Instances -> Row]
  BY <1>13 DEF StoreKey, rowVars, historyVars, AccountsTypeOK
<1>14. ASSUME NEW r \in Requests, DeleteRow(r) PROVE inst' \in [Instances -> Row]
  BY <1>14, GoneFacts DEF DeleteRow, TargetInv, Targeting, AccountsTypeOK
<1>15. ASSUME NEW r \in Requests, ClearHash(r) PROVE inst' \in [Instances -> Row]
  BY <1>15, HashClearedFacts DEF ClearHash, TargetInv, Targeting, AccountsTypeOK
<1>16. ASSUME NEW r \in Requests, WriteFails(r) PROVE inst' \in [Instances -> Row]
  BY <1>16, GoneFacts, HashClearedFacts DEF WriteFails, TargetInv, Targeting, AccountsTypeOK
<1>17. ASSUME NEW r \in Requests, Evict(r) PROVE inst' \in [Instances -> Row]
  BY <1>17 DEF Evict, rowVars, historyVars, AccountsTypeOK
<1>18. ASSUME NEW r \in Requests, DeleteUser(r) PROVE inst' \in [Instances -> Row]
  BY <1>18 DEF DeleteUser, Exists, OwnedBy, historyVars, All, Present, AccountsTypeOK, rowVars
<1>19. ASSUME NEW u \in Users, NEW q \in Quotas, NEW role \in {"admin", "user"}, CreateUser(u,
             role, q) PROVE inst' \in [Instances -> Row]
  BY <1>19 DEF CreateUser, requestVars, AccountsTypeOK, rowVars
<1>20. ASSUME NEW u \in Users, NEW q \in Quotas, UpdateQuota(u, q) PROVE inst' \in [Instances
             -> Row]
  BY <1>20 DEF UpdateQuota, Exists, requestVars, AccountsTypeOK, rowVars
<1>21. CASE Boot
  BY <1>21, ClaimedFacts DEF Boot, AccountsTypeOK, rowVars
<1>22. CASE SeedFails
  BY <1>22 DEF SeedFails, NoUsers, Fault, requestVars, AccountsTypeOK, rowVars
<1>23. CASE Crash
  BY <1>23 DEF Crash, Fault, rowVars, AccountsTypeOK
<1>24. CASE UNCHANGED accountsVars
  BY <1>24 DEF accountsVars, rowVars, requestVars, historyVars, AccountsTypeOK
<1> QED
  BY <1>1, <1>2, <1>3, <1>4, <1>5, <1>6, <1>7, <1>8, <1>9, <1>10, <1>11, <1>12, <1>13, <1>14,
     <1>15, <1>16, <1>17, <1>18, <1>19, <1>20, <1>21, <1>22, <1>23, <1>24 DEF AccountsNext

\* The users.
LEMMA UserTypes == AccountsTypeOK /\ [AccountsNext]_accountsVars => user' \in [Users -> UserRow]
<1> SUFFICES ASSUME AccountsTypeOK, [AccountsNext]_accountsVars PROVE user' \in [Users -> UserRow]
  OBVIOUS
<1> USE AccountsAssumption
<1>1. ASSUME NEW r \in Requests, NEW s \in Credentials, Create(r, s) PROVE user' \in [Users ->
             UserRow]
  BY <1>1 DEF Create, Authenticate, rowVars, historyVars, AccountsTypeOK
<1>2. ASSUME NEW r \in Requests, NEW s \in Credentials, Load(r, s) PROVE user' \in [Users ->
             UserRow]
  BY <1>2 DEF Load, Authenticate, rowVars, historyVars, AccountsTypeOK
<1>3. ASSUME NEW r \in Requests, NEW s \in Credentials, CountBeforeDelete(r, s) PROVE user' \in
             [Users -> UserRow]
  BY <1>3 DEF CountBeforeDelete, Authenticate, rowVars, historyVars, AccountsTypeOK
<1>4. ASSUME NEW r \in Requests, Refuse(r) PROVE user' \in [Users -> UserRow]
  BY <1>4 DEF Refuse, rowVars, historyVars, AccountsTypeOK
<1>5. ASSUME NEW r \in Requests, Ceiling(r) PROVE user' \in [Users -> UserRow]
  BY <1>5 DEF Ceiling, All, rowVars, historyVars, AccountsTypeOK
<1>6. ASSUME NEW r \in Requests, ReadQuota(r) PROVE user' \in [Users -> UserRow]
  BY <1>6 DEF ReadQuota, rowVars, historyVars, AccountsTypeOK
<1>7. ASSUME NEW r \in Requests, CountOwned(r) PROVE user' \in [Users -> UserRow]
  BY <1>7 DEF CountOwned, rowVars, historyVars, AccountsTypeOK
<1>8. ASSUME NEW r \in Requests, CheckOwner(r) PROVE user' \in [Users -> UserRow]
  BY <1>8 DEF CheckOwner, rowVars, historyVars, AccountsTypeOK
<1>9. ASSUME NEW r \in Requests, InsertRow(r) PROVE user' \in [Users -> UserRow]
  BY <1>9 DEF InsertRow, AccountsTypeOK, rowVars
<1>10. ASSUME NEW r \in Requests, SetHash(r) PROVE user' \in [Users -> UserRow]
  BY <1>10 DEF SetHash, AccountsTypeOK, rowVars
<1>11. ASSUME NEW r \in Requests, SetHashFails(r) PROVE user' \in [Users -> UserRow]
  BY <1>11 DEF SetHashFails, AccountsTypeOK, rowVars
<1>12. ASSUME NEW r \in Requests, Undo(r) PROVE user' \in [Users -> UserRow]
  BY <1>12 DEF Undo, AccountsTypeOK, rowVars
<1>13. ASSUME NEW r \in Requests, StoreKey(r) PROVE user' \in [Users -> UserRow]
  BY <1>13 DEF StoreKey, rowVars, historyVars, AccountsTypeOK
<1>14. ASSUME NEW r \in Requests, DeleteRow(r) PROVE user' \in [Users -> UserRow]
  BY <1>14 DEF DeleteRow, AccountsTypeOK, rowVars
<1>15. ASSUME NEW r \in Requests, ClearHash(r) PROVE user' \in [Users -> UserRow]
  BY <1>15 DEF ClearHash, AccountsTypeOK, rowVars
<1>16. ASSUME NEW r \in Requests, WriteFails(r) PROVE user' \in [Users -> UserRow]
  BY <1>16 DEF WriteFails, AccountsTypeOK, rowVars
<1>17. ASSUME NEW r \in Requests, Evict(r) PROVE user' \in [Users -> UserRow]
  BY <1>17 DEF Evict, rowVars, historyVars, AccountsTypeOK
<1>18. ASSUME NEW r \in Requests, DeleteUser(r) PROVE user' \in [Users -> UserRow]
  BY <1>18, DeleteUserFacts DEF AccountsTypeOK
<1>19. ASSUME NEW u \in Users, NEW q \in Quotas, NEW role \in {"admin", "user"}, CreateUser(u,
             role, q) PROVE user' \in [Users -> UserRow]
  BY <1>19 DEF CreateUser, AccountsTypeOK, UserRow
<1>20. ASSUME NEW u \in Users, NEW q \in Quotas, UpdateQuota(u, q) PROVE user' \in [Users ->
             UserRow]
  BY <1>20, UpdateQuotaFacts DEF AccountsTypeOK
<1>21. CASE Boot
  BY <1>21 DEF Boot, AccountsTypeOK, UserRow, rowVars
<1>22. CASE SeedFails
  BY <1>22 DEF SeedFails, AccountsTypeOK, UserRow
<1>23. CASE Crash
  BY <1>23 DEF Crash, rowVars, AccountsTypeOK
<1>24. CASE UNCHANGED accountsVars
  BY <1>24 DEF accountsVars, rowVars, requestVars, historyVars, AccountsTypeOK
<1> QED
  BY <1>1, <1>2, <1>3, <1>4, <1>5, <1>6, <1>7, <1>8, <1>9, <1>10, <1>11, <1>12, <1>13, <1>14,
     <1>15, <1>16, <1>17, <1>18, <1>19, <1>20, <1>21, <1>22, <1>23, <1>24 DEF AccountsNext

LocalsOK ==
    /\ pc \in [Requests -> Step]
    /\ scope \in [Requests -> Scope]
    /\ target \in [Requests -> Instances \cup {NoInstance}]
    /\ owner \in [Requests -> Users \cup {NoUser}]
    /\ quota \in [Requests -> Quotas \cup {0}]
    /\ key \in [Requests -> Key \cup {NoKey}]

LEMMA ScopeTypes == NoScope \in Scope /\ Credentials \subseteq Scope
<1>1. NoScope \in Scope
  BY DEF NoScope, Scope
<1>2. GlobalScope \in Scope /\ \A u \in Users : UserScope(u) \in Scope
  BY Zenon DEF GlobalScope, UserScope, NoScope, Scope
<1>3. \A i \in Instances : InstanceScope(i) \in Scope
  BY Zenon DEF InstanceScope, NoScope, Scope
<1> QED
  BY <1>1, <1>2, <1>3 DEF Credentials, All

LEMMA AnswerTypes == ASSUME LocalsOK, NEW r \in Requests, Answer(r) PROVE LocalsOK'
  BY ScopeTypes DEF LocalsOK, Answer, Goto, Step

LEMMA ProceedTypes ==
    ASSUME LocalsOK, NEW r \in Requests, NEW st \in Step, Proceed(r, st) PROVE LocalsOK'
  BY DEF LocalsOK, Proceed, Goto

\* The requests.
LEMMA LocalTypes == AccountsTypeOK /\ [AccountsNext]_accountsVars => LocalsOK'
<1> SUFFICES ASSUME AccountsTypeOK, [AccountsNext]_accountsVars PROVE LocalsOK'
  OBVIOUS
<1> USE AccountsAssumption
<1>a. LocalsOK
  BY DEF AccountsTypeOK, LocalsOK
<1> USE <1>a
<1>1. ASSUME NEW r \in Requests, NEW s \in Credentials, Create(r, s) PROVE LocalsOK'
  <2>1. s \in Scope /\ s.user \in Users \cup {NoUser}
    BY ScopeTypes DEF Scope
  <2>2. scope' = [scope EXCEPT ![r] = s] /\ UNCHANGED <<target, quota, key>>
    BY <1>1 DEF Create
  <2>3. pc' \in [Requests -> Step]
    BY <1>1 DEF Create, Goto, LocalsOK, Step
  <2>4. owner' \in [Requests -> Users \cup {NoUser}]
    BY <1>1, <2>1 DEF Create, LocalsOK
  <2> QED
    BY <2>1, <2>2, <2>3, <2>4 DEF LocalsOK
<1>2. ASSUME NEW r \in Requests, NEW s \in Credentials, Load(r, s) PROVE LocalsOK'
  BY <1>2, ScopeTypes DEF Load, Goto, rowVars, historyVars, LocalsOK, Step, Scope
<1>3. ASSUME NEW r \in Requests, NEW s \in Credentials, CountBeforeDelete(r, s) PROVE LocalsOK'
  BY <1>3, ScopeTypes DEF CountBeforeDelete, Goto, rowVars, historyVars, LocalsOK, Step, Scope
<1>4. ASSUME NEW r \in Requests, Refuse(r) PROVE LocalsOK'
  BY <1>4, AnswerTypes, ProceedTypes DEF Refuse, Step
<1>5. ASSUME NEW r \in Requests, Ceiling(r) PROVE LocalsOK'
  BY <1>5, AnswerTypes, ProceedTypes DEF Ceiling, Step
<1>6. ASSUME NEW r \in Requests, ReadQuota(r) PROVE LocalsOK'
  BY <1>6, ProceedTypes DEF ReadQuota, Exists, Goto, LocalsOK, Step, AccountsTypeOK, UserRow
<1>7. ASSUME NEW r \in Requests, CountOwned(r) PROVE LocalsOK'
  BY <1>7, AnswerTypes, ProceedTypes DEF CountOwned, Step
<1>8. ASSUME NEW r \in Requests, CheckOwner(r) PROVE LocalsOK'
  BY <1>8, AnswerTypes, ProceedTypes DEF CheckOwner, Step
<1>9. ASSUME NEW r \in Requests, InsertRow(r) PROVE LocalsOK'
  BY <1>9, AnswerTypes, ScopeTypes DEF InsertRow, Goto, LocalsOK, Step
<1>10. ASSUME NEW r \in Requests, SetHash(r) PROVE LocalsOK'
  BY <1>10, AnswerTypes, ProceedTypes DEF SetHash, Goto, LocalsOK, Step, AccountsTypeOK
<1>11. ASSUME NEW r \in Requests, SetHashFails(r) PROVE LocalsOK'
  BY <1>11, AnswerTypes, ProceedTypes DEF SetHashFails, Step
<1>12. ASSUME NEW r \in Requests, Undo(r) PROVE LocalsOK'
  BY <1>12, AnswerTypes, ProceedTypes DEF Undo, Step
<1>13. ASSUME NEW r \in Requests, StoreKey(r) PROVE LocalsOK'
  BY <1>13, AnswerTypes, ProceedTypes DEF StoreKey, Step
<1>14. ASSUME NEW r \in Requests, DeleteRow(r) PROVE LocalsOK'
  BY <1>14, AnswerTypes, ProceedTypes DEF DeleteRow, Step
<1>15. ASSUME NEW r \in Requests, ClearHash(r) PROVE LocalsOK'
  BY <1>15, AnswerTypes, ProceedTypes DEF ClearHash, Step
<1>16. ASSUME NEW r \in Requests, WriteFails(r) PROVE LocalsOK'
  BY <1>16, AnswerTypes, ProceedTypes DEF WriteFails, Step
<1>17. ASSUME NEW r \in Requests, Evict(r) PROVE LocalsOK'
  BY <1>17, AnswerTypes, ProceedTypes DEF Evict, Step
<1>18. ASSUME NEW r \in Requests, DeleteUser(r) PROVE LocalsOK'
  BY <1>18, AnswerTypes, ProceedTypes DEF DeleteUser, Step
<1>19. ASSUME NEW u \in Users, NEW q \in Quotas, NEW role \in {"admin", "user"}, CreateUser(u,
             role, q) PROVE LocalsOK'
  BY <1>19 DEF CreateUser, LocalsOK, requestVars
<1>20. ASSUME NEW u \in Users, NEW q \in Quotas, UpdateQuota(u, q) PROVE LocalsOK'
  BY <1>20 DEF UpdateQuota, LocalsOK, requestVars
<1>21. CASE Boot
  BY <1>21 DEF Boot, LocalsOK, requestVars
<1>22. CASE SeedFails
  BY <1>22 DEF SeedFails, LocalsOK, requestVars
<1>23. CASE Crash
  BY <1>23, ScopeTypes DEF Crash, LocalsOK, Step
<1>24. CASE UNCHANGED accountsVars
  BY <1>24 DEF LocalsOK, accountsVars, requestVars
<1> QED
  BY <1>1, <1>2, <1>3, <1>4, <1>5, <1>6, <1>7, <1>8, <1>9, <1>10, <1>11, <1>12, <1>13, <1>14,
     <1>15, <1>16, <1>17, <1>18, <1>19, <1>20, <1>21, <1>22, <1>23, <1>24 DEF AccountsNext

RestOK ==
    /\ cache \in [Instances -> Key \cup {NoKey}]
    /\ up \in BOOLEAN
    /\ minted \in 0..MaxKeys
    /\ self \in SUBSET Instances
    /\ limit \in [Users -> Quotas \cup {0, Unlimited}]
    /\ torn \in SUBSET Instances
    /\ keyless \in SUBSET Instances
    /\ faults \in 0..MaxFaults

\* The rest.
LEMMA RestTypes == AccountsTypeOK /\ TargetInv /\ [AccountsNext]_accountsVars => RestOK'
<1> SUFFICES ASSUME AccountsTypeOK, TargetInv, [AccountsNext]_accountsVars PROVE RestOK'
  OBVIOUS
<1> USE AccountsAssumption
<1>1. ASSUME NEW r \in Requests, NEW s \in Credentials, Create(r, s) PROVE RestOK'
  BY <1>1 DEF Create, rowVars, historyVars, RestOK, AccountsTypeOK, TargetInv, Targeting
<1>2. ASSUME NEW r \in Requests, NEW s \in Credentials, Load(r, s) PROVE RestOK'
  BY <1>2 DEF Load, rowVars, historyVars, RestOK, AccountsTypeOK, TargetInv, Targeting
<1>3. ASSUME NEW r \in Requests, NEW s \in Credentials, CountBeforeDelete(r, s) PROVE RestOK'
  BY <1>3 DEF CountBeforeDelete, rowVars, historyVars, RestOK, AccountsTypeOK, TargetInv, Targeting
<1>4. ASSUME NEW r \in Requests, Refuse(r) PROVE RestOK'
  BY <1>4 DEF Refuse, rowVars, historyVars, RestOK, AccountsTypeOK, TargetInv, Targeting
<1>5. ASSUME NEW r \in Requests, Ceiling(r) PROVE RestOK'
  BY <1>5 DEF Ceiling, rowVars, historyVars, RestOK, AccountsTypeOK, TargetInv, Targeting
<1>6. ASSUME NEW r \in Requests, ReadQuota(r) PROVE RestOK'
  BY <1>6 DEF ReadQuota, rowVars, historyVars, RestOK, AccountsTypeOK, TargetInv, Targeting
<1>7. ASSUME NEW r \in Requests, CountOwned(r) PROVE RestOK'
  BY <1>7 DEF CountOwned, rowVars, historyVars, RestOK, AccountsTypeOK, TargetInv, Targeting
<1>8. ASSUME NEW r \in Requests, CheckOwner(r) PROVE RestOK'
  BY <1>8 DEF CheckOwner, rowVars, historyVars, RestOK, AccountsTypeOK, TargetInv, Targeting
<1>9. ASSUME NEW r \in Requests, InsertRow(r) PROVE RestOK'
  BY <1>9 DEF InsertRow, RestOK, AccountsTypeOK, TargetInv, Targeting, historyVars, rowVars
<1>10. ASSUME NEW r \in Requests, SetHash(r) PROVE RestOK'
  BY <1>10 DEF SetHash, RestOK, AccountsTypeOK, TargetInv, Targeting, historyVars, rowVars
<1>11. ASSUME NEW r \in Requests, SetHashFails(r) PROVE RestOK'
  BY <1>11 DEF SetHashFails, Fault, RestOK, AccountsTypeOK, TargetInv, Targeting, historyVars,
     rowVars
<1>12. ASSUME NEW r \in Requests, Undo(r) PROVE RestOK'
  BY <1>12 DEF Undo, Gone, Fault, RestOK, AccountsTypeOK, TargetInv, Targeting, historyVars, rowVars
<1>13. ASSUME NEW r \in Requests, StoreKey(r) PROVE RestOK'
  BY <1>13 DEF StoreKey, rowVars, historyVars, RestOK, AccountsTypeOK, TargetInv, Targeting
<1>14. ASSUME NEW r \in Requests, DeleteRow(r) PROVE RestOK'
  BY <1>14 DEF DeleteRow, Gone, RestOK, AccountsTypeOK, TargetInv, Targeting, historyVars, rowVars
<1>15. ASSUME NEW r \in Requests, ClearHash(r) PROVE RestOK'
  BY <1>15 DEF ClearHash, RestOK, AccountsTypeOK, TargetInv, Targeting, historyVars, rowVars
<1>16. ASSUME NEW r \in Requests, WriteFails(r) PROVE RestOK'
  BY <1>16 DEF WriteFails, Fault, Gone, RestOK, AccountsTypeOK, TargetInv, Targeting, historyVars,
     rowVars
<1>17. ASSUME NEW r \in Requests, Evict(r) PROVE RestOK'
  BY <1>17 DEF Evict, rowVars, historyVars, RestOK, AccountsTypeOK, TargetInv, Targeting
<1>18. ASSUME NEW r \in Requests, DeleteUser(r) PROVE RestOK'
  BY <1>18 DEF DeleteUser, historyVars, RestOK, AccountsTypeOK, TargetInv, Targeting, rowVars
<1>19. ASSUME NEW u \in Users, NEW q \in Quotas, NEW role \in {"admin", "user"}, CreateUser(u,
             role, q) PROVE RestOK'
  BY <1>19, RecordedFacts DEF CreateUser, requestVars, RestOK, AccountsTypeOK, TargetInv, Targeting,
     historyVars, rowVars
<1>20. ASSUME NEW u \in Users, NEW q \in Quotas, UpdateQuota(u, q) PROVE RestOK'
  BY <1>20, RecordedFacts DEF UpdateQuota, requestVars, RestOK, AccountsTypeOK, TargetInv,
     Targeting,
     historyVars, rowVars
<1>21. CASE Boot
  BY <1>21, RecordedFacts DEF Boot, rowVars, requestVars, RestOK, AccountsTypeOK, TargetInv,
     Targeting,
     historyVars
<1>22. CASE SeedFails
  BY <1>22, RecordedFacts DEF SeedFails, Fault, requestVars, RestOK, AccountsTypeOK, TargetInv,
     Targeting, historyVars, rowVars
<1>23. CASE Crash
  <2>1. \A r \in Requests : pc[r] \in {"hash", "undo"} => target[r] \in Instances
    BY DEF TargetInv, Targeting
  <2>2. keyless' \in SUBSET Instances
    BY <1>23, <2>1 DEF Crash, AccountsTypeOK
  <2>3. cache' \in [Instances -> Key \cup {NoKey}]
    BY <1>23 DEF Crash
  <2>4. faults' \in 0..MaxFaults /\ UNCHANGED <<minted, self, limit, torn>>
    BY <1>23 DEF Crash, Fault, AccountsTypeOK
  <2>5. up' \in BOOLEAN
    BY <1>23 DEF Crash
  <2> QED
    BY <2>2, <2>3, <2>4, <2>5 DEF RestOK, AccountsTypeOK
<1>24. CASE UNCHANGED accountsVars
  BY <1>24 DEF accountsVars, rowVars, requestVars, historyVars, RestOK, AccountsTypeOK, TargetInv,
     Targeting
<1> QED
  BY <1>1, <1>2, <1>3, <1>4, <1>5, <1>6, <1>7, <1>8, <1>9, <1>10, <1>11, <1>12, <1>13, <1>14,
     <1>15, <1>16, <1>17, <1>18, <1>19, <1>20, <1>21, <1>22, <1>23, <1>24 DEF AccountsNext

LEMMA TypeStep == AccountsTypeOK /\ TargetInv /\ [AccountsNext]_accountsVars => AccountsTypeOK'
  BY RowTypes, UserTypes, LocalTypes, RestTypes DEF AccountsTypeOK, LocalsOK, RestOK

-----------------------------------------------------------------------------
(* Users and scopes                                                        *)

\* A limit is a number or there is none.
LEMMA LimitType ==
    ASSUME AccountsTypeOK
    PROVE  /\ \A u \in Users : limit[u] = Unlimited \/ limit[u] \in Nat
           /\ \A r \in Requests : quota[r] \in Nat
           /\ \A u \in Users : user[u].quota \in Nat
<1>1. /\ \A u \in Users : limit[u] \in Quotas \cup {0, Unlimited}
      /\ \A r \in Requests : quota[r] \in Quotas \cup {0}
      /\ \A u \in Users : user[u].quota \in Quotas \cup {0}
  BY DEF AccountsTypeOK, UserRow
<1>2. 0 \in Nat
  OBVIOUS
<1>3. \A x \in Quotas : x \in Nat
  BY AccountsAssumption
<1> QED
  BY <1>1, <1>2, <1>3, Zenon

\* Whoever holds a cookie was a user.
LEMMA CredentialFacts ==
    ASSUME NEW s \in Credentials
    PROVE  s \in Scope /\ (s.kind = "user" => s.user \in Users /\ user[s.user].st # "absent")
<1>1. NoScope.kind = "none" /\ GlobalScope.kind = "global"
  BY DEF NoScope, GlobalScope
<1>2. \A u \in Users : UserScope(u).user = u
  BY Zenon DEF UserScope, NoScope
<1>3. \A i \in Instances : InstanceScope(i).kind = "instance"
  BY Zenon DEF InstanceScope, NoScope
<1> QED
  BY <1>1, <1>2, <1>3, ScopeTypes DEF Credentials, All

\* No user vanishes from the table, changes role or comes back.
UsersStay ==
    \A v \in Users : user[v].st # "absent" =>
        /\ user'[v].st # "absent" /\ user'[v].role = user[v].role
        /\ user[v].st = "gone" => user'[v].st = "gone"

\* A user keeps its role and is not forgotten.
LEMMA UsersKept == AccountsTypeOK /\ [AccountsNext]_accountsVars => UsersStay
<1> SUFFICES ASSUME AccountsTypeOK, [AccountsNext]_accountsVars PROVE UsersStay
  OBVIOUS
<1>1. ASSUME NEW r \in Requests, NEW s \in Credentials, Create(r, s) PROVE UsersStay
  BY <1>1 DEF UsersStay, Create, rowVars, historyVars
<1>2. ASSUME NEW r \in Requests, NEW s \in Credentials, Load(r, s) PROVE UsersStay
  BY <1>2 DEF UsersStay, Load, rowVars, historyVars
<1>3. ASSUME NEW r \in Requests, NEW s \in Credentials, CountBeforeDelete(r, s) PROVE UsersStay
  BY <1>3 DEF UsersStay, CountBeforeDelete, rowVars, historyVars
<1>4. ASSUME NEW r \in Requests, Refuse(r) PROVE UsersStay
  BY <1>4 DEF UsersStay, Refuse, rowVars, historyVars
<1>5. ASSUME NEW r \in Requests, Ceiling(r) PROVE UsersStay
  BY <1>5 DEF UsersStay, Ceiling, rowVars, historyVars
<1>6. ASSUME NEW r \in Requests, ReadQuota(r) PROVE UsersStay
  BY <1>6 DEF UsersStay, ReadQuota, rowVars, historyVars
<1>7. ASSUME NEW r \in Requests, CountOwned(r) PROVE UsersStay
  BY <1>7 DEF UsersStay, CountOwned, rowVars, historyVars
<1>8. ASSUME NEW r \in Requests, CheckOwner(r) PROVE UsersStay
  BY <1>8 DEF UsersStay, CheckOwner, rowVars, historyVars
<1>9. ASSUME NEW r \in Requests, InsertRow(r) PROVE UsersStay
  BY <1>9 DEF UsersStay, InsertRow, rowVars
<1>10. ASSUME NEW r \in Requests, SetHash(r) PROVE UsersStay
  BY <1>10 DEF UsersStay, SetHash, rowVars
<1>11. ASSUME NEW r \in Requests, SetHashFails(r) PROVE UsersStay
  BY <1>11 DEF UsersStay, SetHashFails, rowVars
<1>12. ASSUME NEW r \in Requests, Undo(r) PROVE UsersStay
  BY <1>12 DEF UsersStay, Undo, rowVars
<1>13. ASSUME NEW r \in Requests, StoreKey(r) PROVE UsersStay
  BY <1>13 DEF UsersStay, StoreKey, rowVars, historyVars
<1>14. ASSUME NEW r \in Requests, DeleteRow(r) PROVE UsersStay
  BY <1>14 DEF UsersStay, DeleteRow, rowVars
<1>15. ASSUME NEW r \in Requests, ClearHash(r) PROVE UsersStay
  BY <1>15 DEF UsersStay, ClearHash, rowVars
<1>16. ASSUME NEW r \in Requests, WriteFails(r) PROVE UsersStay
  BY <1>16 DEF UsersStay, WriteFails, rowVars
<1>17. ASSUME NEW r \in Requests, Evict(r) PROVE UsersStay
  BY <1>17 DEF UsersStay, Evict, rowVars, historyVars
<1>18. ASSUME NEW r \in Requests, DeleteUser(r) PROVE UsersStay
  BY <1>18, DeleteUserFacts DEF UsersStay, AccountsTypeOK, Exists
<1>19. ASSUME NEW u \in Users, NEW q \in Quotas, NEW role \in {"admin", "user"}, CreateUser(u,
             role, q) PROVE UsersStay
  BY <1>19 DEF UsersStay, CreateUser, AccountsTypeOK, rowVars
<1>20. ASSUME NEW u \in Users, NEW q \in Quotas, UpdateQuota(u, q) PROVE UsersStay
  BY <1>20, UpdateQuotaFacts DEF UsersStay, UpdateQuota, Exists, AccountsTypeOK
<1>21. CASE Boot
  BY <1>21 DEF UsersStay, Boot, AccountsTypeOK, rowVars
<1>22. CASE SeedFails
  BY <1>22 DEF UsersStay, SeedFails, AccountsTypeOK, rowVars
<1>23. CASE Crash
  BY <1>23 DEF UsersStay, Crash, rowVars
<1>24. CASE UNCHANGED accountsVars
  BY <1>24 DEF UsersStay, accountsVars, rowVars, requestVars, historyVars
<1> QED
  BY <1>1, <1>2, <1>3, <1>4, <1>5, <1>6, <1>7, <1>8, <1>9, <1>10, <1>11, <1>12, <1>13, <1>14,
     <1>15, <1>16, <1>17, <1>18, <1>19, <1>20, <1>21, <1>22, <1>23, <1>24 DEF AccountsNext

\* The scopes of the requests.
LEMMA ScopeStep == AccountsTypeOK /\ ScopeInv /\ [AccountsNext]_accountsVars => ScopeInv'
<1> SUFFICES ASSUME AccountsTypeOK, ScopeInv, [AccountsNext]_accountsVars PROVE ScopeInv'
  OBVIOUS
<1>a. UsersStay
  BY UsersKept
<1>1. ASSUME NEW r \in Requests, NEW s \in Credentials, Create(r, s) PROVE ScopeInv'
  BY <1>1, <1>a, CredentialFacts DEF Create, Admin, Goto, rowVars, historyVars, ScopeInv,
     Creating, UsersStay, AccountsTypeOK, NoScope
<1>2. ASSUME NEW r \in Requests, NEW s \in Credentials, Load(r, s) PROVE ScopeInv'
  BY <1>2, <1>a DEF Load, Admin, Goto, rowVars, historyVars, ScopeInv, Creating, UsersStay,
     AccountsTypeOK, NoScope
<1>3. ASSUME NEW r \in Requests, NEW s \in Credentials, CountBeforeDelete(r, s) PROVE ScopeInv'
  BY <1>3, <1>a DEF CountBeforeDelete, Admin, Goto, rowVars, historyVars, ScopeInv, Creating,
     UsersStay, AccountsTypeOK, NoScope
<1>4. ASSUME NEW r \in Requests, Refuse(r) PROVE ScopeInv'
  BY <1>4, <1>a DEF Refuse, Answer, rowVars, historyVars, Goto, ScopeInv, Creating, UsersStay,
     Admin, AccountsTypeOK, NoScope
<1>5. ASSUME NEW r \in Requests, Ceiling(r) PROVE ScopeInv'
  BY <1>5, <1>a DEF Ceiling, Answer, Proceed, rowVars, historyVars, Goto, ScopeInv, Creating,
     UsersStay, Admin, AccountsTypeOK, NoScope
<1>6. ASSUME NEW r \in Requests, ReadQuota(r) PROVE ScopeInv'
  BY <1>6, <1>a DEF ReadQuota, Goto, Proceed, rowVars, historyVars, ScopeInv, Creating,
     UsersStay, Admin, AccountsTypeOK, NoScope
<1>7. ASSUME NEW r \in Requests, CountOwned(r) PROVE ScopeInv'
  BY <1>7, <1>a DEF CountOwned, Answer, Proceed, rowVars, historyVars, Goto, ScopeInv, Creating,
     UsersStay, Admin, AccountsTypeOK, NoScope
<1>8. ASSUME NEW r \in Requests, CheckOwner(r) PROVE ScopeInv'
  BY <1>8, <1>a DEF CheckOwner, Proceed, Answer, rowVars, historyVars, Goto, ScopeInv, Creating,
     UsersStay, Admin, AccountsTypeOK, NoScope
<1>9. ASSUME NEW r \in Requests, InsertRow(r) PROVE ScopeInv'
  BY <1>9, <1>a DEF InsertRow, Admin, Goto, Answer, ScopeInv, Creating, UsersStay, AccountsTypeOK,
     NoScope
<1>10. ASSUME NEW r \in Requests, SetHash(r) PROVE ScopeInv'
  BY <1>10, <1>a DEF SetHash, Goto, Proceed, Answer, ScopeInv, Creating, UsersStay, Admin,
     AccountsTypeOK, NoScope
<1>11. ASSUME NEW r \in Requests, SetHashFails(r) PROVE ScopeInv'
  BY <1>11, <1>a DEF SetHashFails, Proceed, Answer, Goto, ScopeInv, Creating, UsersStay, Admin,
     AccountsTypeOK, NoScope
<1>12. ASSUME NEW r \in Requests, Undo(r) PROVE ScopeInv'
  BY <1>12, <1>a DEF Undo, Answer, Goto, ScopeInv, Creating, UsersStay, Admin, AccountsTypeOK,
     NoScope
<1>13. ASSUME NEW r \in Requests, StoreKey(r) PROVE ScopeInv'
  BY <1>13, <1>a DEF StoreKey, Answer, rowVars, historyVars, Goto, ScopeInv, Creating,
     UsersStay, Admin, AccountsTypeOK, NoScope
<1>14. ASSUME NEW r \in Requests, DeleteRow(r) PROVE ScopeInv'
  BY <1>14, <1>a DEF DeleteRow, Proceed, Answer, Goto, ScopeInv, Creating, UsersStay, Admin,
     AccountsTypeOK, NoScope
<1>15. ASSUME NEW r \in Requests, ClearHash(r) PROVE ScopeInv'
  BY <1>15, <1>a DEF ClearHash, Proceed, Answer, Goto, ScopeInv, Creating, UsersStay, Admin,
     AccountsTypeOK, NoScope
<1>16. ASSUME NEW r \in Requests, WriteFails(r) PROVE ScopeInv'
  BY <1>16, <1>a DEF WriteFails, Answer, Goto, ScopeInv, Creating, UsersStay, Admin, AccountsTypeOK,
     NoScope
<1>17. ASSUME NEW r \in Requests, Evict(r) PROVE ScopeInv'
  BY <1>17, <1>a DEF Evict, Answer, rowVars, historyVars, Goto, ScopeInv, Creating, UsersStay,
     Admin, AccountsTypeOK, NoScope
<1>18. ASSUME NEW r \in Requests, DeleteUser(r) PROVE ScopeInv'
  BY <1>18, <1>a DEF DeleteUser, Answer, historyVars, Goto, ScopeInv, Creating, UsersStay,
     Admin, AccountsTypeOK, NoScope
<1>19. ASSUME NEW u \in Users, NEW q \in Quotas, NEW role \in {"admin", "user"}, CreateUser(u,
             role, q) PROVE ScopeInv'
  BY <1>19, <1>a DEF CreateUser, requestVars, ScopeInv, Creating, UsersStay, Admin
<1>20. ASSUME NEW u \in Users, NEW q \in Quotas, UpdateQuota(u, q) PROVE ScopeInv'
  BY <1>20, <1>a DEF UpdateQuota, requestVars, ScopeInv, Creating, UsersStay, Admin
<1>21. CASE Boot
  BY <1>21, <1>a DEF Boot, requestVars, ScopeInv, Creating, UsersStay, Admin
<1>22. CASE SeedFails
  BY <1>22, <1>a DEF SeedFails, requestVars, ScopeInv, Creating, UsersStay, Admin
<1>23. CASE Crash
  BY <1>23 DEF Crash, ScopeInv, Creating, NoScope
<1>24. CASE UNCHANGED accountsVars
  BY <1>24, <1>a DEF accountsVars, rowVars, requestVars, historyVars, ScopeInv, Creating, UsersStay,
     Admin
<1> QED
  BY <1>1, <1>2, <1>3, <1>4, <1>5, <1>6, <1>7, <1>8, <1>9, <1>10, <1>11, <1>12, <1>13, <1>14,
     <1>15, <1>16, <1>17, <1>18, <1>19, <1>20, <1>21, <1>22, <1>23, <1>24 DEF AccountsNext

-----------------------------------------------------------------------------
(* Quotas and what users created                                           *)

\* The quotas.
LEMMA LimitStep == AccountsTypeOK /\ LimitInv /\ [AccountsNext]_accountsVars => LimitInv'
<1> SUFFICES ASSUME AccountsTypeOK, LimitInv, [AccountsNext]_accountsVars PROVE LimitInv'
  OBVIOUS
<1> USE AccountsAssumption
<1>1. ASSUME NEW r \in Requests, NEW s \in Credentials, Create(r, s) PROVE LimitInv'
  BY <1>1 DEF Create, Goto, rowVars, historyVars, LimitInv, Exists, AccountsTypeOK
<1>2. ASSUME NEW r \in Requests, NEW s \in Credentials, Load(r, s) PROVE LimitInv'
  BY <1>2 DEF Load, Goto, rowVars, historyVars, LimitInv, Exists, AccountsTypeOK
<1>3. ASSUME NEW r \in Requests, NEW s \in Credentials, CountBeforeDelete(r, s) PROVE LimitInv'
  BY <1>3 DEF CountBeforeDelete, Goto, rowVars, historyVars, LimitInv, Exists, AccountsTypeOK
<1>4. ASSUME NEW r \in Requests, Refuse(r) PROVE LimitInv'
  BY <1>4 DEF Refuse, Answer, rowVars, historyVars, Goto, LimitInv, Exists, AccountsTypeOK
<1>5. ASSUME NEW r \in Requests, Ceiling(r) PROVE LimitInv'
  BY <1>5 DEF Ceiling, Answer, Proceed, rowVars, historyVars, Goto, LimitInv, Exists, AccountsTypeOK
<1>6. ASSUME NEW r \in Requests, ReadQuota(r) PROVE LimitInv'
  BY <1>6, LimitType DEF ReadQuota, Exists, Goto, Proceed, rowVars, historyVars, LimitInv,
     AccountsTypeOK
<1>7. ASSUME NEW r \in Requests, CountOwned(r) PROVE LimitInv'
  BY <1>7 DEF CountOwned, Answer, Proceed, rowVars, historyVars, Goto, LimitInv, Exists,
     AccountsTypeOK
<1>8. ASSUME NEW r \in Requests, CheckOwner(r) PROVE LimitInv'
  BY <1>8 DEF CheckOwner, Exists, Proceed, Answer, rowVars, historyVars, Goto, LimitInv,
     AccountsTypeOK
<1>9. ASSUME NEW r \in Requests, InsertRow(r) PROVE LimitInv'
  BY <1>9 DEF InsertRow, Exists, Goto, Answer, LimitInv, AccountsTypeOK, rowVars, historyVars
<1>10. ASSUME NEW r \in Requests, SetHash(r) PROVE LimitInv'
  BY <1>10 DEF SetHash, Goto, Proceed, Answer, LimitInv, Exists, AccountsTypeOK, rowVars,
     historyVars
<1>11. ASSUME NEW r \in Requests, SetHashFails(r) PROVE LimitInv'
  BY <1>11 DEF SetHashFails, Proceed, Answer, Goto, LimitInv, Exists, AccountsTypeOK, rowVars,
     historyVars
<1>12. ASSUME NEW r \in Requests, Undo(r) PROVE LimitInv'
  BY <1>12 DEF Undo, Answer, Goto, LimitInv, Exists, AccountsTypeOK, rowVars, historyVars
<1>13. ASSUME NEW r \in Requests, StoreKey(r) PROVE LimitInv'
  BY <1>13 DEF StoreKey, Answer, rowVars, historyVars, Goto, LimitInv, Exists, AccountsTypeOK
<1>14. ASSUME NEW r \in Requests, DeleteRow(r) PROVE LimitInv'
  BY <1>14 DEF DeleteRow, Proceed, Answer, Goto, LimitInv, Exists, AccountsTypeOK, rowVars,
     historyVars
<1>15. ASSUME NEW r \in Requests, ClearHash(r) PROVE LimitInv'
  BY <1>15 DEF ClearHash, Proceed, Answer, Goto, LimitInv, Exists, AccountsTypeOK, rowVars,
     historyVars
<1>16. ASSUME NEW r \in Requests, WriteFails(r) PROVE LimitInv'
  BY <1>16 DEF WriteFails, Answer, Goto, LimitInv, Exists, AccountsTypeOK, rowVars, historyVars
<1>17. ASSUME NEW r \in Requests, Evict(r) PROVE LimitInv'
  BY <1>17 DEF Evict, Answer, rowVars, historyVars, Goto, LimitInv, Exists, AccountsTypeOK
<1>18. ASSUME NEW r \in Requests, DeleteUser(r) PROVE LimitInv'
  <2>1. UNCHANGED limit /\ pc' = [pc EXCEPT ![r] = "idle"]
        /\ owner' = [owner EXCEPT ![r] = NoUser] /\ quota' = [quota EXCEPT ![r] = 0]
    BY <1>18 DEF DeleteUser, Answer, Goto, historyVars
  <2>2. \A u \in Users : user'[u] = user[u] \/ user'[u].st = "gone"
    BY <1>18, DeleteUserFacts DEF AccountsTypeOK
  <2> QED
    BY <2>1, <2>2 DEF AccountsTypeOK, LimitInv, Exists
<1>19. ASSUME NEW u \in Users, NEW q \in Quotas, NEW role \in {"admin", "user"}, CreateUser(u,
             role, q) PROVE LimitInv'
  BY <1>19, RecordedFacts, LimitType DEF CreateUser, AccountsTypeOK, requestVars, LimitInv, Exists
<1>20. ASSUME NEW u \in Users, NEW q \in Quotas, UpdateQuota(u, q) PROVE LimitInv'
  <2>1. /\ Recorded(u, q) /\ UNCHANGED <<pc, owner, quota>> /\ user[u].st = "present"
    BY <1>20 DEF UpdateQuota, requestVars, Exists
  <2>2. PICK w \in UserRow : user' = [user EXCEPT ![u] = w] /\ w.quota = q
    BY <1>20, UpdateQuotaFacts
  <2> QED
    BY <2>1, <2>2, RecordedFacts, LimitType DEF AccountsTypeOK, LimitInv, Exists
<1>21. CASE Boot
  <2>1. CASE UNCHANGED <<rowVars, limit>>
    BY <1>21, <2>1 DEF Boot, rowVars, requestVars, LimitInv, Exists
  <2>2. ASSUME NEW u \in Users, NEW q \in Quotas,
               user' = [user EXCEPT ![u] = [st |-> "present", role |-> "admin", quota |-> q]],
               Recorded(u, q)
        PROVE  LimitInv'
    BY <1>21, <2>2, RecordedFacts, LimitType DEF Boot, AccountsTypeOK, requestVars, LimitInv, Exists
  <2> QED
    BY <1>21, <2>1, <2>2 DEF Boot
<1>22. CASE SeedFails
  <2>1. ASSUME NEW u \in Users, NEW q \in Quotas, NEW kept \in BOOLEAN,
               user' = [user EXCEPT ![u] = [st |-> IF kept THEN "present" ELSE "gone",
                                            role |-> "admin", quota |-> q]],
               Recorded(u, q)
        PROVE  LimitInv'
    BY <1>22, <2>1, RecordedFacts, LimitType DEF SeedFails, AccountsTypeOK, requestVars, LimitInv,
       Exists
  <2> QED
    BY <1>22, <2>1 DEF SeedFails
<1>23. CASE Crash
  BY <1>23 DEF Crash, rowVars, LimitInv, Exists
<1>24. CASE UNCHANGED accountsVars
  BY <1>24 DEF accountsVars, rowVars, requestVars, historyVars, LimitInv, Exists, AccountsTypeOK
<1> QED
  BY <1>1, <1>2, <1>3, <1>4, <1>5, <1>6, <1>7, <1>8, <1>9, <1>10, <1>11, <1>12, <1>13, <1>14,
     <1>15, <1>16, <1>17, <1>18, <1>19, <1>20, <1>21, <1>22, <1>23, <1>24 DEF AccountsNext

\* The owners of the instances users created.
LEMMA SelfStep == AccountsTypeOK /\ SelfInv /\ TargetInv /\ [AccountsNext]_accountsVars => SelfInv'
<1> SUFFICES ASSUME AccountsTypeOK, SelfInv, TargetInv, [AccountsNext]_accountsVars PROVE SelfInv'
  OBVIOUS
<1> USE AccountsAssumption
<1>a. UsersStay
  BY UsersKept
<1>b. \A r \in Requests : pc[r] \in Targeting => target[r] \in Instances
  BY DEF TargetInv
<1> USE DEF Targeting
<1>1. ASSUME NEW r \in Requests, NEW s \in Credentials, Create(r, s) PROVE SelfInv'
  BY <1>1, <1>a DEF Create, rowVars, historyVars, SelfInv, Present, UsersStay, AccountsTypeOK
<1>2. ASSUME NEW r \in Requests, NEW s \in Credentials, Load(r, s) PROVE SelfInv'
  BY <1>2, <1>a DEF Load, rowVars, historyVars, SelfInv, Present, UsersStay, AccountsTypeOK
<1>3. ASSUME NEW r \in Requests, NEW s \in Credentials, CountBeforeDelete(r, s) PROVE SelfInv'
  BY <1>3, <1>a DEF CountBeforeDelete, rowVars, historyVars, SelfInv, Present, UsersStay,
     AccountsTypeOK
<1>4. ASSUME NEW r \in Requests, Refuse(r) PROVE SelfInv'
  BY <1>4, <1>a DEF Refuse, rowVars, historyVars, SelfInv, Present, UsersStay, AccountsTypeOK
<1>5. ASSUME NEW r \in Requests, Ceiling(r) PROVE SelfInv'
  BY <1>5, <1>a DEF Ceiling, rowVars, historyVars, SelfInv, Present, UsersStay, AccountsTypeOK
<1>6. ASSUME NEW r \in Requests, ReadQuota(r) PROVE SelfInv'
  BY <1>6, <1>a DEF ReadQuota, rowVars, historyVars, SelfInv, Present, UsersStay, AccountsTypeOK
<1>7. ASSUME NEW r \in Requests, CountOwned(r) PROVE SelfInv'
  BY <1>7, <1>a DEF CountOwned, rowVars, historyVars, SelfInv, Present, UsersStay, AccountsTypeOK
<1>8. ASSUME NEW r \in Requests, CheckOwner(r) PROVE SelfInv'
  BY <1>8, <1>a DEF CheckOwner, rowVars, historyVars, SelfInv, Present, UsersStay, AccountsTypeOK
<1>9. ASSUME NEW r \in Requests, InsertRow(r) PROVE SelfInv'
  <2>1. CASE Exists(owner[r])
    <3>1. PICK i \in Instances :
             /\ inst[i].st = "absent"
             /\ RowInserted(i, owner[r])
             /\ self' = IF Admin(scope[r]) THEN self ELSE self \cup {i}
      BY <1>9, <2>1 DEF InsertRow
    <3>2. owner[r] \in Users /\ user[owner[r]].st /= "absent"
      BY <2>1 DEF Exists
    <3> QED
      BY <1>a, <3>1, <3>2, RowInsertedFacts DEF UsersStay, AccountsTypeOK, SelfInv, Present
  <2>2. CASE ~Exists(owner[r])
    BY <1>9, <2>2 DEF InsertRow, SelfInv, Present
  <2> QED
    BY <2>1, <2>2
<1>10. ASSUME NEW r \in Requests, SetHash(r) PROVE SelfInv'
  BY <1>10, <1>a, <1>b, HashStoredFacts DEF SetHash, UsersStay, Key, AccountsTypeOK, SelfInv,
     Present
<1>11. ASSUME NEW r \in Requests, SetHashFails(r) PROVE SelfInv'
  BY <1>11, <1>a, <1>b, HashStoredFacts DEF SetHashFails, UsersStay, Key, AccountsTypeOK, SelfInv,
     Present
<1>12. ASSUME NEW r \in Requests, Undo(r) PROVE SelfInv'
  BY <1>12, <1>a, <1>b, GoneFacts DEF Undo, UsersStay, AccountsTypeOK, SelfInv, Present
<1>13. ASSUME NEW r \in Requests, StoreKey(r) PROVE SelfInv'
  BY <1>13, <1>a DEF StoreKey, rowVars, historyVars, SelfInv, Present, UsersStay, AccountsTypeOK
<1>14. ASSUME NEW r \in Requests, DeleteRow(r) PROVE SelfInv'
  BY <1>14, <1>a, <1>b, GoneFacts DEF DeleteRow, UsersStay, AccountsTypeOK, SelfInv, Present
<1>15. ASSUME NEW r \in Requests, ClearHash(r) PROVE SelfInv'
  BY <1>15, <1>a, <1>b, HashClearedFacts DEF ClearHash, UsersStay, AccountsTypeOK, SelfInv, Present
<1>16. ASSUME NEW r \in Requests, WriteFails(r) PROVE SelfInv'
  BY <1>16, <1>a, <1>b, GoneFacts, HashClearedFacts DEF WriteFails, UsersStay, AccountsTypeOK,
     SelfInv,
     Present
<1>17. ASSUME NEW r \in Requests, Evict(r) PROVE SelfInv'
  BY <1>17, <1>a DEF Evict, rowVars, historyVars, SelfInv, Present, UsersStay, AccountsTypeOK
<1>18. ASSUME NEW r \in Requests, DeleteUser(r) PROVE SelfInv'
  BY <1>18, <1>a DEF DeleteUser, UsersStay, AccountsTypeOK, historyVars, SelfInv, Present
<1>19. ASSUME NEW u \in Users, NEW q \in Quotas, NEW role \in {"admin", "user"}, CreateUser(u,
             role, q) PROVE SelfInv'
  BY <1>19, <1>a DEF CreateUser, UsersStay, AccountsTypeOK, SelfInv, Present
<1>20. ASSUME NEW u \in Users, NEW q \in Quotas, UpdateQuota(u, q) PROVE SelfInv'
  BY <1>20, <1>a DEF UpdateQuota, UsersStay, AccountsTypeOK, SelfInv, Present
<1>21. CASE Boot
  BY <1>21, <1>a, ClaimedFacts, AccountsAssumption DEF Boot, UsersStay, AccountsTypeOK, rowVars,
     SelfInv, Present
<1>22. CASE SeedFails
  BY <1>22, <1>a DEF SeedFails, UsersStay, AccountsTypeOK, SelfInv, Present
<1>23. CASE Crash
  BY <1>23, <1>a DEF Crash, rowVars, SelfInv, Present, UsersStay, AccountsTypeOK, historyVars
<1>24. CASE UNCHANGED accountsVars
  BY <1>24, <1>a DEF accountsVars, rowVars, requestVars, historyVars, SelfInv, Present, UsersStay,
     AccountsTypeOK
<1> QED
  BY <1>1, <1>2, <1>3, <1>4, <1>5, <1>6, <1>7, <1>8, <1>9, <1>10, <1>11, <1>12, <1>13, <1>14,
     <1>15, <1>16, <1>17, <1>18, <1>19, <1>20, <1>21, <1>22, <1>23, <1>24 DEF AccountsNext

\* What the requests are about.
LEMMA TargetStep == AccountsTypeOK /\ TargetInv /\ [AccountsNext]_accountsVars => TargetInv'
<1> SUFFICES ASSUME AccountsTypeOK, TargetInv, [AccountsNext]_accountsVars PROVE TargetInv'
  OBVIOUS
<1> USE AccountsAssumption
<1>1. ASSUME NEW r \in Requests, NEW s \in Credentials, Create(r, s) PROVE TargetInv'
  BY <1>1 DEF Create, Goto, rowVars, historyVars, TargetInv, Targeting, Present, AccountsTypeOK
<1>2. ASSUME NEW r \in Requests, NEW s \in Credentials, Load(r, s) PROVE TargetInv'
  BY <1>2 DEF Load, Present, Goto, rowVars, historyVars, TargetInv, Targeting, AccountsTypeOK
<1>3. ASSUME NEW r \in Requests, NEW s \in Credentials, CountBeforeDelete(r, s) PROVE
             TargetInv'
  BY <1>3 DEF CountBeforeDelete, Goto, rowVars, historyVars, TargetInv, Targeting, Present,
     AccountsTypeOK
<1>4. ASSUME NEW r \in Requests, Refuse(r) PROVE TargetInv'
  BY <1>4 DEF Refuse, Answer, rowVars, historyVars, Goto, TargetInv, Targeting, Present,
     AccountsTypeOK
<1>5. ASSUME NEW r \in Requests, Ceiling(r) PROVE TargetInv'
  BY <1>5 DEF Ceiling, Answer, Proceed, rowVars, historyVars, Goto, TargetInv, Targeting,
     Present, AccountsTypeOK
<1>6. ASSUME NEW r \in Requests, ReadQuota(r) PROVE TargetInv'
  BY <1>6 DEF ReadQuota, Goto, Proceed, rowVars, historyVars, TargetInv, Targeting, Present,
     AccountsTypeOK
<1>7. ASSUME NEW r \in Requests, CountOwned(r) PROVE TargetInv'
  BY <1>7 DEF CountOwned, Answer, Proceed, rowVars, historyVars, Goto, TargetInv, Targeting,
     Present, AccountsTypeOK
<1>8. ASSUME NEW r \in Requests, CheckOwner(r) PROVE TargetInv'
  BY <1>8 DEF CheckOwner, Proceed, Answer, rowVars, historyVars, Goto, TargetInv, Targeting,
     Present, AccountsTypeOK
<1>9. ASSUME NEW r \in Requests, InsertRow(r) PROVE TargetInv'
  <2>1. CASE Exists(owner[r])
    <3>1. PICK i \in Instances : RowInserted(i, owner[r]) /\ target' = [target EXCEPT ![r] = i]
      BY <1>9, <2>1 DEF InsertRow
    <3>2. pc' = [pc EXCEPT ![r] = "hash"]
      BY <1>9, <2>1 DEF InsertRow, Goto
    <3>3. owner[r] \in Users
      BY <2>1 DEF Exists
    <3> QED
      BY <3>1, <3>2, <3>3, RowInsertedFacts DEF AccountsTypeOK, TargetInv, Targeting, Present
  <2>2. CASE ~Exists(owner[r])
    BY <1>9, <2>2 DEF InsertRow, Answer, Goto, AccountsTypeOK, TargetInv, Targeting, Present
  <2> QED
    BY <2>1, <2>2
<1>10. ASSUME NEW r \in Requests, SetHash(r) PROVE TargetInv'
  BY <1>10, HashStoredFacts DEF SetHash, Answer, Proceed, Goto, AccountsTypeOK, Key, TargetInv,
     Targeting, Present
<1>11. ASSUME NEW r \in Requests, SetHashFails(r) PROVE TargetInv'
  BY <1>11, HashStoredFacts DEF SetHashFails, Answer, Proceed, Goto, AccountsTypeOK, Key, TargetInv,
     Targeting, Present
<1>12. ASSUME NEW r \in Requests, Undo(r) PROVE TargetInv'
  BY <1>12, GoneFacts DEF Undo, Answer, Proceed, Goto, AccountsTypeOK, TargetInv, Targeting, Present
<1>13. ASSUME NEW r \in Requests, StoreKey(r) PROVE TargetInv'
  BY <1>13 DEF StoreKey, Answer, rowVars, historyVars, Goto, TargetInv, Targeting, Present,
     AccountsTypeOK
<1>14. ASSUME NEW r \in Requests, DeleteRow(r) PROVE TargetInv'
  BY <1>14, GoneFacts DEF DeleteRow, Answer, Proceed, Goto, AccountsTypeOK, TargetInv, Targeting,
     Present
<1>15. ASSUME NEW r \in Requests, ClearHash(r) PROVE TargetInv'
  BY <1>15, HashClearedFacts DEF ClearHash, Answer, Proceed, Goto, AccountsTypeOK, TargetInv,
     Targeting, Present
<1>16. ASSUME NEW r \in Requests, WriteFails(r) PROVE TargetInv'
  BY <1>16, GoneFacts, HashClearedFacts DEF WriteFails, Answer, Goto, AccountsTypeOK, TargetInv,
     Targeting, Present
<1>17. ASSUME NEW r \in Requests, Evict(r) PROVE TargetInv'
  BY <1>17 DEF Evict, Answer, rowVars, historyVars, Goto, TargetInv, Targeting, Present,
     AccountsTypeOK
<1>18. ASSUME NEW r \in Requests, DeleteUser(r) PROVE TargetInv'
  BY <1>18 DEF DeleteUser, Answer, Goto, AccountsTypeOK, TargetInv, Targeting, Present
<1>19. ASSUME NEW u \in Users, NEW q \in Quotas, NEW role \in {"admin", "user"}, CreateUser(u,
             role, q) PROVE TargetInv'
  BY <1>19 DEF CreateUser, requestVars, TargetInv, Targeting, Present
<1>20. ASSUME NEW u \in Users, NEW q \in Quotas, UpdateQuota(u, q) PROVE TargetInv'
  BY <1>20 DEF UpdateQuota, requestVars, TargetInv, Targeting, Present
<1>21. CASE Boot
  BY <1>21, ClaimedFacts DEF Boot, AccountsTypeOK, rowVars, requestVars, TargetInv, Targeting,
     Present
<1>22. CASE SeedFails
  BY <1>22 DEF SeedFails, requestVars, TargetInv, Targeting, Present
<1>23. CASE Crash
  BY <1>23 DEF Crash, rowVars, TargetInv, Targeting, Present
<1>24. CASE UNCHANGED accountsVars
  BY <1>24 DEF accountsVars, rowVars, requestVars, historyVars, TargetInv, Targeting, Present,
     AccountsTypeOK
<1> QED
  BY <1>1, <1>2, <1>3, <1>4, <1>5, <1>6, <1>7, <1>8, <1>9, <1>10, <1>11, <1>12, <1>13, <1>14,
     <1>15, <1>16, <1>17, <1>18, <1>19, <1>20, <1>21, <1>22, <1>23, <1>24 DEF AccountsNext

\* Instances without a key.
LEMMA KeylessStep ==
    AccountsTypeOK /\ TargetInv /\ KeylessHasCause /\ [AccountsNext]_accountsVars =>
        KeylessHasCause'
<1> SUFFICES ASSUME AccountsTypeOK, TargetInv, KeylessHasCause, [AccountsNext]_accountsVars
             PROVE KeylessHasCause'
  OBVIOUS
<1> USE AccountsAssumption
<1>b. \A r \in Requests : pc[r] \in Targeting => target[r] \in Instances
  BY DEF TargetInv
<1> USE DEF Targeting
<1>1. ASSUME NEW r \in Requests, NEW s \in Credentials, Create(r, s) PROVE KeylessHasCause'
  BY <1>1 DEF Create, Authenticate, Goto, rowVars, historyVars, KeylessHasCause, All, Present,
     AccountsTypeOK
<1>2. ASSUME NEW r \in Requests, NEW s \in Credentials, Load(r, s) PROVE KeylessHasCause'
  BY <1>2 DEF Load, Authenticate, Present, Goto, rowVars, historyVars, KeylessHasCause, All,
     AccountsTypeOK
<1>3. ASSUME NEW r \in Requests, NEW s \in Credentials, CountBeforeDelete(r, s) PROVE
             KeylessHasCause'
  BY <1>3 DEF CountBeforeDelete, Authenticate, Goto, rowVars, historyVars, KeylessHasCause, All,
     Present, AccountsTypeOK
<1>4. ASSUME NEW r \in Requests, Refuse(r) PROVE KeylessHasCause'
  BY <1>4 DEF Refuse, Answer, rowVars, historyVars, Goto, KeylessHasCause, All, Present,
     AccountsTypeOK
<1>5. ASSUME NEW r \in Requests, Ceiling(r) PROVE KeylessHasCause'
  BY <1>5 DEF Ceiling, All, Answer, Proceed, rowVars, historyVars, Present, Goto,
     KeylessHasCause, AccountsTypeOK
<1>6. ASSUME NEW r \in Requests, ReadQuota(r) PROVE KeylessHasCause'
  BY <1>6 DEF ReadQuota, Goto, Proceed, rowVars, historyVars, KeylessHasCause, All, Present,
     AccountsTypeOK
<1>7. ASSUME NEW r \in Requests, CountOwned(r) PROVE KeylessHasCause'
  BY <1>7 DEF CountOwned, Answer, Proceed, rowVars, historyVars, Goto, KeylessHasCause, All,
     Present, AccountsTypeOK
<1>8. ASSUME NEW r \in Requests, CheckOwner(r) PROVE KeylessHasCause'
  BY <1>8 DEF CheckOwner, Proceed, Answer, rowVars, historyVars, Goto, KeylessHasCause, All,
     Present, AccountsTypeOK
<1>9. ASSUME NEW r \in Requests, InsertRow(r) PROVE KeylessHasCause'
  <2>1. CASE Exists(owner[r])
    <3>1. PICK i \in Instances : /\ inst[i].st = "absent"
                                /\ RowInserted(i, owner[r])
                                /\ target' = [target EXCEPT ![r] = i]
      BY <1>9, <2>1 DEF InsertRow
    <3>2. pc' = [pc EXCEPT ![r] = "hash"] /\ pc[r] = "insert" /\ UNCHANGED keyless
      BY <1>9, <2>1 DEF InsertRow, Goto
    <3>3. owner[r] \in Users
      BY <2>1 DEF Exists
    <3> QED
      BY <3>1, <3>2, <3>3, RowInsertedFacts DEF AccountsTypeOK, KeylessHasCause, All, Present
  <2>2. CASE ~Exists(owner[r])
    BY <1>9, <2>2 DEF InsertRow, Answer, Goto, AccountsTypeOK, KeylessHasCause, All, Present
  <2> QED
    BY <2>1, <2>2
<1>10. ASSUME NEW r \in Requests, SetHash(r) PROVE KeylessHasCause'
  BY <1>10, <1>b, HashStoredFacts DEF SetHash, Answer, Proceed, Goto, AccountsTypeOK, Key,
     KeylessHasCause, All, Present
<1>11. ASSUME NEW r \in Requests, SetHashFails(r) PROVE KeylessHasCause'
  BY <1>11, <1>b, HashStoredFacts DEF SetHashFails, Answer, Proceed, Goto, AccountsTypeOK, Key,
     KeylessHasCause, All, Present
<1>12. ASSUME NEW r \in Requests, Undo(r) PROVE KeylessHasCause'
  BY <1>12, <1>b, GoneFacts DEF Undo, Answer, Proceed, Goto, AccountsTypeOK, KeylessHasCause, All,
     Present
<1>13. ASSUME NEW r \in Requests, StoreKey(r) PROVE KeylessHasCause'
  BY <1>13 DEF StoreKey, Answer, rowVars, historyVars, Goto, KeylessHasCause, All, Present,
     AccountsTypeOK
<1>14. ASSUME NEW r \in Requests, DeleteRow(r) PROVE KeylessHasCause'
  BY <1>14, <1>b, GoneFacts DEF DeleteRow, Answer, Proceed, Goto, AccountsTypeOK, KeylessHasCause,
     All,
     Present
<1>15. ASSUME NEW r \in Requests, ClearHash(r) PROVE KeylessHasCause'
  BY <1>15, <1>b, HashClearedFacts DEF ClearHash, Answer, Proceed, Goto, AccountsTypeOK,
     KeylessHasCause, All, Present
<1>16. ASSUME NEW r \in Requests, WriteFails(r) PROVE KeylessHasCause'
  BY <1>16, <1>b, GoneFacts, HashClearedFacts DEF WriteFails, Answer, Goto, AccountsTypeOK,
     KeylessHasCause, All, Present
<1>17. ASSUME NEW r \in Requests, Evict(r) PROVE KeylessHasCause'
  BY <1>17 DEF Evict, Answer, rowVars, historyVars, Goto, KeylessHasCause, All, Present,
     AccountsTypeOK
<1>18. ASSUME NEW r \in Requests, DeleteUser(r) PROVE KeylessHasCause'
  BY <1>18 DEF DeleteUser, Answer, Goto, AccountsTypeOK, historyVars, KeylessHasCause, All, Present
<1>19. ASSUME NEW u \in Users, NEW q \in Quotas, NEW role \in {"admin", "user"}, CreateUser(u,
             role, q) PROVE KeylessHasCause'
  BY <1>19 DEF CreateUser, requestVars, KeylessHasCause, All, Present
<1>20. ASSUME NEW u \in Users, NEW q \in Quotas, UpdateQuota(u, q) PROVE KeylessHasCause'
  BY <1>20 DEF UpdateQuota, requestVars, KeylessHasCause, All, Present
<1>21. CASE Boot
  BY <1>21, ClaimedFacts DEF Boot, AccountsTypeOK, rowVars, requestVars, KeylessHasCause, All,
     Present
<1>22. CASE SeedFails
  BY <1>22 DEF SeedFails, requestVars, KeylessHasCause, All, Present
<1>23. CASE Crash
  BY <1>23 DEF Crash, rowVars, KeylessHasCause, All, Present
<1>24. CASE UNCHANGED accountsVars
  BY <1>24 DEF accountsVars, rowVars, requestVars, historyVars, KeylessHasCause, All, Present,
     AccountsTypeOK
<1> QED
  BY <1>1, <1>2, <1>3, <1>4, <1>5, <1>6, <1>7, <1>8, <1>9, <1>10, <1>11, <1>12, <1>13, <1>14,
     <1>15, <1>16, <1>17, <1>18, <1>19, <1>20, <1>21, <1>22, <1>23, <1>24 DEF AccountsNext

-----------------------------------------------------------------------------
(* The writers of a key                                                    *)

\* No two requests write the key of an instance, unless it is torn.
LEMMA AloneStep ==
    AccountsTypeOK /\ TargetInv /\ WriterInv /\ [AccountsNext]_accountsVars => AloneInv'
<1> SUFFICES ASSUME AccountsTypeOK, TargetInv, WriterInv, [AccountsNext]_accountsVars
             PROVE AloneInv'
  OBVIOUS
<1> USE AccountsAssumption
<1>b. \A r \in Requests : pc[r] \in Targeting =>
         target[r] \in Instances /\ inst[target[r]].st # "absent"
  BY DEF TargetInv
<1> USE DEF Targeting
<1>1. ASSUME NEW r \in Requests, NEW s \in Credentials, Create(r, s) PROVE AloneInv'
  BY <1>1 DEF Create, Authenticate, Goto, rowVars, historyVars, AloneInv, WriterInv, Writing,
     Present, AccountsTypeOK
<1>2. ASSUME NEW r \in Requests, NEW s \in Credentials, Load(r, s) PROVE AloneInv'
  BY <1>2 DEF Load, Authenticate, Present, Goto, rowVars, historyVars, AloneInv, WriterInv,
     Writing, AccountsTypeOK
<1>3. ASSUME NEW r \in Requests, NEW s \in Credentials, CountBeforeDelete(r, s) PROVE AloneInv'
  BY <1>3 DEF CountBeforeDelete, Authenticate, Goto, rowVars, historyVars, AloneInv, WriterInv,
     Writing, Present, AccountsTypeOK
<1>4. ASSUME NEW r \in Requests, Refuse(r) PROVE AloneInv'
  BY <1>4 DEF Refuse, Answer, rowVars, historyVars, Goto, AloneInv, WriterInv, Writing, Present,
     AccountsTypeOK
<1>5. ASSUME NEW r \in Requests, Ceiling(r) PROVE AloneInv'
  BY <1>5 DEF Ceiling, Answer, Proceed, rowVars, historyVars, Goto, AloneInv, WriterInv,
     Writing, Present, AccountsTypeOK
<1>6. ASSUME NEW r \in Requests, ReadQuota(r) PROVE AloneInv'
  BY <1>6 DEF ReadQuota, Goto, Proceed, rowVars, historyVars, AloneInv, WriterInv, Writing,
     Present, AccountsTypeOK
<1>7. ASSUME NEW r \in Requests, CountOwned(r) PROVE AloneInv'
  BY <1>7 DEF CountOwned, Answer, Proceed, rowVars, historyVars, Goto, AloneInv, WriterInv,
     Writing, Present, AccountsTypeOK
<1>8. ASSUME NEW r \in Requests, CheckOwner(r) PROVE AloneInv'
  BY <1>8 DEF CheckOwner, Proceed, Answer, rowVars, historyVars, Goto, AloneInv, WriterInv,
     Writing, Present, AccountsTypeOK
<1>9. ASSUME NEW r \in Requests, InsertRow(r) PROVE AloneInv'
  <2>1. CASE Exists(owner[r])
    <3>1. PICK i \in Instances : /\ inst[i].st = "absent"
                                /\ RowInserted(i, owner[r])
                                /\ target' = [target EXCEPT ![r] = i]
      BY <1>9, <2>1 DEF InsertRow
    <3>2. /\ pc' = [pc EXCEPT ![r] = "hash"] /\ pc[r] = "insert"
          /\ UNCHANGED <<torn, cache, key>>
      BY <1>9, <2>1 DEF InsertRow, Goto
    <3>3. owner[r] \in Users
      BY <2>1 DEF Exists
    <3> QED
      BY <1>b, <3>1, <3>2, <3>3, RowInsertedFacts DEF AccountsTypeOK, AloneInv, WriterInv, Writing,
         Present
  <2>2. CASE ~Exists(owner[r])
    BY <1>9, <2>2 DEF InsertRow, Answer, Goto, AccountsTypeOK, AloneInv, WriterInv, Writing, Present
  <2> QED
    BY <2>1, <2>2
<1>10. ASSUME NEW r \in Requests, SetHash(r) PROVE AloneInv'
  BY <1>10, <1>b, HashStoredFacts DEF SetHash, Answer, Proceed, Goto, Pending, AccountsTypeOK, Key,
     AloneInv, WriterInv, Writing, Present
<1>11. ASSUME NEW r \in Requests, SetHashFails(r) PROVE AloneInv'
  BY <1>11, <1>b, HashStoredFacts DEF SetHashFails, Answer, Proceed, Goto, Pending, AccountsTypeOK,
     Key, AloneInv, WriterInv, Writing, Present
<1>12. ASSUME NEW r \in Requests, Undo(r) PROVE AloneInv'
  BY <1>12, <1>b, GoneFacts DEF Undo, Answer, Proceed, Goto, Pending, AccountsTypeOK, Key, AloneInv,
     WriterInv, Writing, Present
<1>13. ASSUME NEW r \in Requests, StoreKey(r) PROVE AloneInv'
  BY <1>13, <1>b DEF StoreKey, Answer, rowVars, historyVars, Goto, AloneInv, WriterInv, Writing,
     Present, AccountsTypeOK
<1>14. ASSUME NEW r \in Requests, DeleteRow(r) PROVE AloneInv'
  BY <1>14, <1>b, GoneFacts DEF DeleteRow, Answer, Proceed, Goto, Pending, AccountsTypeOK, Key,
     AloneInv, WriterInv, Writing, Present
<1>15. ASSUME NEW r \in Requests, ClearHash(r) PROVE AloneInv'
  BY <1>15, <1>b, HashClearedFacts DEF ClearHash, Answer, Proceed, Goto, Pending, AccountsTypeOK,
     Key,
     AloneInv, WriterInv, Writing, Present
<1>16. ASSUME NEW r \in Requests, WriteFails(r) PROVE AloneInv'
  BY <1>16, <1>b, GoneFacts, HashClearedFacts DEF WriteFails, Answer, Proceed, Goto, Pending,
     AccountsTypeOK, Key, AloneInv, WriterInv, Writing, Present
<1>17. ASSUME NEW r \in Requests, Evict(r) PROVE AloneInv'
  BY <1>17, <1>b DEF Evict, Answer, rowVars, historyVars, Goto, AloneInv, WriterInv, Writing,
     Present, AccountsTypeOK
<1>18. ASSUME NEW r \in Requests, DeleteUser(r) PROVE AloneInv'
  BY <1>18 DEF DeleteUser, Answer, Goto, AccountsTypeOK, historyVars, AloneInv, WriterInv, Writing,
     Present
<1>19. ASSUME NEW u \in Users, NEW q \in Quotas, NEW role \in {"admin", "user"}, CreateUser(u,
             role, q) PROVE AloneInv'
  BY <1>19 DEF CreateUser, requestVars, AloneInv, WriterInv, Writing, Present
<1>20. ASSUME NEW u \in Users, NEW q \in Quotas, UpdateQuota(u, q) PROVE AloneInv'
  BY <1>20 DEF UpdateQuota, requestVars, AloneInv, WriterInv, Writing, Present
<1>21. CASE Boot
  BY <1>21, <1>b, ClaimedFacts DEF Boot, AccountsTypeOK, rowVars, requestVars, AloneInv, WriterInv,
     Writing, Present
<1>22. CASE SeedFails
  BY <1>22 DEF SeedFails, requestVars, AloneInv, WriterInv, Writing, Present
<1>23. CASE Crash
  BY <1>23 DEF Crash, rowVars, AloneInv, WriterInv, Writing, Present
<1>24. CASE UNCHANGED accountsVars
  BY <1>24 DEF accountsVars, rowVars, requestVars, historyVars, AloneInv, WriterInv, Writing,
     Present,
     AccountsTypeOK
<1> QED
  BY <1>1, <1>2, <1>3, <1>4, <1>5, <1>6, <1>7, <1>8, <1>9, <1>10, <1>11, <1>12, <1>13, <1>14,
     <1>15, <1>16, <1>17, <1>18, <1>19, <1>20, <1>21, <1>22, <1>23, <1>24 DEF AccountsNext

\* What is about to be cached is in the row.
LEMMA StoreStep ==
    AccountsTypeOK /\ TargetInv /\ WriterInv /\ [AccountsNext]_accountsVars => StoreInv'
<1> SUFFICES ASSUME AccountsTypeOK, TargetInv, WriterInv, [AccountsNext]_accountsVars
             PROVE StoreInv'
  OBVIOUS
<1> USE AccountsAssumption
<1>b. \A r \in Requests : pc[r] \in Targeting =>
         target[r] \in Instances /\ inst[target[r]].st # "absent"
  BY DEF TargetInv
<1> USE DEF Targeting
<1>1. ASSUME NEW r \in Requests, NEW s \in Credentials, Create(r, s) PROVE StoreInv'
  BY <1>1 DEF Create, Authenticate, Goto, rowVars, historyVars, StoreInv, WriterInv, Writing,
     Present, AloneInv, AccountsTypeOK
<1>2. ASSUME NEW r \in Requests, NEW s \in Credentials, Load(r, s) PROVE StoreInv'
  BY <1>2 DEF Load, Authenticate, Present, Goto, rowVars, historyVars, StoreInv, WriterInv,
     Writing, AloneInv, AccountsTypeOK
<1>3. ASSUME NEW r \in Requests, NEW s \in Credentials, CountBeforeDelete(r, s) PROVE StoreInv'
  BY <1>3 DEF CountBeforeDelete, Authenticate, Goto, rowVars, historyVars, StoreInv, WriterInv,
     Writing, Present, AloneInv, AccountsTypeOK
<1>4. ASSUME NEW r \in Requests, Refuse(r) PROVE StoreInv'
  BY <1>4 DEF Refuse, Answer, rowVars, historyVars, Goto, StoreInv, WriterInv, Writing, Present,
     AloneInv, AccountsTypeOK
<1>5. ASSUME NEW r \in Requests, Ceiling(r) PROVE StoreInv'
  BY <1>5 DEF Ceiling, Answer, Proceed, rowVars, historyVars, Goto, StoreInv, WriterInv,
     Writing, Present, AloneInv, AccountsTypeOK
<1>6. ASSUME NEW r \in Requests, ReadQuota(r) PROVE StoreInv'
  BY <1>6 DEF ReadQuota, Goto, Proceed, rowVars, historyVars, StoreInv, WriterInv, Writing,
     Present, AloneInv, AccountsTypeOK
<1>7. ASSUME NEW r \in Requests, CountOwned(r) PROVE StoreInv'
  BY <1>7 DEF CountOwned, Answer, Proceed, rowVars, historyVars, Goto, StoreInv, WriterInv,
     Writing, Present, AloneInv, AccountsTypeOK
<1>8. ASSUME NEW r \in Requests, CheckOwner(r) PROVE StoreInv'
  BY <1>8 DEF CheckOwner, Proceed, Answer, rowVars, historyVars, Goto, StoreInv, WriterInv,
     Writing, Present, AloneInv, AccountsTypeOK
<1>9. ASSUME NEW r \in Requests, InsertRow(r) PROVE StoreInv'
  <2>1. CASE Exists(owner[r])
    <3>1. PICK i \in Instances : /\ inst[i].st = "absent"
                                /\ RowInserted(i, owner[r])
                                /\ target' = [target EXCEPT ![r] = i]
      BY <1>9, <2>1 DEF InsertRow
    <3>2. /\ pc' = [pc EXCEPT ![r] = "hash"] /\ pc[r] = "insert"
          /\ UNCHANGED <<torn, cache, key>>
      BY <1>9, <2>1 DEF InsertRow, Goto
    <3>3. owner[r] \in Users
      BY <2>1 DEF Exists
    <3> QED
      BY <1>b, <3>1, <3>2, <3>3, RowInsertedFacts DEF AccountsTypeOK, StoreInv, WriterInv, Writing,
         Present, AloneInv
  <2>2. CASE ~Exists(owner[r])
    BY <1>9, <2>2 DEF InsertRow, Answer, Goto, AccountsTypeOK, StoreInv, WriterInv, Writing,
       Present, AloneInv
  <2> QED
    BY <2>1, <2>2
<1>10. ASSUME NEW r \in Requests, SetHash(r) PROVE StoreInv'
  BY <1>10, <1>b, HashStoredFacts DEF SetHash, Answer, Proceed, Goto, Pending, AccountsTypeOK, Key,
     StoreInv, WriterInv, Writing, Present, AloneInv
<1>11. ASSUME NEW r \in Requests, SetHashFails(r) PROVE StoreInv'
  BY <1>11, <1>b, HashStoredFacts DEF SetHashFails, Answer, Proceed, Goto, Pending, AccountsTypeOK,
     Key, StoreInv, WriterInv, Writing, Present, AloneInv
<1>12. ASSUME NEW r \in Requests, Undo(r) PROVE StoreInv'
  BY <1>12, <1>b, GoneFacts DEF Undo, Answer, Proceed, Goto, Pending, AccountsTypeOK, Key, StoreInv,
     WriterInv, Writing, Present, AloneInv
<1>13. ASSUME NEW r \in Requests, StoreKey(r) PROVE StoreInv'
  BY <1>13, <1>b DEF StoreKey, Answer, rowVars, historyVars, Goto, StoreInv, WriterInv, Writing,
     Present, AloneInv, AccountsTypeOK
<1>14. ASSUME NEW r \in Requests, DeleteRow(r) PROVE StoreInv'
  BY <1>14, <1>b, GoneFacts DEF DeleteRow, Answer, Proceed, Goto, Pending, AccountsTypeOK, Key,
     StoreInv, WriterInv, Writing, Present, AloneInv
<1>15. ASSUME NEW r \in Requests, ClearHash(r) PROVE StoreInv'
  BY <1>15, <1>b, HashClearedFacts DEF ClearHash, Answer, Proceed, Goto, Pending, AccountsTypeOK,
     Key,
     StoreInv, WriterInv, Writing, Present, AloneInv
<1>16. ASSUME NEW r \in Requests, WriteFails(r) PROVE StoreInv'
  BY <1>16, <1>b, GoneFacts, HashClearedFacts DEF WriteFails, Answer, Proceed, Goto, Pending,
     AccountsTypeOK, Key, StoreInv, WriterInv, Writing, Present, AloneInv
<1>17. ASSUME NEW r \in Requests, Evict(r) PROVE StoreInv'
  BY <1>17, <1>b DEF Evict, Answer, rowVars, historyVars, Goto, StoreInv, WriterInv, Writing,
     Present, AloneInv, AccountsTypeOK
<1>18. ASSUME NEW r \in Requests, DeleteUser(r) PROVE StoreInv'
  BY <1>18 DEF DeleteUser, Answer, Goto, AccountsTypeOK, historyVars, StoreInv, WriterInv, Writing,
     Present, AloneInv
<1>19. ASSUME NEW u \in Users, NEW q \in Quotas, NEW role \in {"admin", "user"}, CreateUser(u,
             role, q) PROVE StoreInv'
  BY <1>19 DEF CreateUser, requestVars, StoreInv, WriterInv, Writing, Present, AloneInv
<1>20. ASSUME NEW u \in Users, NEW q \in Quotas, UpdateQuota(u, q) PROVE StoreInv'
  BY <1>20 DEF UpdateQuota, requestVars, StoreInv, WriterInv, Writing, Present, AloneInv
<1>21. CASE Boot
  BY <1>21, <1>b, ClaimedFacts DEF Boot, AccountsTypeOK, rowVars, requestVars, StoreInv, WriterInv,
     Writing, Present, AloneInv
<1>22. CASE SeedFails
  BY <1>22 DEF SeedFails, requestVars, StoreInv, WriterInv, Writing, Present, AloneInv
<1>23. CASE Crash
  BY <1>23 DEF Crash, rowVars, StoreInv, WriterInv, Writing, Present, AloneInv
<1>24. CASE UNCHANGED accountsVars
  BY <1>24 DEF accountsVars, rowVars, requestVars, historyVars, StoreInv, WriterInv, Writing,
     Present,
     AloneInv, AccountsTypeOK
<1> QED
  BY <1>1, <1>2, <1>3, <1>4, <1>5, <1>6, <1>7, <1>8, <1>9, <1>10, <1>11, <1>12, <1>13, <1>14,
     <1>15, <1>16, <1>17, <1>18, <1>19, <1>20, <1>21, <1>22, <1>23, <1>24 DEF AccountsNext

\* No key of an instance that is being created is cached.
LEMMA FreshStep ==
    AccountsTypeOK /\ TargetInv /\ WriterInv /\ [AccountsNext]_accountsVars => FreshInv'
<1> SUFFICES ASSUME AccountsTypeOK, TargetInv, WriterInv, [AccountsNext]_accountsVars
             PROVE FreshInv'
  OBVIOUS
<1> USE AccountsAssumption
<1>b. \A r \in Requests : pc[r] \in Targeting =>
         target[r] \in Instances /\ inst[target[r]].st # "absent"
  BY DEF TargetInv
<1> USE DEF Targeting
<1>1. ASSUME NEW r \in Requests, NEW s \in Credentials, Create(r, s) PROVE FreshInv'
  BY <1>1 DEF Create, Authenticate, Goto, rowVars, historyVars, FreshInv, WriterInv, Writing,
     Present, AloneInv, AbsentInv, AccountsTypeOK
<1>2. ASSUME NEW r \in Requests, NEW s \in Credentials, Load(r, s) PROVE FreshInv'
  BY <1>2 DEF Load, Authenticate, Present, Goto, rowVars, historyVars, FreshInv, WriterInv,
     Writing, AloneInv, AbsentInv, AccountsTypeOK
<1>3. ASSUME NEW r \in Requests, NEW s \in Credentials, CountBeforeDelete(r, s) PROVE FreshInv'
  BY <1>3 DEF CountBeforeDelete, Authenticate, Goto, rowVars, historyVars, FreshInv, WriterInv,
     Writing, Present, AloneInv, AbsentInv, AccountsTypeOK
<1>4. ASSUME NEW r \in Requests, Refuse(r) PROVE FreshInv'
  BY <1>4 DEF Refuse, Answer, rowVars, historyVars, Goto, FreshInv, WriterInv, Writing, Present,
     AloneInv, AbsentInv, AccountsTypeOK
<1>5. ASSUME NEW r \in Requests, Ceiling(r) PROVE FreshInv'
  BY <1>5 DEF Ceiling, Answer, Proceed, rowVars, historyVars, Goto, FreshInv, WriterInv,
     Writing, Present, AloneInv, AbsentInv, AccountsTypeOK
<1>6. ASSUME NEW r \in Requests, ReadQuota(r) PROVE FreshInv'
  BY <1>6 DEF ReadQuota, Goto, Proceed, rowVars, historyVars, FreshInv, WriterInv, Writing,
     Present, AloneInv, AbsentInv, AccountsTypeOK
<1>7. ASSUME NEW r \in Requests, CountOwned(r) PROVE FreshInv'
  BY <1>7 DEF CountOwned, Answer, Proceed, rowVars, historyVars, Goto, FreshInv, WriterInv,
     Writing, Present, AloneInv, AbsentInv, AccountsTypeOK
<1>8. ASSUME NEW r \in Requests, CheckOwner(r) PROVE FreshInv'
  BY <1>8 DEF CheckOwner, Proceed, Answer, rowVars, historyVars, Goto, FreshInv, WriterInv,
     Writing, Present, AloneInv, AbsentInv, AccountsTypeOK
<1>9. ASSUME NEW r \in Requests, InsertRow(r) PROVE FreshInv'
  <2>1. CASE Exists(owner[r])
    <3>1. PICK i \in Instances : /\ inst[i].st = "absent"
                                /\ RowInserted(i, owner[r])
                                /\ target' = [target EXCEPT ![r] = i]
      BY <1>9, <2>1 DEF InsertRow
    <3>2. /\ pc' = [pc EXCEPT ![r] = "hash"] /\ pc[r] = "insert"
          /\ UNCHANGED <<torn, cache, key>>
      BY <1>9, <2>1 DEF InsertRow, Goto
    <3>3. owner[r] \in Users
      BY <2>1 DEF Exists
    <3> QED
      BY <1>b, <3>1, <3>2, <3>3, RowInsertedFacts DEF AccountsTypeOK, FreshInv, WriterInv, Writing,
         Present, AloneInv, AbsentInv
  <2>2. CASE ~Exists(owner[r])
    BY <1>9, <2>2 DEF InsertRow, Answer, Goto, AccountsTypeOK, FreshInv, WriterInv, Writing,
       Present, AloneInv, AbsentInv
  <2> QED
    BY <2>1, <2>2
<1>10. ASSUME NEW r \in Requests, SetHash(r) PROVE FreshInv'
  BY <1>10, <1>b, HashStoredFacts DEF SetHash, Answer, Proceed, Goto, Pending, AccountsTypeOK, Key,
     FreshInv, WriterInv, Writing, Present, AloneInv, AbsentInv
<1>11. ASSUME NEW r \in Requests, SetHashFails(r) PROVE FreshInv'
  BY <1>11, <1>b, HashStoredFacts DEF SetHashFails, Answer, Proceed, Goto, Pending, AccountsTypeOK,
     Key, FreshInv, WriterInv, Writing, Present, AloneInv, AbsentInv
<1>12. ASSUME NEW r \in Requests, Undo(r) PROVE FreshInv'
  BY <1>12, <1>b, GoneFacts DEF Undo, Answer, Proceed, Goto, Pending, AccountsTypeOK, Key, FreshInv,
     WriterInv, Writing, Present, AloneInv, AbsentInv
<1>13. ASSUME NEW r \in Requests, StoreKey(r) PROVE FreshInv'
  BY <1>13, <1>b DEF StoreKey, Answer, rowVars, historyVars, Goto, FreshInv, WriterInv, Writing,
     Present, AloneInv, AbsentInv, AccountsTypeOK
<1>14. ASSUME NEW r \in Requests, DeleteRow(r) PROVE FreshInv'
  BY <1>14, <1>b, GoneFacts DEF DeleteRow, Answer, Proceed, Goto, Pending, AccountsTypeOK, Key,
     FreshInv, WriterInv, Writing, Present, AloneInv, AbsentInv
<1>15. ASSUME NEW r \in Requests, ClearHash(r) PROVE FreshInv'
  BY <1>15, <1>b, HashClearedFacts DEF ClearHash, Answer, Proceed, Goto, Pending, AccountsTypeOK,
     Key,
     FreshInv, WriterInv, Writing, Present, AloneInv, AbsentInv
<1>16. ASSUME NEW r \in Requests, WriteFails(r) PROVE FreshInv'
  BY <1>16, <1>b, GoneFacts, HashClearedFacts DEF WriteFails, Answer, Proceed, Goto, Pending,
     AccountsTypeOK, Key, FreshInv, WriterInv, Writing, Present, AloneInv, AbsentInv
<1>17. ASSUME NEW r \in Requests, Evict(r) PROVE FreshInv'
  BY <1>17, <1>b DEF Evict, Answer, rowVars, historyVars, Goto, FreshInv, WriterInv, Writing,
     Present, AloneInv, AbsentInv, AccountsTypeOK
<1>18. ASSUME NEW r \in Requests, DeleteUser(r) PROVE FreshInv'
  BY <1>18 DEF DeleteUser, Answer, Goto, AccountsTypeOK, historyVars, FreshInv, WriterInv, Writing,
     Present, AloneInv, AbsentInv
<1>19. ASSUME NEW u \in Users, NEW q \in Quotas, NEW role \in {"admin", "user"}, CreateUser(u,
             role, q) PROVE FreshInv'
  BY <1>19 DEF CreateUser, requestVars, FreshInv, WriterInv, Writing, Present, AloneInv,
     AbsentInv
<1>20. ASSUME NEW u \in Users, NEW q \in Quotas, UpdateQuota(u, q) PROVE FreshInv'
  BY <1>20 DEF UpdateQuota, requestVars, FreshInv, WriterInv, Writing, Present, AloneInv,
     AbsentInv
<1>21. CASE Boot
  BY <1>21, <1>b, ClaimedFacts DEF Boot, AccountsTypeOK, rowVars, requestVars, FreshInv, WriterInv,
     Writing, Present, AloneInv, AbsentInv
<1>22. CASE SeedFails
  BY <1>22 DEF SeedFails, requestVars, FreshInv, WriterInv, Writing, Present, AloneInv,
     AbsentInv
<1>23. CASE Crash
  BY <1>23 DEF Crash, rowVars, FreshInv, WriterInv, Writing, Present, AloneInv, AbsentInv
<1>24. CASE UNCHANGED accountsVars
  BY <1>24 DEF accountsVars, rowVars, requestVars, historyVars, FreshInv, WriterInv, Writing,
     Present,
     AloneInv, AbsentInv, AccountsTypeOK
<1> QED
  BY <1>1, <1>2, <1>3, <1>4, <1>5, <1>6, <1>7, <1>8, <1>9, <1>10, <1>11, <1>12, <1>13, <1>14,
     <1>15, <1>16, <1>17, <1>18, <1>19, <1>20, <1>21, <1>22, <1>23, <1>24 DEF AccountsNext

\* Nor is one of an instance that does not exist yet.
LEMMA AbsentStep ==
    AccountsTypeOK /\ TargetInv /\ WriterInv /\ [AccountsNext]_accountsVars => AbsentInv'
<1> SUFFICES ASSUME AccountsTypeOK, TargetInv, WriterInv, [AccountsNext]_accountsVars
             PROVE AbsentInv'
  OBVIOUS
<1> USE AccountsAssumption
<1>b. \A r \in Requests : pc[r] \in Targeting =>
         target[r] \in Instances /\ inst[target[r]].st # "absent"
  BY DEF TargetInv
<1> USE DEF Targeting
<1>1. ASSUME NEW r \in Requests, NEW s \in Credentials, Create(r, s) PROVE AbsentInv'
  BY <1>1 DEF Create, Authenticate, Goto, rowVars, historyVars, AbsentInv, WriterInv, Writing,
     Present, AccountsTypeOK
<1>2. ASSUME NEW r \in Requests, NEW s \in Credentials, Load(r, s) PROVE AbsentInv'
  BY <1>2 DEF Load, Authenticate, Present, Goto, rowVars, historyVars, AbsentInv, WriterInv,
     Writing, AccountsTypeOK
<1>3. ASSUME NEW r \in Requests, NEW s \in Credentials, CountBeforeDelete(r, s) PROVE
             AbsentInv'
  BY <1>3 DEF CountBeforeDelete, Authenticate, Goto, rowVars, historyVars, AbsentInv, WriterInv,
     Writing, Present, AccountsTypeOK
<1>4. ASSUME NEW r \in Requests, Refuse(r) PROVE AbsentInv'
  BY <1>4 DEF Refuse, Answer, rowVars, historyVars, Goto, AbsentInv, WriterInv, Writing,
     Present, AccountsTypeOK
<1>5. ASSUME NEW r \in Requests, Ceiling(r) PROVE AbsentInv'
  BY <1>5 DEF Ceiling, Answer, Proceed, rowVars, historyVars, Goto, AbsentInv, WriterInv,
     Writing, Present, AccountsTypeOK
<1>6. ASSUME NEW r \in Requests, ReadQuota(r) PROVE AbsentInv'
  BY <1>6 DEF ReadQuota, Goto, Proceed, rowVars, historyVars, AbsentInv, WriterInv, Writing,
     Present, AccountsTypeOK
<1>7. ASSUME NEW r \in Requests, CountOwned(r) PROVE AbsentInv'
  BY <1>7 DEF CountOwned, Answer, Proceed, rowVars, historyVars, Goto, AbsentInv, WriterInv,
     Writing, Present, AccountsTypeOK
<1>8. ASSUME NEW r \in Requests, CheckOwner(r) PROVE AbsentInv'
  BY <1>8 DEF CheckOwner, Proceed, Answer, rowVars, historyVars, Goto, AbsentInv, WriterInv,
     Writing, Present, AccountsTypeOK
<1>9. ASSUME NEW r \in Requests, InsertRow(r) PROVE AbsentInv'
  <2>1. CASE Exists(owner[r])
    <3>1. PICK i \in Instances : /\ inst[i].st = "absent"
                                /\ RowInserted(i, owner[r])
                                /\ target' = [target EXCEPT ![r] = i]
      BY <1>9, <2>1 DEF InsertRow
    <3>2. /\ pc' = [pc EXCEPT ![r] = "hash"] /\ pc[r] = "insert"
          /\ UNCHANGED <<torn, cache, key>>
      BY <1>9, <2>1 DEF InsertRow, Goto
    <3>3. owner[r] \in Users
      BY <2>1 DEF Exists
    <3> QED
      BY <1>b, <3>1, <3>2, <3>3, RowInsertedFacts DEF AccountsTypeOK, AbsentInv, WriterInv,
         Writing, Present
  <2>2. CASE ~Exists(owner[r])
    BY <1>9, <2>2 DEF InsertRow, Answer, Goto, AccountsTypeOK, AbsentInv, WriterInv, Writing,
       Present
  <2> QED
    BY <2>1, <2>2
<1>10. ASSUME NEW r \in Requests, SetHash(r) PROVE AbsentInv'
  BY <1>10, <1>b, HashStoredFacts DEF SetHash, Answer, Proceed, Goto, Pending, AccountsTypeOK, Key,
     AbsentInv, WriterInv, Writing, Present
<1>11. ASSUME NEW r \in Requests, SetHashFails(r) PROVE AbsentInv'
  BY <1>11, <1>b, HashStoredFacts DEF SetHashFails, Answer, Proceed, Goto, Pending, AccountsTypeOK,
     Key, AbsentInv, WriterInv, Writing, Present
<1>12. ASSUME NEW r \in Requests, Undo(r) PROVE AbsentInv'
  BY <1>12, <1>b, GoneFacts DEF Undo, Answer, Proceed, Goto, Pending, AccountsTypeOK, Key,
     AbsentInv,
     WriterInv, Writing, Present
<1>13. ASSUME NEW r \in Requests, StoreKey(r) PROVE AbsentInv'
  BY <1>13, <1>b DEF StoreKey, Answer, rowVars, historyVars, Goto, AbsentInv, WriterInv,
     Writing, Present, AccountsTypeOK
<1>14. ASSUME NEW r \in Requests, DeleteRow(r) PROVE AbsentInv'
  BY <1>14, <1>b, GoneFacts DEF DeleteRow, Answer, Proceed, Goto, Pending, AccountsTypeOK, Key,
     AbsentInv, WriterInv, Writing, Present
<1>15. ASSUME NEW r \in Requests, ClearHash(r) PROVE AbsentInv'
  BY <1>15, <1>b, HashClearedFacts DEF ClearHash, Answer, Proceed, Goto, Pending, AccountsTypeOK,
     Key,
     AbsentInv, WriterInv, Writing, Present
<1>16. ASSUME NEW r \in Requests, WriteFails(r) PROVE AbsentInv'
  BY <1>16, <1>b, GoneFacts, HashClearedFacts DEF WriteFails, Answer, Proceed, Goto, Pending,
     AccountsTypeOK, Key, AbsentInv, WriterInv, Writing, Present
<1>17. ASSUME NEW r \in Requests, Evict(r) PROVE AbsentInv'
  BY <1>17, <1>b DEF Evict, Answer, rowVars, historyVars, Goto, AbsentInv, WriterInv, Writing,
     Present, AccountsTypeOK
<1>18. ASSUME NEW r \in Requests, DeleteUser(r) PROVE AbsentInv'
  BY <1>18 DEF DeleteUser, Answer, Goto, AccountsTypeOK, historyVars, AbsentInv, WriterInv, Writing,
     Present
<1>19. ASSUME NEW u \in Users, NEW q \in Quotas, NEW role \in {"admin", "user"}, CreateUser(u,
             role, q) PROVE AbsentInv'
  BY <1>19 DEF CreateUser, requestVars, AbsentInv, WriterInv, Writing, Present
<1>20. ASSUME NEW u \in Users, NEW q \in Quotas, UpdateQuota(u, q) PROVE AbsentInv'
  BY <1>20 DEF UpdateQuota, requestVars, AbsentInv, WriterInv, Writing, Present
<1>21. CASE Boot
  BY <1>21, <1>b, ClaimedFacts DEF Boot, AccountsTypeOK, rowVars, requestVars, AbsentInv, WriterInv,
     Writing, Present
<1>22. CASE SeedFails
  BY <1>22 DEF SeedFails, requestVars, AbsentInv, WriterInv, Writing, Present
<1>23. CASE Crash
  BY <1>23 DEF Crash, rowVars, AbsentInv, WriterInv, Writing, Present
<1>24. CASE UNCHANGED accountsVars
  BY <1>24 DEF accountsVars, rowVars, requestVars, historyVars, AbsentInv, WriterInv, Writing,
     Present,
     AccountsTypeOK
<1> QED
  BY <1>1, <1>2, <1>3, <1>4, <1>5, <1>6, <1>7, <1>8, <1>9, <1>10, <1>11, <1>12, <1>13, <1>14,
     <1>15, <1>16, <1>17, <1>18, <1>19, <1>20, <1>21, <1>22, <1>23, <1>24 DEF AccountsNext

\* The keys that are cached.
LEMMA CachedStep ==
    AccountsTypeOK /\ TargetInv /\ WriterInv /\ [AccountsNext]_accountsVars => CachedKeyIsValid'
<1> SUFFICES ASSUME AccountsTypeOK, TargetInv, WriterInv, [AccountsNext]_accountsVars
             PROVE CachedKeyIsValid'
  OBVIOUS
<1> USE AccountsAssumption
<1>b. \A r \in Requests : pc[r] \in Targeting =>
         target[r] \in Instances /\ inst[target[r]].st # "absent"
  BY DEF TargetInv
<1> USE DEF Targeting
<1>1. ASSUME NEW r \in Requests, NEW s \in Credentials, Create(r, s) PROVE CachedKeyIsValid'
  BY <1>1 DEF Create, Authenticate, Goto, rowVars, historyVars, CachedKeyIsValid, WriterInv,
     Writing, Present, FreshInv, StoreInv, AbsentInv, AccountsTypeOK
<1>2. ASSUME NEW r \in Requests, NEW s \in Credentials, Load(r, s) PROVE CachedKeyIsValid'
  BY <1>2 DEF Load, Authenticate, Present, Goto, rowVars, historyVars, CachedKeyIsValid,
     WriterInv, Writing, FreshInv, StoreInv, AbsentInv, AccountsTypeOK
<1>3. ASSUME NEW r \in Requests, NEW s \in Credentials, CountBeforeDelete(r, s) PROVE
             CachedKeyIsValid'
  BY <1>3 DEF CountBeforeDelete, Authenticate, Goto, rowVars, historyVars, CachedKeyIsValid,
     WriterInv, Writing, Present, FreshInv, StoreInv, AbsentInv, AccountsTypeOK
<1>4. ASSUME NEW r \in Requests, Refuse(r) PROVE CachedKeyIsValid'
  BY <1>4 DEF Refuse, Answer, rowVars, historyVars, Goto, CachedKeyIsValid, WriterInv, Writing,
     Present, FreshInv, StoreInv, AbsentInv, AccountsTypeOK
<1>5. ASSUME NEW r \in Requests, Ceiling(r) PROVE CachedKeyIsValid'
  BY <1>5 DEF Ceiling, Answer, Proceed, rowVars, historyVars, Goto, CachedKeyIsValid, WriterInv,
     Writing, Present, FreshInv, StoreInv, AbsentInv, AccountsTypeOK
<1>6. ASSUME NEW r \in Requests, ReadQuota(r) PROVE CachedKeyIsValid'
  BY <1>6 DEF ReadQuota, Goto, Proceed, rowVars, historyVars, CachedKeyIsValid, WriterInv,
     Writing, Present, FreshInv, StoreInv, AbsentInv, AccountsTypeOK
<1>7. ASSUME NEW r \in Requests, CountOwned(r) PROVE CachedKeyIsValid'
  BY <1>7 DEF CountOwned, Answer, Proceed, rowVars, historyVars, Goto, CachedKeyIsValid,
     WriterInv, Writing, Present, FreshInv, StoreInv, AbsentInv, AccountsTypeOK
<1>8. ASSUME NEW r \in Requests, CheckOwner(r) PROVE CachedKeyIsValid'
  BY <1>8 DEF CheckOwner, Proceed, Answer, rowVars, historyVars, Goto, CachedKeyIsValid,
     WriterInv, Writing, Present, FreshInv, StoreInv, AbsentInv, AccountsTypeOK
<1>9. ASSUME NEW r \in Requests, InsertRow(r) PROVE CachedKeyIsValid'
  <2>1. CASE Exists(owner[r])
    <3>1. PICK i \in Instances : /\ inst[i].st = "absent"
                                /\ RowInserted(i, owner[r])
                                /\ target' = [target EXCEPT ![r] = i]
      BY <1>9, <2>1 DEF InsertRow
    <3>2. /\ pc' = [pc EXCEPT ![r] = "hash"] /\ pc[r] = "insert"
          /\ UNCHANGED <<torn, cache, key>>
      BY <1>9, <2>1 DEF InsertRow, Goto
    <3>3. owner[r] \in Users
      BY <2>1 DEF Exists
    <3> QED
      BY <1>b, <3>1, <3>2, <3>3, RowInsertedFacts DEF AccountsTypeOK, CachedKeyIsValid, WriterInv,
         Writing, Present, FreshInv, StoreInv, AbsentInv
  <2>2. CASE ~Exists(owner[r])
    BY <1>9, <2>2 DEF InsertRow, Answer, Goto, AccountsTypeOK, CachedKeyIsValid, WriterInv,
       Writing, Present, FreshInv, StoreInv, AbsentInv
  <2> QED
    BY <2>1, <2>2
<1>10. ASSUME NEW r \in Requests, SetHash(r) PROVE CachedKeyIsValid'
  BY <1>10, <1>b, HashStoredFacts DEF SetHash, Answer, Proceed, Goto, Pending, AccountsTypeOK, Key,
     CachedKeyIsValid, WriterInv, Writing, Present, FreshInv, StoreInv, AbsentInv
<1>11. ASSUME NEW r \in Requests, SetHashFails(r) PROVE CachedKeyIsValid'
  BY <1>11, <1>b, HashStoredFacts DEF SetHashFails, Answer, Proceed, Goto, Pending, AccountsTypeOK,
     Key, CachedKeyIsValid, WriterInv, Writing, Present, FreshInv, StoreInv, AbsentInv
<1>12. ASSUME NEW r \in Requests, Undo(r) PROVE CachedKeyIsValid'
  BY <1>12, <1>b, GoneFacts DEF Undo, Answer, Proceed, Goto, Pending, AccountsTypeOK, Key,
     CachedKeyIsValid, WriterInv, Writing, Present, FreshInv, StoreInv, AbsentInv
<1>13. ASSUME NEW r \in Requests, StoreKey(r) PROVE CachedKeyIsValid'
  BY <1>13, <1>b DEF StoreKey, Answer, rowVars, historyVars, Goto, CachedKeyIsValid, WriterInv,
     Writing, Present, FreshInv, StoreInv, AbsentInv, AccountsTypeOK
<1>14. ASSUME NEW r \in Requests, DeleteRow(r) PROVE CachedKeyIsValid'
  BY <1>14, <1>b, GoneFacts DEF DeleteRow, Answer, Proceed, Goto, Pending, AccountsTypeOK, Key,
     CachedKeyIsValid, WriterInv, Writing, Present, FreshInv, StoreInv, AbsentInv
<1>15. ASSUME NEW r \in Requests, ClearHash(r) PROVE CachedKeyIsValid'
  BY <1>15, <1>b, HashClearedFacts DEF ClearHash, Answer, Proceed, Goto, Pending, AccountsTypeOK,
     Key,
     CachedKeyIsValid, WriterInv, Writing, Present, FreshInv, StoreInv, AbsentInv
<1>16. ASSUME NEW r \in Requests, WriteFails(r) PROVE CachedKeyIsValid'
  BY <1>16, <1>b, GoneFacts, HashClearedFacts DEF WriteFails, Answer, Proceed, Goto, Pending,
     AccountsTypeOK, Key, CachedKeyIsValid, WriterInv, Writing, Present, FreshInv, StoreInv, AbsentInv
<1>17. ASSUME NEW r \in Requests, Evict(r) PROVE CachedKeyIsValid'
  BY <1>17, <1>b DEF Evict, Answer, rowVars, historyVars, Goto, CachedKeyIsValid, WriterInv,
     Writing, Present, FreshInv, StoreInv, AbsentInv, AccountsTypeOK
<1>18. ASSUME NEW r \in Requests, DeleteUser(r) PROVE CachedKeyIsValid'
  BY <1>18 DEF DeleteUser, Answer, Goto, AccountsTypeOK, historyVars, CachedKeyIsValid, WriterInv,
     Writing, Present, FreshInv, StoreInv, AbsentInv
<1>19. ASSUME NEW u \in Users, NEW q \in Quotas, NEW role \in {"admin", "user"}, CreateUser(u,
             role, q) PROVE CachedKeyIsValid'
  BY <1>19 DEF CreateUser, requestVars, CachedKeyIsValid, WriterInv, Writing, Present,
     FreshInv, StoreInv, AbsentInv
<1>20. ASSUME NEW u \in Users, NEW q \in Quotas, UpdateQuota(u, q) PROVE CachedKeyIsValid'
  BY <1>20 DEF UpdateQuota, requestVars, CachedKeyIsValid, WriterInv, Writing, Present,
     FreshInv, StoreInv, AbsentInv
<1>21. CASE Boot
  BY <1>21, <1>b, ClaimedFacts DEF Boot, AccountsTypeOK, rowVars, requestVars, CachedKeyIsValid,
     WriterInv, Writing, Present, FreshInv, StoreInv, AbsentInv
<1>22. CASE SeedFails
  BY <1>22 DEF SeedFails, requestVars, CachedKeyIsValid, WriterInv, Writing, Present, FreshInv,
     StoreInv, AbsentInv
<1>23. CASE Crash
  BY <1>23 DEF Crash, rowVars, CachedKeyIsValid, WriterInv, Writing, Present, FreshInv,
     StoreInv, AbsentInv
<1>24. CASE UNCHANGED accountsVars
  BY <1>24 DEF accountsVars, rowVars, requestVars, historyVars, CachedKeyIsValid, WriterInv,
     Writing,
     Present, FreshInv, StoreInv, AbsentInv, AccountsTypeOK
<1> QED
  BY <1>1, <1>2, <1>3, <1>4, <1>5, <1>6, <1>7, <1>8, <1>9, <1>10, <1>11, <1>12, <1>13, <1>14,
     <1>15, <1>16, <1>17, <1>18, <1>19, <1>20, <1>21, <1>22, <1>23, <1>24 DEF AccountsNext

LEMMA WriterStep ==
    AccountsTypeOK /\ TargetInv /\ WriterInv /\ [AccountsNext]_accountsVars => WriterInv'
  BY AloneStep, StoreStep, FreshStep, AbsentStep, CachedStep DEF WriterInv

-----------------------------------------------------------------------------
(* Counting                                                                *)

\* A part of a finite set has no more elements than the whole.
LEMMA Fewer ==
    ASSUME NEW S, IsFiniteSet(S), NEW D \in SUBSET S, NEW E \in SUBSET D
    PROVE  Cardinality(D) \in Nat /\ Cardinality(E) \in Nat /\ Cardinality(E) <= Cardinality(D)
<1>1. IsFiniteSet(D)
  BY FS_Subset
<1> QED
  BY <1>1, FS_Subset, FS_CardinalityType

\* Without one of its elements a set has one fewer.
LEMMA OneLess ==
    ASSUME NEW S, IsFiniteSet(S), NEW D \in SUBSET S, NEW x \in D, NEW E \in SUBSET (D \ {x})
    PROVE  Cardinality(E) + 1 <= Cardinality(D)
<1>1. IsFiniteSet(D)
  BY FS_Subset
<1>2. Cardinality(D \ {x}) = Cardinality(D) - 1
  BY <1>1, FS_RemoveElement
<1>3. Cardinality(E) <= Cardinality(D \ {x}) /\ Cardinality(E) \in Nat
  BY Fewer
<1>4. Cardinality(D) \in Nat
  BY <1>1, FS_CardinalityType
<1> QED
  BY <1>2, <1>3, <1>4

\* With one more element it has at most one more.
LEMMA OneMore ==
    ASSUME NEW S, IsFiniteSet(S), NEW D \in SUBSET S, NEW x \in S, NEW E \in SUBSET (D \cup {x})
    PROVE  Cardinality(E) <= Cardinality(D) + 1
<1>1. IsFiniteSet(D)
  BY FS_Subset
<1>2. IsFiniteSet(D \cup {x}) /\ Cardinality(D \cup {x}) <= Cardinality(D) + 1
  <2>1. Cardinality(D) \in Nat
    BY <1>1, FS_CardinalityType
  <2>2. CASE x \in D
    <3>1. D \cup {x} = D
      BY <2>2
    <3> QED
      BY <1>1, <2>1, <3>1
  <2>3. CASE x \notin D
    <3>1. IsFiniteSet(D \cup {x})
      BY <1>1, FS_AddElement
    <3>2. Cardinality(D \cup {x}) = Cardinality(D) + 1
      BY <1>1, <2>3, FS_AddElement
    <3> QED
      BY <2>1, <3>1, <3>2
  <2> QED
    BY <2>2, <2>3
<1>3. Cardinality(E) <= Cardinality(D \cup {x}) /\ Cardinality(E) \in Nat
  BY <1>2, Fewer
<1>4. Cardinality(D) \in Nat /\ Cardinality(D \cup {x}) \in Nat
  BY <1>1, <1>2, FS_CardinalityType
<1> QED
  BY <1>2, <1>3, <1>4

LEMMA RequestCount == Cardinality(Requests) \in Nat \ {0}
<1>1. Cardinality(Requests) \in Nat
  BY AccountsAssumption, FS_CardinalityType
<1>2. Cardinality(Requests) # 0
  BY AccountsAssumption, FS_EmptySet
<1> QED
  BY <1>1, <1>2

\* What a request inserts for its owner.
Inserts(r, i) ==
    /\ pc[r] = "insert" /\ ~Admin(scope[r]) /\ Exists(owner[r]) /\ inst[i].st = "absent"
    /\ RowInserted(i, owner[r])
    /\ self' = self \cup {i}
    /\ pc' = [pc EXCEPT ![r] = "hash"]
    /\ owner' = [owner EXCEPT ![r] = NoUser]
    /\ UNCHANGED <<user, limit>>

\* Nothing else adds to what users created for themselves.
RowsKept ==
    /\ self' \subseteq self
    /\ \A i \in self' : inst'[i].st = "present" =>
          inst[i].st = "present" /\ inst'[i].owner = inst[i].owner

SelfKept == RowsKept \/ \E r \in Requests, i \in Instances : Inserts(r, i)

\* A check that passes read a count below the bound.
CeilingPassed == Cardinality(All) < MaxInstances /\ UNCHANGED <<inst, self>>

QuotaPassed(u) ==
    /\ Exists(u) /\ limit[u] # Unlimited => Cardinality(OwnedBy(u)) < limit[u]
    /\ UNCHANGED <<inst, self, user, limit>>

PastCeilingKept == MaxInstances > 0 => PastCeiling' \subseteq PastCeiling \/ CeilingPassed
PastQuotaKept   == \A u \in Users : PastQuota(u)' \subseteq PastQuota(u) \/ QuotaPassed(u)

LimitKept ==
    \A u \in Users :
        \/ limit'[u] = limit[u]
        \/ limit'[u] = Unlimited
        \/ limit[u] # Unlimited /\ limit'[u] >= limit[u]

\* Only an insert adds to what users created.
LEMMA SelfKeeps == AccountsTypeOK /\ SelfInv /\ TargetInv /\ [AccountsNext]_accountsVars => SelfKept
<1> SUFFICES ASSUME AccountsTypeOK, SelfInv, TargetInv, [AccountsNext]_accountsVars PROVE SelfKept
  OBVIOUS
<1> USE AccountsAssumption
<1>b. \A r \in Requests : pc[r] \in Targeting => target[r] \in Instances
  BY DEF TargetInv
<1> USE DEF Targeting
<1>1. ASSUME NEW r \in Requests, NEW s \in Credentials, Create(r, s) PROVE SelfKept
  BY <1>1 DEF Create, SelfKept, RowsKept, rowVars, historyVars
<1>2. ASSUME NEW r \in Requests, NEW s \in Credentials, Load(r, s) PROVE SelfKept
  BY <1>2 DEF Load, SelfKept, RowsKept, rowVars, historyVars
<1>3. ASSUME NEW r \in Requests, NEW s \in Credentials, CountBeforeDelete(r, s) PROVE SelfKept
  BY <1>3 DEF CountBeforeDelete, SelfKept, RowsKept, rowVars, historyVars
<1>4. ASSUME NEW r \in Requests, Refuse(r) PROVE SelfKept
  BY <1>4 DEF Refuse, SelfKept, RowsKept, rowVars, historyVars
<1>5. ASSUME NEW r \in Requests, Ceiling(r) PROVE SelfKept
  BY <1>5 DEF Ceiling, SelfKept, RowsKept, rowVars, historyVars
<1>6. ASSUME NEW r \in Requests, ReadQuota(r) PROVE SelfKept
  BY <1>6 DEF ReadQuota, SelfKept, RowsKept, rowVars, historyVars
<1>7. ASSUME NEW r \in Requests, CountOwned(r) PROVE SelfKept
  BY <1>7 DEF CountOwned, SelfKept, RowsKept, rowVars, historyVars
<1>8. ASSUME NEW r \in Requests, CheckOwner(r) PROVE SelfKept
  BY <1>8 DEF CheckOwner, SelfKept, RowsKept, rowVars, historyVars
<1>9. ASSUME NEW r \in Requests, InsertRow(r) PROVE SelfKept
  <2>1. CASE Exists(owner[r])
    <3>1. PICK i \in Instances :
             /\ inst[i].st = "absent"
             /\ RowInserted(i, owner[r])
             /\ self' = IF Admin(scope[r]) THEN self ELSE self \cup {i}
      BY <1>9, <2>1 DEF InsertRow
    <3>2. CASE Admin(scope[r])
      BY <3>1, <3>2, <2>1, RowInsertedFacts DEF Exists, AccountsTypeOK, SelfInv, Present, SelfKept,
         RowsKept
    <3>3. CASE ~Admin(scope[r])
      BY <1>9, <3>1, <3>3, <2>1 DEF InsertRow, Goto, Inserts, SelfKept
    <3> QED
      BY <3>2, <3>3
  <2>2. CASE ~Exists(owner[r])
    BY <1>9, <2>2 DEF InsertRow, SelfKept, RowsKept
  <2> QED
    BY <2>1, <2>2
<1>10. ASSUME NEW r \in Requests, SetHash(r) PROVE SelfKept
  BY <1>10, <1>b, HashStoredFacts DEF SetHash, AccountsTypeOK, Key, SelfKept, RowsKept
<1>11. ASSUME NEW r \in Requests, SetHashFails(r) PROVE SelfKept
  BY <1>11, <1>b, HashStoredFacts DEF SetHashFails, AccountsTypeOK, Key, SelfKept, RowsKept
<1>12. ASSUME NEW r \in Requests, Undo(r) PROVE SelfKept
  BY <1>12, <1>b, GoneFacts DEF Undo, AccountsTypeOK, Key, SelfKept, RowsKept
<1>13. ASSUME NEW r \in Requests, StoreKey(r) PROVE SelfKept
  BY <1>13 DEF StoreKey, SelfKept, RowsKept, rowVars, historyVars
<1>14. ASSUME NEW r \in Requests, DeleteRow(r) PROVE SelfKept
  BY <1>14, <1>b, GoneFacts DEF DeleteRow, AccountsTypeOK, Key, SelfKept, RowsKept
<1>15. ASSUME NEW r \in Requests, ClearHash(r) PROVE SelfKept
  BY <1>15, <1>b, HashClearedFacts DEF ClearHash, AccountsTypeOK, Key, SelfKept, RowsKept
<1>16. ASSUME NEW r \in Requests, WriteFails(r) PROVE SelfKept
  BY <1>16, <1>b, GoneFacts, HashClearedFacts DEF WriteFails, AccountsTypeOK, Key, SelfKept,
     RowsKept
<1>17. ASSUME NEW r \in Requests, Evict(r) PROVE SelfKept
  BY <1>17 DEF Evict, SelfKept, RowsKept, rowVars, historyVars
<1>18. ASSUME NEW r \in Requests, DeleteUser(r) PROVE SelfKept
  BY <1>18 DEF DeleteUser, SelfKept, RowsKept, rowVars, historyVars
<1>19. ASSUME NEW u \in Users, NEW q \in Quotas, NEW role \in {"admin", "user"}, CreateUser(u,
             role, q) PROVE SelfKept
  BY <1>19 DEF CreateUser, SelfKept, RowsKept
<1>20. ASSUME NEW u \in Users, NEW q \in Quotas, UpdateQuota(u, q) PROVE SelfKept
  BY <1>20 DEF UpdateQuota, SelfKept, RowsKept
<1>21. CASE Boot
  BY <1>21, ClaimedFacts, AccountsAssumption DEF Boot, AccountsTypeOK, rowVars, SelfInv, Present,
     SelfKept, RowsKept
<1>22. CASE SeedFails
  BY <1>22 DEF SeedFails, SelfKept, RowsKept
<1>23. CASE Crash
  BY <1>23 DEF Crash, SelfKept, RowsKept, rowVars, historyVars
<1>24. CASE UNCHANGED accountsVars
  BY <1>24 DEF accountsVars, rowVars, historyVars, SelfKept, RowsKept
<1> QED
  BY <1>1, <1>2, <1>3, <1>4, <1>5, <1>6, <1>7, <1>8, <1>9, <1>10, <1>11, <1>12, <1>13, <1>14,
     <1>15, <1>16, <1>17, <1>18, <1>19, <1>20, <1>21, <1>22, <1>23, <1>24 DEF AccountsNext

\* The greatest quota only grows.
LEMMA LimitKeeps == AccountsTypeOK /\ [AccountsNext]_accountsVars => LimitKept
<1> SUFFICES ASSUME AccountsTypeOK, [AccountsNext]_accountsVars PROVE LimitKept
  OBVIOUS
<1>1. ASSUME NEW r \in Requests, NEW s \in Credentials, Create(r, s) PROVE LimitKept
  BY <1>1 DEF Create, historyVars, LimitKept
<1>2. ASSUME NEW r \in Requests, NEW s \in Credentials, Load(r, s) PROVE LimitKept
  BY <1>2 DEF Load, historyVars, LimitKept
<1>3. ASSUME NEW r \in Requests, NEW s \in Credentials, CountBeforeDelete(r, s) PROVE LimitKept
  BY <1>3 DEF CountBeforeDelete, historyVars, LimitKept
<1>4. ASSUME NEW r \in Requests, Refuse(r) PROVE LimitKept
  BY <1>4 DEF Refuse, historyVars, LimitKept
<1>5. ASSUME NEW r \in Requests, Ceiling(r) PROVE LimitKept
  BY <1>5 DEF Ceiling, historyVars, LimitKept
<1>6. ASSUME NEW r \in Requests, ReadQuota(r) PROVE LimitKept
  BY <1>6 DEF ReadQuota, historyVars, LimitKept
<1>7. ASSUME NEW r \in Requests, CountOwned(r) PROVE LimitKept
  BY <1>7 DEF CountOwned, historyVars, LimitKept
<1>8. ASSUME NEW r \in Requests, CheckOwner(r) PROVE LimitKept
  BY <1>8 DEF CheckOwner, historyVars, LimitKept
<1>9. ASSUME NEW r \in Requests, InsertRow(r) PROVE LimitKept
  BY <1>9 DEF InsertRow, historyVars, LimitKept
<1>10. ASSUME NEW r \in Requests, SetHash(r) PROVE LimitKept
  BY <1>10 DEF SetHash, historyVars, LimitKept
<1>11. ASSUME NEW r \in Requests, SetHashFails(r) PROVE LimitKept
  BY <1>11 DEF SetHashFails, historyVars, LimitKept
<1>12. ASSUME NEW r \in Requests, Undo(r) PROVE LimitKept
  BY <1>12 DEF Undo, historyVars, LimitKept
<1>13. ASSUME NEW r \in Requests, StoreKey(r) PROVE LimitKept
  BY <1>13 DEF StoreKey, historyVars, LimitKept
<1>14. ASSUME NEW r \in Requests, DeleteRow(r) PROVE LimitKept
  BY <1>14 DEF DeleteRow, historyVars, LimitKept
<1>15. ASSUME NEW r \in Requests, ClearHash(r) PROVE LimitKept
  BY <1>15 DEF ClearHash, historyVars, LimitKept
<1>16. ASSUME NEW r \in Requests, WriteFails(r) PROVE LimitKept
  BY <1>16 DEF WriteFails, historyVars, LimitKept
<1>17. ASSUME NEW r \in Requests, Evict(r) PROVE LimitKept
  BY <1>17 DEF Evict, historyVars, LimitKept
<1>18. ASSUME NEW r \in Requests, DeleteUser(r) PROVE LimitKept
  BY <1>18 DEF DeleteUser, historyVars, LimitKept
<1>19. ASSUME NEW u \in Users, NEW q \in Quotas, NEW role \in {"admin", "user"}, CreateUser(u,
             role, q) PROVE LimitKept
  BY <1>19, RecordedFacts, LimitType DEF CreateUser, LimitKept
<1>20. ASSUME NEW u \in Users, NEW q \in Quotas, UpdateQuota(u, q) PROVE LimitKept
  BY <1>20, RecordedFacts, LimitType DEF UpdateQuota, LimitKept
<1>21. CASE Boot
  BY <1>21, RecordedFacts, LimitType DEF Boot, LimitKept
<1>22. CASE SeedFails
  BY <1>22, RecordedFacts, LimitType DEF SeedFails, LimitKept
<1>23. CASE Crash
  BY <1>23 DEF Crash, historyVars, LimitKept
<1>24. CASE UNCHANGED accountsVars
  BY <1>24 DEF accountsVars, historyVars, LimitKept
<1> QED
  BY <1>1, <1>2, <1>3, <1>4, <1>5, <1>6, <1>7, <1>8, <1>9, <1>10, <1>11, <1>12, <1>13, <1>14,
     <1>15, <1>16, <1>17, <1>18, <1>19, <1>20, <1>21, <1>22, <1>23, <1>24 DEF AccountsNext

\* Who passes the ceiling.
LEMMA PastCeilingKeeps ==
    AccountsTypeOK /\ ScopeInv /\ [AccountsNext]_accountsVars => PastCeilingKept
<1> SUFFICES ASSUME AccountsTypeOK, ScopeInv, [AccountsNext]_accountsVars PROVE PastCeilingKept
  OBVIOUS
<1>a. UsersStay
  BY UsersKept
<1>c. Cardinality(All) \in Nat /\ MaxInstances \in Nat
  BY AccountsAssumption, FS_Subset, FS_CardinalityType DEF All
<1>1. ASSUME NEW r \in Requests, NEW s \in Credentials, Create(r, s) PROVE PastCeilingKept
  BY <1>1, <1>a, <1>c DEF Create, Admin, Goto, rowVars, historyVars, PastCeilingKept,
     CeilingPassed, PastCeiling, ScopeInv, UsersStay, AccountsTypeOK, NoScope
<1>2. ASSUME NEW r \in Requests, NEW s \in Credentials, Load(r, s) PROVE PastCeilingKept
  BY <1>2, <1>a, <1>c DEF Load, Admin, Goto, rowVars, historyVars, PastCeilingKept,
     CeilingPassed, PastCeiling, ScopeInv, UsersStay, AccountsTypeOK, NoScope
<1>3. ASSUME NEW r \in Requests, NEW s \in Credentials, CountBeforeDelete(r, s) PROVE
             PastCeilingKept
  BY <1>3, <1>a, <1>c DEF CountBeforeDelete, Admin, Goto, rowVars, historyVars, PastCeilingKept,
     CeilingPassed, PastCeiling, ScopeInv, UsersStay, AccountsTypeOK, NoScope
<1>4. ASSUME NEW r \in Requests, Refuse(r) PROVE PastCeilingKept
  BY <1>4, <1>a, <1>c DEF Refuse, Answer, rowVars, historyVars, Goto, PastCeilingKept,
     CeilingPassed, PastCeiling, ScopeInv, UsersStay, Admin, AccountsTypeOK, NoScope
<1>5. ASSUME NEW r \in Requests, Ceiling(r) PROVE PastCeilingKept
  <2>1. CASE Cardinality(All) >= MaxInstances
    BY <1>5, <2>1, <1>a DEF Ceiling, Answer, rowVars, AccountsTypeOK, PastCeilingKept,
       CeilingPassed, PastCeiling, ScopeInv, UsersStay, Admin, Goto
  <2>2. CASE ~(Cardinality(All) >= MaxInstances)
    BY <1>5, <2>2, <1>c DEF Ceiling, rowVars, historyVars, PastCeilingKept, CeilingPassed
  <2> QED
    BY <2>1, <2>2
<1>6. ASSUME NEW r \in Requests, ReadQuota(r) PROVE PastCeilingKept
  BY <1>6, <1>a, <1>c DEF ReadQuota, Goto, Proceed, rowVars, historyVars, PastCeilingKept,
     CeilingPassed, PastCeiling, ScopeInv, UsersStay, Admin, AccountsTypeOK, NoScope
<1>7. ASSUME NEW r \in Requests, CountOwned(r) PROVE PastCeilingKept
  BY <1>7, <1>a, <1>c DEF CountOwned, Answer, Proceed, rowVars, historyVars, Goto,
     PastCeilingKept, CeilingPassed, PastCeiling, ScopeInv, UsersStay, Admin, AccountsTypeOK, NoScope
<1>8. ASSUME NEW r \in Requests, CheckOwner(r) PROVE PastCeilingKept
  BY <1>8, <1>a, <1>c DEF CheckOwner, Proceed, Answer, rowVars, historyVars, Goto,
     PastCeilingKept, CeilingPassed, PastCeiling, ScopeInv, UsersStay, Admin, AccountsTypeOK, NoScope
<1>9. ASSUME NEW r \in Requests, InsertRow(r) PROVE PastCeilingKept
  BY <1>9, <1>a, <1>c DEF InsertRow, Admin, Goto, Answer, PastCeilingKept, CeilingPassed,
     PastCeiling, ScopeInv, UsersStay, AccountsTypeOK, NoScope, rowVars
<1>10. ASSUME NEW r \in Requests, SetHash(r) PROVE PastCeilingKept
  BY <1>10, <1>a, <1>c DEF SetHash, Goto, Proceed, Answer, PastCeilingKept, CeilingPassed,
     PastCeiling, ScopeInv, UsersStay, Admin, AccountsTypeOK, NoScope, rowVars
<1>11. ASSUME NEW r \in Requests, SetHashFails(r) PROVE PastCeilingKept
  BY <1>11, <1>a, <1>c DEF SetHashFails, Proceed, Answer, Goto, PastCeilingKept, CeilingPassed,
     PastCeiling, ScopeInv, UsersStay, Admin, AccountsTypeOK, NoScope, rowVars
<1>12. ASSUME NEW r \in Requests, Undo(r) PROVE PastCeilingKept
  BY <1>12, <1>a, <1>c DEF Undo, Answer, Goto, PastCeilingKept, CeilingPassed, PastCeiling,
     ScopeInv, UsersStay, Admin, AccountsTypeOK, NoScope, rowVars
<1>13. ASSUME NEW r \in Requests, StoreKey(r) PROVE PastCeilingKept
  BY <1>13, <1>a, <1>c DEF StoreKey, Answer, rowVars, historyVars, Goto, PastCeilingKept,
     CeilingPassed, PastCeiling, ScopeInv, UsersStay, Admin, AccountsTypeOK, NoScope
<1>14. ASSUME NEW r \in Requests, DeleteRow(r) PROVE PastCeilingKept
  BY <1>14, <1>a, <1>c DEF DeleteRow, Proceed, Answer, Goto, PastCeilingKept, CeilingPassed,
     PastCeiling, ScopeInv, UsersStay, Admin, AccountsTypeOK, NoScope, rowVars
<1>15. ASSUME NEW r \in Requests, ClearHash(r) PROVE PastCeilingKept
  BY <1>15, <1>a, <1>c DEF ClearHash, Proceed, Answer, Goto, PastCeilingKept, CeilingPassed,
     PastCeiling, ScopeInv, UsersStay, Admin, AccountsTypeOK, NoScope, rowVars
<1>16. ASSUME NEW r \in Requests, WriteFails(r) PROVE PastCeilingKept
  BY <1>16, <1>a, <1>c DEF WriteFails, Answer, Goto, PastCeilingKept, CeilingPassed,
     PastCeiling, ScopeInv, UsersStay, Admin, AccountsTypeOK, NoScope, rowVars
<1>17. ASSUME NEW r \in Requests, Evict(r) PROVE PastCeilingKept
  BY <1>17, <1>a, <1>c DEF Evict, Answer, rowVars, historyVars, Goto, PastCeilingKept,
     CeilingPassed, PastCeiling, ScopeInv, UsersStay, Admin, AccountsTypeOK, NoScope
<1>18. ASSUME NEW r \in Requests, DeleteUser(r) PROVE PastCeilingKept
  BY <1>18, <1>a, <1>c DEF DeleteUser, Answer, historyVars, Goto, PastCeilingKept,
     CeilingPassed, PastCeiling, ScopeInv, UsersStay, Admin, AccountsTypeOK, NoScope, rowVars
<1>19. ASSUME NEW u \in Users, NEW q \in Quotas, NEW role \in {"admin", "user"}, CreateUser(u,
             role, q) PROVE PastCeilingKept
  BY <1>19, <1>a, <1>c DEF CreateUser, requestVars, PastCeilingKept, CeilingPassed,
     PastCeiling, ScopeInv, UsersStay, Admin, Goto
<1>20. ASSUME NEW u \in Users, NEW q \in Quotas, UpdateQuota(u, q) PROVE PastCeilingKept
  BY <1>20, <1>a, <1>c DEF UpdateQuota, requestVars, PastCeilingKept, CeilingPassed,
     PastCeiling, ScopeInv, UsersStay, Admin, Goto
<1>21. CASE Boot
  BY <1>21, <1>a, <1>c DEF Boot, requestVars, PastCeilingKept, CeilingPassed, PastCeiling,
     ScopeInv, UsersStay, Admin, Goto
<1>22. CASE SeedFails
  BY <1>22, <1>a, <1>c DEF SeedFails, requestVars, PastCeilingKept, CeilingPassed, PastCeiling,
     ScopeInv, UsersStay, Admin, Goto
<1>23. CASE Crash
  BY <1>23 DEF Crash, PastCeilingKept, CeilingPassed, PastCeiling, ScopeInv, UsersStay, Admin,
     Goto
<1>24. CASE UNCHANGED accountsVars
  BY <1>24, <1>a, <1>c DEF accountsVars, rowVars, requestVars, historyVars, PastCeilingKept,
     CeilingPassed, PastCeiling, ScopeInv, UsersStay, Admin, Goto
<1> QED
  BY <1>1, <1>2, <1>3, <1>4, <1>5, <1>6, <1>7, <1>8, <1>9, <1>10, <1>11, <1>12, <1>13, <1>14,
     <1>15, <1>16, <1>17, <1>18, <1>19, <1>20, <1>21, <1>22, <1>23, <1>24 DEF AccountsNext

\* Who passes the quota of a user.
LEMMA PastQuotaKeeps ==
    AccountsTypeOK /\ ScopeInv /\ LimitInv /\ [AccountsNext]_accountsVars => PastQuotaKept
<1> SUFFICES ASSUME AccountsTypeOK, ScopeInv, LimitInv, [AccountsNext]_accountsVars
             PROVE PastQuotaKept
  OBVIOUS
<1>a. UsersStay
  BY UsersKept
<1>c. \A u \in Users : Cardinality(OwnedBy(u)) \in Nat
  BY AccountsAssumption, FS_Subset, FS_CardinalityType DEF OwnedBy, All
<1>1. ASSUME NEW r \in Requests, NEW s \in Credentials, Create(r, s) PROVE PastQuotaKept
  BY <1>1, <1>a DEF Create, Admin, Goto, rowVars, historyVars, PastQuotaKept, PastQuota,
     ScopeInv, UsersStay, AccountsTypeOK, NoScope
<1>2. ASSUME NEW r \in Requests, NEW s \in Credentials, Load(r, s) PROVE PastQuotaKept
  BY <1>2, <1>a DEF Load, Admin, Goto, rowVars, historyVars, PastQuotaKept, PastQuota, ScopeInv,
     UsersStay, AccountsTypeOK, NoScope
<1>3. ASSUME NEW r \in Requests, NEW s \in Credentials, CountBeforeDelete(r, s) PROVE
             PastQuotaKept
  BY <1>3, <1>a DEF CountBeforeDelete, Admin, Goto, rowVars, historyVars, PastQuotaKept,
     PastQuota, ScopeInv, UsersStay, AccountsTypeOK, NoScope
<1>4. ASSUME NEW r \in Requests, Refuse(r) PROVE PastQuotaKept
  BY <1>4, <1>a DEF Refuse, Answer, rowVars, historyVars, Goto, PastQuotaKept, PastQuota,
     ScopeInv, UsersStay, Admin, AccountsTypeOK, NoScope
<1>5. ASSUME NEW r \in Requests, Ceiling(r) PROVE PastQuotaKept
  BY <1>5, <1>a DEF Ceiling, Answer, Proceed, rowVars, historyVars, Goto, PastQuotaKept,
     PastQuota, ScopeInv, UsersStay, Admin, AccountsTypeOK, NoScope
<1>6. ASSUME NEW r \in Requests, ReadQuota(r) PROVE PastQuotaKept
  <2> SUFFICES ASSUME NEW u \in Users
               PROVE  PastQuota(u)' \subseteq PastQuota(u) \/ QuotaPassed(u)
    BY DEF PastQuotaKept
  <2>1. CASE owner[r] = u /\ ~(Exists(u) /\ user[u].quota > 0)
    BY <1>6, <2>1 DEF ReadQuota, LimitInv, QuotaPassed, rowVars, historyVars
  <2>2. CASE ~(owner[r] = u /\ ~(Exists(u) /\ user[u].quota > 0))
    BY <1>6, <2>2, <1>a DEF ReadQuota, Proceed, rowVars, AccountsTypeOK, PastQuotaKept, PastQuota,
       ScopeInv, UsersStay, Admin, Goto
  <2> QED
    BY <2>1, <2>2
<1>7. ASSUME NEW r \in Requests, CountOwned(r) PROVE PastQuotaKept
  <2> SUFFICES ASSUME NEW u \in Users
               PROVE  PastQuota(u)' \subseteq PastQuota(u) \/ QuotaPassed(u)
    BY DEF PastQuotaKept
  <2>1. CASE Cardinality(OwnedBy(owner[r])) >= quota[r]
    BY <1>7, <2>1, <1>a DEF CountOwned, Answer, rowVars, AccountsTypeOK, PastQuotaKept, PastQuota,
       ScopeInv, UsersStay, Admin, Goto
  <2>2. CASE ~(Cardinality(OwnedBy(owner[r])) >= quota[r]) /\ owner[r] = u
    BY <1>7, <2>2, <1>c, LimitType DEF CountOwned, LimitInv, QuotaPassed, rowVars, historyVars
  <2>3. CASE ~(Cardinality(OwnedBy(owner[r])) >= quota[r]) /\ owner[r] /= u
    BY <1>7, <2>3, <1>a DEF CountOwned, Proceed, rowVars, AccountsTypeOK, PastQuotaKept, PastQuota,
       ScopeInv, UsersStay, Admin, Goto
  <2> QED
    BY <2>1, <2>2, <2>3
<1>8. ASSUME NEW r \in Requests, CheckOwner(r) PROVE PastQuotaKept
  BY <1>8, <1>a DEF CheckOwner, Proceed, Answer, rowVars, historyVars, Goto, PastQuotaKept,
     PastQuota, ScopeInv, UsersStay, Admin, AccountsTypeOK, NoScope
<1>9. ASSUME NEW r \in Requests, InsertRow(r) PROVE PastQuotaKept
  BY <1>9, <1>a DEF InsertRow, Admin, Goto, Answer, PastQuotaKept, PastQuota, ScopeInv,
     UsersStay, AccountsTypeOK, NoScope, rowVars
<1>10. ASSUME NEW r \in Requests, SetHash(r) PROVE PastQuotaKept
  BY <1>10, <1>a DEF SetHash, Goto, Proceed, Answer, PastQuotaKept, PastQuota, ScopeInv,
     UsersStay, Admin, AccountsTypeOK, NoScope, rowVars
<1>11. ASSUME NEW r \in Requests, SetHashFails(r) PROVE PastQuotaKept
  BY <1>11, <1>a DEF SetHashFails, Proceed, Answer, Goto, PastQuotaKept, PastQuota, ScopeInv,
     UsersStay, Admin, AccountsTypeOK, NoScope, rowVars
<1>12. ASSUME NEW r \in Requests, Undo(r) PROVE PastQuotaKept
  BY <1>12, <1>a DEF Undo, Answer, Goto, PastQuotaKept, PastQuota, ScopeInv, UsersStay, Admin,
     AccountsTypeOK, NoScope, rowVars
<1>13. ASSUME NEW r \in Requests, StoreKey(r) PROVE PastQuotaKept
  BY <1>13, <1>a DEF StoreKey, Answer, rowVars, historyVars, Goto, PastQuotaKept, PastQuota,
     ScopeInv, UsersStay, Admin, AccountsTypeOK, NoScope
<1>14. ASSUME NEW r \in Requests, DeleteRow(r) PROVE PastQuotaKept
  BY <1>14, <1>a DEF DeleteRow, Proceed, Answer, Goto, PastQuotaKept, PastQuota, ScopeInv,
     UsersStay, Admin, AccountsTypeOK, NoScope, rowVars
<1>15. ASSUME NEW r \in Requests, ClearHash(r) PROVE PastQuotaKept
  BY <1>15, <1>a DEF ClearHash, Proceed, Answer, Goto, PastQuotaKept, PastQuota, ScopeInv,
     UsersStay, Admin, AccountsTypeOK, NoScope, rowVars
<1>16. ASSUME NEW r \in Requests, WriteFails(r) PROVE PastQuotaKept
  BY <1>16, <1>a DEF WriteFails, Answer, Goto, PastQuotaKept, PastQuota, ScopeInv, UsersStay,
     Admin, AccountsTypeOK, NoScope, rowVars
<1>17. ASSUME NEW r \in Requests, Evict(r) PROVE PastQuotaKept
  BY <1>17, <1>a DEF Evict, Answer, rowVars, historyVars, Goto, PastQuotaKept, PastQuota,
     ScopeInv, UsersStay, Admin, AccountsTypeOK, NoScope
<1>18. ASSUME NEW r \in Requests, DeleteUser(r) PROVE PastQuotaKept
  BY <1>18, <1>a DEF DeleteUser, Answer, historyVars, Goto, PastQuotaKept, PastQuota, ScopeInv,
     UsersStay, Admin, AccountsTypeOK, NoScope, rowVars
<1>19. ASSUME NEW u \in Users, NEW q \in Quotas, NEW role \in {"admin", "user"}, CreateUser(u,
             role, q) PROVE PastQuotaKept
  BY <1>19, <1>a DEF CreateUser, requestVars, PastQuotaKept, PastQuota, ScopeInv, UsersStay,
     Admin, Goto
<1>20. ASSUME NEW u \in Users, NEW q \in Quotas, UpdateQuota(u, q) PROVE PastQuotaKept
  BY <1>20, <1>a DEF UpdateQuota, requestVars, PastQuotaKept, PastQuota, ScopeInv, UsersStay,
     Admin, Goto
<1>21. CASE Boot
  BY <1>21, <1>a DEF Boot, requestVars, PastQuotaKept, PastQuota, ScopeInv, UsersStay, Admin,
     Goto
<1>22. CASE SeedFails
  BY <1>22, <1>a DEF SeedFails, requestVars, PastQuotaKept, PastQuota, ScopeInv, UsersStay,
     Admin, Goto
<1>23. CASE Crash
  BY <1>23 DEF Crash, PastQuotaKept, PastQuota, ScopeInv, UsersStay, Admin, Goto
<1>24. CASE UNCHANGED accountsVars
  BY <1>24, <1>a DEF accountsVars, rowVars, requestVars, historyVars, PastQuotaKept, PastQuota,
     ScopeInv, UsersStay, Admin, Goto
<1> QED
  BY <1>1, <1>2, <1>3, <1>4, <1>5, <1>6, <1>7, <1>8, <1>9, <1>10, <1>11, <1>12, <1>13, <1>14,
     <1>15, <1>16, <1>17, <1>18, <1>19, <1>20, <1>21, <1>22, <1>23, <1>24 DEF AccountsNext

\* What users created for themselves shrinks when no row is inserted.
LEMMA KeptFacts ==
    ASSUME AccountsTypeOK, AccountsTypeOK', RowsKept
    PROVE  /\ SelfMade' \subseteq SelfMade
           /\ \A u \in Users : SelfMadeBy(u)' \subseteq SelfMadeBy(u)
  BY DEF RowsKept, SelfMade, SelfMadeBy, All, Present, AccountsTypeOK

\* An insert uses up the check of its request.
LEMMA InsertsFacts ==
    ASSUME AccountsTypeOK, AccountsTypeOK', SelfInv, NEW r \in Requests,
           NEW i \in Instances, Inserts(r, i)
    PROVE  /\ SelfMade' \subseteq SelfMade \cup {i}
           /\ \A u \in Users : u # owner[r] => SelfMadeBy(u)' \subseteq SelfMadeBy(u)
           /\ \A u \in Users : SelfMadeBy(u)' \subseteq SelfMadeBy(u) \cup {i}
           /\ r \in PastCeiling /\ r \notin PastCeiling'
           /\ r \in PastQuota(owner[r]) /\ \A u \in Users : r \notin PastQuota(u)'
<1>1. owner[r] \in Users
  BY DEF Inserts, Exists
<1>2. /\ inst'[i].owner = owner[r]
      /\ \A j \in Instances \ {i} : inst'[j] = inst[j]
  BY <1>1, RowInsertedFacts DEF Inserts
<1>3. self' = self \cup {i} /\ i \notin self /\ self \subseteq Instances
  BY DEF Inserts, SelfInv, Present, AccountsTypeOK
<1>4. SelfMade' \subseteq SelfMade \cup {i}
  BY <1>2, <1>3 DEF SelfMade, All, Present
<1>5. \A u \in Users : SelfMadeBy(u)' \subseteq SelfMadeBy(u) \cup {i}
  BY <1>2, <1>3 DEF SelfMadeBy, SelfMade, All, Present
<1>6. \A u \in Users : u # owner[r] => SelfMadeBy(u)' \subseteq SelfMadeBy(u)
  BY <1>2, <1>3 DEF SelfMadeBy, SelfMade, All, Present
<1>7. r \in PastCeiling /\ r \in PastQuota(owner[r])
  BY DEF Inserts, PastCeiling, PastQuota
<1>8. pc'[r] = "hash"
  BY DEF Inserts, AccountsTypeOK
<1>9. r \notin PastCeiling' /\ \A u \in Users : r \notin PastQuota(u)'
  BY <1>8 DEF PastCeiling, PastQuota
<1> QED
  BY <1>4, <1>5, <1>6, <1>7, <1>9

LEMMA CeilingStep ==
    ASSUME AccountsTypeOK, AccountsTypeOK', ScopeInv, SelfInv, TargetInv, CeilingInv,
           [AccountsNext]_accountsVars
    PROVE  CeilingInv'
<1> SUFFICES ASSUME MaxInstances > 0
             PROVE  Cardinality(SelfMade') + Cardinality(PastCeiling') <= MaxInstances + Concurrent
  BY DEF CeilingInv, Concurrent
<1> DEFINE S == SelfMade
           T == SelfMade'
           P == PastCeiling
           Q == PastCeiling'
<1>1. /\ S \subseteq All /\ All \subseteq Instances /\ T \subseteq Instances
      /\ P \subseteq Requests /\ Q \subseteq Requests
  BY DEF SelfMade, PastCeiling, All
<1>2. IsFiniteSet(Instances) /\ IsFiniteSet(Requests) /\ MaxInstances \in Nat
  BY AccountsAssumption
<1>3. /\ Cardinality(S) \in Nat /\ Cardinality(T) \in Nat
      /\ Cardinality(P) \in Nat /\ Cardinality(Q) \in Nat
      /\ Cardinality(All) \in Nat /\ Cardinality(S) <= Cardinality(All)
      /\ Cardinality(Q) <= Cardinality(Requests)
  <2>1. Cardinality(Q) \in Nat /\ Cardinality(Q) <= Cardinality(Requests)
    BY <1>1, <1>2, Fewer
  <2>2. Cardinality(P) \in Nat
    BY <1>1, <1>2, Fewer
  <2>3. Cardinality(T) \in Nat
    BY <1>1, <1>2, Fewer
  <2>4. Cardinality(S) \in Nat /\ Cardinality(All) \in Nat /\ Cardinality(S) <= Cardinality(All)
    BY <1>1, <1>2, Fewer
  <2> QED
    BY <2>1, <2>2, <2>3, <2>4
<1>4. SelfKept /\ (Q \subseteq P \/ CeilingPassed)
  BY SelfKeeps, PastCeilingKeeps DEF PastCeilingKept
<1>5. Cardinality(S) + Cardinality(P) <= MaxInstances + (Cardinality(Requests) - 1)
  BY DEF CeilingInv, Concurrent
<1>6. Cardinality(Requests) \in Nat \ {0}
  BY RequestCount
<1>7. CASE CeilingPassed
  <2>1. S = T
    BY <1>7 DEF CeilingPassed, SelfMade, All, Present
  <2>2. Cardinality(All) < MaxInstances
    BY <1>7 DEF CeilingPassed
  <2> HIDE DEF S, T, P, Q
  <2>3. Cardinality(T) + Cardinality(Q) <= MaxInstances + (Cardinality(Requests) - 1)
    BY <1>2, <1>3, <1>6, <2>1, <2>2
  <2> QED
    BY <2>3 DEF T, Q, Concurrent
<1>8. CASE Q \subseteq P /\ RowsKept
  <2>1. T \subseteq S
    BY <1>8, KeptFacts
  <2>2. Cardinality(T) <= Cardinality(S)
    BY <1>1, <1>2, <2>1, Fewer
  <2>3. Cardinality(Q) <= Cardinality(P)
    BY <1>1, <1>2, <1>8, Fewer
  <2> HIDE DEF S, T, P, Q
  <2>4. Cardinality(T) + Cardinality(Q) <= MaxInstances + (Cardinality(Requests) - 1)
    BY <1>2, <1>3, <1>5, <1>6, <2>2, <2>3
  <2> QED
    BY <2>4 DEF T, Q, Concurrent
<1>9. ASSUME Q \subseteq P, NEW r \in Requests, NEW i \in Instances, Inserts(r, i)
      PROVE  Cardinality(T) + Cardinality(Q) <= MaxInstances + Concurrent
  <2>1. T \subseteq S \cup {i} /\ r \in P /\ r \notin Q
    BY <1>9, InsertsFacts
  <2> HIDE DEF S, T, P, Q
  <2>2. Cardinality(T) <= Cardinality(S) + 1
    BY <1>1, <1>2, <2>1, OneMore
  <2>3. Cardinality(Q) + 1 <= Cardinality(P)
    BY <1>1, <1>2, <1>9, <2>1, OneLess
  <2>4. Cardinality(T) + Cardinality(Q) <= MaxInstances + (Cardinality(Requests) - 1)
    BY <1>2, <1>3, <1>5, <1>6, <2>2, <2>3
  <2> QED
    BY <2>4 DEF Concurrent
<1> QED
  BY <1>4, <1>7, <1>8, <1>9 DEF SelfKept

LEMMA QuotaStep ==
    ASSUME AccountsTypeOK, AccountsTypeOK', ScopeInv, LimitInv, LimitInv', SelfInv, TargetInv, QuotaInv,
           [AccountsNext]_accountsVars
    PROVE  QuotaInv'
<1> SUFFICES ASSUME NEW u \in Users, limit'[u] # Unlimited
             PROVE  Cardinality(SelfMadeBy(u)') + (IF Exists(u)' THEN Cardinality(PastQuota(u)') ELSE 0)
                       <= limit'[u] + (Cardinality(Requests) - 1)
  BY DEF QuotaInv, Concurrent
<1> DEFINE S == SelfMadeBy(u)
           T == SelfMadeBy(u)'
           P == PastQuota(u)
           Q == PastQuota(u)'
           A == OwnedBy(u)
<1>1. /\ S \subseteq A /\ A \subseteq Instances /\ T \subseteq Instances
      /\ P \subseteq Requests /\ Q \subseteq Requests
  BY DEF SelfMadeBy, SelfMade, PastQuota, OwnedBy, All
<1>2. IsFiniteSet(Instances) /\ IsFiniteSet(Requests)
  BY AccountsAssumption
<1>3. /\ Cardinality(S) \in Nat /\ Cardinality(T) \in Nat
      /\ Cardinality(P) \in Nat /\ Cardinality(Q) \in Nat
      /\ Cardinality(A) \in Nat /\ Cardinality(S) <= Cardinality(A)
      /\ Cardinality(Q) <= Cardinality(Requests)
  <2> HIDE DEF S, T, P, Q, A
  <2>1. Cardinality(Q) \in Nat /\ Cardinality(Q) <= Cardinality(Requests)
    BY <1>1, <1>2, Fewer
  <2>2. Cardinality(P) \in Nat
    BY <1>1, <1>2, Fewer
  <2>3. Cardinality(T) \in Nat
    BY <1>1, <1>2, Fewer
  <2>4. Cardinality(S) \in Nat /\ Cardinality(A) \in Nat /\ Cardinality(S) <= Cardinality(A)
    BY <1>1, <1>2, Fewer
  <2> QED
    BY <2>1, <2>2, <2>3, <2>4
<1>4. SelfKept /\ (Q \subseteq P \/ QuotaPassed(u))
  BY SelfKeeps, PastQuotaKeeps DEF PastQuotaKept
<1>5. limit[u] # Unlimited /\ limit[u] \in Nat /\ limit'[u] \in Nat /\ limit'[u] >= limit[u]
  <2>1. limit[u] # Unlimited /\ (limit'[u] = limit[u] \/ limit'[u] >= limit[u])
    BY LimitKeeps DEF LimitKept
  <2>2. limit[u] \in Nat
    BY <2>1, LimitType
  <2>3. limit'[u] \in Quotas \cup {0, Unlimited}
    BY DEF AccountsTypeOK
  <2>4. limit'[u] \in Nat
    <3>1. 0 \in Nat /\ \A x \in Quotas : x \in Nat
      BY AccountsAssumption
    <3> QED
      BY <2>3, <3>1, Zenon
  <2> QED
    BY <2>1, <2>2, <2>4
<1>6. Cardinality(S) + (IF Exists(u) THEN Cardinality(P) ELSE 0)
         <= limit[u] + (Cardinality(Requests) - 1)
  BY <1>5 DEF QuotaInv, Concurrent
<1>7. Cardinality(Requests) \in Nat \ {0}
  BY RequestCount
<1>8. ASSUME NEW r \in Requests, NEW i \in Instances, Inserts(r, i)
      PROVE  /\ owner[r] # u => T \subseteq S
             /\ T \subseteq S \cup {i} /\ r \notin Q
             /\ owner[r] = u => r \in P /\ Exists(u)
             /\ Exists(u)' <=> Exists(u)
  BY <1>8, InsertsFacts DEF Inserts, Exists
<1>9. CASE Exists(u)' /\ ~Exists(u)
  <2>1. user[u].st = "absent"
    BY <1>9, UsersKept DEF UsersStay, Exists, AccountsTypeOK, UserRow
  <2>2. S = {}
    BY <2>1 DEF SelfMadeBy, SelfMade, SelfInv
  <2>3. T \subseteq S
    BY <1>4, <1>8, <1>9, KeptFacts DEF SelfKept
  <2>4. Cardinality(T) = 0
    BY <2>2, <2>3, FS_EmptySet
  <2>5. user'[u].quota > 0 /\ user'[u].quota <= limit'[u]
    BY <1>9 DEF LimitInv
  <2>6. user'[u].quota \in Nat
    <3>1. user'[u].quota \in Quotas \cup {0}
      BY DEF AccountsTypeOK, UserRow
    <3>2. 0 \in Nat /\ \A x \in Quotas : x \in Nat
      BY AccountsAssumption
    <3> QED
      BY <3>1, <3>2, Zenon
  <2> HIDE DEF S, T, P, Q, A
  <2>7. Cardinality(T) + Cardinality(Q) <= limit'[u] + (Cardinality(Requests) - 1)
    BY <1>3, <1>5, <1>7, <2>4, <2>5, <2>6
  <2> QED
    BY <1>9, <2>7 DEF T, Q
<1>10. CASE ~Exists(u)' /\ ~Exists(u)
  <2>1. T \subseteq S
    BY <1>4, <1>8, <1>10, KeptFacts DEF SelfKept
  <2>2. Cardinality(S) <= limit[u] + (Cardinality(Requests) - 1)
    BY <1>3, <1>6, <1>10
  <2> HIDE DEF S, T, P, Q, A
  <2>3. S \subseteq Instances
    BY <1>1
  <2>4. Cardinality(T) <= Cardinality(S)
    BY <1>2, <2>1, <2>3, Fewer
  <2>5. Cardinality(T) + 0 <= limit'[u] + (Cardinality(Requests) - 1)
    BY <1>3, <1>5, <1>7, <2>2, <2>4
  <2> QED
    BY <1>10, <2>5 DEF T, Q
<1>11. CASE Exists(u) /\ QuotaPassed(u)
  <2>1. S = T /\ limit'[u] = limit[u] /\ Cardinality(A) < limit[u]
    BY <1>5, <1>11 DEF QuotaPassed, SelfMadeBy, SelfMade, All, Present
  <2> HIDE DEF S, T, P, Q, A
  <2>2. Cardinality(T) + Cardinality(Q) <= limit'[u] + (Cardinality(Requests) - 1)
    BY <1>3, <1>5, <1>7, <2>1
  <2>3. Cardinality(T) + 0 <= limit'[u] + (Cardinality(Requests) - 1)
    BY <1>3, <1>5, <1>7, <2>1
  <2> QED
    BY <2>2, <2>3 DEF T, Q
<1>12. CASE Exists(u) /\ Q \subseteq P
  <2>1. Cardinality(T) + Cardinality(Q) <= Cardinality(S) + Cardinality(P)
    <3> HIDE DEF S, T, P, Q, A
    <3>1. Cardinality(Q) <= Cardinality(P)
      BY <1>1, <1>2, <1>12, Fewer
    <3>2. S \subseteq Instances
      BY <1>1
    <3>3. CASE T \subseteq S
      <4>1. Cardinality(T) <= Cardinality(S)
        BY <1>2, <3>2, <3>3, Fewer
      <4> QED
        BY <1>3, <3>1, <4>1
    <3>4. CASE ~(T \subseteq S)
      <4>1. PICK r \in Requests, i \in Instances : Inserts(r, i)
        BY <1>4, <3>4, KeptFacts DEF SelfKept, S, T
      <4>2. T \subseteq S \cup {i} /\ r \in P /\ r \notin Q
        BY <1>8, <3>4, <4>1
      <4>3. Cardinality(T) <= Cardinality(S) + 1
        BY <1>2, <3>2, <4>2, OneMore
      <4>4. Cardinality(Q) + 1 <= Cardinality(P)
        BY <1>1, <1>2, <1>12, <4>2, OneLess
      <4> QED
        BY <1>3, <4>3, <4>4
    <3> QED
      BY <3>3, <3>4
  <2>2. Cardinality(S) + Cardinality(P) <= limit[u] + (Cardinality(Requests) - 1)
    BY <1>6, <1>12
  <2> HIDE DEF S, T, P, Q, A
  <2>3. Cardinality(T) + Cardinality(Q) <= limit'[u] + (Cardinality(Requests) - 1)
    BY <1>3, <1>5, <1>7, <2>1, <2>2
  <2>4. Cardinality(T) + 0 <= limit'[u] + (Cardinality(Requests) - 1)
    BY <1>3, <1>5, <1>7, <2>3
  <2> QED
    BY <2>3, <2>4 DEF T, Q
<1> QED
  BY <1>4, <1>9, <1>10, <1>11, <1>12

-----------------------------------------------------------------------------
(* The invariant                                                           *)

LEMMA AccountsInitInv == AccountsInit => AccountsIInv
<1> SUFFICES ASSUME AccountsInit PROVE AccountsIInv
  OBVIOUS
<1> USE AccountsAssumption
<1>1. AccountsTypeOK
  <2>1. NoScope \in Scope
    BY Zenon, ScopeTypes
  <2>2. PICK legacy \in SUBSET Instances :
           /\ inst = [i \in Instances |-> [st |-> IF i \in legacy THEN "present" ELSE "absent",
                                           owner |-> NoUser, key |-> NoKey]]
           /\ keyless = legacy
    BY DEF AccountsInit
  <2>3. inst \in [Instances -> Row] /\ keyless \in SUBSET Instances
    BY <2>2 DEF Row
  <2>4. user \in [Users -> UserRow]
    BY DEF AccountsInit, UserRow
  <2> QED
    <3>1. up \in BOOLEAN
      BY Zenon DEF AccountsInit
    <3>2. /\ cache \in [Instances -> Key \cup {NoKey}] /\ minted \in 0..MaxKeys
          /\ limit \in [Users -> Quotas \cup {0, Unlimited}]
          /\ self \in SUBSET Instances /\ torn \in SUBSET Instances /\ faults \in 0..MaxFaults
      BY DEF AccountsInit
    <3>3. /\ pc \in [Requests -> Step] /\ scope \in [Requests -> Scope]
          /\ target \in [Requests -> Instances \cup {NoInstance}]
          /\ owner \in [Requests -> Users \cup {NoUser}]
          /\ quota \in [Requests -> Quotas \cup {0}]
          /\ key \in [Requests -> Key \cup {NoKey}]
      BY <2>1 DEF AccountsInit, Step
    <3> QED
      BY <2>3, <2>4, <3>1, <3>2, <3>3, Zenon DEF AccountsTypeOK
<1>2. ScopeInv /\ LimitInv /\ SelfInv /\ TargetInv
  BY DEF AccountsInit, ScopeInv, LimitInv, SelfInv, TargetInv, Targeting, Creating, NoScope, Exists
<1>3. /\ SelfMade = {} /\ PastCeiling = {}
      /\ \A u \in Users : SelfMadeBy(u) = {} /\ PastQuota(u) = {}
  BY DEF AccountsInit, SelfMade, SelfMadeBy, PastCeiling, PastQuota
<1>4. Cardinality({}) = 0
  BY FS_EmptySet
<1>5. Cardinality(Requests) \in Nat \ {0}
  BY RequestCount
<1>6. CeilingInv
  BY <1>3, <1>4, <1>5 DEF CeilingInv, Concurrent
<1>7. QuotaInv
  <2>1. \A u \in Users : limit[u] = 0 /\ ~Exists(u)
    BY DEF AccountsInit, Exists
  <2> QED
    <3> SUFFICES ASSUME NEW u \in Users
                 PROVE  Cardinality(SelfMadeBy(u))
                           + (IF Exists(u) THEN Cardinality(PastQuota(u)) ELSE 0)
                        <= limit[u] + Concurrent
      BY DEF QuotaInv
    <3>1. Cardinality(SelfMadeBy(u)) = 0 /\ limit[u] = 0 /\ ~Exists(u)
      BY <1>3, <1>4, <2>1
    <3> QED
      BY <1>5, <3>1 DEF Concurrent
<1>8. WriterInv
  BY DEF AccountsInit, WriterInv, AloneInv, StoreInv, FreshInv, AbsentInv, CachedKeyIsValid, Writing
<1>9. KeylessHasCause
  BY DEF AccountsInit, KeylessHasCause, All, Present
<1> QED
  BY <1>1, <1>2, <1>6, <1>7, <1>8, <1>9 DEF AccountsIInv

LEMMA AccountsInvInductive == AccountsIInv /\ [AccountsNext]_accountsVars => AccountsIInv'
<1> SUFFICES ASSUME AccountsIInv, [AccountsNext]_accountsVars PROVE AccountsIInv'
  OBVIOUS
<1>1. /\ AccountsTypeOK /\ ScopeInv /\ LimitInv /\ SelfInv /\ CeilingInv /\ QuotaInv
      /\ TargetInv /\ WriterInv /\ KeylessHasCause
  BY DEF AccountsIInv
<1>2. AccountsTypeOK'
  BY <1>1, TypeStep
<1>3. ScopeInv' /\ LimitInv' /\ SelfInv' /\ TargetInv'
  BY <1>1, ScopeStep, LimitStep, SelfStep, TargetStep
<1>4. WriterInv' /\ KeylessHasCause'
  BY <1>1, WriterStep, KeylessStep
<1>5. CeilingInv'
  BY <1>1, <1>2, CeilingStep
<1>6. QuotaInv'
  BY <1>1, <1>2, <1>3, QuotaStep
<1> QED
  BY <1>2, <1>3, <1>4, <1>5, <1>6 DEF AccountsIInv

THEOREM AccountsInvariance == AccountsSpec => []AccountsIInv
<1>1. AccountsInit => AccountsIInv
  BY AccountsInitInv
<1>2. AccountsIInv /\ [AccountsNext]_accountsVars => AccountsIInv'
  BY AccountsInvInductive
<1> QED
  BY <1>1, <1>2, PTL DEF AccountsSpec

\* The state keeps its type: the rows of users and instances, the cache of the
\* keys and the locals of the handlers.
THEOREM AccountsTypeCorrect == AccountsSpec => []AccountsTypeOK
<1>1. AccountsIInv => AccountsTypeOK
  BY DEF AccountsIInv
<1> QED
  BY <1>1, AccountsInvariance, PTL

\* However many users, instances and requests there are, the count and the
\* insert of handleCreateInstance, which no transaction joins, let users exceed
\* a quota or WZAP_MAX_INSTANCES by at most the concurrent requests less one.
THEOREM OvershootIsBounded == AccountsSpec => []QuotaOvershootBounded
<1>1. AccountsIInv => QuotaOvershootBounded
  <2> SUFFICES ASSUME AccountsIInv PROVE QuotaOvershootBounded
    OBVIOUS
  <2>1. CeilingInv /\ QuotaInv
    BY DEF AccountsIInv
  <2>2. Cardinality(Requests) \in Nat \ {0} /\ MaxInstances \in Nat
    BY RequestCount, AccountsAssumption
  <2>3. /\ Cardinality(SelfMade) \in Nat /\ Cardinality(PastCeiling) \in Nat
        /\ \A u \in Users : Cardinality(SelfMadeBy(u)) \in Nat /\ Cardinality(PastQuota(u)) \in Nat
    <3>1. /\ SelfMade \subseteq Instances /\ PastCeiling \subseteq Requests
          /\ \A u \in Users : SelfMadeBy(u) \subseteq Instances /\ PastQuota(u) \subseteq Requests
      BY DEF SelfMade, SelfMadeBy, PastCeiling, PastQuota, All
    <3> QED
      BY <3>1, AccountsAssumption, FS_Subset, FS_CardinalityType
  <2>4. MaxInstances > 0 => Cardinality(SelfMade) <= MaxInstances + Concurrent
    BY <2>1, <2>2, <2>3 DEF CeilingInv, Concurrent
  <2>5. ASSUME NEW u \in Users, limit[u] # Unlimited
        PROVE  Cardinality(SelfMadeBy(u)) <= limit[u] + Concurrent
    <3>1. limit[u] \in Nat
      BY <2>5, LimitType DEF AccountsIInv
    <3>2. Cardinality(SelfMadeBy(u)) + (IF Exists(u) THEN Cardinality(PastQuota(u)) ELSE 0)
             <= limit[u] + Concurrent
      BY <2>1, <2>5 DEF QuotaInv
    <3> QED
      BY <2>2, <2>3, <3>1, <3>2 DEF Concurrent
  <2> QED
    BY <2>4, <2>5 DEF QuotaOvershootBounded
<1> QED
  BY <1>1, AccountsInvariance, PTL

\* webhook.Keys holds the key whose hash the row holds, whatever rotations,
\* revocations, deletions and crashes there are, unless two writes of the key
\* overlapped or the answer of one was lost.
THEOREM CacheIsValid == AccountsSpec => []CachedKeyIsValid
<1>1. AccountsIInv => CachedKeyIsValid
  BY DEF AccountsIInv, WriterInv
<1> QED
  BY <1>1, AccountsInvariance, PTL

\* Service.Create mints a key for every instance or takes the instance back: one
\* without a key was revoked, is older than keys, is being created, or was cut.
THEOREM KeylessIsExplained == AccountsSpec => []KeylessHasCause
<1>1. AccountsIInv => KeylessHasCause
  BY DEF AccountsIInv
<1> QED
  BY <1>1, AccountsInvariance, PTL
=============================================================================
