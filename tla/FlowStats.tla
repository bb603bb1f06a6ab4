----------------------------- MODULE FlowStats -----------------------------
(***************************************************************************)
(* Flow accounting: the flow-statistics reporter of a node                 *)
(* (dataplane/src/node/controller/flowstats.rs) and what the controller    *)
(* does with its reports (controller/src/main.rs).  Flows do not interact, *)
(* so one flow id is modelled: of an application behind the TUN interface, *)
(* which may use it again, or of a user-space flow the controller asked    *)
(* for, which may have been asked for twice.                               *)
(***************************************************************************)
EXTENDS Integers, Sequences, FiniteSets

CONSTANTS
    RouteIds,       \* routes the processors may assign to the flow
    Clients,        \* threads that run the user-space flow
    TTL,            \* TTL_MS of a finished entry
    MaxTime,        \* bound on the clock
    MaxReports      \* bound on the reports about an application flow

VARIABLES
    kind,           \* "app" or "user"
    now,            \* current_time_millis
    chan,           \* per reporting task: messages for the reporter
    entry,          \* the entry of the flow in FlowStore
    north,          \* messages to the controller
    rows,           \* app_flows: start_time -> row
    flow_row,       \* the row of the flow in the flows table
    reports         \* reports so far

vars == <<kind, now, chan, entry, north, rows, flow_row, reports>>

None == -1
Tasks == {"tun", "route"} \cup Clients
NoEntry == [stage |-> "none"]

Init ==
    /\ kind \in {"app", "user"}
    /\ now = 0
    /\ chan = [t \in Tasks |-> << >>]
    /\ entry = NoEntry
    /\ north = << >>
    /\ rows = << >>
    /\ flow_row = [started |-> FALSE, finished |-> FALSE]
    /\ reports = [t \in Tasks |-> 0]

-----------------------------------------------------------------------------
(* FlowStatsReporterHandle: an event is stamped by the task that saw it and *)
(* may reach the reporter after later events of other tasks.                *)

Report(t, msg, max) ==
    /\ reports[t] < max
    /\ reports' = [reports EXCEPT ![t] = @ + 1]
    /\ chan' = [chan EXCEPT ![t] = Append(@, msg)]
    /\ UNCHANGED <<kind, now, entry, north, rows, flow_row>>

ReportAppFlow ==
    kind = "app" /\ Report("tun", [type |-> "AppFlowStart", time |-> now], MaxReports)

ReportFinOrRst ==
    kind = "app" /\ Report("tun", [type |-> "FlowFinished", time |-> now, user |-> FALSE], MaxReports)

ReportRouteAssigned(r) ==
    Report("route", [type |-> "RouteAssigned", time |-> now, route |-> r], 2)

\* A client thread reports the start of the flow, and its end when it is done.
ReportUserFlow(t) ==
    /\ kind = "user"
    /\ Report(t, IF reports[t] = 0 THEN [type |-> "UserFlowStart", time |-> now]
                 ELSE [type |-> "FlowFinished", time |-> now, user |-> TRUE], 2)

Tick == now < MaxTime /\ now' = now + 1
        /\ UNCHANGED <<kind, chan, entry, north, rows, flow_row, reports>>

-----------------------------------------------------------------------------
(* FlowStore *)

HandleAppFlowStart(e, msg) ==
    IF e.stage = "app" /\ ~e.finished THEN e
    ELSE LET route == IF e.stage = "pending" THEN e.route ELSE None IN
         [stage |-> "app", start |-> msg.time, finished |-> FALSE, finish |-> None, route |-> route,
          send_start |-> TRUE, updates |-> {route} \ {None}, send_finish |-> FALSE]

\* A pending assignment keeps the latest route; one older than the start of
\* the flow belongs to an earlier use of the flow id.
HandleRouteAssigned(e, msg) ==
    CASE e.stage \in {"none", "pending"} -> [stage |-> "pending", route |-> msg.route]
      [] e.stage = "app" /\ msg.time >= e.start /\ e.route # msg.route ->
            [e EXCEPT !.route = msg.route, !.updates = @ \cup {msg.route}]
      [] OTHER -> e

UserFinished(start, finish, pending_start) ==
    [stage |-> "user", start |-> start, finish |-> finish, finished |-> TRUE,
     send_start |-> pending_start]

HandleFlowFinished(e, msg) ==
    CASE e.stage = "app" ->
            IF msg.time < e.start \/ e.finished THEN e
            ELSE [e EXCEPT !.finished = TRUE, !.finish = msg.time, !.send_finish = TRUE]
      [] e.stage = "user" ->
            IF msg.user THEN UserFinished(e.start, msg.time, e.send_start) ELSE e
      [] OTHER -> IF msg.user THEN UserFinished(msg.time, msg.time, FALSE) ELSE NoEntry

HandleUserFlowStart(e, msg) ==
    [stage |-> "user", start |-> msg.time, finish |-> None, finished |-> FALSE,
     send_start |-> TRUE]

HandleMessage(t) ==
    /\ chan[t] # << >>
    /\ LET msg == Head(chan[t]) IN
       entry' = CASE msg.type = "AppFlowStart" -> HandleAppFlowStart(entry, msg)
                  [] msg.type = "RouteAssigned" -> HandleRouteAssigned(entry, msg)
                  [] msg.type = "FlowFinished" -> HandleFlowFinished(entry, msg)
                  [] msg.type = "UserFlowStart" -> HandleUserFlowStart(entry, msg)
    /\ chan' = [chan EXCEPT ![t] = Tail(@)]
    /\ UNCHANGED <<kind, now, north, rows, flow_row, reports>>

StartMessage(e, stage, type) ==
    IF e.stage = stage /\ e.send_start THEN <<[type |-> type, start |-> e.start]>> ELSE << >>

RouteMessages(e, order) ==
    [i \in DOMAIN order |-> [type |-> "RouteAssigned", start |-> e.start, route |-> order[i]]]

FinishMessage(e) ==
    IF (e.stage = "app" /\ e.send_finish) \/ (e.stage = "user" /\ e.finished)
    THEN <<[type |-> "FlowFinished", start |-> e.start, finish |-> e.finish,
            user |-> e.stage = "user"]>>
    ELSE << >>

\* Slips: routes are sent before starts; starts of user flows after ends.
FlushRoutesFirst(e, order) ==
    RouteMessages(e, order) \o StartMessage(e, "app", "AppFlowStart")
        \o StartMessage(e, "user", "UserFlowStart") \o FinishMessage(e)

FlushUserStartsLast(e, order) ==
    StartMessage(e, "app", "AppFlowStart") \o RouteMessages(e, order) \o FinishMessage(e)
        \o StartMessage(e, "user", "UserFlowStart")

\* What is due is sent in this order.  The updates leave a hash set, in any
\* order; `order` is one.
FlushMessages(e, order) ==
    StartMessage(e, "app", "AppFlowStart") \o StartMessage(e, "user", "UserFlowStart")
        \o RouteMessages(e, order) \o FinishMessage(e)

Orders(e) ==
    IF e.stage # "app" THEN {<< >>}
    ELSE {s \in [1 .. Cardinality(e.updates) -> e.updates] :
            \A i, j \in DOMAIN s : s[i] = s[j] => i = j}

\* retain: a finished user flow goes at once, a finished application flow
\* after TTL, a pending assignment never.
AfterFlush(e) ==
    LET gone == \/ e.stage = "app" /\ e.finished /\ now - e.finish > TTL
                \/ e.stage = "user" /\ e.finished
    IN  CASE gone -> NoEntry
          [] ~gone /\ e.stage = "app" ->
                [e EXCEPT !.send_start = FALSE, !.updates = {}, !.send_finish = FALSE]
          [] ~gone /\ e.stage = "user" -> [e EXCEPT !.send_start = FALSE]
          [] e.stage \notin {"app", "user"} -> e

Flush ==
    /\ \E order \in Orders(entry) : north' = north \o FlushMessages(entry, order)
    /\ entry' = AfterFlush(entry)
    /\ UNCHANGED <<kind, now, chan, rows, flow_row, reports>>

-----------------------------------------------------------------------------
(* handle_connection: the reports of a node, in the order they were sent *)

Receive(type) ==
    /\ north # << >> /\ Head(north).type = type
    /\ north' = Tail(north)
    /\ UNCHANGED <<kind, now, chan, entry, reports>>

RecordAppFlowStart ==
    /\ Receive("AppFlowStart")
    /\ rows' = [start \in DOMAIN rows \cup {Head(north).start} |->
                   IF start \in DOMAIN rows THEN rows[start] ELSE [finish |-> None, route |-> None]]
    /\ UNCHANGED flow_row

RecordUserFlowStart ==
    /\ Receive("UserFlowStart")
    /\ flow_row' = [started |-> TRUE, finished |-> FALSE]
    /\ UNCHANGED rows

\* An update for a row that does not exist changes nothing.
RecordRouteAssigned ==
    /\ Receive("RouteAssigned")
    /\ rows' = IF Head(north).start \in DOMAIN rows
               THEN [rows EXCEPT ![Head(north).start].route = Head(north).route] ELSE rows
    /\ UNCHANGED flow_row

RecordFlowFinished ==
    /\ Receive("FlowFinished")
    /\ LET msg == Head(north) IN
       IF msg.user THEN flow_row' = [started |-> TRUE, finished |-> TRUE] /\ UNCHANGED rows
       ELSE /\ rows' = IF msg.start \in DOMAIN rows
                       THEN [rows EXCEPT ![msg.start].finish = msg.finish] ELSE rows
            /\ UNCHANGED flow_row

-----------------------------------------------------------------------------
Next ==
    \/ ReportAppFlow \/ ReportFinOrRst \/ Tick \/ Flush
    \/ \E r \in RouteIds : ReportRouteAssigned(r)
    \/ \E t \in Clients : ReportUserFlow(t)
    \/ \E t \in Tasks : HandleMessage(t)
    \/ RecordAppFlowStart \/ RecordUserFlowStart \/ RecordRouteAssigned \/ RecordFlowFinished

Spec == Init /\ [][Next]_vars

-----------------------------------------------------------------------------
(* Properties *)

\* Whatever the order in which the tasks' events reach the reporter, a route
\* assignment or an end the controller applies finds the row its start made,
\* also when the flow id is used again (flush, and the UPDATE statements of
\* handle_connection).
NoOrphanReports ==
    north # << >> /\ Head(north).type \in {"RouteAssigned", "FlowFinished"} /\ kind = "app" =>
        Head(north).start \in DOMAIN rows

\* A user-space flow whose threads are all done is recorded as finished, also
\* when the controller had it started twice (UserFlowEntry, FlowStore::flush,
\* UserFlowStart and FlowFinished in handle_connection).
UserFlowSettles ==
    LET done == /\ \A t \in Clients : reports[t] # 1
                /\ \E t \in Clients : reports[t] = 2
        drained == north = << >> /\ entry.stage # "user" /\ \A t \in Tasks : chan[t] = << >>
    IN  done /\ drained => flow_row.finished
=============================================================================
