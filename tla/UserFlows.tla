----------------------------- MODULE UserFlows -----------------------------
(***************************************************************************)
(* The user-space flows of the controller: TCP flows, one client thread    *)
(* (dataplane/src/node/flow/client.rs) and one server thread               *)
(* (flow/server.rs) each around a SmolTcp socket, and lossless flows       *)
(* (controller/lossless_unicast.rs) around a session of the runtime.       *)
(* Every run starts from node Src; a flow may be handed out twice.         *)
(* The TCP protocol itself is external: segments are lost and reordered,   *)
(* and sent again until they are acknowledged.                             *)
(***************************************************************************)
EXTENDS Integers, Sequences, FiniteSets

CONSTANTS
    TcpFlows, LosslessFlows,    \* controller ids of the flows
    Bytes,                      \* flow -> its FlowLen::Bytes, or 0 for FlowLen::Duration
    Rated,                      \* lossless flows with a flow_rate
    BasePort,                   \* user_space_client_port
    BufferSize,                 \* SOCKET_BUFFER_SIZE
    MaxRuns,                    \* bound on the flows handed to the node
    MaxTotal                    \* bound on the bytes of a duration-based flow

VARIABLES
    next_client_port,
    run,            \* per flow handed out: the task or thread that runs it
    senders,        \* client threads in the processors' user_space_senders
    server,         \* per run: its server thread
    chan,           \* per run: packets in the server's channel
    rcvd,           \* per run: bytes the server has received
    net,            \* segments in flight
    sessions,       \* live sender sessions of the runtime of Src
    receivers       \* live receiver sessions of the runtime of the destination

vars == <<next_client_port, run, senders, server, chan, rcvd, net, sessions, receivers>>
tcpVars == <<senders, server, chan, rcvd, net>>

RunIds == 1 .. MaxRuns
Segment(i, kind, n) == [run |-> i, kind |-> kind, n |-> n]

Init ==
    /\ next_client_port = BasePort
    /\ run = << >>
    /\ senders = {}
    /\ server = [i \in RunIds |-> "none"]
    /\ chan = [i \in RunIds |-> << >>]
    /\ rcvd = [i \in RunIds |-> 0]
    /\ net = {}
    /\ sessions = {} /\ receivers = {}

NewRun(f, port, state) ==
    [flow |-> f, port |-> port, state |-> state, started |-> FALSE, total |-> 0, acked |-> 0,
     reports |-> << >>]

Report(r, what) == [r EXCEPT !.reports = Append(@, what)]

-----------------------------------------------------------------------------
(* The TCP client *)

\* UserSpaceClientHandle::add_flows: a fresh port, the channel in the processors,
\* the thread; socket.connect leaves the socket in SYN-SENT.
AddFlows(f) ==
    /\ Len(run) < MaxRuns
    /\ next_client_port' = next_client_port + 1
    /\ run' = Append(run, NewRun(f, next_client_port', "syn_sent"))
    /\ senders' = senders \cup {Len(run) + 1}
    /\ UNCHANGED <<server, chan, rcvd, net, sessions, receivers>>

\* What the socket makes of a segment
Ingress(r, seg) ==
    CASE seg.kind = "syn_ack" /\ r.state = "syn_sent" -> [r EXCEPT !.state = "established"]
      [] seg.kind = "ack" /\ r.state = "established" /\ seg.n > r.acked -> [r EXCEPT !.acked = seg.n]
      [] OTHER -> r

\* What the socket sends: its SYN and the bytes not yet acknowledged again and
\* again; a socket that was aborted sends one RST and none of its bytes.
Egress(i, r) ==
    CASE r.state = "syn_sent" -> {Segment(i, "syn", 0)}
      [] r.state = "established" -> {Segment(i, "data", n) : n \in r.acked + 1 .. r.total}
      [] r.state = "aborted" -> {Segment(i, "rst", 0)}

IsActive(r) == r.state \in {"syn_sent", "established"}
CanSend(r) == r.state = "established" /\ r.total - r.acked < BufferSize

Least(a, b) == IF a < b THEN a ELSE b

\* Slip: the flow ends one byte beyond its length.
ExceededBeyond(f, total) == IF Bytes[f] > 0 THEN {total > Bytes[f]} ELSE {total >= MaxTotal, TRUE}

\* FlowLen::exceeded; the time of a duration-based flow is up at any point.
Exceeded(f, total) == IF Bytes[f] > 0 THEN {total >= Bytes[f]} ELSE {total >= MaxTotal, TRUE}

\* UserSpaceClient::send: the bytes go to the buffer; when they complete the
\* flow, the socket is aborted.
Send(r) ==
    IF ~CanSend(r) THEN {r}
    ELSE LET s == IF r.started THEN r ELSE Report([r EXCEPT !.started = TRUE], "start")
             room == BufferSize - (r.total - r.acked)
             remaining == IF Bytes[r.flow] > 0 THEN Bytes[r.flow] - r.total ELSE MaxTotal - r.total
             sent == Least(room, remaining) IN
         IF sent = 0 THEN {s}
         ELSE {[s EXCEPT !.total = @ + sent, !.state = IF over THEN "aborted" ELSE @] :
                   over \in Exceeded(r.flow, r.total + sent)}

\* One turn of the loop of UserSpaceClient::run, which polled the segments `in`
ClientTurn(i, in) ==
    LET r == IF in = {} THEN run[i] ELSE Ingress(run[i], CHOOSE s \in in : TRUE) IN
    /\ i \in senders
    /\ net' = (net \ in) \cup Egress(i, r)
    /\ IF IsActive(r)
       THEN /\ \E s \in Send(r) : run' = [run EXCEPT ![i] = s]
            /\ UNCHANGED senders
       ELSE /\ senders' = senders \ {i}
            /\ run' = [run EXCEPT ![i] = Report([r EXCEPT !.state = "ended"], "finish")]
    /\ UNCHANGED <<next_client_port, server, chan, rcvd, sessions, receivers>>

ToClient(i) == {s \in net : s.run = i /\ s.kind \in {"syn_ack", "ack"}}
ToServer(i) == {s \in net : s.run = i /\ s.kind \in {"syn", "data", "rst"}}

\* VirtualDevice::receive takes a packet off the channel or finds none.
ClientPoll(i) == ClientTurn(i, {}) \/ \E s \in ToClient(i) : ClientTurn(i, {s})

-----------------------------------------------------------------------------
(* The TCP server *)

\* A lane with a packet for an unknown flow: add_server starts the thread, and
\* only then does the lane put the packet into the channel.
AddServer(i) ==
    /\ ToServer(i) # {} /\ server[i] = "none"
    /\ server' = [server EXCEPT ![i] = "spawned"]
    /\ UNCHANGED <<next_client_port, run, senders, chan, rcvd, net, sessions, receivers>>

\* try_send: refused when the thread has ended or the channel is full
Arrive(i, seg) ==
    /\ seg \in ToServer(i) /\ server[i] # "none"
    /\ net' = net \ {seg}
    /\ chan' = [chan EXCEPT ![i] =
                    IF server[i] = "ended" \/ @ # << >> THEN @ ELSE Append(@, seg)]
    /\ UNCHANGED <<next_client_port, run, senders, server, rcvd, sessions, receivers>>

\* One turn of UserSpaceServer::run, which listens at first.  A socket that is
\* still in LISTEN after the poll is not active, and the thread ends.
ServerPoll(i) ==
    LET in == chan[i]
        seg == IF in = << >> THEN Segment(i, "none", 0) ELSE Head(in)
        fresh == seg.kind = "data" /\ seg.n = rcvd[i] + 1 IN
    /\ server[i] \in {"spawned", "active"}
    /\ chan' = [chan EXCEPT ![i] = << >>]
    /\ CASE server[i] = "spawned" ->
              /\ server' = [server EXCEPT ![i] = IF seg.kind = "syn" THEN "active" ELSE "ended"]
              /\ net' = IF seg.kind = "syn" THEN net \cup {Segment(i, "syn_ack", 0)} ELSE net
              /\ UNCHANGED rcvd
         [] server[i] = "active" ->
              /\ server' = [server EXCEPT ![i] = IF seg.kind = "rst" THEN "ended" ELSE @]
              /\ rcvd' = [rcvd EXCEPT ![i] = IF fresh THEN @ + 1 ELSE @]
              /\ net' = CASE seg.kind = "syn" -> net \cup {Segment(i, "syn_ack", 0)}
                          [] seg.kind = "data" -> net \cup {Segment(i, "ack", rcvd'[i])}
                          [] OTHER -> net
    /\ UNCHANGED <<next_client_port, run, senders, sessions, receivers>>

\* A segment is dropped on the way, or at the client whose thread has ended.
Drop(seg) ==
    /\ seg \in net
    /\ net' = net \ {seg}
    /\ UNCHANGED <<next_client_port, run, senders, server, chan, rcvd, sessions, receivers>>

-----------------------------------------------------------------------------
(* Lossless unicast flows *)

\* flow_bytes: a duration needs a rate to be turned into bytes.
FlowBytes(f) == IF Bytes[f] > 0 \/ f \in Rated THEN {f} ELSE {}

\* session_id_for_flow and client_port_for_flow: both ends derive the same
\* session and port from the flow.
SessionIdForFlow(f) == f
ClientPortForFlow(f) == BasePort + f

RunSenderFlow(f) ==
    /\ Len(run) < MaxRuns /\ FlowBytes(f) # {}
    /\ run' = Append(run, NewRun(f, ClientPortForFlow(f), "spawned"))
    /\ UNCHANGED <<next_client_port, tcpVars, sessions, receivers>>

\* start_sender refuses a session that is active: the flow is reported finished
\* although the session of the first hand-out is still running.
StartSender(i) ==
    LET id == SessionIdForFlow(run[i].flow) IN
    /\ run[i].state = "spawned"
    /\ IF id \in sessions
       THEN /\ run' = [run EXCEPT ![i] = Report([@ EXCEPT !.state = "refused"], "finish")]
            /\ UNCHANGED sessions
       ELSE /\ sessions' = sessions \cup {id}
            /\ run' = [run EXCEPT ![i] = Report([@ EXCEPT !.state = "waiting"], "start")]
    /\ UNCHANGED <<next_client_port, tcpVars, receivers>>

\* session.wait returns: Completed together with the receiver, or Aborted when
\* no report came in time.  Either is reported as the finish.
SessionWait(i) ==
    LET id == SessionIdForFlow(run[i].flow) IN
    /\ run[i].state = "waiting"
    /\ sessions' = sessions \ {id}
    /\ run' = [run EXCEPT ![i] = Report([@ EXCEPT !.state = "ended"], "finish")]
    /\ \/ id \in receivers /\ receivers' = receivers \ {id}
       \/ UNCHANGED receivers
    /\ UNCHANGED <<next_client_port, tcpVars>>

RunReceiverFlow(f) ==
    /\ FlowBytes(f) # {}
    /\ receivers' = receivers \cup {SessionIdForFlow(f)}
    /\ UNCHANGED <<next_client_port, run, tcpVars, sessions>>

-----------------------------------------------------------------------------
Next ==
    \/ \E f \in TcpFlows : AddFlows(f)
    \/ \E f \in LosslessFlows : RunSenderFlow(f) \/ RunReceiverFlow(f)
    \/ \E seg \in net : Arrive(seg.run, seg) \/ Drop(seg)
    \/ \E i \in DOMAIN run :
        \/ ClientPoll(i) \/ AddServer(i) \/ ServerPoll(i)
        \/ StartSender(i) \/ SessionWait(i)

Spec == Init /\ [][Next]_vars

-----------------------------------------------------------------------------
(* Properties *)

Finished(r) == "finish" \in {r.reports[k] : k \in DOMAIN r.reports}

\* A run tells the controller of its start and its finish at most once and in
\* this order; when it has reported the finish it holds nothing any more, neither
\* a channel in the processors nor a session, unless the session belongs to an
\* earlier hand-out of the same flow; and a TCP client that has accepted its
\* flow's bytes, never more, does not go on polling with nothing left to send
\* (UserSpaceClient::run and send, run_sender_flow).
FinishReleasesRun ==
    \A i \in DOMAIN run : LET r == run[i] IN
        /\ r.reports \in {<< >>, <<"start">>, <<"finish">>, <<"start", "finish">>}
        /\ r.flow \in TcpFlows =>
            /\ Finished(r) <=> i \notin senders
            /\ rcvd[i] <= r.total
            /\ Bytes[r.flow] > 0 => \/ r.total < Bytes[r.flow]
                                    \/ r.total = Bytes[r.flow] /\ ~IsActive(r)
        /\ r.flow \in LosslessFlows /\ Finished(r) /\ SessionIdForFlow(r.flow) \in sessions =>
            \E j \in DOMAIN run \ {i} : run[j].flow = r.flow /\ run[j].state = "waiting"
=============================================================================
