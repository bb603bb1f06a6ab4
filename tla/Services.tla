------------------------------ MODULE Services ------------------------------
(***************************************************************************)
(* The components that work for themselves, side by side: the initial      *)
(* state picks the part that runs, and the variables of the others stay    *)
(* off.  The parts are the wire form of a Need report (NeedRanges, with    *)
(* SessionPlan for the layout both ends compute), the flow-statistics      *)
(* reporter, the connectors of max mode, the links over streams and over   *)
(* UDP and the flows a user starts.                                        *)
(***************************************************************************)
EXTENDS NeedRanges, SessionPlan, FiniteSets

CONSTANTS
    RouteIds, Clients, TTL, MaxTime, MaxReports,            \* FlowStats
    Path, MaxPackets, Capacity,                             \* Connector
    Sender, MaxRetry, MaxDials, MinSize, MaxSize, Traffic,  \* StreamLink
    Workers, MaxCopies,                                     \* UdpLink
    TcpFlows, LosslessFlows, Bytes, Rated, BasePort,        \* UserFlows
    BufferSize, MaxRuns, MaxTotal

VARIABLES
    part,
    kind, now, chan, entry, north, rows, flow_row, reports,
    opener, backpressure, listening, todo, msgs, pkts, connector, max_server, streams,
    splices, submitted, received,
    protocol, stream_client, stream_server, backlog, known, next, pending, stream, want,
    sent, got, active_probes, results,
    udp_client, datagrams, copies, worker, peer, queues, readers, scheduler, delivered, lost,
    next_client_port, run, senders, flow_server, flow_chan, rcvd, segments, sessions, receivers

FS == INSTANCE FlowStats
CN == INSTANCE Connector WITH kind <- opener, server <- max_server, sent <- submitted
SL == INSTANCE StreamLink WITH client <- stream_client, server <- stream_server
UL == INSTANCE UdpLink WITH client <- udp_client, net <- datagrams
UF == INSTANCE UserFlows WITH server <- flow_server, chan <- flow_chan, net <- segments

statsVars == <<kind, now, chan, entry, north, rows, flow_row, reports>>
maxVars == <<opener, backpressure, listening, todo, msgs, pkts, connector, max_server, streams, splices,
             submitted, received>>
streamVars == <<protocol, stream_client, stream_server, backlog, known, next, pending, stream, want, sent,
                got, active_probes, results>>
udpVars == <<udp_client, datagrams, copies, worker, peer, queues, readers, scheduler, delivered, lost>>
flowVars == <<next_client_port, run, senders, flow_server, flow_chan, rcvd, segments, sessions, receivers>>
vars == <<part, rangeVars, statsVars, maxVars, streamVars, udpVars, flowVars>>

-----------------------------------------------------------------------------
(* What the parts are run with *)

\* The names of a flow's other reporting tasks are not those of its clients.
ClientNames == "tun" \notin Clients /\ "route" \notin Clients

\* A flow has an id of its own and is of one kind; it has a length, or none.
UfAssumptions ==
    /\ TcpFlows \cup LosslessFlows \subseteq Nat /\ TcpFlows \cap LosslessFlows = {}
    /\ Bytes \in [TcpFlows \cup LosslessFlows -> Nat]
    /\ BasePort \in Nat /\ BufferSize \in Nat /\ MaxRuns \in Nat /\ MaxTotal \in Nat

\* The frames have a valid size, and a probe train ends with its last packet.
PacketType == [size : MinSize .. MaxSize, probe : Nat, last : BOOLEAN]
TrafficOK ==
    /\ MinSize \in Nat \ {0} /\ MaxSize \in Nat
    /\ Traffic \in Seq(PacketType)
    /\ \A i, j \in DOMAIN Traffic :
          i < j /\ Traffic[i].last /\ Traffic[i].probe # SL!NoProbe => Traffic[j].probe # Traffic[i].probe

ASSUME ServicesAssumption ==
    /\ ClientNames /\ UfAssumptions /\ TrafficOK
    /\ IsFiniteSet(Workers) /\ MaxPackets \in Nat

-----------------------------------------------------------------------------
Off == "off"

NeedOff ==
    /\ stage = Off /\ stored = Off /\ next_missing = Off /\ ranges = Off /\ body = Off
    /\ asked = Off
StatsOff ==
    /\ kind = Off /\ now = Off /\ chan = Off /\ entry = Off /\ north = Off /\ rows = Off
    /\ flow_row = Off /\ reports = Off
MaxOff ==
    /\ opener = Off /\ backpressure = Off /\ listening = Off /\ todo = Off /\ msgs = Off
    /\ pkts = Off /\ connector = Off /\ max_server = Off /\ streams = Off /\ splices = Off
    /\ submitted = Off /\ received = Off
StreamOff ==
    /\ protocol = Off /\ stream_client = Off /\ stream_server = Off /\ backlog = Off
    /\ known = Off /\ next = Off /\ pending = Off /\ stream = Off /\ want = Off /\ sent = Off
    /\ got = Off /\ active_probes = Off /\ results = Off
UdpOff ==
    /\ udp_client = Off /\ datagrams = Off /\ copies = Off /\ worker = Off /\ peer = Off
    /\ queues = Off /\ readers = Off /\ scheduler = Off /\ delivered = Off /\ lost = Off
FlowsOff ==
    /\ next_client_port = Off /\ run = Off /\ senders = Off /\ flow_server = Off
    /\ flow_chan = Off /\ rcvd = Off /\ segments = Off /\ sessions = Off /\ receivers = Off

Init ==
    /\ part \in {"need", "stats", "max", "stream", "udp", "flows"}
    /\ IF part = "need" THEN RangesInit ELSE NeedOff
    /\ IF part = "stats" THEN FS!Init ELSE StatsOff
    /\ IF part = "max" THEN CN!Init ELSE MaxOff
    /\ IF part = "stream" THEN SL!Init ELSE StreamOff
    /\ IF part = "udp" THEN UL!Init ELSE UdpOff
    /\ IF part = "flows" THEN UF!Init ELSE FlowsOff

Next ==
    /\ UNCHANGED part
    /\ \/ /\ part = "need" /\ RangesNext
          /\ UNCHANGED <<statsVars, maxVars, streamVars, udpVars, flowVars>>
       \/ /\ part = "stats" /\ FS!Next
          /\ UNCHANGED <<rangeVars, maxVars, streamVars, udpVars, flowVars>>
       \/ /\ part = "max" /\ CN!Next
          /\ UNCHANGED <<rangeVars, statsVars, streamVars, udpVars, flowVars>>
       \/ /\ part = "stream" /\ SL!Next
          /\ UNCHANGED <<rangeVars, statsVars, maxVars, udpVars, flowVars>>
       \/ /\ part = "udp" /\ UL!Next
          /\ UNCHANGED <<rangeVars, statsVars, maxVars, streamVars, flowVars>>
       \/ /\ part = "flows" /\ UF!Next
          /\ UNCHANGED <<rangeVars, statsVars, maxVars, streamVars, udpVars>>

Spec == Init /\ [][Next]_vars

-----------------------------------------------------------------------------
(* Properties: those of the parts, each while its part runs *)

\* A route assignment or an end the controller applies finds the row its start
\* made, whatever the order in which the tasks' events reach the reporter and
\* also when a flow id is used again (FlowStore::flush, handle_connection).
NoOrphanReports == part = "stats" => FS!NoOrphanReports

\* A user-space flow whose threads are all done is recorded as finished, also
\* when it was started twice (FlowStore::flush, UserFlowStart and FlowFinished).
UserFlowSettles == part = "stats" => FS!UserFlowSettles

\* What comes out at the end of a max-mode flow is its data and nothing else, in
\* the order it was sent, and without a hole under back-pressure (connector.rs).
DeliveredAsSent == part = "max" => CN!DeliveredAsSent

\* The answers of a max-mode flow go back on the connections its requests came
\* on, however late the control messages (handle_inbound_request).
OneConnectionPerHop == part = "max" => CN!OneConnectionPerHop

\* The reader of a stream link hands over exactly the packets that were written,
\* and a probe result counts the packets of its own train, also when the end of
\* an earlier train was dropped (read_packet, write_packets, handle_probe).
ReaderSeesWhatWasSent ==
    part = "stream" => SL!ReaderSeesWhatWasSent

\* A packet that finds its UDP peer reaches the processors once per copy, also
\* while duplicated handshakes replace that peer (start_listening).
KnownPeerLosesNothing == part = "udp" => UL!KnownPeerLosesNothing

\* A user-space flow that has reported its finish holds nothing any more, and a
\* client that has accepted its bytes is about to (UserSpaceClient::run,
\* run_sender_flow).
FinishReleasesRun == part = "flows" => UF!FinishReleasesRun
=============================================================================
