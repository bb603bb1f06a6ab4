----------------------------- MODULE Connector -----------------------------
(***************************************************************************)
(* Max mode: the connector of every node (dataplane/src/node/connector.rs) *)
(* and its TCP max server and client (network/tcp_max.rs).  A flow gets a  *)
(* chain of TCP streams along its route, opened by its first packet or by  *)
(* a SOCKS5 client; relays splice the streams, the end of the route reads  *)
(* the last one or, for a SOCKS5 client, connects to the external server.  *)
(* A connector works on one packet or message at a time and connects       *)
(* within its loop.  Streams are reliable and in order, in both directions.*)
(***************************************************************************)
EXTENDS Integers, Sequences, Functions, SequencesExt

CONSTANTS
    Path,           \* the route: node ids from the source to the destination
    MaxPackets,     \* bound on the data items sent in each direction
    Capacity        \* channel_capacity of the connector's two channels

VARIABLES
    kind,           \* who opens the flow: "tun" or "socks"
    backpressure,   \* channel_backpressure
    listening,      \* nodes whose TCP max server is bound
    todo,           \* per node: control messages still to come (addresses of others play no part)
    msgs,           \* per node: message channel of the connector
    pkts,           \* per node: packet channel of the connector
    connector,      \* per node: its state
    server,         \* per node: backlog and the stream being served
    streams,        \* all TCP streams, in the order they were opened
    splices,        \* per node: pairs of streams it splices
    sent,           \* per flow: data items submitted so far
    received        \* per flow: data items that came out at its end

vars == <<kind, backpressure, listening, todo, msgs, pkts, connector, server, streams, splices,
          sent, received>>

Nodes == Range(Path)
External == 0                          \* the external server; no node has this id
ClientId == -1                         \* the SOCKS5 client
Source == Path[1]
Dest == Path[Len(Path)]
Reverse1(f) == IF f = "fwd" THEN "rev" ELSE "fwd"
Data(f, i) == [type |-> "data", flow |-> f, n |-> i]
NoJob == [type |-> "none"]

\* get_next_hop_by_flow: the route of a SOCKS5 flow ends at an id that is no
\* node of the network.
NextHop(n, f) ==
    LET i == CHOOSE j \in DOMAIN Path : Path[j] = n IN
    CASE f = "fwd" /\ i < Len(Path) -> Path[i + 1]
      [] f = "rev" /\ i > 1 -> Path[i - 1]
      [] OTHER -> IF kind = "socks" THEN External ELSE n

\* connect_tcp_max_client is called before the servers listen and before any
\* control message is handled.
Init ==
    /\ kind \in {"tun", "socks"}
    /\ backpressure \in BOOLEAN
    /\ listening = {}
    /\ todo = [n \in Nodes |-> {[type |-> "routes"]} \cup
                                {[type |-> "address", node |-> m] : m \in {NextHop(n, "fwd"), NextHop(n, "rev")}
                                                                          \ {n, External}}]
    /\ msgs = [n \in Nodes |-> <<[type |-> "client"]>>]
    /\ pkts = [n \in Nodes |-> << >>]
    /\ connector = [n \in Nodes |-> [client |-> FALSE, table |-> FALSE, addresses |-> {},
                                     schedulers |-> << >>, job |-> NoJob, draining |-> FALSE]]
    /\ server = [n \in Nodes |-> [backlog |-> << >>, stream |-> 0, step |-> "first"]]
    /\ streams = << >>
    /\ splices = [n \in Nodes |-> {}]
    /\ sent = [fwd |-> 0, rev |-> 0]
    /\ received = [fwd |-> << >>, rev |-> << >>]

-----------------------------------------------------------------------------
(* Streams and routes *)

\* What n writes into a stream goes up if n opened it; nothing reaches the
\* other end of a closed one.
Written(ss, s, n, item) ==
    IF ss[s].closed THEN ss
    ELSE IF ss[s].from = n THEN [ss EXCEPT ![s].up = Append(@, item)]
    ELSE [ss EXCEPT ![s].down = Append(@, item)]

Readable(s, n) == IF streams[s].from = n THEN streams[s].down ELSE streams[s].up

Consumed(ss, s, n) ==
    IF ss[s].from = n THEN [ss EXCEPT ![s].down = Tail(@)] ELSE [ss EXCEPT ![s].up = Tail(@)]

\* Slip: the header goes to external servers, too.
HeaderAlways(to, f) == <<[type |-> "max", flow |-> f]>>

\* connect writes 0x06 and the flow id, connect_without_header nothing.
Header(to, f) == IF to = External THEN << >> ELSE <<[type |-> "max", flow |-> f]>>

Stream(from, to, items) == [from |-> from, to |-> to, up |-> items, down |-> << >>, closed |-> FALSE]

-----------------------------------------------------------------------------
(* Start-up, control messages and packets *)

StartListening(n) ==
    /\ n \notin listening
    /\ listening' = listening \cup {n}
    /\ UNCHANGED <<kind, backpressure, todo, msgs, pkts, connector, server, streams, splices, sent,
                   received>>

\* InstallRoutes and AddNodeAddress of the controller
Control(n, m) ==
    /\ m \in todo[n] /\ Len(msgs[n]) < Capacity
    /\ todo' = [todo EXCEPT ![n] = @ \ {m}]
    /\ msgs' = [msgs EXCEPT ![n] = Append(@, m)]
    /\ UNCHANGED <<kind, backpressure, listening, pkts, connector, server, streams, splices, sent,
                   received>>

\* send_to_connector: waits for room under back-pressure, drops without it.
SendToConnector(n, f) ==
    /\ sent' = [sent EXCEPT ![f] = @ + 1]
    /\ IF Len(pkts[n]) < Capacity THEN pkts' = [pkts EXCEPT ![n] = Append(@, Data(f, sent[f] + 1))]
       ELSE ~backpressure /\ UNCHANGED pkts
    /\ UNCHANGED <<kind, backpressure, listening, todo, msgs, connector, server, streams, splices,
                   received>>

SubmitPacket == kind = "tun" /\ sent.fwd < MaxPackets /\ SendToConnector(Source, "fwd")

\* The destination answers what it received.
Respond == kind = "tun" /\ sent.rev < Len(received.fwd) /\ SendToConnector(Dest, "rev")

-----------------------------------------------------------------------------
(* Connector::run *)

ProcessPacket(n) ==
    /\ connector[n].job = NoJob /\ pkts[n] # << >>
    /\ pkts' = [pkts EXCEPT ![n] = Tail(@)]
    /\ LET c == connector[n]
           p == Head(pkts[n])
           hop == NextHop(n, p.flow) IN
       IF p.flow \in DOMAIN c.schedulers
       THEN /\ streams' = Written(streams, c.schedulers[p.flow], n, p)
            /\ connector' = [connector EXCEPT ![n].draining = TRUE]
       ELSE IF ~c.table \/ hop = n \/ hop \notin c.addresses \/ ~c.client
       THEN connector' = [connector EXCEPT ![n].draining = TRUE] /\ UNCHANGED streams
       ELSE /\ connector' = [connector EXCEPT ![n] = [@ EXCEPT !.draining = TRUE,
                                 !.job = [type |-> "packet", packet |-> p, flow |-> p.flow, to |-> hop]]]
            /\ UNCHANGED streams
    /\ UNCHANGED <<kind, backpressure, listening, todo, msgs, server, splices, sent, received>>

\* A batch of packets is finished before a message is looked at.
TakeMessage(n, type) ==
    /\ connector[n].job = NoJob /\ (connector[n].draining => pkts[n] = << >>)
    /\ msgs[n] # << >> /\ Head(msgs[n]).type = type
    /\ msgs' = [msgs EXCEPT ![n] = Tail(@)]
    /\ UNCHANGED <<kind, backpressure, listening, todo, pkts, server, splices, sent, received>>

HandleMessage(n) ==
    LET d == [connector[n] EXCEPT !.draining = FALSE] IN
    \/ /\ TakeMessage(n, "client")
       /\ connector' = [connector EXCEPT ![n] = [d EXCEPT !.client = TRUE]]
       /\ UNCHANGED streams
    \/ /\ TakeMessage(n, "routes")
       /\ connector' = [connector EXCEPT ![n] = [d EXCEPT !.table = TRUE]]
       /\ UNCHANGED streams
    \/ /\ TakeMessage(n, "address")
       /\ connector' = [connector EXCEPT ![n] =
                            [d EXCEPT !.addresses = @ \cup {Head(msgs[n]).node}]]
       /\ UNCHANGED streams

\* The flow id under which a destination stores the scheduler of an inbound stream
ResponseFlow(f) == Reverse1(f)

\* Without a route the stream is dropped.  The destination reads it and answers
\* on it; a relay connects on, and takes a hop without an address for an
\* external server.
HandleInboundRequest(n) ==
    /\ TakeMessage(n, "inbound")
    /\ LET m == Head(msgs[n])
           hop == NextHop(n, m.flow)
           d == [connector[n] EXCEPT !.draining = FALSE]
           to == IF hop \in d.addresses THEN hop ELSE External IN
       IF ~d.table
       THEN /\ streams' = [streams EXCEPT ![m.stream].closed = TRUE]
            /\ connector' = [connector EXCEPT ![n] = d]
       ELSE /\ connector' = [connector EXCEPT ![n] =
                  IF ~d.client THEN [d EXCEPT !.job = [type |-> "panic"]]
                  ELSE IF hop = n
                  THEN [d EXCEPT !.schedulers = (ResponseFlow(m.flow) :> m.stream) @@ @]
                  ELSE [d EXCEPT !.job = [type |-> "relay", in |-> m.stream, flow |-> m.flow, to |-> to]]]
            /\ UNCHANGED streams

\* Slip: the scheduler is stored for the answers to the flow.
RememberedReversed(c, j, s) ==
    IF j.type = "packet" THEN (Reverse1(j.flow) :> s) @@ c.schedulers ELSE c.schedulers

\* A connection for a packet gets a scheduler under the packet's flow id.
Remembered(c, j, s) == IF j.type = "packet" THEN (j.flow :> s) @@ c.schedulers ELSE c.schedulers

\* TcpMaxClient::connect and connect_without_header retry until somebody
\* listens; an external server exists for SOCKS5 flows only.
Connect(n) ==
    LET c == connector[n]
        j == c.job
        s == Len(streams) + 1 IN
    /\ j.type \in {"packet", "relay"}
    /\ j.to \in listening \/ (j.to = External /\ kind = "socks")
    /\ streams' = Append(streams, Stream(n, j.to, Header(j.to, j.flow)
                                      \o (IF j.type = "packet" THEN <<j.packet>> ELSE << >>)))
    /\ connector' = [connector EXCEPT ![n] =
            [@ EXCEPT !.job = NoJob, !.schedulers = Remembered(c, j, s)]]
    /\ splices' = IF j.type = "relay" THEN [splices EXCEPT ![n] = @ \cup {<<j.in, s>>}] ELSE splices
    /\ server' = IF j.to = External THEN server
                 ELSE [server EXCEPT ![j.to].backlog = Append(@, s)]
    /\ UNCHANGED <<kind, backpressure, listening, todo, msgs, pkts, sent, received>>

-----------------------------------------------------------------------------
(* TcpMaxServer: one connection at a time *)

serverFrame == <<kind, backpressure, listening, todo, pkts, connector, splices, sent, received>>

Accept(n) ==
    /\ server[n].stream = 0 /\ server[n].backlog # << >>
    /\ server' = [server EXCEPT ![n] = [backlog |-> Tail(@.backlog), stream |-> Head(@.backlog),
                                        step |-> "first"]]
    /\ UNCHANGED <<serverFrame, msgs, streams>>

Serving(n, step, type) ==
    LET s == server[n].stream IN
    /\ s # 0 /\ server[n].step = step
    /\ streams[s].up # << >> /\ Head(streams[s].up).type = type
    /\ UNCHANGED serverFrame

\* inbound_max_request: the stream is the connector's from now on.
HandOver(n, f) ==
    /\ Len(msgs[n]) < Capacity
    /\ msgs' = [msgs EXCEPT ![n] = Append(@, [type |-> "inbound", flow |-> f, stream |-> server[n].stream])]
    /\ server' = [server EXCEPT ![n].stream = 0]

HandleTcpMaxRequest(n) ==
    LET s == server[n].stream IN
    /\ Serving(n, "first", "max")
    /\ streams' = Consumed(streams, s, n)
    /\ HandOver(n, Head(streams[s].up).flow)

\* Methods, then the request; anything not supported ends the connection.
HandleSocks5Methods(n) ==
    LET s == server[n].stream IN
    /\ Serving(n, "first", "methods")
    /\ IF Head(streams[s].up).supported
       THEN /\ streams' = Written(Consumed(streams, s, n), s, n, [type |-> "method"])
            /\ server' = [server EXCEPT ![n].step = "request"]
       ELSE /\ streams' = [streams EXCEPT ![s].closed = TRUE]
            /\ server' = [server EXCEPT ![n].stream = 0]
    /\ UNCHANGED msgs

HandleSocks5Request(n) ==
    LET s == server[n].stream IN
    /\ Serving(n, "request", "request")
    /\ IF Head(streams[s].up).supported
       THEN /\ streams' = Written(Consumed(streams, s, n), s, n, [type |-> "granted"])
            /\ HandOver(n, "fwd")
       ELSE /\ streams' = [streams EXCEPT ![s].closed = TRUE]
            /\ server' = [server EXCEPT ![n].stream = 0]
            /\ UNCHANGED msgs

-----------------------------------------------------------------------------
(* The SOCKS5 client, the external server, and the readers of the streams *)

ClientStream == {s \in DOMAIN streams : streams[s].from = ClientId}

\* The client sends the methods, the request once a method is agreed, and data
\* once the request is granted.
Client ==
    /\ kind = "socks"
    /\ \/ /\ ClientStream = {} /\ Source \in listening
          /\ \E ok \in BOOLEAN :
                streams' = Append(streams, Stream(ClientId, Source,
                                                  <<[type |-> "methods", supported |-> ok]>>))
          /\ server' = [server EXCEPT ![Source].backlog = Append(@, Len(streams) + 1)]
          /\ UNCHANGED sent
       \/ \E s \in ClientStream, ok \in BOOLEAN :
          /\ streams[s].down = <<[type |-> "method"]>>
          /\ streams' = Written([streams EXCEPT ![s].down = << >>], s, ClientId,
                                [type |-> "request", supported |-> ok])
          /\ UNCHANGED <<server, sent>>
       \/ \E s \in ClientStream :
          /\ streams[s].down = <<[type |-> "granted"]>> /\ sent.fwd < MaxPackets
          /\ streams' = Written(streams, s, ClientId, Data("fwd", sent.fwd + 1))
          /\ sent' = [sent EXCEPT !.fwd = @ + 1]
          /\ UNCHANGED server
    /\ UNCHANGED <<kind, backpressure, listening, todo, msgs, pkts, connector, splices, received>>

\* splice_bidirectional
Splice(n) ==
    /\ \E pair \in splices[n] : \E a \in {1, 2} :
          LET from == pair[a] to == pair[3 - a] IN
          /\ Readable(from, n) # << >>
          /\ streams' = Consumed(Written(streams, to, n, Head(Readable(from, n))), from, n)
    /\ UNCHANGED <<kind, backpressure, listening, todo, msgs, pkts, connector, server, splices,
                   sent, received>>

\* The network interface of a scheduler, or the external server, reads.
Read(n) ==
    /\ \E s \in DOMAIN streams :
          /\ IF n = External THEN streams[s].to = External ELSE s \in Range(connector[n].schedulers)
          /\ Readable(s, n) # << >>
          /\ received' = [received EXCEPT ![IF n = Source THEN "rev" ELSE "fwd"] =
                                Append(@, Head(Readable(s, n)))]
          /\ streams' = Consumed(streams, s, n)
    /\ UNCHANGED <<kind, backpressure, listening, todo, msgs, pkts, connector, server, splices, sent>>

-----------------------------------------------------------------------------
Next ==
    \/ SubmitPacket \/ Respond \/ Client \/ Read(External)
    \/ \E n \in Nodes :
        \/ StartListening(n) \/ (\E m \in todo[n] : Control(n, m))
        \/ ProcessPacket(n) \/ HandleMessage(n) \/ HandleInboundRequest(n) \/ Connect(n)
        \/ Accept(n) \/ HandleTcpMaxRequest(n) \/ HandleSocks5Methods(n) \/ HandleSocks5Request(n)
        \/ Splice(n) \/ Read(n)

Spec == Init /\ [][Next]_vars

-----------------------------------------------------------------------------
(* Properties *)

\* What comes out at the end of a flow is its data and nothing else, in the
\* order it was sent; and once the first item has come through, back-pressure
\* loses none (headers and SOCKS5 messages are consumed hop by hop, a scheduler
\* is stored only with its connection).
DeliveredAsSent ==
    \A f \in {"fwd", "rev"} :
        /\ \A i \in DOMAIN received[f] : received[f][i].type = "data" /\ received[f][i].flow = f
        /\ \A i \in 2 .. Len(received[f]) :
              /\ received[f][i - 1].n < received[f][i].n
              /\ backpressure => received[f][i].n = received[f][i - 1].n + 1

\* The answers of the destination go back on the connection the request came
\* on, however late the control messages: no two streams join the same nodes
\* (the reversed flow id of handle_inbound_request).
OneConnectionPerHop ==
    \A s, t \in DOMAIN streams :
        {streams[s].from, streams[s].to} = {streams[t].from, streams[t].to} => s = t
=============================================================================
