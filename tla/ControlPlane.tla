---------------------------- MODULE ControlPlane ----------------------------
(***************************************************************************)
(* The controller and the nodes it configures.  A node is its controller   *)
(* interface (dataplane/src/node/controller/interface.rs): it connects,    *)
(* takes the first message for the answer to its StartUp, and then works   *)
(* through the control messages one at a time; AddNode holds the loop      *)
(* until the neighbour accepts the link.  A node may crash at any time and *)
(* its process may be started again.                                       *)
(***************************************************************************)
EXTENDS Controller

CONSTANTS
    Requests,       \* what applications may ask for: [node, msg]
    CanCrash        \* nodes that may crash

ASSUME ControlPlaneAssumption ==
    /\ CanCrash \subseteq NodeIds
    /\ \A r \in Requests :
          /\ r.node \in NodeIds
          /\ r.msg.type \in {"CreateGroup", "JoinGroup", "LeaveGroup", "SetGroupRoutes"}

VARIABLES
    dp,             \* per node: the process and its controller interface
    incoming,       \* <<from, to>>: links dialled, not yet accepted
    crashes         \* crashes so far (history)

vars == <<controllerVars, dp, incoming, crashes>>

AllFlows == SeededFlows \cup LaterFlows

Fresh(starts) ==
    [starts |-> starts, phase |-> "down", configured |-> FALSE, expected |-> 0, connected |-> 0,
     peers |-> {}, limited |-> {}, routes |-> {}, routes_installed |-> FALSE,
     directory |-> FALSE, directory_installed |-> FALSE, group_routes |-> << >>,
     ready_sent |-> FALSE, topology_ready |-> FALSE, specs |-> {}, pending |-> << >>,
     started |-> << >>]

Conn(n) == <<n, dp[n].starts>>

Init ==
    /\ ControllerInit
    /\ dp = [n \in NodeIds |-> Fresh(0)]
    /\ incoming = {}
    /\ crashes = 0

-----------------------------------------------------------------------------
(* ControllerInterfaceHandle::connect *)

tables == <<node_ws, handler, dbVars, notified, sync, topo_events, coord, snapshot_needed,
            history>>

StartNode(n) ==
    /\ dp[n].phase = "down" /\ dp[n].starts < MaxStarts
    /\ dp' = [dp EXCEPT ![n] = [Fresh(@.starts + 1) EXCEPT !.phase = "starting"]]
    /\ open' = open \cup {<<n, dp[n].starts + 1>>}
    /\ inbox' = [inbox EXCEPT ![<<n, dp[n].starts + 1>>] = <<[type |-> "StartUp"]>>]
    /\ UNCHANGED <<tables, wire, ops, incoming, crashes>>

\* config.update takes whatever comes first; anything but a StartUp answer is
\* lost and leaves the local configuration as it was.
TakeResponse(n) ==
    /\ dp[n].phase = "starting" /\ wire[Conn(n)] # << >>
    /\ dp' = [dp EXCEPT ![n].phase = "up", ![n].configured = Head(wire[Conn(n)]).type = "StartUp"]
    /\ wire' = [wire EXCEPT ![Conn(n)] = Tail(@)]
    /\ UNCHANGED <<tables, inbox, open, ops, incoming, crashes>>

-----------------------------------------------------------------------------
(* process_control_msg *)

Next1(n, type) ==
    /\ dp[n].phase = "up" /\ wire[Conn(n)] # << >> /\ Head(wire[Conn(n)]).type = type
    /\ wire' = [wire EXCEPT ![Conn(n)] = Tail(@)]
    /\ UNCHANGED <<tables, open, ops, crashes>>

\* maybe_send_local_topology_ready, at the end of the handlers that may
\* complete the local topology
Settle(n, d) ==
    IF ~d.ready_sent /\ d.connected >= d.expected /\ d.routes_installed /\ d.directory_installed
    THEN /\ dp' = [dp EXCEPT ![n] = [d EXCEPT !.ready_sent = TRUE]]
         /\ inbox' = [inbox EXCEPT ![Conn(n)] = Append(@, [type |-> "NodeTopologyReady"])]
    ELSE dp' = [dp EXCEPT ![n] = d] /\ UNCHANGED inbox

\* new_as_client retries until the neighbour listens, which it does once it
\* has its own response.
AddNode(n) ==
    /\ Next1(n, "AddNode")
    /\ LET m == Head(wire[Conn(n)]).node IN
       /\ dp[m].phase = "up"
       /\ incoming' = incoming \cup {<<n, m>>}
       /\ Settle(n, [dp[n] EXCEPT !.expected = @ + 1, !.connected = @ + 1, !.peers = @ \cup {m}])

\* The server of the neighbour reads the node id and adds the link.
AcceptLink(n, m) ==
    /\ <<n, m>> \in incoming
    /\ incoming' = incoming \ {<<n, m>>}
    /\ dp' = [dp EXCEPT ![m].peers = @ \cup {n}]
    /\ UNCHANGED <<tables, inbox, wire, open, ops, crashes>>

\* limit_rate: a rate for a link that is not there yet is dropped.
SetLinkRate(n) ==
    /\ Next1(n, "SetLinkRate")
    /\ dp' = [dp EXCEPT ![n].limited = @ \cup ({Head(wire[Conn(n)]).node} \cap dp[n].peers)]
    /\ UNCHANGED <<inbox, incoming>>

InstallRoutes(n) ==
    /\ Next1(n, "InstallRoutes")
    /\ Settle(n, [dp[n] EXCEPT !.routes = Head(wire[Conn(n)]).entries, !.routes_installed = TRUE])
    /\ UNCHANGED incoming

\* A TCP flow is started by its source, its specification kept by its
\* destination; a lossless flow is started by both ends.
StartsHere(n, f) == IF f.transport = "Tcp" THEN n = f.src ELSE n \in {f.src, f.dst}

AddFlows(n) ==
    /\ Next1(n, "AddFlows")
    /\ LET new == SetToSeq({f \in Head(wire[Conn(n)]).flows : StartsHere(n, f)})
           kept == {f \in Head(wire[Conn(n)]).flows : f.transport = "Tcp" /\ f.dst = n} IN
       dp' = [dp EXCEPT ![n] =
                [dp[n] EXCEPT !.specs = dp[n].specs \cup kept,
                              !.started = IF dp[n].topology_ready THEN dp[n].started \o new
                                          ELSE dp[n].started,
                              !.pending = IF dp[n].topology_ready THEN dp[n].pending
                                          ELSE dp[n].pending \o new]]
    /\ UNCHANGED <<inbox, incoming>>

\* Slip: the deferred flows stay deferred.
TopologyReadyNoFlush(n) ==
    /\ Next1(n, "TopologyReady")
    /\ dp' = [dp EXCEPT ![n].topology_ready = TRUE]
    /\ UNCHANGED <<inbox, incoming>>

TopologyReady(n) ==
    /\ Next1(n, "TopologyReady")
    /\ dp' = [dp EXCEPT ![n] = [dp[n] EXCEPT !.topology_ready = TRUE, !.pending = << >>,
                                             !.started = dp[n].started \o dp[n].pending]]
    /\ UNCHANGED <<inbox, incoming>>

InstallGroupDirectory(n) ==
    /\ Next1(n, "InstallGroupDirectory")
    /\ Settle(n, [dp[n] EXCEPT !.directory = Head(wire[Conn(n)]).exists,
                               !.directory_installed = TRUE])
    /\ UNCHANGED incoming

InstallGroupRoutes(n) ==
    /\ Next1(n, "InstallGroupRoutes")
    /\ dp' = [dp EXCEPT ![n].group_routes = Head(wire[Conn(n)]).entries]
    /\ UNCHANGED <<inbox, incoming>>

\* GroupCreated only informs Python; a StartUp answer that was overtaken is of
\* no known type here.
IgnoreMessage(n) ==
    /\ Next1(n, "GroupCreated") \/ Next1(n, "StartUp")
    /\ UNCHANGED <<dp, inbox, incoming>>

-----------------------------------------------------------------------------
(* Requests of the applications of a node, and crashes *)

\* A group is joined, left or routed by whoever has it in the directory.
Request(r) ==
    /\ dp[r.node].phase = "up" /\ Outside("request")
    /\ r.msg.type = "CreateGroup" \/ dp[r.node].directory
    /\ inbox' = [inbox EXCEPT ![Conn(r.node)] = Append(@, r.msg)]
    /\ UNCHANGED <<tables, wire, open, dp, incoming, crashes>>

\* What the process had not read is lost with it, and so are links that were
\* being set up; the controller sees the end when it next reads.
Crash(n) ==
    /\ dp[n].phase # "down" /\ Outside("crash")
    /\ crashes' = crashes + 1
    /\ dp' = [dp EXCEPT ![n] = Fresh(@.starts)]
    /\ wire' = [wire EXCEPT ![Conn(n)] = << >>]
    /\ open' = open \ {Conn(n)}
    /\ incoming' = {l \in incoming : n \notin {l[1], l[2]}}
    /\ UNCHANGED <<tables, inbox>>

-----------------------------------------------------------------------------
NodeStep(n) ==
    \/ TakeResponse(n) \/ AddNode(n) \/ SetLinkRate(n) \/ InstallRoutes(n)
    \/ AddFlows(n) \/ TopologyReady(n) \/ InstallGroupDirectory(n) \/ InstallGroupRoutes(n)
    \/ IgnoreMessage(n)

Quiet == UNCHANGED <<dp, incoming, crashes>>

SystemStep ==
    \/ \E c \in Conns : HandlerStep(c) /\ Quiet
    \/ SyncStep /\ Quiet
    \/ CoordinatorStep /\ Quiet
    \/ \E n \in NodeIds : StartNode(n) \/ NodeStep(n)
    \/ \E n, m \in NodeIds : AcceptLink(n, m)

OutsideStep ==
    \/ \E rs \in RouteChoices : UpdateRoutes(rs) /\ Quiet
    \/ \E f \in LaterFlows : InsertFlow(f) /\ Quiet
    \/ \E r \in Requests : Request(r)
    \/ \E n \in CanCrash : Crash(n)

Next == SystemStep \/ OutsideStep

Spec == Init /\ [][Next]_vars

-----------------------------------------------------------------------------
(* Properties *)

Up(n) == dp[n].phase = "up" /\ Conn(n) \in open
Quiescent == ControllerIdle /\ incoming = {} /\ \A c \in Conns : wire[c] = << >>

\* A node that was answered is reachable: node_ws maps its id to its current
\* connection, whatever older connections of that id close in between
\* (handle_connection).
WriterIsLive == \A n \in NodeIds : Up(n) => n \in DOMAIN node_ws /\ node_ws[n] = Conn(n)

\* TopologyReady is broadcast only when every edge of the topology has been
\* dialled by one of its ends, although each node is told only of neighbours
\* that registered before it (upsert before select in handle_connection): unless
\* both routes and directory were broadcast to a node that was still to be sent
\* AddNodes, which it took for the end of its configuration.
Misled(n) == {<<"routes", n>>, <<"directory", n>>} \subseteq early
EdgesWiredWhenReady ==
    coord.ready_sent /\ crashes = 0 =>
        /\ \A e \in TopologyEdges :
              \/ e[2] \in dp[e[1]].peers \/ e[1] \in dp[e[2]].peers
              \/ Misled(e[1]) \/ Misled(e[2])
        /\ \A n \in NodeIds : dp[n].routes_installed /\ dp[n].directory_installed

\* "All dataplane nodes have finished wiring their topologies" when TopologyReady
\* is broadcast (the message of maybe_broadcast_topology_ready).
WiredWhenAnnounced ==
    coord.ready_sent /\ crashes = 0 =>
        \A e \in TopologyEdges : e[2] \in dp[e[1]].peers \/ e[1] \in dp[e[2]].peers

\* As long as no node crashes, a node that is ready and has read all its
\* messages has started every flow of its own, whether it came from the
\* configuration or was inserted before, during or after the dispatch of the
\* coordinator (send_flows, sync_flow, flush_pending_flows).
FlowsStart ==
    coord.dispatched /\ coord.step = "idle" /\ crashes = 0 =>
        \A n \in NodeIds, f \in flows \ notified.flows :
            dp[n].topology_ready /\ wire[Conn(n)] = << >> /\ StartsHere(n, f) =>
                f \in Range(dp[n].started)

\* When everything has settled, a connected node on some route holds the
\* entries the routes table implies, unless its last InstallRoutes was
\* already out of date when it was sent (StartUp racing sync_routes).
RoutesConverge ==
    Quiescent => \A n \in NodeIds :
        Up(n) /\ RoutesFor(routes, n) # {} /\ <<"routes", n>> \notin overtaken =>
            dp[n].routes = RoutesFor(routes, n)

\* The same for the group, its directory and its multicast routes: a node that
\* left it or fell off its trees has no entry left (handle_set_group_routes_update,
\* multicast_nodes_to_notify).  Exempt are a node whose last routes were out of
\* date when they were sent, and one whose StartUp was answered with the empty
\* directory although the group was there: the subject of CatchesUpOnReconnect.
GroupRoutesConverge ==
    Quiescent => \A n \in NodeIds :
        Up(n) /\ overtaken \cap {<<"group", n>>, <<"directory", n>>} = {} =>
            /\ dp[n].directory = group.exists
            /\ dp[n].group_routes = GroupRoutesFor(group, n)

\* "If a node is temporarily disconnected when a route update is published, the
\* update is not lost.  That node receives a full snapshot during its next
\* websocket handshake" (multicast-groups.md, Controller flow): when all is
\* quiet, a node that was away and is connected again has the routes of the
\* group (handle_connection, multicast_snapshot_needed).
CatchesUpOnReconnect ==
    Quiescent => \A n \in NodeIds :
        Up(n) /\ dp[n].starts > 1 /\ <<"group", n>> \notin overtaken =>
            dp[n].group_routes = GroupRoutesFor(group, n)

\* Nobody waits for ever: when no process can go on and no node crashed, every
\* node was told that the topology is ready.  The nodes wait for links, routes
\* and directory, the controller for the nodes, and a node that dials waits
\* for its neighbour (maybe_send_local_topology_ready,
\* maybe_broadcast_topology_ready).
Waiting(n) ==
    /\ dp[n].phase # "down"
    /\ \/ wire[Conn(n)] = << >>
       \/ Head(wire[Conn(n)]).type = "AddNode" /\ dp[Head(wire[Conn(n)]).node].phase # "up"
ReadyUnlessCrashed ==
    ControllerIdle /\ incoming = {} /\ crashes = 0 /\ (\A n \in NodeIds : Waiting(n)) =>
        \A n \in NodeIds : dp[n].topology_ready

-----------------------------------------------------------------------------
(* What is always true, for the proofs *)

\* A connection holds its node's id: from the reservation to the end.
OwnsId(c) == c[1] \in DOMAIN node_ws /\ node_ws[c[1]] = c

ControlShape ==
    /\ DOMAIN node_ws \subseteq NodeIds
    /\ \A n \in DOMAIN node_ws : node_ws[n] \in Conns /\ node_ws[n][1] = n
    /\ DOMAIN handler = Conns /\ \A c \in Conns : DOMAIN handler[c] = {"step", "id", "data"}
    /\ DOMAIN inbox = Conns /\ DOMAIN wire = Conns
    /\ DOMAIN dp = NodeIds /\ \A n \in NodeIds : DOMAIN dp[n] = DOMAIN Fresh(0)
    /\ \A n \in NodeIds : /\ dp[n].starts \in 0 .. MaxStarts
                          /\ dp[n].phase # "down" => dp[n].starts # 0
    /\ crashes \in Nat

\* Only the holder of an id is sent anything and has a handler at work, and it
\* keeps the id while its node is there.
Registrations ==
    /\ \A c \in Conns :
          /\ c \in open <=> c = Conn(c[1]) /\ dp[c[1]].phase # "down"
          /\ handler[c].step # "idle" \/ wire[c] # << >> => OwnsId(c)
          /\ handler[c].id # NoNode => handler[c].id = c[1] /\ OwnsId(c)
          /\ c \notin open => wire[c] = << >>
    /\ \A n \in NodeIds : dp[n].phase = "up" => OwnsId(Conn(n))

AdmissionInv == ControlShape /\ Registrations

IsSequence(s) == s \in Seq(Range(s))

\* From here on: as long as no node has crashed.  A process has then one
\* connection, which is open; nothing ever happened on the others.
Unused(c) ==
    /\ handler[c].step = "idle" /\ handler[c].id = NoNode /\ inbox[c] = << >> /\ ~OwnsId(c)

FirstLife ==
    /\ \A n \in NodeIds : /\ dp[n].phase \in {"down", "starting", "up"}
                          /\ dp[n].starts = IF dp[n].phase = "down" THEN 0 ELSE 1
    /\ \A c \in Conns :
          /\ IsSequence(inbox[c]) /\ IsSequence(wire[c])
          /\ c \notin open => Unused(c)
          /\ c \in open /\ ~OwnsId(c) => inbox[c] # << >> /\ inbox[c][1].type = "StartUp"
          /\ OwnsId(c) /\ handler[c].step # "upsert" => handler[c].id = c[1]

\* The nodes whose neighbours were looked up, and those sent all their AddNodes
LookedUp == {n \in DOMAIN node_ws : handler[node_ws[n]].step \notin {"upsert", "neighbors"}}
Introduced == DOMAIN node_ws \ Unwired

OnWire(n, type) == \E i \in DOMAIN wire[Conn(n)] : wire[Conn(n)][i].type = type

\* a is to dial b, or has
Told(a, b) ==
    \/ handler[Conn(a)].step = "adding" /\ b \in handler[Conn(a)].data
    \/ \E i \in DOMAIN wire[Conn(a)] :
          wire[Conn(a)][i].type = "AddNode" /\ wire[Conn(a)][i].node = b
    \/ b \in dp[a].peers

\* Of two neighbours the one that is looked up second finds the other.
EdgesTold ==
    /\ nodes \subseteq NodeIds
    /\ \A n \in DOMAIN node_ws : handler[node_ws[n]].step # "upsert" => n \in nodes
    /\ \A e \in TopologyEdges :
          e[1] \in LookedUp /\ e[2] \in LookedUp => Told(e[1], e[2]) \/ Told(e[2], e[1])

\* What ends the configuration of a node comes after its AddNodes, unless it
\* was broadcast early.
EndsConfiguration(n, kind, type, installed) ==
    <<kind, n>> \notin early =>
        /\ OnWire(n, type) \/ dp[n][installed] => n \in Introduced
        /\ dp[n][installed] => ~OnWire(n, "AddNode")
        /\ \A i, j \in DOMAIN wire[Conn(n)] :
              i < j /\ wire[Conn(n)][i].type = type => wire[Conn(n)][j].type # "AddNode"

ConfigurationOrder ==
    \A n \in NodeIds : dp[n].phase # "down" =>
        /\ dp[n].phase = "starting" =>
              IF n \in DOMAIN node_ws /\ handler[node_ws[n]].step # "upsert"
              THEN wire[Conn(n)] # << >> /\ wire[Conn(n)][1].type # "AddNode"
              ELSE ~OnWire(n, "AddNode")
        /\ EndsConfiguration(n, "routes", "InstallRoutes", "routes_installed")
        /\ EndsConfiguration(n, "directory", "InstallGroupDirectory", "directory_installed")

Announces(i, type, n) == topo_events[i].type = type /\ topo_events[i].node = n

\* A node that reported ready is configured, and the controller counts no other.
ReadinessTrue ==
    /\ IsSequence(topo_events)
    /\ DOMAIN coord = {"connected", "ready", "dispatched", "ready_sent", "step", "data"}
    /\ \A n \in NodeIds : dp[n].ready_sent =>
          dp[n].phase = "up" /\ dp[n].routes_installed /\ dp[n].directory_installed
    /\ \A c \in Conns : \A i \in DOMAIN inbox[c] :
          inbox[c][i].type = "NodeTopologyReady" => dp[c[1]].ready_sent
    /\ \A i \in DOMAIN topo_events : topo_events[i].type = "NodeLocallyReady" =>
          topo_events[i].node \in NodeIds /\ dp[topo_events[i].node].ready_sent
    /\ coord.ready \subseteq NodeIds /\ \A n \in coord.ready : dp[n].ready_sent
    /\ coord.ready_sent => coord.ready = NodeIds

WiringInv == crashes = 0 => FirstLife /\ EdgesTold /\ ConfigurationOrder /\ ReadinessTrue

\* What a node needs was handled or is on its way: a message that will be read.
Comes(n, type) ==
    \E i \in DOMAIN wire[Conn(n)] :
        wire[Conn(n)][i].type = type /\ (dp[n].phase = "starting" => i # 1)
Ahead(n, type, done) == dp[n][done] \/ Comes(n, type)

\* So do the events of a node for the coordinator.
Counted(n) ==
    \/ n \in coord.connected
    \/ \E i \in DOMAIN topo_events : Announces(i, "NodeConnected", n)
Reported(n) ==
    \/ n \in coord.ready
    \/ \E i \in DOMAIN topo_events : Announces(i, "NodeLocallyReady", n)
    \/ \E i \in DOMAIN inbox[Conn(n)] : inbox[Conn(n)][i].type = "NodeTopologyReady"

Configured ==
    \A n \in DOMAIN node_ws :
        /\ handler[Conn(n)].step = "adding" => handler[Conn(n)].data \subseteq NodeIds
        /\ \A i \in DOMAIN wire[Conn(n)] :
              wire[Conn(n)][i].type = "AddNode" => wire[Conn(n)][i].node \in NodeIds
        /\ handler[Conn(n)].step \in {"groups", "idle", "notify_group"} =>
              Ahead(n, "InstallRoutes", "routes_installed")
        /\ handler[Conn(n)].step \in {"idle", "notify_group"} =>
              Ahead(n, "InstallGroupDirectory", "directory_installed") /\ Counted(n)

\* Who is waited for has been told or is about to tell.
Progress ==
    /\ \A n \in NodeIds :
          /\ dp[n].expected \in Nat /\ dp[n].connected = dp[n].expected
          /\ dp[n].routes_installed /\ dp[n].directory_installed => dp[n].ready_sent
          /\ dp[n].ready_sent => Reported(n)
    /\ \A i \in DOMAIN topo_events : topo_events[i].type = "NodeConnected" =>
          topo_events[i].node \in DOMAIN node_ws
    /\ coord.connected \subseteq DOMAIN node_ws
    /\ coord.step = "idle" /\ coord.connected = NodeIds /\ coord.ready = NodeIds => coord.ready_sent
    /\ coord.ready_sent => \A n \in NodeIds : Ahead(n, "TopologyReady", "topology_ready")

ReadyInv == crashes = 0 => Configured /\ Progress

TablesShape ==
    DOMAIN notified = {"routes", "flows", "group"} /\ DOMAIN sync = {"step", "data"}

\* A flow of n is started, deferred or on its way in a message that will be read.
FlowAhead(n, f) ==
    \/ f \in Range(dp[n].started) \cup Range(dp[n].pending)
    \/ \E i \in DOMAIN wire[Conn(n)] :
          /\ wire[Conn(n)][i].type = "AddFlows" /\ f \in wire[Conn(n)][i].flows
          /\ dp[n].phase = "starting" => i # 1

\* The flows are dispatched once, to all nodes, and all of them can be reached.
Dispatch ==
    /\ flows \subseteq AllFlows
    /\ coord.step # "idle" => coord.dispatched
    /\ coord.dispatched => coord.connected = NodeIds
    /\ coord.step = "flows" => coord.data \subseteq flows
    /\ \A n \in NodeIds :
          /\ Counted(n) => handler[Conn(n)].step \in {"idle", "notify_group"}
          /\ IsSequence(dp[n].started) /\ IsSequence(dp[n].pending)
          /\ dp[n].topology_ready => dp[n].pending = << >>
    /\ \A c \in Conns : \A i \in DOMAIN wire[c] :
          wire[c][i].type = "AddFlows" => wire[c][i].flows \subseteq AllFlows

\* What the dispatch read it sends, and what came later was notified.
FlowsReach ==
    coord.dispatched /\ coord.step # "addresses" =>
        \A n \in NodeIds, f \in flows \ notified.flows :
            StartsHere(n, f) /\ ~(coord.step = "flows" /\ f \in coord.data) => FlowAhead(n, f)

FlowsInv == crashes = 0 => Dispatch /\ FlowsReach

\* From here on: crashes included.  A connection of an attempt to come is new.
ToCome ==
    \A c \in Conns : c[2] > dp[c[1]].starts => inbox[c] = << >> /\ ~OwnsId(c)

\* Nothing is a node's first message before its handler has answered.
AnswerFirst ==
    \A n \in NodeIds :
        dp[n].phase = "starting" /\ OwnsId(Conn(n)) /\ handler[Conn(n)].step # "upsert" =>
            wire[Conn(n)] # << >>

\* What the node holds of one kind of message once it has read all of them: x.
\* The message it takes for its answer does not count.
WillHold(n, type, field, held, x) ==
    LET w == wire[Conn(n)]
        Counts(i) == w[i].type = type /\ (dp[n].phase = "starting" => i # 1) IN
    \/ \E i \in DOMAIN w : /\ Counts(i) /\ w[i][field] = x
                           /\ \A j \in DOMAIN w : j > i => w[j].type # type
    \/ (\A i \in DOMAIN w : ~Counts(i)) /\ dp[n][held] = x

\* The holder of an id, as long as its node is there
Served(n) == dp[n].phase # "down" /\ OwnsId(Conn(n))

\* The entries of a node are to be sent again, or are the last it is sent.
RoutesDue(n) ==
    \/ notified.routes > 0
    \/ sync.step = "routes" /\ sync.data = routes
    \/ handler[Conn(n)].step \in {"upsert", "neighbors", "adding", "routes"}
RoutesComing ==
    /\ notified.routes \in Nat
    /\ sync.step = "routes" => sync.data = routes \/ notified.routes > 0
    /\ \A n \in NodeIds :
          Served(n) /\ <<"routes", n>> \notin overtaken /\ RoutesFor(routes, n) # {} =>
              \/ RoutesDue(n)
              \/ WillHold(n, "InstallRoutes", "entries", "routes", RoutesFor(routes, n))

WireInv == (\A c \in Conns : IsSequence(wire[c])) /\ ToCome /\ AnswerFirst
=============================================================================
