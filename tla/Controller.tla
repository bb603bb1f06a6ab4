----------------------------- MODULE Controller -----------------------------
(***************************************************************************)
(* The controller (controller/src): the handler of each WebSocket          *)
(* connection (main.rs), the coordinator that waits for all nodes          *)
(* (new_node.rs), the task that pushes database changes (db_sync.rs) and   *)
(* the tables they share.  They run concurrently: what a task read from    *)
(* the database may be old by the time it is sent.  A step below ends with *)
(* a read and the next one starts with the send of what was read, so that  *)
(* the tables and the other tasks can change in between.                   *)
(***************************************************************************)
EXTENDS RouteBuilder, Functions

CONSTANTS
    NodeIds,        \* the nodes of the topology, all of them expected
    MaxStarts,      \* how often the process of a node may start
    TopologyEdges,  \* build_topology(&config)
    SeededRoutes,   \* merge_all_routes(config)
    RouteChoices,   \* what the routes table may be changed to: sets of routes
    SeededFlows,    \* flows of the configuration, [id, src, dst, transport]
    LaterFlows,     \* flows that may be inserted while the controller runs
    StoredGroups,   \* the group the database may hold when the controller starts
    GroupOwner,     \* the node that creates the group
    LinkRates,      \* link_rates of the configuration: pairs of nodes
    MaxOps,         \* bound on the outside events: updates, requests, crashes
    EarlyCost,      \* what one before TopologyReady counts
    GroupEvents     \* bound on their kinds when the database starts with a group

ASSUME ControllerAssumption ==
    /\ NodeIds \subseteq Nat /\ GroupOwner \in NodeIds
    /\ TopologyEdges \subseteq NodeIds \X NodeIds
    /\ IsFiniteSet(LinkRates) /\ IsFiniteSet(SeededFlows \cup LaterFlows)
    /\ MaxStarts \in Nat /\ MaxOps \in Nat /\ EarlyCost \in Nat

Conns == NodeIds \X (1 .. MaxStarts)   \* a connection: node id requested, attempt
NoNode == -1                           \* None
Group == 1                             \* the id the sequence gives the group
Neighbors == BuildNeighborIndex(TopologyEdges)
NeighborsOf(n) == IF n \in DOMAIN Neighbors THEN Neighbors[n] ELSE {}

VARIABLES
    node_ws,        \* node id -> connection
    handler,        \* per connection: step of its handler, current_node_id, data read
    inbox,          \* per connection: messages of the node
    wire,           \* per connection: messages to the node
    nodes,          \* ids in the nodes table
    routes,         \* the routes table
    flows,          \* the flows table
    group,          \* the groups, group_members and group_routes tables
    notified,       \* LISTEN channels, not yet taken by the sync task
    sync,           \* the sync task: what it works on
    topo_events,    \* the broadcast channel of the coordinator
    coord,          \* the coordinator
    snapshot_needed, \* multicast_snapshot_needed, evaluated once at startup
    open,           \* connections whose peer is still there
    ops,            \* outside events so far
    overtaken,      \* <<kind, node>>: the last such message was out of date when sent (history)
    early           \* <<kind, node>>: one was broadcast before the node's own AddNodes (history)

dbVars == <<nodes, routes, flows, group>>
history == <<overtaken, early>>
controllerVars == <<node_ws, handler, inbox, wire, dbVars, notified, sync, topo_events, coord,
                    snapshot_needed, open, ops, history>>

NoGroup == [exists |-> FALSE, members |-> {}, trees |-> << >>]
Idle == [step |-> "idle", data |-> {}]

ControllerInit ==
    /\ node_ws = << >>
    /\ handler = [c \in Conns |-> [step |-> "idle", id |-> NoNode, data |-> {}]]
    /\ inbox = [c \in Conns |-> << >>]
    /\ wire = [c \in Conns |-> << >>]
    /\ nodes = {}
    /\ routes = SeededRoutes
    /\ flows = SeededFlows
    /\ group \in StoredGroups
    /\ notified = [routes |-> 0, flows |-> {}, group |-> << >>]
    /\ sync = Idle
    /\ topo_events = << >>
    /\ coord = [connected |-> {}, ready |-> {}, dispatched |-> FALSE, ready_sent |-> FALSE,
                step |-> "idle", data |-> {}]
    /\ snapshot_needed = group.exists
    /\ open = {}
    /\ ops = 0
    /\ overtaken = {}
    /\ early = {}

-----------------------------------------------------------------------------
(* What the tables imply for a node *)

RoutesFor(rs, n) == UNION {RouteEntry(r, n) : r \in rs}

GroupRoutesFor(g, n) == BuildGroupRoutesForNode(Group, g.trees, n, g.members)

\* The group table of a new group; a member is added or removed once.
NewGroup == [NoGroup EXCEPT !.exists = TRUE]
AddGroupMember(g, n) == g.members \cup {n}
RemoveGroupMember(g, n) == g.members \ {n}

\* The directory lists the groups; a snapshot is the directory and, for every
\* group, the routes of the node, empty ones included.
GroupDirectory(g) == [type |-> "InstallGroupDirectory", exists |-> g.exists]
GroupRoutesSnapshot(g, n) == [type |-> "InstallGroupRoutes", entries |-> GroupRoutesFor(g, n)]
MulticastState(g, n) == <<GroupDirectory(g), GroupRoutesSnapshot(g, n)>>

\* One transaction deletes the trees of the group and inserts the new ones.
ReplaceGroupRouteTrees(g, trees) == [g EXCEPT !.trees = CanonicalizeGroupRouteTrees(trees)]

TreeNodes(trees) ==
    UNION {NodesOf({trees[i].edges[j] : j \in DOMAIN trees[i].edges}) : i \in DOMAIN trees}

\* A send to a closed connection is an error that is only logged.
Sent(w, c, msgs) == IF c \in open THEN [w EXCEPT ![c] = @ \o msgs] ELSE w
SendTo(c, msgs) == wire' = Sent(wire, c, msgs)
SendAll(msgs) ==
    wire' = [c \in Conns |->
                IF c \in Range(node_ws) /\ c \in open THEN wire[c] \o msgs[c[1]] ELSE wire[c]]

\* Nodes whose last message of a kind is not what the tables say any more
Outdated(kind, to, stale) ==
    overtaken' = (overtaken \ ({kind} \X to)) \cup ({kind} \X (to \cap stale))
StaleRoutes(rs) == {n \in NodeIds : RoutesFor(rs, n) # RoutesFor(routes, n)}
StaleGroup(g) == {n \in NodeIds : GroupRoutesFor(g, n) # GroupRoutesFor(group, n)}

\* Registered nodes that have not been sent all their AddNodes
Unwired ==
    {n \in DOMAIN node_ws : handler[node_ws[n]].step \in {"upsert", "neighbors", "adding"}}

Goto(c, step) == handler' = [handler EXCEPT ![c].step = step]
GotoWith(c, step, data) == handler' = [handler EXCEPT ![c].step = step, ![c].data = data]

-----------------------------------------------------------------------------
(* handle_connection: StartUp *)

Reading(c) == handler[c].step = "idle" /\ inbox[c] # << >>
Consume(c) == inbox' = [inbox EXCEPT ![c] = Tail(@)]

Registered(c) == [n \in DOMAIN node_ws \cup {c[1]} |-> IF n = c[1] THEN c ELSE node_ws[n]]

\* Slip: the id is taken over without a check.
RegisterNodeUnchecked(c) ==
    /\ Reading(c) /\ Head(inbox[c]).type = "StartUp"
    /\ Consume(c)
    /\ node_ws' = Registered(c)
    /\ Goto(c, "upsert")
    /\ UNCHANGED <<wire, dbVars, notified, sync, topo_events, coord, snapshot_needed, open, ops,
                   history>>

\* The id is checked and reserved under one write lock; the connection of a
\* node that asks for a taken id stays open and gets no answer.
RegisterNode(c) ==
    /\ Reading(c) /\ Head(inbox[c]).type = "StartUp"
    /\ Consume(c)
    /\ IF c[1] \in DOMAIN node_ws
       THEN UNCHANGED <<node_ws, handler>>
       ELSE /\ node_ws' = Registered(c)
            /\ Goto(c, "upsert")
    /\ UNCHANGED <<wire, dbVars, notified, sync, topo_events, coord, snapshot_needed, open, ops,
                   history>>

\* The row of the node is there before its neighbours are looked up.
UpsertNode(c) ==
    /\ handler[c].step = "upsert"
    /\ nodes' = nodes \cup {c[1]}
    /\ SendTo(c, <<[type |-> "StartUp"]>>)
    /\ handler' = [handler EXCEPT ![c].step = "neighbors", ![c].id = c[1]]
    /\ UNCHANGED <<node_ws, inbox, routes, flows, group, notified, sync, topo_events, coord,
                   snapshot_needed, open, ops, history>>

\* Slip: only neighbours with smaller ids are dialled.
ReadNeighborsBelow(c) ==
    /\ handler[c].step = "neighbors"
    /\ GotoWith(c, "adding", {n \in NeighborsOf(c[1]) \cap nodes : n < c[1]})
    /\ UNCHANGED <<node_ws, inbox, wire, dbVars, notified, sync, topo_events, coord,
                   snapshot_needed, open, ops, history>>

\* The neighbours that are in the table are looked up.
ReadNeighbors(c) ==
    /\ handler[c].step = "neighbors"
    /\ GotoWith(c, "adding", NeighborsOf(c[1]) \cap nodes)
    /\ UNCHANGED <<node_ws, inbox, wire, dbVars, notified, sync, topo_events, coord,
                   snapshot_needed, open, ops, history>>

\* One AddNode for each of them, to the new node only.  The writer is locked
\* for one message at a time, so that a broadcast may come in between.
SendAddNode(c) ==
    /\ handler[c].step = "adding"
    /\ \E n \in handler[c].data :
          /\ SendTo(c, <<[type |-> "AddNode", node |-> n]>>)
          /\ GotoWith(c, "adding", handler[c].data \ {n})
    /\ UNCHANGED <<node_ws, inbox, dbVars, notified, sync, topo_events, coord, snapshot_needed,
                   open, ops, history>>

ReadRoutes(c) ==
    /\ handler[c].step = "adding" /\ handler[c].data = {}
    /\ GotoWith(c, "routes", routes)
    /\ UNCHANGED <<node_ws, inbox, wire, dbVars, notified, sync, topo_events, coord,
                   snapshot_needed, open, ops, history>>

\* Always sent, even when there is no entry for the node; then the groups are
\* read.
SendRoutes(c) ==
    /\ handler[c].step = "routes"
    /\ SendTo(c, <<[type |-> "InstallRoutes", entries |-> RoutesFor(handler[c].data, c[1])]>>)
    /\ Outdated("routes", {c[1]}, StaleRoutes(handler[c].data))
    /\ GotoWith(c, "groups", group)
    /\ UNCHANGED <<node_ws, inbox, dbVars, notified, sync, topo_events, coord, snapshot_needed,
                   open, ops, early>>

\* Slip: without groups no directory is sent.
SendMulticastStateIfAny(c) ==
    /\ handler[c].step = "groups"
    /\ IF snapshot_needed
       THEN SendTo(c, MulticastState(handler[c].data, c[1]))
       ELSE UNCHANGED wire
    /\ GotoWith(c, "idle", {})
    /\ topo_events' = Append(topo_events, [type |-> "NodeConnected", node |-> c[1]])
    /\ UNCHANGED <<node_ws, inbox, dbVars, notified, sync, coord, snapshot_needed, open, ops,
                   history>>

\* send_multicast_state_to_node, or an empty directory when there was no
\* group at the time the controller started; then the event.
SendMulticastState(c) ==
    /\ handler[c].step = "groups"
    /\ LET g == handler[c].data IN
       IF snapshot_needed
       THEN /\ SendTo(c, MulticastState(g, c[1]))
            /\ Outdated("group", {c[1]}, StaleGroup(g))
       ELSE /\ SendTo(c, <<GroupDirectory(NoGroup)>>)
            /\ Outdated("directory", {c[1]}, IF group.exists THEN NodeIds ELSE {})
    /\ GotoWith(c, "idle", {})
    /\ topo_events' = Append(topo_events, [type |-> "NodeConnected", node |-> c[1]])
    /\ UNCHANGED <<node_ws, inbox, dbVars, notified, sync, coord, snapshot_needed, open, ops,
                   early>>

-----------------------------------------------------------------------------
(* handle_connection: the other messages and the end *)

NodeTopologyReady(c) ==
    /\ Reading(c) /\ Head(inbox[c]).type = "NodeTopologyReady"
    /\ Consume(c)
    /\ topo_events' = IF handler[c].id = NoNode THEN topo_events
                      ELSE Append(topo_events, [type |-> "NodeLocallyReady", node |-> handler[c].id])
    /\ UNCHANGED <<node_ws, handler, wire, dbVars, notified, sync, coord, snapshot_needed, open,
                   ops, history>>

BroadcastGroupDirectory(owner) ==
    SendAll([n \in NodeIds |-> (IF n = owner THEN <<[type |-> "GroupCreated"]>> ELSE << >>)
                       \o <<GroupDirectory(NewGroup)>>])

\* create_group, GroupCreated to the owner, then the directory to every writer;
\* the label is unique, so a second request fails.
CreateGroup(c) ==
    /\ Reading(c) /\ Head(inbox[c]).type = "CreateGroup"
    /\ Consume(c)
    /\ IF handler[c].id = NoNode \/ group.exists THEN UNCHANGED <<group, wire, early>>
       ELSE /\ group' = NewGroup
            /\ BroadcastGroupDirectory(c[1])
            /\ early' = early \cup ({"directory"} \X Unwired)
    /\ UNCHANGED <<node_ws, handler, nodes, routes, flows, notified, sync, topo_events, coord,
                   snapshot_needed, open, ops, overtaken>>

\* The trigger notifies for a row really inserted or deleted.
ChangeMembership(c, members) ==
    /\ Consume(c)
    /\ IF handler[c].id = NoNode \/ ~group.exists \/ members = group.members
       THEN UNCHANGED <<group, notified>>
       ELSE /\ group' = [group EXCEPT !.members = members]
            /\ notified' = [notified EXCEPT !.group = Append(@, c[1])]
    /\ UNCHANGED <<node_ws, handler, wire, nodes, routes, flows, sync, topo_events, coord,
                   snapshot_needed, open, ops, history>>

JoinGroup(c) ==
    /\ Reading(c) /\ Head(inbox[c]).type = "JoinGroup"
    /\ ChangeMembership(c, AddGroupMember(group, c[1]))

LeaveGroup(c) ==
    /\ Reading(c) /\ Head(inbox[c]).type = "LeaveGroup"
    /\ ChangeMembership(c, RemoveGroupMember(group, c[1]))

\* handle_set_group_routes_update, up to the commit: only the owner, and only
\* trees with valid distinct ids.
SetGroupRoutes(c) ==
    /\ Reading(c) /\ Head(inbox[c]).type = "SetGroupRoutes"
    /\ Consume(c)
    /\ LET trees == Head(inbox[c]).trees IN
       IF handler[c].id # GroupOwner \/ ~group.exists \/ ~ValidTrees(Group, trees)
       THEN UNCHANGED <<handler, group>>
       ELSE /\ group' = ReplaceGroupRouteTrees(group, trees)
            /\ GotoWith(c, "notify_group",
                    [group |-> group', to |-> TreeNodes(group.trees) \cup TreeNodes(trees)
                                              \cup {GroupOwner} \cup group.members])
    /\ UNCHANGED <<node_ws, wire, nodes, routes, flows, notified, sync, topo_events, coord,
                   snapshot_needed, open, ops, history>>

SendGroupRoutes(to, g) ==
    /\ SendAll([n \in NodeIds |-> IF n \in to
                          THEN <<GroupRoutesSnapshot(g, n)>>
                          ELSE << >>])
    /\ Outdated("group", to, StaleGroup(g))

NotifyGroupRoutes(c) ==
    /\ handler[c].step = "notify_group"
    /\ SendGroupRoutes(handler[c].data.to \cup handler[c].data.group.members, handler[c].data.group)
    /\ GotoWith(c, "idle", {})
    /\ UNCHANGED <<node_ws, inbox, dbVars, notified, sync, topo_events, coord, snapshot_needed,
                   open, ops, early>>

\* The peer is gone and everything it sent is read.
CloseConnection(c) ==
    /\ c \notin open /\ handler[c].step = "idle" /\ inbox[c] = << >>
    /\ handler[c].id # NoNode
    /\ node_ws' = Restrict(node_ws, DOMAIN node_ws \ {handler[c].id})
    /\ handler' = [handler EXCEPT ![c].id = NoNode]
    /\ UNCHANGED <<inbox, wire, dbVars, notified, sync, topo_events, coord, snapshot_needed, open,
                   ops, history>>

-----------------------------------------------------------------------------
(* spawn_db_sync: one event at a time.  Each of the listeners feeds its    *)
(* notifications into the task's channel, so kinds overtake each other.    *)

SyncLeaves(step, data) == sync' = [step |-> step, data |-> data]
syncFrame == <<node_ws, handler, inbox, dbVars, topo_events, coord, snapshot_needed, open, ops>>

SyncReadRoutes ==
    /\ sync.step = "idle" /\ notified.routes > 0
    /\ notified' = [notified EXCEPT !.routes = @ - 1]
    /\ SyncLeaves("routes", routes)
    /\ UNCHANGED <<syncFrame, wire, history>>

\* A node that is on no route any more is sent nothing.
SyncSendRoutes ==
    /\ sync.step = "routes"
    /\ LET entries(n) == RoutesFor(sync.data, n)
           to == {n \in DOMAIN node_ws : entries(n) # {}} IN
       /\ SendAll([n \in NodeIds |-> IF n \in to
                             THEN <<[type |-> "InstallRoutes", entries |-> entries(n)]>> ELSE << >>])
       /\ Outdated("routes", to, StaleRoutes(sync.data))
       /\ early' = early \cup ({"routes"} \X (to \cap Unwired))
    /\ SyncLeaves("idle", {})
    /\ UNCHANGED <<syncFrame, notified>>

\* A flow is never changed, so reading and sending it is one step.
SyncFlow(f) ==
    /\ sync.step = "idle" /\ f \in notified.flows
    /\ notified' = [notified EXCEPT !.flows = @ \ {f}]
    /\ SendAll([n \in NodeIds |-> IF n \in {f.src, f.dst}
                          THEN <<[type |-> "AddFlows", flows |-> {f}]>> ELSE << >>])
    /\ UNCHANGED <<syncFrame, sync, history>>

SyncReadGroup ==
    /\ sync.step = "idle" /\ notified.group # << >>
    /\ notified' = [notified EXCEPT !.group = Tail(@)]
    /\ SyncLeaves("group", [group |-> group, prior |-> Head(notified.group)])
    /\ UNCHANGED <<syncFrame, wire, history>>

\* Slip: the node the notification is about is forgotten.
NodesToNotifyWithoutPrior(g, prior) == TreeNodes(g.trees) \cup {GroupOwner} \cup g.members

MulticastNodesToNotify(g, prior) ==
    TreeNodes(g.trees) \cup {GroupOwner} \cup g.members \cup {prior}

SyncSendGroup ==
    /\ sync.step = "group"
    /\ SendGroupRoutes(MulticastNodesToNotify(sync.data.group, sync.data.prior), sync.data.group)
    /\ SyncLeaves("idle", {})
    /\ UNCHANGED <<syncFrame, notified, early>>

-----------------------------------------------------------------------------
(* new_node_connected: the coordinator *)

coordFrame == <<node_ws, handler, inbox, dbVars, notified, sync, snapshot_needed, open, ops,
                history>>

\* maybe_broadcast_topology_ready: once, and only to who is connected then.
MaybeBroadcastTopologyReady(c) ==
    IF ~c.ready_sent /\ c.connected = NodeIds /\ c.ready = NodeIds
    THEN /\ coord' = [c EXCEPT !.ready_sent = TRUE]
         /\ SendAll([n \in NodeIds |-> <<[type |-> "TopologyReady"]>>])
    ELSE coord' = c /\ UNCHANGED wire

TakeEvent(type) ==
    /\ coord.step = "idle" /\ topo_events # << >> /\ Head(topo_events).type = type
    /\ topo_events' = Tail(topo_events)
    /\ UNCHANGED coordFrame

\* The node that completes the set starts the dispatch; one that connects
\* again is skipped, the check for TopologyReady included.
NodeConnected ==
    /\ TakeEvent("NodeConnected")
    /\ LET n == Head(topo_events).node
           joined == [coord EXCEPT !.connected = @ \cup {n}] IN
       IF n \in coord.connected THEN UNCHANGED <<coord, wire>>
       ELSE IF joined.connected = NodeIds /\ ~coord.dispatched
       THEN /\ coord' = [joined EXCEPT !.dispatched = TRUE, !.step = "addresses"]
            /\ UNCHANGED wire
       ELSE MaybeBroadcastTopologyReady(joined)

NodeLocallyReady ==
    /\ TakeEvent("NodeLocallyReady")
    /\ MaybeBroadcastTopologyReady([coord EXCEPT !.ready = @ \cup {Head(topo_events).node}])

\* send_link_rates (send_node_addresses before it matters to Max mode only);
\* then the flows are read.
SendLinkRates ==
    /\ coord.step = "addresses"
    /\ SendAll([n \in NodeIds |-> SetToSeq({[type |-> "SetLinkRate", node |-> r[2]] :
                                        r \in {q \in LinkRates : q[1] = n}})])
    /\ coord' = [coord EXCEPT !.step = "flows", !.data = flows]
    /\ UNCHANGED <<coordFrame, topo_events>>

SendFlows ==
    /\ coord.step = "flows"
    /\ LET of(n) == {f \in coord.data : n \in {f.src, f.dst}} IN
       SendAll([n \in NodeIds |-> IF of(n) = {} THEN << >> ELSE <<[type |-> "AddFlows", flows |-> of(n)]>>])
    /\ coord' = [coord EXCEPT !.step = "check", !.data = {}]
    /\ UNCHANGED <<coordFrame, topo_events>>

CheckReadyAfterDispatch ==
    /\ coord.step = "check"
    /\ MaybeBroadcastTopologyReady([coord EXCEPT !.step = "idle"])
    /\ UNCHANGED <<coordFrame, topo_events>>

-----------------------------------------------------------------------------
(* Others write the database: the triggers turn that into notifications *)

\* Bounds the outside events; one before all nodes are ready costs more.
Outside(kind) ==
    /\ snapshot_needed => kind \in GroupEvents
    /\ ops' = ops + (IF coord.ready_sent THEN 1 ELSE EarlyCost)
    /\ ops' <= MaxOps

outsideFrame == <<node_ws, handler, inbox, wire, nodes, group, sync, topo_events, coord,
                  snapshot_needed, open, history>>

\* Slip: the trigger misses updates.
UpdateRoutesSilently(rs) ==
    /\ Outside("routes")
    /\ rs # routes
    /\ routes' = rs
    /\ UNCHANGED <<outsideFrame, flows, notified>>

UpdateRoutes(rs) ==
    /\ Outside("routes")
    /\ rs # routes
    /\ routes' = rs
    /\ notified' = [notified EXCEPT !.routes = @ + 1]
    /\ UNCHANGED <<outsideFrame, flows>>

InsertFlow(f) ==
    /\ Outside("flow")
    /\ f \notin flows
    /\ flows' = flows \cup {f}
    /\ notified' = [notified EXCEPT !.flows = @ \cup {f}]
    /\ UNCHANGED <<outsideFrame, routes>>

-----------------------------------------------------------------------------
HandlerStep(c) ==
    \/ RegisterNode(c) \/ UpsertNode(c) \/ ReadNeighbors(c) \/ SendAddNode(c) \/ ReadRoutes(c)
    \/ SendRoutes(c) \/ SendMulticastState(c) \/ NodeTopologyReady(c)
    \/ CreateGroup(c) \/ JoinGroup(c) \/ LeaveGroup(c) \/ SetGroupRoutes(c)
    \/ NotifyGroupRoutes(c) \/ CloseConnection(c)

SyncStep ==
    \/ SyncReadRoutes \/ SyncSendRoutes \/ SyncReadGroup \/ SyncSendGroup
    \/ \E f \in SeededFlows \cup LaterFlows : SyncFlow(f)

CoordinatorStep ==
    \/ NodeConnected \/ NodeLocallyReady \/ SendLinkRates
    \/ SendFlows \/ CheckReadyAfterDispatch

ControllerIdle ==
    /\ \A c \in Conns : handler[c].step = "idle" /\ inbox[c] = << >>
    /\ \A c \in Conns \ open : handler[c].id = NoNode
    /\ sync.step = "idle" /\ coord.step = "idle" /\ topo_events = << >>
    /\ notified = [routes |-> 0, flows |-> {}, group |-> << >>]
=============================================================================
