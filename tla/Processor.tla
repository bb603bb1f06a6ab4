------------------------------ MODULE Processor ------------------------------
(***************************************************************************)
(* The packet processors of a data-plane node in normal mode               *)
(* (dataplane/src/node/processor.rs): several tasks, here lanes, each with *)
(* its own copy of the routing table, of the schedulers by peer and of the *)
(* user-space senders by flow.  Packets reach them through bounded         *)
(* channels, one for each lane (Sequential) or one for all (Concurrent).   *)
(* Updates reach them through a broadcast channel that keeps only the last *)
(* ChannelCapacity messages: a lane that falls behind skips what it missed *)
(* (Lagged), and its select then waits for packets only.                   *)
(*                                                                         *)
(* The shared map of user-space TCP servers (flow/server.rs) is part of    *)
(* the module, as the lanes create servers on demand.                      *)
(***************************************************************************)
EXTENDS RoutingTable, FiniteSets

CONSTANTS
    Lanes,              \* num_packet_processors tasks
    ChannelCapacity,    \* channel_capacity, of packet and broadcast channels
    Flows,              \* [src, dst, served]: served if dst_port is the server's
    Packets,            \* [flow, tree]: tree is lossless_fec_tree_id, or NoTree
    Slot,               \* the lane a jump hash gives a packet's flow and tree
    StartTable,         \* the routes the lanes have when the model starts
    GroupSource,        \* groups.src_node_id, of every group
    Updates,            \* messages the controller interface may publish
    MaxUpdates,         \* how many of them are explored
    MaxPackets          \* packets explored

ASSUME ChannelAssumption == ChannelCapacity \in Nat \ {0}
ASSUME PacketAssumption ==
    /\ Packets \subseteq [flow : Flows, tree : Nat \cup {NoTree}]
    /\ Slot \in [Packets -> Lanes]
\* Route ids are serial numbers of the database, far below the flag of trees;
\* the trees of a group belong to the source in the groups table, and only that
\* source sends packets that name a tree.
TreesFromSource(groups) ==
    \A p \in Packets : p.tree # NoTree /\ p.flow.dst \in DOMAIN groups
        => p.flow.src = GroupSource[groups[p.flow.dst]]
ASSUME UpdatesAssumption ==
    \A m \in Updates :
        /\ m.type = "UpdateRoutingTable" => \A i \in DOMAIN m.routes : m.routes[i].id \in 0 .. (Flag - 1)
        /\ m.type = "UpdateGroupDirectory" =>
              (\A a \in DOMAIN m.groups : m.groups[a] \in Nat) /\ TreesFromSource(m.groups)
        /\ m.type = "UpdateGroupRoutes" =>
              /\ m.group \in Nat /\ m.src = GroupSource[m.group]
              /\ \A i \in DOMAIN m.routes : m.routes[i].id \in Nat
ASSUME ProcessorBounds == MaxUpdates \in Nat /\ MaxPackets \in Nat

VARIABLES
    feature,            \* of the configuration: Sequential or Concurrent
    channel,            \* packet channels
    submitted,          \* packets accepted so far
    updates,            \* updates published so far
    log,                \* everything broadcast so far
    published,          \* auxiliary: the table after each prefix of the log
    pos,                \* how far each lane has read
    missed,             \* auxiliary: the messages each lane skipped
    lane,               \* where each lane's run loop is
    routing_table, schedulers, user_space_senders,
    packet_senders,     \* flow -> server, in the shared server handle
    ended,              \* flows whose server thread has ended
    started,            \* auxiliary: server threads started, by flow
    sent                \* auxiliary: packets handed to each peer's scheduler

laneVars == <<pos, missed, lane, routing_table, schedulers, user_space_senders>>
logVars == <<log, published>>
serverVars == <<packet_senders, ended, started>>
procVars == <<feature, channel, submitted, updates, logVars, laneVars, serverVars, sent>>

Shared == "shared"
Peers == Nodes \ {Local}

UpdateRoutingTable(routes) == [type |-> "UpdateRoutingTable", routes |-> routes]
UpdateGroupDirectory(groups) == [type |-> "UpdateGroupDirectory", groups |-> groups]
UpdateGroupRoutes(group, src, routes) ==
    [type |-> "UpdateGroupRoutes", group |-> group, src |-> src, routes |-> routes]
AddNode(n) == [type |-> "AddNode", node |-> n]
PinRoute(flow, id) == [type |-> "PinRouteForFlow", flow |-> flow, id |-> id]
ConnectUserSpaceSender(flow) == [type |-> "ConnectUserSpaceSender", flow |-> flow]
DisconnectUserSpaceSender(flow) == [type |-> "DisconnectUserSpaceSender", flow |-> flow]

-----------------------------------------------------------------------------
(* What the updates keep true of a table *)

Fields == {"available_routes", "route_next_hop", "group_dir", "cache", "multicast_tree_cache",
           "multicast_control_tree_cache"}

\* The id of a tree's route is the one its group and number give, so that
\* select_route_for_key may compute it instead of looking it up.
TreeRouteId(group, tree) == EncodeMulticastRouteId(DeterministicMulticastRouteId(group, tree))
TreeKeyOK(k) ==
    /\ k.group \in Nat /\ k.tree \in 0 .. (Stride - 1) /\ k.src = GroupSource[k.group]
    /\ k = Multicast(k.src, k.group, k.tree)
    /\ DeterministicMulticastRouteId(k.group, k.tree) # NoRoute

\* Ids of unicast routes and of trees are apart, every id with next hops is
\* listed, and a remembered tree has the id it would be given again.
TableOK(t) ==
    /\ DOMAIN t = Fields
    /\ \A k \in DOMAIN t.available_routes :
          /\ k.kind \in {"Unicast", "Multicast"}
          /\ k.kind = "Unicast" =>
                t.available_routes[k] \subseteq DOMAIN t.route_next_hop \cap (0 .. (Flag - 1))
          /\ k.kind = "Multicast" =>
                TreeKeyOK(k) /\ t.available_routes[k] = {TreeRouteId(k.group, k.tree)}
    /\ \A id \in DOMAIN t.route_next_hop :
          \/ id \in 0 .. (Flag - 1)
          \/ \E k \in DOMAIN t.available_routes :
                k.kind = "Multicast" /\ id \in t.available_routes[k]
    /\ \A k \in DOMAIN t.multicast_tree_cache :
          /\ DeterministicMulticastRouteId(k.group, k.tree) # NoRoute
          /\ t.multicast_tree_cache[k] = TreeRouteId(k.group, k.tree)
    /\ (\A a \in DOMAIN t.group_dir : t.group_dir[a] \in Nat) /\ TreesFromSource(t.group_dir)

ASSUME StartAssumption == TableOK(StartTable) /\ StartTable.cache = << >>

-----------------------------------------------------------------------------
(* ProcessorHandle *)

\* The updates of the routing table, and nothing else
Apply(t, m) ==
    CASE m.type = "UpdateRoutingTable" -> InstallRoutes(t, m.routes)
      [] m.type = "UpdateGroupDirectory" -> InstallGroupDirectory(t, m.groups)
      [] m.type = "UpdateGroupRoutes" -> InstallGroupRoutes(t, m.group, m.src, m.routes)
      [] m.type = "PinRouteForFlow" -> PinRouteForFlow(t, m.flow, m.id)
      [] OTHER -> t

Broadcast(m) ==
    /\ log' = Append(log, m)
    /\ published' = Insert(published, Len(log) + 1, Apply(published[Len(log)], m))

\* Slip: packets are spread over the lanes in turn
RoundRobin(p) ==
    IF feature = "Concurrent" THEN Shared
    ELSE IF submitted % 2 = 0 THEN Slot[p] ELSE CHOOSE l \in Lanes : TRUE

\* A packet goes to the lane of its flow and tree, or to the one channel.
ChannelFor(p) == IF feature = "Concurrent" THEN Shared ELSE Slot[p]

\* Packets are numbered as they are submitted.
Stamped(p, n) == [flow |-> p.flow, tree |-> p.tree, nr |-> n]

\* process_packet, process_packet_blocking and try_process_packet.  When the
\* channel is full the caller waits, or the packet is dropped or handed back:
\* nothing changes here.
Submit(p) ==
    LET c == ChannelFor(p) IN
    /\ submitted < MaxPackets
    /\ Len(channel[c]) < ChannelCapacity
    /\ submitted' = submitted + 1
    /\ channel' = [channel EXCEPT ![c] = Append(@, Stamped(p, submitted + 1))]
    /\ UNCHANGED <<feature, updates, logVars, laneVars, serverVars, sent>>

\* update_routing_table, add_node and the like
Publish(m) ==
    /\ updates < MaxUpdates
    /\ updates' = updates + 1
    /\ Broadcast(m)
    /\ UNCHANGED <<feature, channel, submitted, laneVars, serverVars, sent>>

-----------------------------------------------------------------------------
(* Packets *)

\* UserSpaceServerHandle::add_server, under the lock of packet_senders
AddServer(flow) ==
    IF flow \in packet_senders THEN UNCHANGED <<packet_senders, started, logVars>>
    ELSE /\ packet_senders' = packet_senders \cup {flow}
         /\ started' = [started EXCEPT ![flow] = @ + 1]
         /\ Broadcast(ConnectUserSpaceSender(flow))

\* Local delivery of a packet that is neither lossless nor for the TUN device
DeliverToUserSpace(l, flow) ==
    IF flow \in user_space_senders[l] \/ ~flow.served
    THEN UNCHANGED <<user_space_senders, packet_senders, started, logVars>>
    ELSE /\ AddServer(flow)
         /\ user_space_senders' = [user_space_senders EXCEPT ![l] = @ \cup {flow}]

\* Processor::process_packet and send_packet.  A peer without a scheduler gets
\* nothing.
ProcessPacket(l, p) ==
    LET t == routing_table[l]
        found == LookupRoutes(t, p.flow, p.tree)
    IN
    \E id \in IF found = {} THEN {NoRoute} ELSE found :
        LET t2 == Remember(t, p.flow, p.tree, id)
            hops == NextHops(t2, id)
        IN
        /\ routing_table' = [routing_table EXCEPT ![l] = t2]
        /\ sent' = [n \in Peers |-> IF n \in hops \cap schedulers[l]
                                    THEN Append(sent[n], p) ELSE sent[n]]
        /\ IF Local \in hops THEN DeliverToUserSpace(l, p.flow)
           ELSE UNCHANGED <<user_space_senders, packet_senders, started, logVars>>

ReadsFrom(l) == IF feature = "Concurrent" THEN Shared ELSE l

\* One packet of a batch.  The broadcast channel is not looked at until the
\* packet channel is empty.
TakePacket(l) ==
    LET c == ReadsFrom(l) IN
    /\ channel[c] # << >>
    /\ channel' = [channel EXCEPT ![c] = Tail(@)]
    /\ ProcessPacket(l, Head(channel[c]))
    /\ lane' = [lane EXCEPT ![l] = IF channel'[c] = << >> THEN "Select" ELSE "Batch"]
    /\ UNCHANGED <<feature, submitted, updates, pos, missed, schedulers, ended>>

BatchEnds(l) ==
    /\ lane[l] = "Batch"
    /\ channel[ReadsFrom(l)] = << >>
    /\ lane' = [lane EXCEPT ![l] = "Select"]
    /\ UNCHANGED <<feature, channel, submitted, updates, logVars, pos, missed, routing_table,
                   schedulers, user_space_senders, serverVars, sent>>

-----------------------------------------------------------------------------
(* Broadcast messages *)

HandleMessage(l, m) ==
    /\ routing_table' = [routing_table EXCEPT ![l] = Apply(@, m)]
    /\ schedulers' = [schedulers EXCEPT ![l] = IF m.type = "AddNode" THEN @ \cup {m.node} ELSE @]
    /\ user_space_senders' = [user_space_senders EXCEPT ![l] =
          CASE m.type = "ConnectUserSpaceSender" -> @ \cup {m.flow}
            [] m.type = "DisconnectUserSpaceSender" -> @ \ {m.flow}
            [] OTHER -> @]

Kept(i) == i > Len(log) - ChannelCapacity

\* Slip: only the newest message is kept, as in a watch channel
ReceiveNewest(l) ==
    /\ lane[l] = "Select"
    /\ pos[l] < Len(log)
    /\ pos' = [pos EXCEPT ![l] = Len(log)]
    /\ HandleMessage(l, log[Len(log)])
    /\ UNCHANGED <<feature, channel, submitted, updates, logVars, missed, lane, serverVars, sent>>

Receive(l) ==
    /\ lane[l] = "Select"
    /\ pos[l] < Len(log)
    /\ Kept(pos[l] + 1)
    /\ pos' = [pos EXCEPT ![l] = @ + 1]
    /\ HandleMessage(l, log[pos[l] + 1])
    /\ UNCHANGED <<feature, channel, submitted, updates, logVars, missed, lane, serverVars, sent>>

\* recv answers Lagged and moves to the oldest message kept; the pattern Ok(..)
\* fails, so that this select waits for a packet alone.
Lag(l) ==
    /\ lane[l] = "Select"
    /\ pos[l] < Len(log)
    /\ ~Kept(pos[l] + 1)
    /\ pos' = [pos EXCEPT ![l] = Len(log) - ChannelCapacity]
    /\ missed' = [missed EXCEPT ![l] = @ \cup (pos[l] + 1 .. Len(log) - ChannelCapacity)]
    /\ lane' = [lane EXCEPT ![l] = "PacketsOnly"]
    /\ UNCHANGED <<feature, channel, submitted, updates, logVars, routing_table, schedulers,
                   user_space_senders, serverVars, sent>>

\* A server thread ends with its connection.  Its entry in packet_senders stays.
ServerEnds(flow) ==
    /\ flow \in packet_senders \ ended
    /\ ended' = ended \cup {flow}
    /\ Broadcast(DisconnectUserSpaceSender(flow))
    /\ UNCHANGED <<feature, channel, submitted, updates, laneVars, packet_senders, started,
                   sent>>

-----------------------------------------------------------------------------
ProcInit ==
    /\ feature \in {"Sequential", "Concurrent"}
    /\ channel = [c \in Lanes \cup {Shared} |-> << >>]
    /\ submitted = 0 /\ updates = 0
    /\ log = << >> /\ published = [n \in {0} |-> StartTable]
    /\ pos = [l \in Lanes |-> 0]
    /\ missed = [l \in Lanes |-> {}]
    /\ lane = [l \in Lanes |-> "Select"]
    /\ routing_table = [l \in Lanes |-> StartTable]
    /\ schedulers = [l \in Lanes |-> {}]
    /\ user_space_senders = [l \in Lanes |-> {}]
    /\ packet_senders = {} /\ ended = {}
    /\ started = [f \in Flows |-> 0]
    /\ sent = [n \in Peers |-> << >>]

LaneNext(l) == TakePacket(l) \/ BatchEnds(l) \/ Receive(l) \/ Lag(l)

ProcNext ==
    \/ \E p \in Packets : Submit(p)
    \/ \E m \in Updates : Publish(m)
    \/ \E l \in Lanes : LaneNext(l)
    \/ \E f \in Flows : ServerEnds(f)

ProcSpec == ProcInit /\ [][ProcNext]_procVars

-----------------------------------------------------------------------------
(* Properties *)

ReadBy(l) == (1 .. pos[l]) \ missed[l]

\* The flow was pinned to the route, and no routes were installed since.
PinnedTo(l, flow, id) ==
    \E i \in ReadBy(l) :
        /\ log[i].type = "PinRouteForFlow" /\ log[i].flow = flow /\ log[i].id = id
        /\ \A j \in ReadBy(l) :
              j > i => log[j].type \notin {"UpdateRoutingTable", "UpdateGroupRoutes"}

\* A lookup answers with a route that the lane's table lists for the flow, or
\* that the flow has been pinned to since the last installation: no cache entry
\* outlives the routes it was filled from, even when ids are used again, and no
\* entry of another group's tree is taken for one of this group.
LookupsFollowTable ==
    \A l \in Lanes, p \in Packets :
        LET t == routing_table[l]
            key == LookupKey(t, p.flow, p.tree)
        IN \A id \in LookupRoutes(t, p.flow, p.tree) :
              \/ key \in DOMAIN t.available_routes /\ id \in t.available_routes[key]
              \/ PinnedTo(l, p.flow, id)

Routes(t) == <<t.available_routes, t.route_next_hop, t.group_dir>>
UnicastRoutes(t) ==
    [k \in UnicastKeys(t) |->
        [id \in t.available_routes[k] |-> t.route_next_hop[id]]]

\* Lanes that have read all updates route alike, whatever they looked up in
\* between: a lane that skipped none of them exactly as published, and one that
\* fell behind has the published unicast routes unless it skipped the last table.
LanesConverge ==
    \A l \in Lanes :
        LET newest == published[Len(log)]
            tables == {i \in DOMAIN log : log[i].type = "UpdateRoutingTable"}
        IN pos[l] = Len(log) =>
              /\ missed[l] = {} => Routes(routing_table[l]) = Routes(newest)
              /\ (\A i \in tables : (\A j \in tables : j <= i) => i \notin missed[l])
                     => UnicastRoutes(routing_table[l]) = UnicastRoutes(newest)

\* "The new server thread should only be created once for each flow ID",
\* although several lanes may ask for it before the first has been announced.
OneServerPerFlow == \A f \in Flows : started[f] <= 1

\* With one channel for each lane, the packets of a flow and tree reach a peer
\* in the order they were submitted, across table updates.
LaneOrder ==
    feature = "Sequential" =>
        \A n \in Peers : \A i, j \in DOMAIN sent[n] :
            i < j /\ sent[n][i].flow = sent[n][j].flow /\ sent[n][i].tree = sent[n][j].tree
                => sent[n][i].nr < sent[n][j].nr

\* The lanes agree: on the routes once they have read the updates, and on the
\* server of a flow at once (update handlers, add_server).
LanesAgree == LanesConverge /\ OneServerPerFlow

-----------------------------------------------------------------------------
(* What makes the three invariants inductive.  ProcessorProofs has the       *)
(* argument.                                                                 *)

ProcessorMessages ==
    Updates \cup {ConnectUserSpaceSender(f) : f \in Flows}
            \cup {DisconnectUserSpaceSender(f) : f \in Flows}
StampedPackets == [flow : Flows, tree : Nat \cup {NoTree}, nr : Nat]
PacketOf(q) == [flow |-> q.flow, tree |-> q.tree]

ProcTypeOK ==
    /\ feature \in {"Sequential", "Concurrent"}
    /\ channel \in [Lanes \cup {Shared} -> Seq(StampedPackets)]
    /\ \A c \in Lanes \cup {Shared} : \A i \in DOMAIN channel[c] : PacketOf(channel[c][i]) \in Packets
    /\ submitted \in Nat
    /\ log \in Seq(ProcessorMessages)
    /\ pos \in [Lanes -> Nat] /\ missed \in [Lanes -> SUBSET Nat]
    /\ \A l \in Lanes : pos[l] <= Len(log) /\ missed[l] \subseteq 1 .. pos[l]
    /\ DOMAIN routing_table = Lanes
    /\ packet_senders \subseteq Flows
    /\ started \in [Flows -> Nat]
    /\ sent \in [Peers -> Seq(StampedPackets)]

\* A server is started with its entry, under the lock.
ServersCounted == \A f \in Flows : started[f] = IF f \in packet_senders THEN 1 ELSE 0

\* Each lane's channel holds its own packets, in order, behind all that the
\* lane has sent.
LanesInOrder ==
    feature = "Sequential" =>
        /\ \A l \in Lanes : \A i \in DOMAIN channel[l] :
              /\ Slot[PacketOf(channel[l][i])] = l
              /\ channel[l][i].nr <= submitted
              /\ \A j \in DOMAIN channel[l] : i < j => channel[l][i].nr < channel[l][j].nr
        /\ \A n \in Peers : \A i \in DOMAIN sent[n] :
              /\ PacketOf(sent[n][i]) \in Packets
              /\ sent[n][i].nr <= submitted
              /\ LET l == Slot[PacketOf(sent[n][i])] IN
                 \A j \in DOMAIN channel[l] : sent[n][i].nr < channel[l][j].nr

IsTable(i) == log[i].type = "UpdateRoutingTable"

\* The published tables follow from each other; without a new one, the unicast
\* routes stay.
PublishedInOrder ==
    /\ DOMAIN published = 0 .. Len(log)
    /\ \A n \in 0 .. Len(log) : TableOK(published[n])
    /\ \A n \in 1 .. Len(log) : published[n] = Apply(published[n - 1], log[n])
    /\ \A m, n \in 0 .. Len(log) :
          m <= n /\ (\A i \in (m + 1) .. n : ~IsTable(i))
              => UnicastRoutes(published[m]) = UnicastRoutes(published[n])

\* A selection is a listed route of its pair of nodes, or a pin.
SelectionsListed(l) ==
    LET t == routing_table[l] IN
    \A flow \in DOMAIN t.cache :
        LET key == Unicast(flow.src, flow.dst) IN
        \/ key \in DOMAIN t.available_routes /\ t.cache[flow] \in t.available_routes[key]
        \/ PinnedTo(l, flow, t.cache[flow])

\* LanesConverge for a lane that still has messages to read
FollowsPublished(l) ==
    LET tables == {i \in 1 .. pos[l] : IsTable(i)} IN
    /\ missed[l] = {} => Routes(routing_table[l]) = Routes(published[pos[l]])
    /\ (\A i \in tables : (\A j \in tables : j <= i) => i \notin missed[l])
           => UnicastRoutes(routing_table[l]) = UnicastRoutes(published[pos[l]])

ProcInv ==
    /\ ProcTypeOK /\ ServersCounted /\ LanesInOrder /\ LaneOrder /\ PublishedInOrder
    /\ \A l \in Lanes :
          TableOK(routing_table[l]) /\ SelectionsListed(l) /\ FollowsPublished(l)
=============================================================================
