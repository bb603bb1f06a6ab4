---------------------------- MODULE RoutingTable ----------------------------
(***************************************************************************)
(* The routing table of a data-plane node (dataplane/src/node/route.rs) as *)
(* a value: the operators take a table and return the table the method     *)
(* leaves behind.  A lookup changes the table too, by filling its caches.  *)
(*                                                                         *)
(* A flow is its source and destination address, reduced to the node or    *)
(* group the address belongs to, and whether its destination port is the   *)
(* user-space server's.  Next hops are a set, and so are the route ids of  *)
(* a key, whose order only feeds a hash.                                   *)
(***************************************************************************)
EXTENDS Integers, Sequences

CONSTANTS
    Nodes,
    Local,          \* local_id
    Invalid,        \* INVALID: no node has this id
    Stride,         \* MULTITREE_STRIDE
    Flag            \* MULTICAST_ROUTE_FLAG

ASSUME LocalAssumption == Local \in Nodes /\ Invalid \notin Nodes
ASSUME StrideAssumption == Stride \in Nat \ {0} /\ Flag \in Nat

NoTree == -1        \* tree_id: None
NoRoute == -1

Unicast(src, dst) == [kind |-> "Unicast", src |-> src, dst |-> dst]
Multicast(src, group, tree) ==
    [kind |-> "Multicast", src |-> src, group |-> group, tree |-> tree]
NoKey == [kind |-> "None"]

NewTable ==
    [available_routes |-> << >>, route_next_hop |-> << >>, group_dir |-> << >>, cache |-> << >>,
     multicast_tree_cache |-> << >>, multicast_control_tree_cache |-> << >>]

-----------------------------------------------------------------------------
(* Route ids of multicast trees *)

\* An id below the flag, so that | and + agree.
EncodeMulticastRouteId(id) == Flag + id

DeterministicMulticastRouteId(group, tree) ==
    IF tree < Stride /\ group * Stride + tree < Flag THEN group * Stride + tree ELSE NoRoute

TreeIdFromRouteId(group, id) ==
    IF id - group * Stride \in 0 .. (Stride - 1) THEN id - group * Stride ELSE NoTree

\* The tests install_group_routes makes before it accepts an entry.
ValidTreeRoute(group, route) ==
    LET tree == TreeIdFromRouteId(group, route.id) IN
    tree # NoTree /\ DeterministicMulticastRouteId(group, tree) = route.id

-----------------------------------------------------------------------------
(* Updates *)

\* Removal, insertion and extension of a map
Drop(f, S) == [x \in DOMAIN f \ S |-> f[x]]
Insert(f, k, v) == [x \in DOMAIN f \cup {k} |-> IF x = k THEN v ELSE f[x]]
Extend(f, g) == [x \in DOMAIN f \cup DOMAIN g |-> IF x \in DOMAIN g THEN g[x] ELSE f[x]]

UnicastKeys(t) == {k \in DOMAIN t.available_routes : k.kind = "Unicast"}
RouteIds(t, keys) == UNION {t.available_routes[k] : k \in keys}

\* What a list of routes says: the ids of a pair of nodes, and the next hops of
\* an id, for which the last entry counts.
KeyOf(r) == Unicast(r.src, r.dst)
IdsFor(routes, key) ==
    {routes[i].id : i \in {i \in DOMAIN routes : KeyOf(routes[i]) = key}}
HopsFor(routes, id) ==
    LET last == CHOOSE i \in DOMAIN routes :
                    /\ routes[i].id = id
                    /\ \A j \in DOMAIN routes : routes[j].id = id => j <= i
    IN routes[last].hops

\* The unicast routes are replaced, after their keys and next hops are purged.
ReplaceUnicast(t, routes) ==
    LET old == UnicastKeys(t)
        keys == {KeyOf(routes[i]) : i \in DOMAIN routes}
        ids == {routes[i].id : i \in DOMAIN routes}
    IN [t EXCEPT
          !.available_routes = Extend(Drop(@, old), [k \in keys |-> IdsFor(routes, k)]),
          !.route_next_hop =
              Extend(Drop(@, RouteIds(t, old)), [id \in ids |-> HopsFor(routes, id)])]

\* Slip: selections survive the new routes
InstallRoutesKeepCache(t, routes) == ReplaceUnicast(t, routes)

InstallRoutes(t, routes) == [ReplaceUnicast(t, routes) EXCEPT !.cache = << >>]

InstallGroupDirectory(t, groups) == [t EXCEPT !.group_dir = groups]

\* All trees of one (source, group) are replaced; the other caches of the group
\* and every unicast selection are dropped.  The id of an entry that is accepted
\* is the one that follows from group and tree.
InstallGroupRoutes(t, group, src, routes) ==
    LET old == {k \in DOMAIN t.available_routes :
                    k.kind = "Multicast" /\ k.src = src /\ k.group = group}
        ids == {routes[i].id : i \in {i \in DOMAIN routes : ValidTreeRoute(group, routes[i])}}
        keys == {Multicast(src, group, TreeIdFromRouteId(group, id)) : id \in ids}
    IN [t EXCEPT
          !.available_routes =
              Extend(Drop(@, old),
                     [k \in keys |->
                         {EncodeMulticastRouteId(DeterministicMulticastRouteId(group, k.tree))}]),
          !.route_next_hop =
              Extend(Drop(@, RouteIds(t, old)),
                     [e \in {EncodeMulticastRouteId(id) : id \in ids} |-> HopsFor(routes, e - Flag)]),
          !.cache = << >>,
          !.multicast_tree_cache =
              Drop(@, {k \in DOMAIN t.multicast_tree_cache : k.src = src /\ k.group = group}),
          !.multicast_control_tree_cache = Drop(@, {<<src, group>>})]

\* The pin is refused unless the route exists and leads somewhere.
PinRouteForFlow(t, flow, id) ==
    IF id \in DOMAIN t.route_next_hop /\ t.route_next_hop[id] # {}
       /\ Invalid \notin t.route_next_hop[id]
    THEN [t EXCEPT !.cache = Insert(@, flow, id)]
    ELSE t

-----------------------------------------------------------------------------
(* Lookup *)

\* Only addresses in the group directory are groups.
KeyForFlow(t, flow, tree) ==
    IF flow.dst \in DOMAIN t.group_dir
    THEN IF flow.src = Invalid THEN NoKey
         ELSE Multicast(flow.src, t.group_dir[flow.dst], IF tree = NoTree THEN 0 ELSE tree)
    ELSE IF {flow.src, flow.dst} \subseteq Nodes THEN Unicast(flow.src, flow.dst)
    ELSE NoKey

\* The remembered control tree while it is installed, otherwise the smallest.
\* (InstallGroupRoutes forgets it together with the trees it came from.)
ControlTree(t, src, group) ==
    LET installed == {k.tree : k \in {k \in DOMAIN t.available_routes :
                          k.kind = "Multicast" /\ k.src = src /\ k.group = group}}
        remembered == {t.multicast_control_tree_cache[k] :
                          k \in {<<src, group>>} \cap DOMAIN t.multicast_control_tree_cache}
    IN IF remembered \cap installed # {} THEN CHOOSE n \in remembered : TRUE
       ELSE IF installed = {} THEN NoTree
       ELSE CHOOSE n \in installed : \A m \in installed : n <= m

\* The key a lookup works with: control frames name no tree.
LookupKey(t, flow, tree) ==
    LET key == KeyForFlow(t, flow, tree) IN
    IF key.kind # "Multicast" \/ tree # NoTree THEN key
    ELSE LET control == ControlTree(t, key.src, key.group) IN
         IF control = NoTree THEN NoKey ELSE [key EXCEPT !.tree = control]

\* A jump hash picks among several unicast routes: any of them.  The id of a
\* tree's route follows from group and tree.
SelectableRoutes(t, key) ==
    CASE key.kind = "Unicast" ->
            IF key \in DOMAIN t.available_routes THEN t.available_routes[key] ELSE {}
      [] key.kind = "Multicast" ->
            LET id == DeterministicMulticastRouteId(key.group, key.tree)
                cached == {t.multicast_tree_cache[k] : k \in {key} \cap DOMAIN t.multicast_tree_cache}
                          \cap DOMAIN t.route_next_hop
            IN IF cached # {} THEN cached
               ELSE IF id = NoRoute THEN {}
               ELSE {EncodeMulticastRouteId(id)} \cap DOMAIN t.route_next_hop
      [] OTHER -> {}

\* The route ids get_next_hops_by_flow_and_tree may answer with: the cached one
\* while it has next hops, else one of those available.
LookupRoutes(t, flow, tree) ==
    LET key == LookupKey(t, flow, tree) IN
    IF /\ key.kind = "Unicast"
       /\ flow \in DOMAIN t.cache
       /\ t.cache[flow] \in DOMAIN t.route_next_hop
    THEN {t.cache[flow]}
    ELSE SelectableRoutes(t, key)

\* The table after a lookup that answered with id.  The control tree is
\* remembered even if its route turns out to be missing.
Remember(t, flow, tree, id) ==
    LET key == LookupKey(t, flow, tree) IN
    CASE key.kind = "Unicast" /\ id # NoRoute -> [t EXCEPT !.cache = Insert(@, flow, id)]
      [] key.kind = "Multicast" ->
            [t EXCEPT !.multicast_control_tree_cache =
                          IF tree = NoTree THEN Insert(@, <<key.src, key.group>>, key.tree) ELSE @,
                      !.multicast_tree_cache =
                          IF id # NoRoute THEN Insert(@, key, id) ELSE @]
      [] OTHER -> t

\* copy_next_hops: a route that is invalid at this node has no next hops here.
NextHops(t, id) ==
    IF id = NoRoute \/ id \notin DOMAIN t.route_next_hop THEN {}
    ELSE IF Invalid \in t.route_next_hop[id] THEN {} ELSE t.route_next_hop[id]
=============================================================================
