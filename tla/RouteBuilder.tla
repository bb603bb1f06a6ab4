---------------------------- MODULE RouteBuilder ----------------------------
(***************************************************************************)
(* How the controller turns routes into per-node entries                   *)
(* (controller/src/utils.rs, routing.rs): a route is a directed graph, and *)
(* a node's entry holds the next hops it has in that graph.                *)
(***************************************************************************)
EXTENDS Topologies, Sequences, SequencesExt

CONSTANTS
    TreeStride,     \* MULTITREE_STRIDE: route ids per group
    RouteFlag,      \* MULTICAST_ROUTE_FLAG: multicast route ids stay below it
    HostMask        \* !mask of the multicast pool: its host bits, 2^k - 1

ASSUME TreeStrideAssumption == TreeStride \in Nat \ {0} /\ RouteFlag \in Nat
ASSUME HostMaskAssumption == HostMask \in Nat

NoId == -1                             \* Err(_) of a route id computation
Panic == {<<"panic">>}                 \* "No path can be found."

-----------------------------------------------------------------------------
(* Graphs: sets of directed edges *)

Out(edges, n) == {e[2] : e \in {d \in edges : d[1] = n}}
In(edges, n) == {e[1] : e \in {d \in edges : d[2] = n}}
Sinks(edges) == {n \in NodesOf(edges) : Out(edges, n) = {} /\ In(edges, n) # {}}
Sources(edges) == {n \in NodesOf(edges) : In(edges, n) = {} /\ Out(edges, n) # {}}

\* Everything a depth-first search from n visits
Reachable(edges, n) ==
    LET step[i \in Nat] ==
            IF i = 0 THEN {n}
            ELSE LET met == step[i - 1] IN met \cup UNION {Out(edges, m) : m \in met}
    IN  step[Cardinality(NodesOf(edges))]

-----------------------------------------------------------------------------
(* Routes *)

RouteHasMultipleDestinations(route) ==
    /\ route.src \in NodesOf(route.edges)
    /\ Cardinality(Reachable(route.edges, route.src) \cap Sinks(route.edges)) > 1

\* A* with unit costs: one of the shortest paths, which one is its business.
Walks(edges, a, b, k) ==
    {p \in [1 .. k + 1 -> NodesOf(edges)] :
        /\ p[1] = a /\ p[k + 1] = b
        /\ \A i \in 1 .. k : <<p[i], p[i + 1]>> \in edges}

ShortestPaths(edges, a, b) ==
    LET lengths == {k \in 0 .. Cardinality(NodesOf(edges)) : Walks(edges, a, b, k) # {}} IN
    IF lengths = {} THEN Panic
    ELSE Walks(edges, a, b, CHOOSE k \in lengths : \A l \in lengths : k <= l)

Bidirectional(edges) == edges \cup {<<e[2], e[1]>> : e \in edges}

\* The routes one ordered pair of nodes can get from the topology
BuildRoutesFromTopology(edges, src, dst) ==
    LET paths == ShortestPaths(Bidirectional(edges), src, dst) IN
    IF paths = Panic THEN Panic
    ELSE {[src |-> src, dst |-> dst, edges |-> {<<p[i], p[i + 1]>> : i \in 1 .. Len(p) - 1}] :
            p \in paths}

\* A route of the configuration: its ends are the first source and the first
\* sink of its graph, in the order of the node ids.
CustomRoute(edges) ==
    LET First(S) == CHOOSE n \in S : \A m \in S : n <= m IN
    IF Sources(edges) = {} \/ Sinks(edges) = {} THEN {}
    ELSE {[src |-> First(Sources(edges)), dst |-> First(Sinks(edges)), edges |-> edges]}

\* build_routes_for_node for one route: no entry off the route, local delivery
\* at its sinks, the distinct successors everywhere else.
RouteEntry(route, n) ==
    LET hops == IF n \in Sinks(route.edges) THEN {n} ELSE Out(route.edges, n) IN
    IF hops = {} THEN {}
    ELSE {[src |-> route.src, dst |-> route.dst, hops |-> hops,
           mode |-> IF RouteHasMultipleDestinations(route) THEN "Multicast" ELSE "Unicast"]}

-----------------------------------------------------------------------------
(* Multicast groups: a group has trees, [id, edges], and members *)

ComputeMultitreeRouteId(group, tree) ==
    IF tree >= TreeStride \/ group * TreeStride + tree >= RouteFlag THEN NoId
    ELSE group * TreeStride + tree

\* Sorted by tree id, without duplicates and with a route id each; the trees
\* of a request come as a sequence.
ValidTrees(group, trees) ==
    /\ \A i, j \in DOMAIN trees : trees[i].id = trees[j].id => i = j
    /\ \A i \in DOMAIN trees : ComputeMultitreeRouteId(group, trees[i].id) # NoId

CanonicalizeGroupRouteTrees(trees) == SortSeq(trees, LAMBDA s, t : s.id < t.id)

\* The successors of a node, latest edge first (an edge listed twice counts
\* twice), then the node itself when it is a member.
GroupNextHops(edges, n, members) ==
    LET from == SelectSeq(Reverse(edges), LAMBDA e : e[1] = n) IN
    [i \in DOMAIN from |-> from[i][2]] \o (IF n \in members THEN <<n>> ELSE << >>)

BuildGroupRoutesForNode(group, trees, n, members) ==
    LET entry(t) == [id |-> ComputeMultitreeRouteId(group, t.id),
                     hops |-> GroupNextHops(t.edges, n, members)]
        sorted == CanonicalizeGroupRouteTrees(trees)
    IN  SelectSeq([i \in DOMAIN sorted |-> entry(sorted[i])], LAMBDA r : r.hops # << >>)

\* create_group: the id comes from a sequence, the address from the id.
MaxGroupId == IF RouteFlag \div TreeStride = 0 THEN 0 ELSE RouteFlag \div TreeStride - 1
AllocateMulticastIp(id) == IF HostMask = 0 THEN 0 ELSE (id - 1) % (HostMask + 1)

-----------------------------------------------------------------------------
(* What the operators above are for *)

\* The presets are connected over exactly the nodes 1, 2, ... that they are
\* made of, so that no pair of nodes makes compute_route panic; except for the
\* servers of a fat tree, compute_node_count expects just these.
PresetConnected(t) ==
    LET edges == BuildTopology(t, {})
        nodes == IF t.type = "fat_tree" THEN 1 .. (5 * t.k * t.k) \div 4
                 ELSE 1 .. ComputeNodeCount(t)
    IN  NodesOf(edges) = nodes /\ \A n \in nodes : Reachable(Bidirectional(edges), n) = nodes

\* Packets that follow the entries of a route from its source meet a node with
\* an entry wherever they get, never come back to a node they left, and end at
\* the destination (build_routes_from_topology, build_routes_for_node).
EntriesLeadToDestination(route) ==
    LET hops(n) == UNION {r.hops : r \in RouteEntry(route, n)} \ {n}
        met == Reachable(route.edges, route.src)
    IN  /\ \A n \in met : /\ RouteEntry(route, n) # {}
                          /\ \A m \in hops(n) : n \notin Reachable(route.edges, m)
                          /\ hops(n) = {} <=> n = route.dst
        /\ route.dst \in met

\* Trees of groups that create_group lets in have route ids of their own, and
\* groups addresses of their own until the pool is used up.
GroupIdsDistinct ==
    LET ids == (1 .. MaxGroupId) \X (0 .. TreeStride - 1) IN
    /\ \A p, q \in ids : /\ ComputeMultitreeRouteId(p[1], p[2]) # NoId
                         /\ ComputeMultitreeRouteId(p[1], p[2]) = ComputeMultitreeRouteId(q[1], q[2])
                                => p = q
    /\ \A g, h \in 1 .. MaxGroupId :
          AllocateMulticastIp(g) = AllocateMulticastIp(h) /\ g # h
              => g > HostMask + 1 \/ h > HostMask + 1
=============================================================================
