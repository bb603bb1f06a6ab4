----------------------------- MODULE Topologies -----------------------------
(***************************************************************************)
(* The topology presets of the controller (controller/src/topology) and    *)
(* the node count it derives from them (controller/src/config.rs): sets of *)
(* edges between the node ids 1, 2, ...                                    *)
(***************************************************************************)
EXTENDS Integers, FiniteSets

NoTopology == {}                       \* build() = Err, or build_topology = None
NoCount == -1                          \* compute_node_count = None

FullMesh(n) == {e \in (1 .. n) \X (1 .. n) : e[1] < e[2]}

Ring(n) == {<<i, IF i = n THEN 1 ELSE i + 1>> : i \in 1 .. n}

\* A coordinate vector of `dim` digits in base n is the node whose id is its
\* value plus one; every node has an edge to its successor in each dimension.
TorusIndex(v, dim, n) ==
    1 + v[1] + (IF dim > 1 THEN v[2] * n ELSE 0) + (IF dim > 2 THEN v[3] * n * n ELSE 0)

Torus(dim, n) ==
    IF dim \notin 1 .. 3 \/ n = 0 THEN NoTopology
    ELSE {<<TorusIndex(v, dim, n), TorusIndex([v EXCEPT ![d] = (@ + 1) % n], dim, n)>> :
            v \in [1 .. dim -> 0 .. n - 1], d \in 1 .. dim}

\* Edge switches, then aggregation switches, then core switches.
FatTree(k) ==
    LET layer == (k * k) \div 2
        perPod == k \div 2
        perAgg == ((k * k) \div 4) \div perPod
        EdgeToAgg == {<<s + 1, layer + (s \div perPod) * perPod + j + 1>> :
                        s \in 0 .. layer - 1, j \in 0 .. perPod - 1}
        AggToCore == {<<a + 1, 2 * layer + (a % perPod) * perAgg + j + 1>> :
                        a \in layer .. 2 * layer - 1, j \in 0 .. perAgg - 1}
    IN  IF k = 0 \/ k % 2 = 1 THEN NoTopology ELSE EdgeToAgg \cup AggToCore

\* What the topology section of the configuration asks for
PresetEdges(t) ==
    CASE t.type = "full_mesh" -> FullMesh(t.n)
      [] t.type = "ring" -> Ring(t.n)
      [] t.type = "torus" -> Torus(t.dim, t.n)
      [] t.type = "fat_tree" -> FatTree(t.k)
      [] OTHER -> NoTopology

\* Edges are undirected: kept with the smaller id first, without duplicates.
\* A preset without its own section yields no topology at all.
BuildTopology(t, custom) ==
    IF ~t.configured THEN NoTopology
    ELSE {IF e[1] <= e[2] THEN e ELSE <<e[2], e[1]>> : e \in PresetEdges(t) \cup custom}

ComputeNodeCount(t) ==
    IF ~t.configured THEN NoCount
    ELSE CASE t.type \in {"full_mesh", "ring"} -> t.n
           [] t.type = "torus" -> t.n ^ t.dim
           [] t.type = "fat_tree" -> (t.k * t.k * t.k) \div 4 + (5 * t.k * t.k) \div 4
           [] OTHER -> t.n             \* no preset: n_nodes of the section

NodesOf(edges) == {e[1] : e \in edges} \cup {e[2] : e \in edges}

\* The neighbours of a node: a self-loop makes a node its own neighbour.
BuildNeighborIndex(edges) ==
    [n \in NodesOf(edges) |-> {m \in NodesOf(edges) : <<n, m>> \in edges \/ <<m, n>> \in edges}]
=============================================================================
