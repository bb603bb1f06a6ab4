--------------------------- MODULE MCControlPlane ---------------------------
(* Two nodes and one link, up to MaxOps updates, requests and crashes.  The  *)
(* controller finds an empty database or one with a group in it.            *)
EXTENDS ControlPlane

Preset(type, n) == [configured |-> TRUE, type |-> type, n |-> n]
TorusOf(dim, n) == [configured |-> TRUE, type |-> "torus", dim |-> dim, n |-> n]
FatTreeOf(k) == [configured |-> TRUE, type |-> "fat_tree", k |-> k]

\* The presets of at most nine nodes, and the fat trees of 5 and 20 switches
ASSUME SmallPresets ==
    /\ \A n \in 2 .. 5 : PresetConnected(Preset("full_mesh", n)) /\ PresetConnected(Preset("ring", n))
    /\ \A n \in 2 .. 3 : PresetConnected(TorusOf(1, n)) /\ PresetConnected(TorusOf(2, n))
    /\ PresetConnected(TorusOf(3, 2))
    /\ PresetConnected(FatTreeOf(2)) /\ PresetConnected(FatTreeOf(4))

\* Every shortest route between two nodes of a ring and of a fat tree, and a
\* custom route with a detour
ASSUME SmallRoutes ==
    /\ \A t \in {Preset("ring", 4), FatTreeOf(2)} :
          LET edges == BuildTopology(t, {}) IN
          \A a, b \in NodesOf(edges) :
             a # b => \A r \in BuildRoutesFromTopology(edges, a, b) : EntriesLeadToDestination(r)
    /\ \A r \in CustomRoute({<<1, 2>>, <<2, 4>>, <<1, 3>>, <<3, 4>>}) : EntriesLeadToDestination(r)
    /\ GroupIdsDistinct

const_TopologyEdges == BuildTopology(Preset("full_mesh", 2), {})
const_SeededRoutes == BuildRoutesFromTopology(const_TopologyEdges, 1, 2)
const_RouteChoices == {{[src |-> 2, dst |-> 1, edges |-> {<<2, 1>>}]}}
const_SeededFlows == {[id |-> 1, src |-> 1, dst |-> 2, transport |-> "Tcp"]}
const_LaterFlows == {[id |-> 2, src |-> 2, dst |-> 1, transport |-> "LosslessUnicast"]}
const_LinkRates == {<<1, 2>>}
TwoTrees == <<[id |-> 1, edges |-> << >>], [id |-> 0, edges |-> <<<<1, 2>>>>]>>
EmptyTree == <<[id |-> 0, edges |-> << >>]>>
const_StoredGroups == {NoGroup, [exists |-> TRUE, members |-> {2}, trees |-> EmptyTree]}
const_Requests ==
    {[node |-> 1, msg |-> [type |-> "CreateGroup"]]}
    \cup {[node |-> 2, msg |-> [type |-> t]] : t \in {"JoinGroup", "LeaveGroup"}}
    \cup {[node |-> 1, msg |-> [type |-> "SetGroupRoutes", trees |-> TwoTrees]]}

\* An empty database, no flows, and a node that creates the group while others start
NothingStored == {NoGroup}
CreateOnly == {[node |-> 1, msg |-> [type |-> "CreateGroup"]]}

\* A group that node 2 joins, and whose routes are set
GroupOfTwo == {r \in const_Requests : r.msg.type # "LeaveGroup"}
=============================================================================
