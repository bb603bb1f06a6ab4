----------------------------- MODULE MCNodeTasks -----------------------------
(* The packet processors of a node and the actor of its lossless sessions,   *)
(* on small instances.  They share no state here: the initial state picks    *)
(* the one that runs.                                                        *)
EXTENDS Processor, MCLosslessRuntime, TLC

CONSTANTS here, peer, group, l1, l2

\* A flow for the local server, one through the peer, one to the group.
ToServer == [src |-> peer, dst |-> here, served |-> TRUE]
ToPeer == [src |-> here, dst |-> peer, served |-> FALSE]
ToGroup == [src |-> here, dst |-> group, served |-> FALSE]
MCFlows == {ToServer, ToPeer, ToGroup}

\* Control frames to the group name no tree.
OnTree(flow, tree) == [flow |-> flow, tree |-> tree]
MCPackets == {OnTree(f, NoTree) : f \in MCFlows} \cup {OnTree(ToGroup, 1)}
MCSlot == [p \in MCPackets |-> IF p.flow = ToPeer \/ p.tree = 1 THEN l2 ELSE l1]

Route(id, src, dst, hops) == [id |-> id, src |-> src, dst |-> dst, hops |-> hops]
TreeRoute(id, hops) == [id |-> id, hops |-> hops]

\* The second table uses the ids of the first for other routes.  Group 1 has
\* trees 0 and 1; the third entry of its first routes belongs to no tree of it.
Table == UpdateRoutingTable(<<Route(1, here, peer, {peer}), Route(2, peer, here, {here})>>)
Trees == UpdateGroupRoutes(1, here, <<TreeRoute(3, {peer}), TreeRoute(2, {peer, here}),
                                      TreeRoute(7, {peer})>>)
MCStartTable ==
    Apply(Apply(InstallGroupDirectory(NewTable, group :> 1), Table), Trees)
MCGroupSource == (1 :> here)
MCUpdates ==
    {UpdateRoutingTable(<<Route(2, here, peer, {peer}), Route(1, peer, here, {here}),
                          Route(3, here, peer, {Invalid})>>),
     UpdateGroupRoutes(1, here, <<TreeRoute(3, {here})>>),
     AddNode(peer), PinRoute(ToPeer, 1)}

-----------------------------------------------------------------------------
VARIABLE part

\* Two incarnations of one session, neither of which may be aborted
MCReceiverSymmetry == Permutations({r1, r2})

\* One of the two handles of a node's processors is enough while they rest.
NodeInit ==
    /\ ProcInit /\ RuntimeInit
    /\ \/ part = "processors"
       \/ part = "runtime" /\ feature = "Sequential"

NodeNext ==
    /\ UNCHANGED part
    /\ \/ part = "processors" /\ ProcNext /\ UNCHANGED runtimeVars
       \/ part = "runtime" /\ RuntimeNext /\ UNCHANGED procVars

NodeSpec == NodeInit /\ [][NodeNext]_<<part, procVars, runtimeVars>>
=============================================================================
