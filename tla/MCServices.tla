----------------------------- MODULE MCServices -----------------------------
(***************************************************************************)
(* Services, and LocalWriter as one more part, on small instances.         *)
(***************************************************************************)
EXTENDS Services, LocalWriter, TLC

(* SessionPlan: objects of up to ten bytes, some configurations on the edge  *)
(* of what the preflight accepts.                                            *)
Configs ==
    [block_size : 0 .. 4, fec_enabled : BOOLEAN, symbols_per_block : 0 .. 2,
     tree_ids : {<< >>, <<0>>, <<0, 2>>, <<2, 2>>, <<0, 1, 2>>}]
ASSUME SmallLayouts ==
    /\ \A total \in 0 .. 10, size \in 1 .. 4 : PlanTiles(BlockPlan(total, size))
    /\ \A size, symbols \in 1 .. 6 : SymbolsHoldBlock(size, symbols)
    /\ \A c \in Configs, total \in 0 .. 10 : EndsAgree(c, total)

(* StreamLink: two clients, one of which sends packets of three sizes and  *)
(* two probe trains.                                                       *)
const_Traffic ==
    <<[size |-> 2, probe |-> 1, last |-> FALSE], [size |-> 1, probe |-> 1, last |-> TRUE],
      [size |-> 3, probe |-> 0, last |-> FALSE], [size |-> 2, probe |-> 2, last |-> TRUE]>>

(* TunWriter: a stream of three packets that crosses the end of the        *)
(* sequence space, the first one sent twice; ordered, with limits for time *)
(* and backlog, and not ordered at all.  Without a limit for the time the  *)
(* writer does what it does here while no deadline passes.                 *)
const_Sizes == <<1, 2, 1>>
Setting(enforce, delay, held) ==
    [enforce_tcp_order |-> enforce, delay_tolerance |-> delay, backlog_tolerance |-> held]
Unordered == Setting(FALSE, 1, 2)
const_Settings == {Setting(TRUE, 1, 3), Unordered}
const_Copies == [p \in 0 .. 4 |-> IF p = 1 THEN 2 ELSE 1]

(* Connector: a source, a relay and a destination.                         *)
const_Path == <<1, 2, 3>>

(* UserFlows: TCP flows by length and by duration, lossless flows with and *)
(* without a length; two runs at a time, of the same flow too.             *)
const_Bytes == 1 :> 2 @@ 2 :> 0 @@ 3 :> 5 @@ 4 :> 0

(* The writer rests while another part runs.                               *)
MCInit ==
    \/ Init /\ TW!Init /\ tolerances = TW!ReorderTolerances(Unordered)
    \/ /\ part = "tun" /\ TW!Init
       /\ NeedOff /\ StatsOff /\ MaxOff /\ StreamOff /\ UdpOff /\ FlowsOff

MCNext ==
    \/ Next /\ UNCHANGED tunVars
    \/ part = "tun" /\ TW!Next /\ UNCHANGED vars

MCSpec == MCInit /\ [][MCNext]_<<vars, tunVars>>
=============================================================================
