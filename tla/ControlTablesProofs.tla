------------------------- MODULE ControlTablesProofs -------------------------
(***************************************************************************)
(* Proofs about what reaches the nodes of the tables of the controller:    *)
(* the flows they are to start and the routes they hold.                   *)
(***************************************************************************)
EXTENDS ControlPlaneProofs

USE ControllerAssumption, ControlPlaneAssumption

-----------------------------------------------------------------------------
(* What others do to the tables *)

LEMMA ShapeInit == Init => TablesShape
BY DEF Init, ControllerInit, TablesShape, Idle

LEMMA ShapeStep == ASSUME TablesShape, [Next]_vars PROVE TablesShape'
<1>1. ASSUME NEW c \in Conns, HandlerStep(c) PROVE TablesShape'
  BY <1>1 DEF TablesShape, HandlerStep, RegisterNode, UpsertNode, ReadNeighbors, SendAddNode,
     ReadRoutes, SendRoutes, SendMulticastState, NodeTopologyReady, CreateGroup, JoinGroup,
     LeaveGroup, ChangeMembership, SetGroupRoutes, NotifyGroupRoutes, CloseConnection
<1>2. CASE SyncStep
  BY <1>2 DEF TablesShape, SyncStep, SyncReadRoutes, SyncSendRoutes, SyncReadGroup, SyncSendGroup,
     SyncFlow, SyncLeaves
<1>3. CASE CoordinatorStep
  BY <1>3 DEF TablesShape, CoordinatorStep, NodeConnected, NodeLocallyReady, SendLinkRates,
     SendFlows, CheckReadyAfterDispatch, TakeEvent, coordFrame
<1>4. ASSUME NEW n \in NodeIds, StartNode(n) \/ NodeStep(n) PROVE UNCHANGED <<notified, sync>>
  BY <1>4 DEF StartNode, NodeStep, TakeResponse, AddNode, SetLinkRate, InstallRoutes, AddFlows,
     TopologyReady, InstallGroupDirectory, InstallGroupRoutes, IgnoreMessage, Next1, tables
<1>5. ASSUME NEW n \in NodeIds, NEW m \in NodeIds, AcceptLink(n, m) PROVE UNCHANGED <<notified, sync>>
  BY <1>5 DEF AcceptLink, tables
<1>6. ASSUME NEW rs, UpdateRoutes(rs) PROVE TablesShape'
  BY <1>6 DEF TablesShape, UpdateRoutes, outsideFrame
<1>7. ASSUME NEW f, InsertFlow(f) PROVE TablesShape'
  BY <1>7 DEF TablesShape, InsertFlow, outsideFrame
<1>8. ASSUME NEW r, Request(r) PROVE UNCHANGED <<notified, sync>>
  BY <1>8 DEF Request, tables
<1>9. ASSUME NEW n, Crash(n) PROVE UNCHANGED <<notified, sync>>
  BY <1>9 DEF Crash, tables
<1>10. UNCHANGED <<notified, sync>> => TablesShape'
  BY DEF TablesShape
<1>11. CASE UNCHANGED vars
  BY <1>10, <1>11 DEF vars, controllerVars
<1> QED
  BY <1>1, <1>2, <1>3, <1>4, <1>5, <1>6, <1>7, <1>8, <1>9, <1>10, <1>11
  DEF Next, SystemStep, OutsideStep

-----------------------------------------------------------------------------
(* The flows on their way to a node *)

\* A message that will be read
Awaits(n, m) ==
    \E i \in DOMAIN wire[Conn(n)] : wire[Conn(n)][i] = m /\ (dp[n].phase = "starting" => i # 1)

LEMMA AheadFacts ==
    ASSUME NEW n, NEW f
    PROVE  FlowAhead(n, f) <=>
              \/ f \in Range(dp[n].started) \/ f \in Range(dp[n].pending)
              \/ \E m : m.type = "AddFlows" /\ f \in m.flows /\ Awaits(n, m)
BY DEF FlowAhead, Awaits

LEMMA AwaitsDelivered ==
    ASSUME AdmissionInv, FirstLife, NEW ms, Delivers(ms), UNCHANGED dp,
           NEW n \in NodeIds, dp[n].phase # "down", NEW m
    PROVE  /\ Awaits(n, m) => Awaits(n, m)'
           /\ \A i \in DOMAIN ms[Conn(n)] :
                 /\ ms[Conn(n)][i] = m
                 /\ dp[n].phase = "starting" => wire[Conn(n)] # << >>
                 => Awaits(n, m)'
<1> DEFINE v == wire[Conn(n)]
           s == ms[Conn(n)]
           w == wire'[Conn(n)]
<1>1. Conn(n) \in Conns /\ Conn(n)' = Conn(n)
  BY OwnerIsConn DEF Conn
<1>2. IsSequence(v) /\ IsSequence(s) /\ w = v \o s
  BY <1>1 DEF FirstLife, Delivers
<1>3. Awaits(n, m)' <=> \E i \in DOMAIN w : w[i] = m /\ (dp[n].phase = "starting" => i # 1)
  BY <1>1 DEF Awaits
<1>4. Awaits(n, m) <=> \E i \in DOMAIN v : v[i] = m /\ (dp[n].phase = "starting" => i # 1)
  BY DEF Awaits
<1> HIDE DEF v, s, w
<1>5. \A i \in DOMAIN v : i \in DOMAIN w /\ w[i] = v[i]
  BY <1>2, ConcatSeq
<1>6. \A i \in DOMAIN s : Len(v) + i \in DOMAIN w /\ w[Len(v) + i] = s[i]
  BY <1>2, ConcatSeq
<1>7. /\ Len(v) \in Nat /\ (v # << >> => Len(v) # 0)
      /\ DOMAIN s = 1 .. Len(s) /\ Len(s) \in Nat
  BY <1>2, SeqFacts
<1>8. \A i \in DOMAIN s : v # << >> => Len(v) + i # 1
  BY <1>7
<1>9. Awaits(n, m) => Awaits(n, m)'
  BY <1>3, <1>4, <1>5
<1>10. ASSUME NEW i \in DOMAIN s, s[i] = m, dp[n].phase = "starting" => v # << >>
       PROVE  Awaits(n, m)'
  BY <1>3, <1>6, <1>8, <1>10
<1> QED
  BY <1>9, <1>10 DEF v, s

\* Reading brings a message forward or handles it.
LEMMA AwaitsTaken ==
    ASSUME AdmissionInv, FirstLife, NEW n \in NodeIds, NodeStep(n), NEW m, Awaits(n, m)
    PROVE  Awaits(n, m)' \/ (dp[n].phase = "up" /\ Head(wire[Conn(n)]) = m)
<1> DEFINE v == wire[Conn(n)]
           w == wire'[Conn(n)]
<1>1. /\ Conn(n) \in Conns /\ v # << >> /\ w = Tail(v)
      /\ \A k \in NodeIds : dp'[k].starts = dp[k].starts
      /\ dp'[n].phase = "up" /\ dp[n].phase # "down"
  BY NodeTakes
<1>2. Conn(n)' = Conn(n) /\ IsSequence(v)
  BY <1>1, SameConns DEF FirstLife
<1>3. dp[n].phase \in {"starting", "up"}
  BY <1>1 DEF FirstLife
<1>4. PICK i \in DOMAIN v : v[i] = m /\ (dp[n].phase = "starting" => i # 1)
  BY DEF Awaits
<1>5. (\E j \in DOMAIN w : w[j] = m) => Awaits(n, m)'
  BY <1>1, <1>2 DEF Awaits
<1>6. v # << >> /\ w = Tail(v)
  BY <1>1
<1>7. Head(wire[Conn(n)]) = Head(v)
  OBVIOUS
<1> HIDE DEF v, w
<1>8. CASE i = 1
  <2>1. Head(v) = v[1]
    BY <1>2, <1>6, SeqFacts
  <2> QED
    BY <1>3, <1>4, <1>7, <1>8, <2>1
<1>9. CASE i # 1
  <2>1. i - 1 \in DOMAIN w /\ w[i - 1] = v[i]
    BY <1>2, <1>6, <1>9, TailSeq
  <2> QED
    BY <1>4, <1>5, <2>1
<1> QED
  BY <1>8, <1>9

\* A flow on its way stays so while only messages are added.
LEMMA FlowDelivers ==
    ASSUME AdmissionInv, FirstLife, NEW ms, Delivers(ms), UNCHANGED dp,
           NEW n \in NodeIds, dp[n].phase # "down", NEW f
    PROVE  /\ FlowAhead(n, f) => FlowAhead(n, f)'
           /\ \A i \in DOMAIN ms[Conn(n)] :
                 /\ ms[Conn(n)][i].type = "AddFlows" /\ f \in ms[Conn(n)][i].flows
                 /\ dp[n].phase = "starting" => wire[Conn(n)] # << >>
                 => FlowAhead(n, f)'
<1>1. \A m : /\ Awaits(n, m) => Awaits(n, m)'
             /\ \A i \in DOMAIN ms[Conn(n)] :
                   /\ ms[Conn(n)][i] = m
                   /\ dp[n].phase = "starting" => wire[Conn(n)] # << >>
                   => Awaits(n, m)'
  BY AwaitsDelivered
<1>2. FlowAhead(n, f) <=>
              \/ f \in Range(dp[n].started) \/ f \in Range(dp[n].pending)
              \/ \E m : m.type = "AddFlows" /\ f \in m.flows /\ Awaits(n, m)
  BY AheadFacts
<1>3. FlowAhead(n, f)' <=>
              \/ f \in Range(dp'[n].started) \/ f \in Range(dp'[n].pending)
              \/ \E m : m.type = "AddFlows" /\ f \in m.flows /\ Awaits(n, m)'
  BY DEF FlowAhead, Awaits
<1> QED
  BY <1>1, <1>2, <1>3

LEMMA FlowUntouched ==
    ASSUME NEW n, NEW f, wire'[Conn(n)] = wire[Conn(n)], dp'[n].phase = dp[n].phase,
           dp'[n].starts = dp[n].starts, dp'[n].started = dp[n].started,
           dp'[n].pending = dp[n].pending, FlowAhead(n, f)
    PROVE  FlowAhead(n, f)'
<1>1. Conn(n)' = Conn(n)
  BY DEF Conn
<1> QED
  BY <1>1 DEF FlowAhead

LEMMA RangeOfConcat ==
    ASSUME NEW s, IsSequence(s), NEW t, IsSequence(t)
    PROVE  Range(s \o t) = Range(s) \cup Range(t)
<1>1. \A i \in DOMAIN s : i \in DOMAIN (s \o t) /\ (s \o t)[i] = s[i]
  BY ConcatSeq
<1>2. Range(s) \subseteq Range(s \o t)
  BY <1>1 DEF Range
<1>3. Range(t) \subseteq Range(s \o t)
  <2>1. \A i \in DOMAIN t : Len(s) + i \in DOMAIN (s \o t) /\ (s \o t)[Len(s) + i] = t[i]
    BY ConcatSeq
  <2> QED
    BY <2>1 DEF Range
<1>4. Range(s \o t) \subseteq Range(s) \cup Range(t)
  <2>1. \A i \in DOMAIN (s \o t) :
           i \in DOMAIN s \/ (i - Len(s) \in DOMAIN t /\ (s \o t)[i] = t[i - Len(s)])
    BY ConcatSeq
  <2> QED
    BY <1>1, <2>1 DEF Range
<1> QED
  BY <1>2, <1>3, <1>4

\* What a node's step does to its flows
FlowsHandled(n) ==
    LET m == Head(wire[Conn(n)]) IN
    /\ IsSequence(dp'[n].started) /\ IsSequence(dp'[n].pending)
    /\ dp'[n].topology_ready => dp'[n].pending = << >>
    /\ Range(dp[n].started) \cup Range(dp[n].pending)
          \subseteq Range(dp'[n].started) \cup Range(dp'[n].pending)
    /\ dp[n].phase = "up" /\ m.type = "AddFlows" =>
          \A f \in m.flows : StartsHere(n, f) =>
             f \in Range(dp'[n].started) \cup Range(dp'[n].pending)

LEMMA FlowsTaken ==
    ASSUME AdmissionInv, FirstLife, Dispatch, NEW n \in NodeIds, NodeStep(n)
    PROVE  FlowsHandled(n)
<1> DEFINE m == Head(wire[Conn(n)])
<1>a. ControlShape /\ DOMAIN dp = NodeIds /\ DOMAIN dp[n] = DOMAIN Fresh(0)
  BY DEF AdmissionInv, ControlShape
<1>b. /\ IsSequence(dp[n].started) /\ IsSequence(dp[n].pending)
      /\ dp[n].topology_ready => dp[n].pending = << >>
  BY DEF Dispatch
<1>1. CASE ~AddFlows(n) /\ ~TopologyReady(n)
  <2>1. /\ dp'[n].started = dp[n].started /\ dp'[n].pending = dp[n].pending
        /\ dp'[n].topology_ready = dp[n].topology_ready
    <3>1. ASSUME NEW d, Settle(n, d), DOMAIN d = DOMAIN Fresh(0), d.started = dp[n].started,
                 d.pending = dp[n].pending, d.topology_ready = dp[n].topology_ready
          PROVE  /\ dp'[n].started = dp[n].started /\ dp'[n].pending = dp[n].pending
                 /\ dp'[n].topology_ready = dp[n].topology_ready
      BY <1>a, <3>1, SettleReports, FreshFields
    <3>2. CASE AddNode(n)
      <4> DEFINE d == [dp[n] EXCEPT !.expected = @ + 1, !.connected = @ + 1,
                                    !.peers = @ \cup {m.node}]
      <4>1. Settle(n, d)
        BY <3>2 DEF AddNode
      <4>2. /\ DOMAIN d = DOMAIN Fresh(0) /\ d.started = dp[n].started
            /\ d.pending = dp[n].pending /\ d.topology_ready = dp[n].topology_ready
        BY <1>a, FreshFields
      <4> HIDE DEF d
      <4> QED
        BY <3>1, <4>1, <4>2
    <3>3. CASE InstallRoutes(n)
      <4> DEFINE d == [dp[n] EXCEPT !.routes = m.entries, !.routes_installed = TRUE]
      <4>1. Settle(n, d)
        BY <3>3 DEF InstallRoutes
      <4>2. /\ DOMAIN d = DOMAIN Fresh(0) /\ d.started = dp[n].started
            /\ d.pending = dp[n].pending /\ d.topology_ready = dp[n].topology_ready
        BY <1>a, FreshFields
      <4> HIDE DEF d
      <4> QED
        BY <3>1, <4>1, <4>2
    <3>4. CASE InstallGroupDirectory(n)
      <4> DEFINE d == [dp[n] EXCEPT !.directory = m.exists, !.directory_installed = TRUE]
      <4>1. Settle(n, d)
        BY <3>4 DEF InstallGroupDirectory
      <4>2. /\ DOMAIN d = DOMAIN Fresh(0) /\ d.started = dp[n].started
            /\ d.pending = dp[n].pending /\ d.topology_ready = dp[n].topology_ready
        BY <1>a, FreshFields
      <4> HIDE DEF d
      <4> QED
        BY <3>1, <4>1, <4>2
    <3>5. CASE TakeResponse(n)
      BY <1>a, <3>5 DEF TakeResponse
    <3>6. CASE SetLinkRate(n)
      BY <1>a, <3>6 DEF SetLinkRate
    <3>7. CASE InstallGroupRoutes(n)
      BY <1>a, <3>7 DEF InstallGroupRoutes
    <3>8. CASE IgnoreMessage(n)
      BY <3>8 DEF IgnoreMessage
    <3> QED
      BY <1>1, <3>2, <3>3, <3>4, <3>5, <3>6, <3>7, <3>8 DEF NodeStep
  <2>2. ~(dp[n].phase = "up" /\ m.type = "AddFlows")
    BY <1>1 DEF NodeStep, TakeResponse, AddNode, SetLinkRate, InstallRoutes,
       InstallGroupDirectory, InstallGroupRoutes, IgnoreMessage, Next1
  <2> QED
    BY <1>b, <2>1, <2>2 DEF FlowsHandled
<1>2. CASE AddFlows(n)
  <2> DEFINE S == {f \in m.flows : StartsHere(n, f)}
             new == SetToSeq(S)
             started == IF dp[n].topology_ready THEN dp[n].started \o new ELSE dp[n].started
             pending == IF dp[n].topology_ready THEN dp[n].pending ELSE dp[n].pending \o new
  <2>0. Next1(n, "AddFlows")
    BY <1>2 DEF AddFlows
  <2> DEFINE kept == {f \in m.flows : f.transport = "Tcp" /\ f.dst = n}
  <2>1. dp[n].phase = "up" /\ m.type = "AddFlows"
    BY <2>0 DEF Next1
  <2>6. dp' = [dp EXCEPT ![n] = [dp[n] EXCEPT !.specs = dp[n].specs \cup kept, !.started = started,
                                              !.pending = pending]]
    BY <1>2 DEF AddFlows
  <2>7. dp'[n].started = started /\ dp'[n].pending = pending
        /\ dp'[n].topology_ready = dp[n].topology_ready
    <3> HIDE DEF new, kept, started, pending
    <3> QED
      BY <1>a, <2>6, FreshFields
  <2>2. IsFiniteSet(S)
    <3>1. Conn(n) \in Conns /\ m = wire[Conn(n)][1] /\ 1 \in DOMAIN wire[Conn(n)]
      BY NodeTakes, SeqFacts DEF FirstLife
    <3>2. m.flows \subseteq AllFlows
      BY <2>1, <3>1 DEF Dispatch
    <3>3. IsFiniteSet(AllFlows)
      BY DEF AllFlows
    <3> QED
      BY <3>2, <3>3, FS_Subset
  <2>3. IsSequence(new) /\ Range(new) = S
    BY <2>2, SetToSeqFacts
  <2> HIDE DEF new, kept
  <2>4. /\ IsSequence(started) /\ IsSequence(pending)
        /\ dp[n].topology_ready => pending = << >>
        /\ Range(started) \cup Range(pending) = Range(dp[n].started) \cup Range(dp[n].pending) \cup S
    <3>1. CASE dp[n].topology_ready
      <4>1. started = dp[n].started \o new /\ pending = dp[n].pending
        BY <3>1
      <4> HIDE DEF started, pending, S
      <4>2. IsSequence(started) /\ Range(started) = Range(dp[n].started) \cup S
        BY <1>b, <2>3, <4>1, SeqClosed, RangeOfConcat
      <4> QED
        BY <1>b, <4>1, <4>2
    <3>2. CASE ~dp[n].topology_ready
      <4>1. started = dp[n].started /\ pending = dp[n].pending \o new
        BY <3>2
      <4> HIDE DEF started, pending, S
      <4>2. IsSequence(pending) /\ Range(pending) = Range(dp[n].pending) \cup S
        BY <1>b, <2>3, <4>1, SeqClosed, RangeOfConcat
      <4> QED
        BY <1>b, <3>2, <4>1, <4>2
    <3> QED
      BY <3>1, <3>2
  <2>5. /\ dp'[n].started = started /\ dp'[n].pending = pending
        /\ dp'[n].topology_ready = dp[n].topology_ready
    BY <2>7
  <2>8. \A f \in m.flows : StartsHere(n, f) => f \in Range(started) \cup Range(pending)
    BY <2>4
  <2> HIDE DEF S
  <2>9. Range(dp[n].started) \cup Range(dp[n].pending) \subseteq Range(started) \cup Range(pending)
    BY <2>4
  <2> HIDE DEF started, pending
  <2> QED
    BY <2>4, <2>5, <2>8, <2>9 DEF FlowsHandled
<1>3. CASE TopologyReady(n)
  <2> DEFINE all == dp[n].started \o dp[n].pending
  <2>1. dp' = [dp EXCEPT ![n] = [dp[n] EXCEPT !.topology_ready = TRUE, !.pending = << >>,
                                              !.started = all]]
    BY <1>3 DEF TopologyReady
  <2>2. IsSequence(all) /\ Range(all) = Range(dp[n].started) \cup Range(dp[n].pending)
    BY <1>b, SeqClosed, RangeOfConcat
  <2> HIDE DEF all
  <2>4. dp'[n].pending = << >> /\ dp'[n].started = all
    BY <1>a, <2>1, FreshFields
  <2>3. m.type # "AddFlows"
    BY <1>3 DEF TopologyReady, Next1
  <2> QED
    BY <2>2, <2>3, <2>4, NothingSeq DEF FlowsHandled
<1> QED
  BY <1>1, <1>2, <1>3

LEMMA FlowKept ==
    ASSUME AdmissionInv, FirstLife, Dispatch, [Next]_vars, crashes' = 0,
           NEW n \in NodeIds, dp[n].phase # "down", NEW f, StartsHere(n, f), FlowAhead(n, f)
    PROVE  FlowAhead(n, f)'
<1>a. DOMAIN dp = NodeIds /\ \A m \in NodeIds : DOMAIN dp[m] = DOMAIN Fresh(0)
  BY DEF AdmissionInv, ControlShape
<1>1. ASSUME NEW ms, InOrder(ms) PROVE FlowAhead(n, f)'
  BY <1>1, FlowDelivers DEF InOrder
<1>2. ASSUME NodeStep(n) PROVE FlowAhead(n, f)'
  <2>1. FlowsHandled(n)
    BY <1>2, FlowsTaken
  <2>2. FlowAhead(n, f)' <=>
              \/ f \in Range(dp'[n].started) \/ f \in Range(dp'[n].pending)
              \/ \E m : m.type = "AddFlows" /\ f \in m.flows /\ Awaits(n, m)'
    BY DEF FlowAhead, Awaits
  <2>3. CASE f \in Range(dp[n].started) \cup Range(dp[n].pending)
    BY <2>1, <2>2, <2>3 DEF FlowsHandled
  <2>4. ASSUME NEW m, m.type = "AddFlows", f \in m.flows, Awaits(n, m) PROVE FlowAhead(n, f)'
    <3>1. Awaits(n, m)' \/ (dp[n].phase = "up" /\ Head(wire[Conn(n)]) = m)
      BY <1>2, <2>4, AwaitsTaken
    <3> QED
      BY <2>1, <2>2, <2>4, <3>1 DEF FlowsHandled
  <2> QED
    BY <2>3, <2>4, AheadFacts
<1>3. ASSUME NEW m \in NodeIds, m # n, NodeStep(m) PROVE FlowAhead(n, f)'
  <2>1. dp'[n] = dp[n] /\ \A d \in Conns : d # Conn(m) => wire'[d] = wire[d]
    BY <1>3, NodeTakes
  <2>2. wire'[Conn(n)] = wire[Conn(n)]
    BY <1>3, <2>1, OwnerIsConn, ConnsDiffer
  <2> QED
    BY <2>1, <2>2, FlowUntouched
<1>4. ASSUME NEW m \in NodeIds, StartNode(m) PROVE FlowAhead(n, f)'
  <2>1. dp'[n] = dp[n] /\ UNCHANGED wire
    BY <1>a, <1>4 DEF StartNode
  <2> QED
    BY <2>1, FlowUntouched
<1>5. ASSUME NEW m \in NodeIds, NEW k \in NodeIds, AcceptLink(m, k) PROVE FlowAhead(n, f)'
  <2>1. /\ dp'[n].phase = dp[n].phase /\ dp'[n].starts = dp[n].starts /\ UNCHANGED wire
        /\ dp'[n].started = dp[n].started /\ dp'[n].pending = dp[n].pending
    BY <1>a, <1>5, FreshFields DEF AcceptLink
  <2> QED
    BY <2>1, FlowUntouched
<1> QED
  BY <1>1, <1>2, <1>3, <1>4, <1>5, StepKinds

-----------------------------------------------------------------------------
(* What is sent of the flows *)

Carries(ms) ==
    \A d \in Conns : \A i \in DOMAIN ms[d] :
        ms[d][i].type = "AddFlows" => ms[d][i].flows \subseteq AllFlows

LEMMA OthersCarry ==
    ASSUME NEW ms, NEW types, Only(ms, types), "AddFlows" \notin types
    PROVE  Carries(ms)
BY DEF Only, Carries

LEMMA SilentCarries ==
    ASSUME NEW ms, \A d \in Conns : ms[d] = << >>
    PROVE  Carries(ms)
BY DEF Carries

LEMMA HandlerCarries ==
    ASSUME AdmissionInv, FirstLife, NEW c \in Conns, HandlerStep(c)
    PROVE  \E ms : Delivers(ms) /\ Carries(ms)
<1>a. ~CloseConnection(c)
  BY HandlerIsOpen
<1>1. CASE QuietHandlerStep(c)
  BY FirstLifeSeqs, <1>1, QuietDelivers, SilentCarries
<1>2. CASE UpsertNode(c)
  <2>1. PICK ms : /\ Delivers(ms) /\ ms[c] = <<[type |-> "StartUp"]>>
                  /\ \A d \in Conns : d # c => ms[d] = << >>
    BY <1>2, UpsertDelivers
  <2>2. Only(ms, {"StartUp"})
    BY <2>1, OneSeq DEF Only
  <2> QED
    BY <2>1, <2>2, OthersCarry
<1>3. CASE SendAddNode(c)
  <2>3. PICK n \in handler[c].data : \E ms :
           /\ Delivers(ms) /\ ms[c] = <<[type |-> "AddNode", node |-> n]>>
           /\ \A d \in Conns : d # c => ms[d] = << >>
           /\ GotoWith(c, "adding", handler[c].data \ {n})
    BY <1>3, AddNodeDelivers
  <2>1. PICK ms : /\ Delivers(ms) /\ ms[c] = <<[type |-> "AddNode", node |-> n]>>
                  /\ \A d \in Conns : d # c => ms[d] = << >>
    BY <2>3
  <2>2. Only(ms, {"AddNode"})
    BY <2>1, OneSeq DEF Only
  <2> QED
    BY <2>1, <2>2, OthersCarry
<1>4. CASE SendRoutes(c)
  BY <1>4, RoutesDelivered, OthersCarry
<1>5. CASE SendMulticastState(c)
  BY <1>5, MulticastDelivered, OthersCarry
<1>6. CASE CreateGroup(c)
  BY FirstLifeSeqs, <1>6, CreateDelivers, OthersCarry, SilentCarries
<1>7. CASE NotifyGroupRoutes(c)
  BY FirstLifeSeqs, <1>7, GroupRoutesDelivered, OthersCarry
<1> QED
  BY <1>a, <1>1, <1>2, <1>3, <1>4, <1>5, <1>6, <1>7 DEF HandlerStep, QuietHandlerStep

LEMMA OneFlowSent ==
    ASSUME NEW f
    PROVE  LET s == <<[type |-> "AddFlows", flows |-> {f}]>> IN \A i \in DOMAIN s : s[i].flows = {f}
<1> DEFINE m == [type |-> "AddFlows", flows |-> {f}]
<1>1. m.flows = {f}
  OBVIOUS
<1> HIDE DEF m
<1>2. \A i \in DOMAIN <<m>> : <<m>>[i] = m
  BY OneSeq
<1> QED
  BY <1>1, <1>2 DEF m

\* A flow goes to the writers of both its ends,
LEMMA FlowIsSent ==
    ASSUME AdmissionInv, FirstLife, NEW f, SyncFlow(f)
    PROVE  \E ms : /\ Delivers(ms) /\ Only(ms, {"AddFlows"})
                   /\ \A d \in Conns : OwnsId(d) /\ d \in open /\ d[1] \in {f.src, f.dst} =>
                         ms[d] = <<[type |-> "AddFlows", flows |-> {f}]>>
                   /\ \A d \in Conns : \A i \in DOMAIN ms[d] : ms[d][i].flows = {f}
<1> DEFINE msgs == [n \in NodeIds |-> IF n \in {f.src, f.dst}
                          THEN <<[type |-> "AddFlows", flows |-> {f}]>> ELSE << >>]
<1>1. SendAll(msgs)
  BY DEF SyncFlow
<1>2. OneOrNone(msgs, {"AddFlows"})
  BY DEF OneOrNone
<1>3. \A n \in NodeIds : n \in {f.src, f.dst} => msgs[n] = <<[type |-> "AddFlows", flows |-> {f}]>>
  OBVIOUS
<1>4. \A n \in NodeIds : \A i \in DOMAIN msgs[n] : msgs[n][i].flows = {f}
  <2>1. \A i \in DOMAIN <<[type |-> "AddFlows", flows |-> {f}]>> :
           <<[type |-> "AddFlows", flows |-> {f}]>>[i].flows = {f}
    BY OneFlowSent
  <2> QED
    BY <2>1
<1> HIDE DEF msgs
<1>5. PICK ms : /\ Delivers(ms) /\ Only(ms, {"AddFlows"})
                /\ \A d \in Conns : ms[d] = IF OwnsId(d) /\ d \in open THEN msgs[d[1]] ELSE << >>
  BY FirstLifeSeqs, <1>1, <1>2, BroadcastDelivers
<1>6. \A d \in Conns : \A i \in DOMAIN ms[d] : ms[d][i].flows = {f}
  BY <1>4, <1>5, ConnFacts
<1>7. \A d \in Conns : OwnsId(d) /\ d \in open /\ d[1] \in {f.src, f.dst} =>
         ms[d] = <<[type |-> "AddFlows", flows |-> {f}]>>
  <2> SUFFICES ASSUME NEW d \in Conns, OwnsId(d), d \in open, d[1] \in {f.src, f.dst}
               PROVE  ms[d] = <<[type |-> "AddFlows", flows |-> {f}]>>
    OBVIOUS
  <2>1. ms[d] = msgs[d[1]] /\ d[1] \in NodeIds
    BY <1>5, ConnFacts
  <2> QED
    BY <1>3, <2>1
<1> QED
  BY <1>5, <1>6, <1>7

\* and those the coordinator has read to the writers of theirs.
LEMMA FlowsAreSent ==
    ASSUME AdmissionInv, FirstLife, SendFlows
    PROVE  \E ms : /\ Delivers(ms) /\ Only(ms, {"AddFlows"})
                   /\ \A d \in Conns : OwnsId(d) /\ d \in open =>
                         \A f \in coord.data : d[1] \in {f.src, f.dst} =>
                            \E i \in DOMAIN ms[d] : f \in ms[d][i].flows
                   /\ \A d \in Conns : \A i \in DOMAIN ms[d] : ms[d][i].flows \subseteq coord.data
<1> DEFINE of(n) == {f \in coord.data : n \in {f.src, f.dst}}
           msgs == [n \in NodeIds |-> IF of(n) = {} THEN << >>
                                      ELSE <<[type |-> "AddFlows", flows |-> of(n)]>>]
<1>1. SendAll(msgs)
  BY DEF SendFlows
<1>2. \A n : \A f \in coord.data : n \in {f.src, f.dst} => f \in of(n)
  OBVIOUS
<1>3. \A n : of(n) \subseteq coord.data
  OBVIOUS
<1> HIDE DEF of
<1>4. OneOrNone(msgs, {"AddFlows"})
  BY DEF OneOrNone
<1>5. \A n \in NodeIds : \A i \in DOMAIN msgs[n] : msgs[n][i].flows \subseteq coord.data
  <2> TAKE n \in NodeIds
  <2>1. CASE msgs[n] = << >>
    BY <2>1
  <2>2. CASE msgs[n] = <<[type |-> "AddFlows", flows |-> of(n)]>>
    BY <1>3, <2>2, OneSeq
  <2> QED
    BY <2>1, <2>2
<1>6. \A n \in NodeIds : \A f \in coord.data : n \in {f.src, f.dst} =>
         \E i \in DOMAIN msgs[n] : f \in msgs[n][i].flows
  <2> SUFFICES ASSUME NEW n \in NodeIds, NEW f \in coord.data, n \in {f.src, f.dst}
               PROVE  \E i \in DOMAIN msgs[n] : f \in msgs[n][i].flows
    OBVIOUS
  <2>1. msgs[n] = <<[type |-> "AddFlows", flows |-> of(n)]>> /\ f \in of(n)
    BY <1>2
  <2>2. 1 \in DOMAIN msgs[n] /\ msgs[n][1].flows = of(n)
    BY <2>1, OneSeq
  <2> QED
    BY <2>1, <2>2
<1> HIDE DEF msgs
<1>7. PICK ms : /\ Delivers(ms) /\ Only(ms, {"AddFlows"})
                /\ \A d \in Conns : ms[d] = IF OwnsId(d) /\ d \in open THEN msgs[d[1]] ELSE << >>
  BY FirstLifeSeqs, <1>1, <1>4, BroadcastDelivers
<1>8. \A d \in Conns : OwnsId(d) /\ d \in open =>
         \A f \in coord.data : d[1] \in {f.src, f.dst} =>
            \E i \in DOMAIN ms[d] : f \in ms[d][i].flows
  BY <1>6, <1>7, ConnFacts
<1>9. \A d \in Conns : \A i \in DOMAIN ms[d] : ms[d][i].flows \subseteq coord.data
  <2> TAKE d \in Conns
  <2>1. CASE OwnsId(d) /\ d \in open
    BY <1>5, <1>7, <2>1, ConnFacts
  <2>2. CASE ~(OwnsId(d) /\ d \in open)
    BY <1>7, <2>2
  <2> QED
    BY <2>1, <2>2
<1> QED
  BY <1>7, <1>8, <1>9

LEMMA TasksCarry ==
    ASSUME AdmissionInv, FirstLife, Dispatch, SyncStep \/ CoordinatorStep
    PROVE  \E ms : Delivers(ms) /\ Carries(ms)
<1>1. CASE SyncReadRoutes \/ SyncReadGroup
  BY FirstLifeSeqs, <1>1, QuietDelivers, SilentCarries DEF QuietSyncStep
<1>2. CASE SyncSendRoutes
  BY FirstLifeSeqs, <1>2, SyncRoutesDelivered, OthersCarry
<1>3. CASE SyncSendGroup
  BY FirstLifeSeqs, <1>3, GroupRoutesDelivered, OthersCarry
<1>4. ASSUME NEW f \in AllFlows, SyncFlow(f) PROVE \E ms : Delivers(ms) /\ Carries(ms)
  <2>1. PICK ms : /\ Delivers(ms) /\ Only(ms, {"AddFlows"})
                  /\ \A d \in Conns : OwnsId(d) /\ d \in open /\ d[1] \in {f.src, f.dst} =>
                        ms[d] = <<[type |-> "AddFlows", flows |-> {f}]>>
                  /\ \A d \in Conns : \A i \in DOMAIN ms[d] : ms[d][i].flows = {f}
    BY <1>4, FlowIsSent
  <2> QED
    BY <2>1 DEF Carries
<1>5. CASE UNCHANGED wire
  BY <1>5, NothingDelivered, SilentCarries DEF AdmissionInv, FirstLife, Seqs
<1>6. CASE SendLinkRates
  BY FirstLifeSeqs, <1>6, RatesDelivered, OthersCarry
<1>7. CASE SendFlows
  <2>1. PICK ms : /\ Delivers(ms)
                  /\ \A d \in Conns : \A i \in DOMAIN ms[d] : ms[d][i].flows \subseteq coord.data
    BY <1>7, FlowsAreSent
  <2>2. coord.data \subseteq AllFlows
    BY <1>7 DEF SendFlows, Dispatch
  <2> QED
    BY <2>1, <2>2 DEF Carries
<1>8. CASE \E x : MaybeBroadcastTopologyReady(x)
  BY FirstLifeSeqs, <1>8, MaybeDelivers, OthersCarry
<1> QED
  BY <1>1, <1>2, <1>3, <1>4, <1>5, <1>6, <1>7, <1>8 DEF SyncStep, AllFlows, CoordinatorStep,
     NodeConnected, NodeLocallyReady, CheckReadyAfterDispatch

LEMMA StepsCarry ==
    ASSUME AdmissionInv, FirstLife, Dispatch, [Next]_vars, crashes' = 0
    PROVE  \/ \E ms : Delivers(ms) /\ Carries(ms)
           \/ \E n \in NodeIds : NodeStep(n)
<1>1. ASSUME NEW c \in Conns, HandlerStep(c) PROVE \E ms : Delivers(ms) /\ Carries(ms)
  BY <1>1, HandlerCarries
<1>2. CASE SyncStep \/ CoordinatorStep
  BY <1>2, TasksCarry
<1>3. CASE QuietOutsideStep
  BY FirstLifeSeqs, <1>3, QuietDelivers, SilentCarries
<1>4. CASE UNCHANGED wire
  BY <1>4, NothingDelivered, SilentCarries DEF AdmissionInv, FirstLife, Seqs
<1>5. ASSUME NEW n \in CanCrash, Crash(n) PROVE FALSE
  BY <1>5, NoCrash
<1>6. \A n \in NodeIds : StartNode(n) => UNCHANGED wire
  BY DEF StartNode
<1>7. \A n, m \in NodeIds : AcceptLink(n, m) => UNCHANGED wire
  BY DEF AcceptLink
<1> QED
  BY <1>1, <1>2, <1>3, <1>4, <1>5, <1>6, <1>7
  DEF Next, SystemStep, OutsideStep, QuietOutsideStep, vars, controllerVars

-----------------------------------------------------------------------------
(* The dispatch *)

FlowsOnWire ==
    \A c \in Conns : \A i \in DOMAIN wire[c] :
        wire[c][i].type = "AddFlows" => wire[c][i].flows \subseteq AllFlows

LEMMA ConcatParts ==
    ASSUME NEW s, IsSequence(s), NEW t, IsSequence(t)
    PROVE  \A i \in DOMAIN (s \o t) : \/ i \in DOMAIN s /\ (s \o t)[i] = s[i]
                                      \/ \E j \in DOMAIN t : (s \o t)[i] = t[j]
<1>1. \A i \in DOMAIN s : (s \o t)[i] = s[i]
  BY ConcatSeq
<1>2. \A i \in DOMAIN (s \o t) :
         i \in DOMAIN s \/ (i - Len(s) \in DOMAIN t /\ (s \o t)[i] = t[i - Len(s)])
  BY ConcatSeq
<1> QED
  BY <1>1, <1>2

LEMMA FlowsOnWireStep ==
    ASSUME AdmissionInv, FirstLife, Dispatch, [Next]_vars, crashes' = 0
    PROVE  FlowsOnWire'
<1>a. FlowsOnWire
  BY DEF Dispatch, FlowsOnWire
<1>1. ASSUME NEW ms, Delivers(ms), Carries(ms) PROVE FlowsOnWire'
  <2> SUFFICES ASSUME NEW c \in Conns, NEW i \in DOMAIN wire'[c], wire'[c][i].type = "AddFlows"
               PROVE  wire'[c][i].flows \subseteq AllFlows
    BY DEF FlowsOnWire
  <2> DEFINE v == wire[c]
             t == ms[c]
             w == wire'[c]
  <2>1. IsSequence(v) /\ IsSequence(t) /\ w = v \o t
    BY <1>1 DEF FirstLife, Delivers
  <2>2. \A j \in DOMAIN v : v[j].type = "AddFlows" => v[j].flows \subseteq AllFlows
    BY <1>a DEF FlowsOnWire
  <2>3. \A j \in DOMAIN t : t[j].type = "AddFlows" => t[j].flows \subseteq AllFlows
    BY <1>1 DEF Carries
  <2>4. i \in DOMAIN w /\ w[i].type = "AddFlows"
    OBVIOUS
  <2> HIDE DEF v, t, w
  <2>5. (i \in DOMAIN v /\ w[i] = v[i]) \/ (\E j \in DOMAIN t : w[i] = t[j])
    BY <2>1, <2>4, ConcatParts
  <2>6. w[i].flows \subseteq AllFlows
    BY <2>2, <2>3, <2>4, <2>5
  <2> QED
    BY <2>6 DEF w
<1>2. ASSUME NEW n \in NodeIds, NodeStep(n) PROVE FlowsOnWire'
  <2> SUFFICES ASSUME NEW c \in Conns, NEW i \in DOMAIN wire'[c], wire'[c][i].type = "AddFlows"
               PROVE  wire'[c][i].flows \subseteq AllFlows
    BY DEF FlowsOnWire
  <2>1. CASE c = Conn(n)
    <3>1. IsSequence(wire[c]) /\ wire[c] # << >> /\ wire'[c] = Tail(wire[c])
      BY <1>2, <2>1, NodeTakes DEF FirstLife
    <3>2. i + 1 \in DOMAIN wire[c] /\ wire'[c][i] = wire[c][i + 1]
      BY <3>1, TailSeq
    <3> QED
      BY <1>a, <3>2 DEF FlowsOnWire
  <2>2. CASE c # Conn(n)
    <3>1. wire'[c] = wire[c]
      BY <1>2, <2>2, NodeTakes
    <3> QED
      BY <1>a, <3>1 DEF FlowsOnWire
  <2> QED
    BY <2>1, <2>2
<1> QED
  BY <1>1, <1>2, StepsCarry

\* The flows of the configuration and those inserted so far
LEMMA FlowsGrow ==
    ASSUME AdmissionInv, FirstLife, [Next]_vars, crashes' = 0
    PROVE  \/ UNCHANGED flows
           \/ \E f \in LaterFlows : InsertFlow(f) /\ Quiet
<1>1. ASSUME NEW c \in Conns, HandlerStep(c) PROVE UNCHANGED flows
  BY <1>1 DEF HandlerStep, RegisterNode, UpsertNode, ReadNeighbors, SendAddNode,
     ReadRoutes, SendRoutes, SendMulticastState, NodeTopologyReady, CreateGroup, JoinGroup,
     LeaveGroup, ChangeMembership, SetGroupRoutes, NotifyGroupRoutes, CloseConnection, dbVars
<1>2. SyncStep \/ CoordinatorStep => UNCHANGED flows
  BY DEF SyncStep, SyncReadRoutes, SyncSendRoutes, SyncReadGroup, SyncSendGroup, SyncFlow,
     CoordinatorStep, NodeConnected, NodeLocallyReady, SendLinkRates, SendFlows,
     CheckReadyAfterDispatch, TakeEvent, syncFrame, coordFrame, dbVars
<1>3. ASSUME NEW n \in NodeIds, NodeStep(n) \/ StartNode(n) PROVE UNCHANGED flows
  BY <1>3, NodeTakes DEF StartNode, tables, dbVars
<1>4. ASSUME NEW n \in NodeIds, NEW m \in NodeIds, AcceptLink(n, m) PROVE UNCHANGED flows
  BY <1>4 DEF AcceptLink, tables, dbVars
<1>5. ASSUME NEW r, Request(r) PROVE UNCHANGED flows
  BY <1>5 DEF Request, tables, dbVars
<1>6. ASSUME NEW rs, UpdateRoutes(rs) PROVE UNCHANGED flows
  BY <1>6 DEF UpdateRoutes
<1>7. ASSUME NEW n \in CanCrash, Crash(n) PROVE FALSE
  BY <1>7, NoCrash
<1> QED
  BY <1>1, <1>2, <1>3, <1>4, <1>5, <1>6, <1>7 DEF Next, SystemStep, OutsideStep, vars,
     controllerVars, dbVars

\* The coordinator goes through its dispatch once.
LEMMA CoordinatorMoves ==
    ASSUME DOMAIN coord = CoordFields, CoordinatorStep
    PROVE  /\ UNCHANGED flows
           /\ \/ /\ coord.step = "idle" /\ coord'.step = "idle"
                 /\ coord'.dispatched = coord.dispatched
              \/ /\ coord.step = "idle" /\ coord'.step = "addresses"
                 /\ coord'.dispatched /\ coord'.connected = NodeIds
              \/ /\ coord.step = "addresses" /\ coord'.step = "flows" /\ coord'.data = flows
                 /\ coord'.dispatched = coord.dispatched
              \/ /\ SendFlows /\ coord.step = "flows" /\ coord'.step = "check"
                 /\ coord'.dispatched = coord.dispatched
              \/ /\ coord.step = "check" /\ coord'.step = "idle"
                 /\ coord'.dispatched = coord.dispatched
<1>a. UNCHANGED flows
  BY DEF CoordinatorStep, NodeConnected, NodeLocallyReady, SendLinkRates, SendFlows,
     CheckReadyAfterDispatch, TakeEvent, coordFrame, dbVars
<1>1. CASE NodeConnected
  <2> DEFINE joined == [coord EXCEPT !.connected = @ \cup {Head(topo_events).node}]
  <2>1. /\ coord.step = "idle"
        /\ \/ UNCHANGED coord
           \/ /\ joined.connected = NodeIds
              /\ coord' = [joined EXCEPT !.dispatched = TRUE, !.step = "addresses"]
           \/ MaybeBroadcastTopologyReady(joined)
    BY <1>1 DEF NodeConnected, TakeEvent
  <2>5. UNCHANGED coord => coord'.step = "idle" /\ coord'.dispatched = coord.dispatched
    BY <2>1
  <2>2. /\ DOMAIN joined = CoordFields /\ joined.step = coord.step
        /\ joined.dispatched = coord.dispatched
    BY DEF CoordFields
  <2> HIDE DEF joined
  <2>3. CASE /\ joined.connected = NodeIds
             /\ coord' = [joined EXCEPT !.dispatched = TRUE, !.step = "addresses"]
    BY <1>a, <2>1, <2>2, <2>3 DEF CoordFields
  <2>4. CASE MaybeBroadcastTopologyReady(joined)
    BY <1>a, <2>1, <2>2, <2>4, MaybeReady DEF CoordFields
  <2> QED
    BY <1>a, <2>1, <2>3, <2>4, <2>5
<1>2. CASE NodeLocallyReady
  <2> DEFINE x == [coord EXCEPT !.ready = @ \cup {Head(topo_events).node}]
  <2>1. coord.step = "idle" /\ MaybeBroadcastTopologyReady(x)
    BY <1>2 DEF NodeLocallyReady, TakeEvent
  <2>2. DOMAIN x = CoordFields /\ x.step = coord.step /\ x.dispatched = coord.dispatched
    BY DEF CoordFields
  <2> HIDE DEF x
  <2> QED
    BY <1>a, <2>1, <2>2, MaybeReady DEF CoordFields
<1>3. CASE SendLinkRates
  BY <1>a, <1>3 DEF SendLinkRates, CoordFields
<1>4. CASE SendFlows
  BY <1>a, <1>4 DEF SendFlows, CoordFields
<1>5. CASE CheckReadyAfterDispatch
  <2> DEFINE x == [coord EXCEPT !.step = "idle"]
  <2>1. coord.step = "check" /\ MaybeBroadcastTopologyReady(x)
    BY <1>5 DEF CheckReadyAfterDispatch
  <2>2. DOMAIN x = CoordFields /\ x.step = "idle" /\ x.dispatched = coord.dispatched
    BY DEF CoordFields
  <2> HIDE DEF x
  <2> QED
    BY <1>a, <2>1, <2>2, MaybeReady DEF CoordFields
<1> QED
  BY <1>1, <1>2, <1>3, <1>4, <1>5 DEF CoordinatorStep

DispatchOnce ==
    /\ flows \subseteq AllFlows
    /\ coord.step # "idle" => coord.dispatched
    /\ coord.dispatched => coord.connected = NodeIds
    /\ coord.step = "flows" => coord.data \subseteq flows

LEMMA CoordinatorElse ==
    ASSUME AdmissionInv, FirstLife, [Next]_vars, crashes' = 0
    PROVE  CoordinatorStep \/ UNCHANGED coord
BY EventsElsewhere, HandlerEvents

LEMMA DispatchOnceStep ==
    ASSUME AdmissionInv, FirstLife, ReadinessTrue, Dispatch, CountsNodes', AdmissionInv',
           [Next]_vars, crashes' = 0
    PROVE  DispatchOnce'
<1>a. DOMAIN coord = CoordFields
  BY DEF ReadinessTrue, CoordFields
<1>b. DispatchOnce
  BY DEF Dispatch, DispatchOnce
<1>c. coord'.connected \subseteq NodeIds
  BY DEF CountsNodes, AdmissionInv, ControlShape
<1>d. flows \subseteq flows' /\ flows' \subseteq AllFlows
  BY <1>b, FlowsGrow DEF DispatchOnce, InsertFlow, AllFlows
<1>1. CASE CoordinatorStep
  <2>1. coord.connected \subseteq coord'.connected
    BY <1>1, <1>a, CoordinatorTakes
  <2> QED
    BY <1>1, <1>a, <1>b, <1>c, <1>d, <2>1, CoordinatorMoves DEF DispatchOnce
<1>2. CASE UNCHANGED coord
  BY <1>2, <1>b, <1>d DEF DispatchOnce
<1> QED
  BY <1>1, <1>2, CoordinatorElse

\* Who was counted has been sent its whole configuration.
Settled(n) == handler[Conn(n)].step \in {"idle", "notify_group"}

LEMMA SettledStays ==
    ASSUME AdmissionInv, FirstLife, NEW c \in Conns, HandlerStep(c), OwnsId(c),
           handler[c].step \in {"idle", "notify_group"}
    PROVE  handler'[c].step \in {"idle", "notify_group"}
<1>a. ~CloseConnection(c) /\ DOMAIN handler = Conns /\ DOMAIN handler[c] = {"step", "id", "data"}
  BY HandlerIsOpen DEF AdmissionInv, ControlShape
<1>1. CASE \/ RegisterNode(c) \/ NodeTopologyReady(c) \/ CreateGroup(c) \/ JoinGroup(c)
           \/ LeaveGroup(c)
  <2>1. UNCHANGED handler
    BY <1>1 DEF RegisterNode, OwnsId, NodeTopologyReady, CreateGroup, JoinGroup, LeaveGroup,
       ChangeMembership
  <2> QED
    BY <2>1
<1>2. CASE SetGroupRoutes(c)
  <2>1. UNCHANGED handler \/ \E x : GotoWith(c, "notify_group", x)
    BY <1>2 DEF SetGroupRoutes
  <2> QED
    BY <1>a, <2>1 DEF GotoWith
<1>3. CASE NotifyGroupRoutes(c)
  BY <1>a, <1>3 DEF NotifyGroupRoutes, GotoWith
<1> QED
  BY <1>a, <1>1, <1>2, <1>3 DEF HandlerStep, UpsertNode, ReadNeighbors, SendAddNode, ReadRoutes,
     SendRoutes, SendMulticastState

LEMMA SettledStep ==
    ASSUME AdmissionInv, FirstLife, ReadinessTrue, CountsNodes, Dispatch, [Next]_vars, crashes' = 0,
           NEW n \in NodeIds, Counted(n)'
    PROVE  Settled(n)'
<1>a. IsSequence(topo_events) /\ DOMAIN coord = CoordFields
  BY DEF ReadinessTrue, CoordFields
<1>1. ASSUME Counted(n) PROVE Settled(n)'
  <2>1. n \in DOMAIN node_ws
    BY <1>1 DEF Counted, CountsNodes, Announces
  <2>2. /\ dp[n].phase # "down" /\ Conn(n) \in Conns /\ OwnsId(Conn(n))
    BY <2>1, OwnerIsConn
  <2>3. Conn(n)' = Conn(n)
    BY <2>2, SameConn
  <2>4. handler[Conn(n)].step \in {"idle", "notify_group"}
    BY <1>1 DEF Dispatch
  <2>5. ASSUME NEW c \in Conns, HandlerStep(c) PROVE Settled(n)'
    <3>1. CASE c = Conn(n)
      BY <2>2, <2>3, <2>4, <2>5, <3>1, SettledStays DEF Settled
    <3>2. CASE c # Conn(n)
      <4>1. handler'[Conn(n)] = handler[Conn(n)]
        <5>1. CASE RegisterNode(c)
          BY <2>2, <3>2, <5>1 DEF RegisterNode, Goto, AdmissionInv, ControlShape
        <5>2. CASE ~RegisterNode(c)
          BY <2>2, <2>5, <3>2, <5>2, HandlerMoves
        <5> QED
          BY <5>1, <5>2
      <4> QED
        BY <2>3, <2>4, <4>1 DEF Settled
    <3> QED
      BY <3>1, <3>2
  <2>6. CASE UNCHANGED handler
    BY <2>3, <2>4, <2>6 DEF Settled
  <2> QED
    BY <2>5, <2>6, HandlersElse
<1>2. ASSUME ~Counted(n) PROVE Settled(n)'
  <2>1. ASSUME NEW c \in Conns, HandlerStep(c), Quiet PROVE Settled(n)'
    <3>1. UNCHANGED coord /\ ~(UNCHANGED topo_events)
      BY <1>2, <2>1, HandlerEvents DEF Counted, Announces
    <3>2. ASSUME NEW e, topo_events' = Append(topo_events, e)
          PROVE  e.type = "NodeConnected" /\ e.node = n
      <4>1. \A i \in DOMAIN topo_events' :
               (i \in DOMAIN topo_events /\ topo_events'[i] = topo_events[i]) \/ topo_events'[i] = e
        BY <1>a, <3>2, AppendFacts
      <4> QED
        BY <1>2, <3>1, <4>1 DEF Counted, Announces
    <3>3. /\ SendMulticastState(c) /\ c[1] = n
      <4>1. \/ /\ SendMulticastState(c)
               /\ topo_events' = Append(topo_events, [type |-> "NodeConnected", node |-> c[1]])
            \/ topo_events' = Append(topo_events, [type |-> "NodeLocallyReady", node |-> c[1]])
        BY <2>1, <3>1, HandlerEvents
      <4>2. ~(topo_events' = Append(topo_events, [type |-> "NodeLocallyReady", node |-> c[1]]))
        BY <3>2
      <4>3. [type |-> "NodeConnected", node |-> c[1]].node = c[1]
        OBVIOUS
      <4> QED
        BY <3>2, <4>1, <4>2, <4>3
    <3>4. c = Conn(n) /\ dp[n].phase # "down"
      BY <2>1, <3>3, HandlerIsOpen, OwnerIsConn
    <3>5. Conn(n)' = Conn(n)
      BY <3>4, SameConn
    <3>6. handler'[c].step = "idle"
      BY <3>3 DEF SendMulticastState, GotoWith, AdmissionInv, ControlShape
    <3> QED
      BY <3>4, <3>5, <3>6 DEF Settled
  <2>2. CASE CoordinatorStep
    <3>1. \/ coord'.connected = coord.connected
          \/ /\ topo_events # << >> /\ Head(topo_events).type = "NodeConnected"
             /\ coord'.connected = coord.connected \cup {Head(topo_events).node}
      BY <1>a, <2>2, CoordinatorTakes
    <3>2. topo_events # << >> => 1 \in DOMAIN topo_events /\ Head(topo_events) = topo_events[1]
      BY <1>a, SeqFacts
    <3>3. n \in coord'.connected => Counted(n)
      BY <3>1, <3>2 DEF Counted, Announces
    <3>4. UNCHANGED topo_events \/ (topo_events # << >> /\ topo_events' = Tail(topo_events))
      BY <1>a, <2>2, CoordinatorEvents
    <3>5. \A i \in DOMAIN topo_events' : \E j \in DOMAIN topo_events : topo_events'[i] = topo_events[j]
      BY <1>a, <3>4, TailIsOld
    <3> QED
      BY <1>2, <3>3, <3>5 DEF Counted, Announces
  <2>3. CASE UNCHANGED <<topo_events, coord>>
    BY <1>2, <2>3 DEF Counted, Announces
  <2> QED
    BY <2>1, <2>2, <2>3, EventsElsewhere
<1> QED
  BY <1>1, <1>2

\* What a node defers it starts when it is told that the topology is ready.
Defers(n) ==
    /\ IsSequence(dp[n].started) /\ IsSequence(dp[n].pending)
    /\ dp[n].topology_ready => dp[n].pending = << >>

LEMMA DefersStep ==
    ASSUME AdmissionInv, FirstLife, Dispatch, [Next]_vars, crashes' = 0, NEW n \in NodeIds
    PROVE  Defers(n)'
<1>a. DOMAIN dp = NodeIds /\ \A m \in NodeIds : DOMAIN dp[m] = DOMAIN Fresh(0)
  BY DEF AdmissionInv, ControlShape
<1>b. Defers(n)
  BY DEF Dispatch, Defers
<1>1. ASSUME NEW ms, InOrder(ms) PROVE Defers(n)'
  BY <1>1, <1>b DEF InOrder, Defers
<1>2. CASE NodeStep(n)
  BY <1>2, FlowsTaken DEF FlowsHandled, Defers
<1>3. ASSUME NEW m \in NodeIds, m # n, NodeStep(m) PROVE Defers(n)'
  BY <1>3, <1>b, NodeTakes DEF Defers
<1>4. ASSUME NEW m \in NodeIds, StartNode(m) PROVE Defers(n)'
  <2>1. CASE m = n
    <3>1. dp'[n].started = << >> /\ dp'[n].pending = << >>
      BY <1>a, <1>4, <2>1 DEF StartNode, Fresh
    <3> QED
      BY <3>1, NothingSeq DEF Defers
  <2>2. CASE m # n
    BY <1>a, <1>b, <1>4, <2>2 DEF StartNode, Defers
  <2> QED
    BY <2>1, <2>2
<1>5. ASSUME NEW m \in NodeIds, NEW k \in NodeIds, AcceptLink(m, k) PROVE Defers(n)'
  <2>1. /\ dp'[n].started = dp[n].started /\ dp'[n].pending = dp[n].pending
        /\ dp'[n].topology_ready = dp[n].topology_ready
    BY <1>a, <1>5, FreshFields DEF AcceptLink
  <2> QED
    BY <1>b, <2>1 DEF Defers
<1> QED
  BY <1>1, <1>2, <1>3, <1>4, <1>5, StepKinds

LEMMA DispatchParts ==
    Dispatch <=> /\ DispatchOnce /\ FlowsOnWire
                 /\ \A n \in NodeIds : (Counted(n) => Settled(n)) /\ Defers(n)
BY DEF Dispatch, DispatchOnce, FlowsOnWire, Settled, Defers

LEMMA DispatchStep ==
    ASSUME AdmissionInv, AdmissionInv', FirstLife, ReadinessTrue, CountsNodes, CountsNodes',
           Dispatch, [Next]_vars, crashes' = 0
    PROVE  Dispatch'
<1>1. DispatchOnce'
  BY DispatchOnceStep
<1>2. FlowsOnWire'
  BY FlowsOnWireStep
<1>3. ASSUME NEW n \in NodeIds PROVE (Counted(n)' => Settled(n)') /\ Defers(n)'
  BY SettledStep, DefersStep
<1> QED
  BY <1>1, <1>2, <1>3 DEF Dispatch, DispatchOnce, FlowsOnWire, Settled, Defers

\* Once the flows are dispatched, everybody has a writer and whatever is sent
\* to a node comes after its answer.
LEMMA EverybodyReached ==
    ASSUME AdmissionInv, FirstLife, ConfigurationOrder, CountsNodes, Dispatch, coord.dispatched,
           NEW n \in NodeIds
    PROVE  /\ dp[n].phase # "down" /\ Conn(n) \in Conns /\ Conn(n)[1] = n
           /\ OwnsId(Conn(n)) /\ Conn(n) \in open
           /\ dp[n].phase = "starting" => wire[Conn(n)] # << >>
<1>1. n \in coord.connected /\ n \in DOMAIN node_ws
  BY DEF Dispatch, CountsNodes
<1>2. /\ dp[n].phase # "down" /\ Conn(n) \in Conns /\ node_ws[n] = Conn(n)
      /\ OwnsId(Conn(n)) /\ Conn(n) \in open
  BY <1>1, OwnerIsConn
<1>3. handler[Conn(n)].step # "upsert"
  BY <1>1 DEF Dispatch, Counted
<1>4. dp[n].phase = "starting" => wire[Conn(n)] # << >>
  BY <1>1, <1>2, <1>3 DEF ConfigurationOrder
<1> QED
  BY <1>2, <1>4 DEF Conn

\* The task that follows the tables reads the notifications.
LEMMA NotifiedKept ==
    ASSUME TablesShape, AdmissionInv, FirstLife, [Next]_vars, crashes' = 0, NEW f \in notified.flows
    PROVE  f \in notified'.flows \/ (SyncFlow(f) /\ Quiet)
<1>1. ASSUME NEW c \in Conns, HandlerStep(c) PROVE f \in notified'.flows
  BY <1>1 DEF TablesShape, HandlerStep, RegisterNode, UpsertNode, ReadNeighbors, SendAddNode,
     ReadRoutes, SendRoutes, SendMulticastState, NodeTopologyReady, CreateGroup, JoinGroup,
     LeaveGroup, ChangeMembership, SetGroupRoutes, NotifyGroupRoutes, CloseConnection
<1>2. CASE SyncReadRoutes \/ SyncSendRoutes \/ SyncReadGroup \/ SyncSendGroup
  BY <1>2 DEF TablesShape, SyncReadRoutes, SyncSendRoutes, SyncReadGroup, SyncSendGroup
<1>3. ASSUME NEW g, SyncFlow(g), Quiet PROVE f \in notified'.flows \/ (SyncFlow(f) /\ Quiet)
  <2>1. notified'.flows = notified.flows \ {g}
    BY <1>3 DEF SyncFlow, TablesShape
  <2> QED
    BY <1>3, <2>1
<1>4. CASE CoordinatorStep
  BY <1>4 DEF CoordinatorStep, NodeConnected, NodeLocallyReady, SendLinkRates,
     SendFlows, CheckReadyAfterDispatch, TakeEvent, coordFrame
<1>5. ASSUME NEW n \in NodeIds, StartNode(n) \/ NodeStep(n) PROVE UNCHANGED notified
  BY <1>5, NodeTakes DEF StartNode, tables
<1>6. ASSUME NEW n \in NodeIds, NEW m \in NodeIds, AcceptLink(n, m) PROVE UNCHANGED notified
  BY <1>6 DEF AcceptLink, tables
<1>7. ASSUME NEW rs, UpdateRoutes(rs) PROVE f \in notified'.flows
  BY <1>7 DEF TablesShape, UpdateRoutes
<1>8. ASSUME NEW g, InsertFlow(g) PROVE f \in notified'.flows
  BY <1>8 DEF TablesShape, InsertFlow
<1>9. ASSUME NEW r, Request(r) PROVE UNCHANGED notified
  BY <1>9 DEF Request, tables
<1>10. ASSUME NEW n \in CanCrash, Crash(n) PROVE FALSE
  BY <1>10, NoCrash
<1>11. CASE UNCHANGED vars
  BY <1>11 DEF vars, controllerVars
<1> QED
  BY <1>1, <1>2, <1>3, <1>4, <1>5, <1>6, <1>7, <1>8, <1>9, <1>10, <1>11
  DEF Next, SystemStep, OutsideStep, SyncStep

LEMMA FlowsReachStep ==
    ASSUME AdmissionInv, FirstLife, ConfigurationOrder, ReadinessTrue, CountsNodes, TablesShape,
           Dispatch, FlowsReach, [Next]_vars, crashes' = 0
    PROVE  FlowsReach'
<1>a. DOMAIN coord = CoordFields
  BY DEF ReadinessTrue, CoordFields
<1> SUFFICES ASSUME coord'.dispatched, coord'.step # "addresses", NEW n \in NodeIds,
                    NEW f \in flows' \ notified'.flows, StartsHere(n, f),
                    ~(coord'.step = "flows" /\ f \in coord'.data)
             PROVE  FlowAhead(n, f)'
  BY DEF FlowsReach
<1>b. n \in {f.src, f.dst}
  BY DEF StartsHere
<1>1. f \in flows
  <2>1. CASE UNCHANGED flows
    BY <2>1
  <2>2. ASSUME NEW g, InsertFlow(g) PROVE f \in flows
    BY <2>2 DEF InsertFlow, TablesShape
  <2> QED
    BY <2>1, <2>2, FlowsGrow
<1>2. coord.dispatched /\ coord.step # "addresses"
  <2>1. CASE CoordinatorStep
    BY <1>1, <1>a, <2>1, CoordinatorMoves
  <2>2. CASE UNCHANGED coord
    BY <2>2
  <2> QED
    BY <2>1, <2>2, CoordinatorElse
<1>3. /\ dp[n].phase # "down" /\ Conn(n) \in Conns /\ Conn(n)[1] = n
      /\ OwnsId(Conn(n)) /\ Conn(n) \in open
      /\ dp[n].phase = "starting" => wire[Conn(n)] # << >>
  BY <1>2, EverybodyReached
<1>4. CASE f \in notified.flows
  <2>1. SyncFlow(f) /\ UNCHANGED dp
    BY <1>4, NotifiedKept DEF Quiet
  <2>2. PICK ms : /\ Delivers(ms) /\ Only(ms, {"AddFlows"})
                  /\ \A d \in Conns : OwnsId(d) /\ d \in open /\ d[1] \in {f.src, f.dst} =>
                        ms[d] = <<[type |-> "AddFlows", flows |-> {f}]>>
                  /\ \A d \in Conns : \A i \in DOMAIN ms[d] : ms[d][i].flows = {f}
    BY <2>1, FlowIsSent
  <2>3. ms[Conn(n)] = <<[type |-> "AddFlows", flows |-> {f}]>>
    BY <1>b, <1>3, <2>2
  <2>4. 1 \in DOMAIN ms[Conn(n)] /\ ms[Conn(n)][1] = [type |-> "AddFlows", flows |-> {f}]
    BY <2>3, OneSeq
  <2>5. ms[Conn(n)][1].type = "AddFlows" /\ f \in ms[Conn(n)][1].flows
    BY <2>4
  <2> QED
    BY <1>3, <2>1, <2>2, <2>4, <2>5, FlowDelivers
<1>5. CASE f \notin notified.flows /\ coord.step = "flows" /\ f \in coord.data
  <2>1. SendFlows /\ UNCHANGED dp
    <3>1. ~(UNCHANGED coord)
      BY <1>5
    <3>2. CoordinatorStep /\ Quiet
      BY <3>1, EventsElsewhere, HandlerEvents
    <3> QED
      BY <1>5, <1>a, <3>2, CoordinatorMoves DEF Quiet
  <2>2. PICK ms : /\ Delivers(ms) /\ Only(ms, {"AddFlows"})
                  /\ \A d \in Conns : OwnsId(d) /\ d \in open =>
                        \A g \in coord.data : d[1] \in {g.src, g.dst} =>
                           \E i \in DOMAIN ms[d] : g \in ms[d][i].flows
                  /\ \A d \in Conns : \A i \in DOMAIN ms[d] : ms[d][i].flows \subseteq coord.data
    BY <2>1, FlowsAreSent
  <2>3. PICK i \in DOMAIN ms[Conn(n)] : f \in ms[Conn(n)][i].flows
    BY <1>b, <1>3, <1>5, <2>2
  <2>4. ms[Conn(n)][i].type = "AddFlows"
    BY <1>3, <2>2 DEF Only
  <2> QED
    BY <1>3, <2>1, <2>2, <2>3, <2>4, FlowDelivers
<1>6. CASE f \notin notified.flows /\ ~(coord.step = "flows" /\ f \in coord.data)
  <2>1. FlowAhead(n, f)
    BY <1>1, <1>2, <1>6 DEF FlowsReach
  <2> QED
    BY <1>3, <2>1, FlowKept
<1> QED
  BY <1>4, <1>5, <1>6

LEMMA FlowsInit == Init => FlowsInv
<1> SUFFICES ASSUME Init PROVE FlowsInv
  OBVIOUS
<1>1. /\ coord.step = "idle" /\ ~coord.dispatched /\ coord.connected = {} /\ topo_events = << >>
      /\ flows = SeededFlows
  BY DEF Init, ControllerInit
<1>2. \A n \in NodeIds : ~Counted(n)
  BY <1>1 DEF Counted
<1>3. \A n \in NodeIds : Defers(n)
  BY NothingSeq DEF Init, Fresh, Defers
<1>4. FlowsOnWire
  BY DEF FlowsOnWire, Init, ControllerInit
<1>5. DispatchOnce
  BY <1>1 DEF DispatchOnce, AllFlows
<1> QED
  BY <1>1, <1>2, <1>3, <1>4, <1>5, DispatchParts DEF FlowsInv, FlowsReach

LEMMA FlowsStep ==
    ASSUME AdmissionInv, AdmissionInv', WiringInv, ReadyInv, ReadyInv', TablesShape, FlowsInv,
           [Next]_vars
    PROVE  FlowsInv'
<1> SUFFICES ASSUME crashes' = 0 PROVE Dispatch' /\ FlowsReach'
  BY DEF FlowsInv
<1>1. crashes = 0
  BY NeverCrashed
<1>2. FirstLife /\ ConfigurationOrder /\ ReadinessTrue
  BY <1>1 DEF WiringInv
<1>3. CountsNodes /\ CountsNodes'
  BY <1>1 DEF ReadyInv, Progress, CountsNodes
<1>4. Dispatch /\ FlowsReach
  BY <1>1 DEF FlowsInv
<1> QED
  BY <1>2, <1>3, <1>4, DispatchStep, FlowsReachStep

THEOREM FlowsInductive ==
    Spec => [](AdmissionInv /\ WiringInv /\ ReadyInv /\ TablesShape /\ FlowsInv)
<1>1. Init => AdmissionInv /\ WiringInv /\ ReadyInv /\ TablesShape /\ FlowsInv
  BY AdmissionInit, WiringInit, ReadyInit, ShapeInit, FlowsInit
<1>2. AdmissionInv /\ WiringInv /\ ReadyInv /\ TablesShape /\ FlowsInv /\ [Next]_vars
         => (AdmissionInv /\ WiringInv /\ ReadyInv /\ TablesShape /\ FlowsInv)'
  BY AdmissionStep, WiringStep, ReadyStep, ShapeStep, FlowsStep
<1> QED
  BY <1>1, <1>2, PTL DEF Spec

\* As long as nothing crashes, a node that was told the topology is ready and
\* has read its messages runs every flow of its own: the one dispatch of the
\* coordinator and the notifications of the table leave none out (send_flows,
\* sync_flow, flush_pending_flows).
THEOREM FlowsAlwaysStart == Spec => []FlowsStart
<1>1. ASSUME FlowsInv PROVE FlowsStart
  <2> SUFFICES ASSUME coord.dispatched, coord.step = "idle", crashes = 0, NEW n \in NodeIds,
                      NEW f \in flows \ notified.flows, dp[n].topology_ready,
                      wire[Conn(n)] = << >>, StartsHere(n, f)
               PROVE  f \in Range(dp[n].started)
    BY DEF FlowsStart
  <2>1. Dispatch /\ FlowsReach
    BY <1>1 DEF FlowsInv
  <2>2. FlowAhead(n, f)
    BY <2>1 DEF FlowsReach
  <2>3. dp[n].pending = << >>
    BY <2>1 DEF Dispatch
  <2> QED
    BY <2>2, <2>3 DEF FlowAhead, Range
<1> QED
  BY <1>1, FlowsInductive, PTL

-----------------------------------------------------------------------------
(* From here on nodes may crash.  What a handler changes of the            *)
(* connections: its own step, and whether it holds the id.                 *)

PreRoutes == {"upsert", "neighbors", "adding", "routes"}
PreGroups == PreRoutes \cup {"groups"}

LEMMA HandlerWorks ==
    ASSUME AdmissionInv, NEW c \in Conns, HandlerStep(c)
    PROVE  /\ UNCHANGED open
           /\ \A d \in Conns : d # c => handler'[d] = handler[d] /\ inbox'[d] = inbox[d]
           /\ inbox[c] = << >> => inbox'[c] = << >>
           /\ handler[c].step \in PreRoutes /\ ~SendRoutes(c) => handler'[c].step \in PreRoutes
           /\ handler[c].step \in PreGroups /\ ~SendMulticastState(c) => handler'[c].step \in PreGroups
           /\ handler[c].step = "upsert" => UpsertNode(c)
<1>a. DOMAIN handler = Conns /\ DOMAIN handler[c] = {"step", "id", "data"} /\ DOMAIN inbox = Conns
  BY DEF AdmissionInv, ControlShape
<1>b. ASSUME Reading(c), Consume(c)
      PROVE  \A d \in Conns : (d # c => inbox'[d] = inbox[d]) /\ (inbox[c] = << >> => inbox'[c] = << >>)
  BY <1>a, <1>b DEF Reading, Consume
<1>1. CASE UpsertNode(c)
  BY <1>1, <1>a DEF UpsertNode, PreRoutes, PreGroups
<1>2. CASE \/ ReadNeighbors(c) \/ SendAddNode(c) \/ ReadRoutes(c) \/ SendRoutes(c)
           \/ SendMulticastState(c) \/ NotifyGroupRoutes(c)
  <2>1. /\ handler[c].step # "upsert" /\ UNCHANGED <<open, inbox>>
        /\ \E step, data : /\ GotoWith(c, step, data)
                           /\ ~SendRoutes(c) /\ handler[c].step \in PreRoutes => step \in PreRoutes
                           /\ ~SendMulticastState(c) /\ handler[c].step \in PreGroups => step \in PreGroups
    BY <1>2 DEF ReadNeighbors, SendAddNode, ReadRoutes, SendRoutes, SendMulticastState,
                NotifyGroupRoutes, PreRoutes, PreGroups
  <2>2. PICK step, data : /\ GotoWith(c, step, data)
                          /\ ~SendRoutes(c) /\ handler[c].step \in PreRoutes => step \in PreRoutes
                          /\ ~SendMulticastState(c) /\ handler[c].step \in PreGroups => step \in PreGroups
    BY <2>1
  <2>3. handler'[c].step = step /\ \A d \in Conns : d # c => handler'[d] = handler[d]
    BY <2>2, <1>a DEF GotoWith
  <2> QED
    BY <2>1, <2>2, <2>3
<1>3. CASE NodeTopologyReady(c) \/ CreateGroup(c) \/ JoinGroup(c) \/ LeaveGroup(c)
  <2>1. Reading(c) /\ Consume(c) /\ UNCHANGED <<open, handler>>
    BY <1>3 DEF NodeTopologyReady, CreateGroup, JoinGroup, LeaveGroup, ChangeMembership
  <2> QED
    BY <1>b, <2>1 DEF Reading
<1>4. CASE SetGroupRoutes(c) \/ RegisterNode(c)
  <2>1. Reading(c) /\ Consume(c) /\ UNCHANGED open
    BY <1>4 DEF SetGroupRoutes, RegisterNode
  <2>2. \A d \in Conns : d # c => handler'[d] = handler[d]
    BY <1>4, <1>a DEF SetGroupRoutes, RegisterNode, Goto, GotoWith
  <2> QED
    BY <1>b, <2>1, <2>2 DEF Reading, PreRoutes, PreGroups
<1>5. CASE CloseConnection(c)
  BY <1>5, <1>a DEF CloseConnection, PreRoutes, PreGroups
<1> QED
  BY <1>1, <1>2, <1>3, <1>4, <1>5 DEF HandlerStep

\* An id is taken by a connection that is read for the first time, and given
\* up by one whose node is gone.
LEMMA HandlerHolds ==
    ASSUME AdmissionInv, NEW c \in Conns, HandlerStep(c), NEW d \in Conns
    PROVE  /\ OwnsId(d)' => \/ OwnsId(d)
                            \/ d = c /\ inbox[c] # << >> /\ handler'[c].step = "upsert"
           /\ OwnsId(d) => OwnsId(d)' \/ d \notin open
<1>a. /\ DOMAIN handler = Conns /\ DOMAIN handler[c] = {"step", "id", "data"}
      /\ DOMAIN node_ws \subseteq NodeIds /\ \A n \in DOMAIN node_ws : node_ws[n] \in Conns /\ node_ws[n][1] = n
  BY DEF AdmissionInv, ControlShape
<1>1. CASE RegisterNode(c)
  <2>1. CASE c[1] \in DOMAIN node_ws
    BY <1>1, <2>1 DEF RegisterNode, OwnsId
  <2>2. CASE c[1] \notin DOMAIN node_ws
    <3>1. /\ inbox[c] # << >> /\ handler'[c].step = "upsert" /\ node_ws' = Registered(c)
      BY <1>a, <1>1, <2>2 DEF RegisterNode, Goto, Reading
    <3>2. \A n : n \in DOMAIN node_ws' <=> n \in DOMAIN node_ws \/ n = c[1]
      BY <3>1 DEF Registered
    <3>3. node_ws'[c[1]] = c /\ \A n \in DOMAIN node_ws : node_ws'[n] = node_ws[n]
      BY <2>2, <3>1 DEF Registered
    <3>4. OwnsId(d)' <=> d[1] \in DOMAIN node_ws' /\ node_ws'[d[1]] = d
      BY DEF OwnsId
    <3> QED
      BY <3>1, <3>2, <3>3, <3>4 DEF OwnsId
  <2> QED
    BY <2>1, <2>2
<1>2. CASE CloseConnection(c)
  <2>1. /\ c \notin open /\ handler[c].id = c[1] /\ OwnsId(c)
        /\ node_ws' = Restrict(node_ws, DOMAIN node_ws \ {c[1]})
    BY <1>2 DEF CloseConnection, AdmissionInv, Registrations
  <2>2. /\ DOMAIN node_ws' = DOMAIN node_ws \ {c[1]}
        /\ \A n \in DOMAIN node_ws' : node_ws'[n] = node_ws[n]
    BY <2>1 DEF Restrict
  <2>3. OwnsId(d)' <=> d[1] \in DOMAIN node_ws' /\ node_ws'[d[1]] = d
    BY DEF OwnsId
  <2>4. CASE d[1] = c[1]
    <3>1. ~OwnsId(d)'
      BY <2>2, <2>3, <2>4
    <3>2. OwnsId(d) => d = c
      BY <2>1, <2>4 DEF OwnsId
    <3> QED
      BY <2>1, <3>1, <3>2
  <2>5. CASE d[1] # c[1]
    BY <2>2, <2>3, <2>5 DEF OwnsId
  <2> QED
    BY <2>4, <2>5
<1>3. CASE ~RegisterNode(c) /\ ~CloseConnection(c)
  <2>1. UNCHANGED node_ws
    BY <1>3 DEF HandlerStep, UpsertNode, ReadNeighbors, SendAddNode, ReadRoutes, SendRoutes,
       SendMulticastState, NodeTopologyReady, CreateGroup, JoinGroup, LeaveGroup,
       ChangeMembership, SetGroupRoutes, NotifyGroupRoutes
  <2> QED
    BY <2>1 DEF OwnsId
<1> QED
  BY <1>1, <1>2, <1>3

\* A send to a connection that was closed is lost.
LEMMA OneReached ==
    ASSUME AdmissionInv, Seqs, NEW c \in Conns, OwnsId(c), NEW msgs, IsSequence(msgs), SendTo(c, msgs)
    PROVE  \E ms : /\ Delivers(ms) /\ ms[c] = (IF c \in open THEN msgs ELSE << >>)
                   /\ \A d \in Conns : d # c => ms[d] = << >>
<1>1. CASE c \in open
  BY <1>1, ToOneDelivered DEF AdmissionInv
<1>2. CASE c \notin open
  <2>1. UNCHANGED wire
    BY <1>2 DEF SendTo, Sent
  <2> QED
    BY <1>2, <2>1, NothingDelivered DEF AdmissionInv
<1> QED
  BY <1>1, <1>2

LEMMA OneSentOnly ==
    ASSUME NEW c \in Conns, NEW ms, NEW msgs, NEW types, ms[c] = (IF c \in open THEN msgs ELSE << >>),
           \A d \in Conns : d # c => ms[d] = << >>, \A i \in DOMAIN msgs : msgs[i].type \in types
    PROVE  Only(ms, types)
<1>1. ms[c] = msgs \/ ms[c] = << >>
  OBVIOUS
<1>2. \A i \in DOMAIN ms[c] : ms[c][i].type \in types
  BY <1>1
<1> QED
  BY <1>2 DEF Only

\* Which steps send a node its entries, its directory or those of the group
SendersOnly(types) ==
    /\ "InstallRoutes" \in types => SyncSendRoutes \/ \E c \in Conns : SendRoutes(c)
    /\ "InstallGroupRoutes" \in types =>
          SyncSendGroup \/ \E c \in Conns : NotifyGroupRoutes(c) \/ SendMulticastState(c)
    /\ "InstallGroupDirectory" \in types =>
          \E c \in Conns : CreateGroup(c) \/ SendMulticastState(c)
Posts == \E ms, types : Delivers(ms) /\ Only(ms, types) /\ SendersOnly(types)

LEMMA SilentPosts == ASSUME AdmissionInv, Seqs, UNCHANGED wire PROVE Posts
<1>1. PICK ms : Delivers(ms) /\ \A d \in Conns : ms[d] = << >>
  BY NothingDelivered DEF AdmissionInv
<1>2. Only(ms, {}) /\ SendersOnly({})
  BY <1>1 DEF Only, SendersOnly
<1> QED
  BY <1>1, <1>2 DEF Posts

LEMMA MulticastTypes ==
    ASSUME AdmissionInv, Seqs, NEW c \in Conns, SendMulticastState(c)
    PROVE  Posts
<1> DEFINE types == {"InstallGroupDirectory", "InstallGroupRoutes"}
<1>1. OwnsId(c)
  BY DEF SendMulticastState, AdmissionInv, Registrations
<1>2. \A g : GroupDirectory(g).type = "InstallGroupDirectory"
  BY DEF GroupDirectory
<1>3. \A g, n : GroupRoutesSnapshot(g, n).type = "InstallGroupRoutes"
  BY DEF GroupRoutesSnapshot
<1>4. PICK msgs : SendTo(c, msgs) /\ \/ \E g : msgs = <<GroupDirectory(g)>>
                                     \/ \E g, n : msgs = <<GroupDirectory(g), GroupRoutesSnapshot(g, n)>>
  BY DEF SendMulticastState, MulticastState
<1>5. IsSequence(msgs) /\ \A i \in DOMAIN msgs : msgs[i].type \in types
  <2>1. ASSUME NEW g, msgs = <<GroupDirectory(g)>>
        PROVE  IsSequence(msgs) /\ \A i \in DOMAIN msgs : msgs[i].type \in types
    BY <1>2, <2>1, OneSeq
  <2>2. ASSUME NEW g, NEW n, msgs = <<GroupDirectory(g), GroupRoutesSnapshot(g, n)>>
        PROVE  IsSequence(msgs) /\ \A i \in DOMAIN msgs : msgs[i].type \in types
    BY <1>2, <1>3, <2>2, TwoSeq
  <2> QED
    BY <1>4, <2>1, <2>2
<1>6. PICK ms : /\ Delivers(ms) /\ ms[c] = (IF c \in open THEN msgs ELSE << >>)
                /\ \A d \in Conns : d # c => ms[d] = << >>
  BY <1>1, <1>4, <1>5, OneReached
<1>7. Only(ms, types)
  BY <1>5, <1>6, OneSentOnly
<1>8. SendersOnly(types)
  BY DEF SendersOnly
<1> QED
  BY <1>6, <1>7, <1>8 DEF Posts

LEMMA HandlerPosts ==
    ASSUME AdmissionInv, Seqs, NEW c \in Conns, HandlerStep(c)
    PROVE  Posts
<1>1. CASE QuietHandlerStep(c) \/ CloseConnection(c)
  <2>1. UNCHANGED wire
    BY <1>1 DEF QuietHandlerStep, RegisterNode, ReadNeighbors, ReadRoutes, NodeTopologyReady,
       JoinGroup, LeaveGroup, ChangeMembership, SetGroupRoutes, CloseConnection
  <2> QED
    BY <2>1, SilentPosts
<1>2. ASSUME NEW m, SendTo(c, <<m>>), OwnsId(c), SendersOnly({m.type}) PROVE Posts
  <2>1. PICK ms : /\ Delivers(ms) /\ ms[c] = (IF c \in open THEN <<m>> ELSE << >>)
                  /\ \A d \in Conns : d # c => ms[d] = << >>
    BY <1>2, OneSeq, OneReached
  <2>2. Only(ms, {m.type})
    BY <2>1, OneSeq, OneSentOnly
  <2> QED
    BY <1>2, <2>1, <2>2 DEF Posts
<1>3. CASE UpsertNode(c)
  <2>1. OwnsId(c) /\ SendTo(c, <<[type |-> "StartUp"]>>)
    BY <1>3 DEF UpsertNode, AdmissionInv, Registrations
  <2>2. SendersOnly({[type |-> "StartUp"].type})
    BY DEF SendersOnly
  <2> QED
    BY <1>2, <2>1, <2>2
<1>4. CASE SendAddNode(c)
  <2>1. PICK n : SendTo(c, <<[type |-> "AddNode", node |-> n]>>)
    BY <1>4 DEF SendAddNode
  <2>2. OwnsId(c) /\ SendersOnly({[type |-> "AddNode", node |-> n].type})
    BY <1>4 DEF SendAddNode, SendersOnly, AdmissionInv, Registrations
  <2> QED
    BY <1>2, <2>1, <2>2
<1>5. CASE SendRoutes(c)
  <2>1. PICK x : SendTo(c, <<[type |-> "InstallRoutes", entries |-> x]>>)
    BY <1>5 DEF SendRoutes
  <2>2. OwnsId(c)
    BY <1>5 DEF SendRoutes, AdmissionInv, Registrations
  <2>3. SendersOnly({[type |-> "InstallRoutes", entries |-> x].type})
    BY <1>5 DEF SendersOnly
  <2> QED
    BY <1>2, <2>1, <2>2, <2>3
<1>6. CASE SendMulticastState(c)
  BY <1>6, MulticastTypes
<1>7. CASE CreateGroup(c)
  <2>1. PICK ms : /\ Delivers(ms)
                  /\ \/ UNCHANGED early /\ \A d \in Conns : ms[d] = << >>
                     \/ /\ early' = early \cup ({"directory"} \X Unwired)
                        /\ Only(ms, {"GroupCreated", "InstallGroupDirectory"})
    BY <1>7, CreateDelivers
  <2>2. Only(ms, {"GroupCreated", "InstallGroupDirectory"})
    BY <2>1 DEF Only
  <2>3. SendersOnly({"GroupCreated", "InstallGroupDirectory"})
    BY <1>7 DEF SendersOnly
  <2> QED
    BY <2>1, <2>2, <2>3 DEF Posts
<1>8. CASE NotifyGroupRoutes(c)
  <2>1. PICK ms : Delivers(ms) /\ Only(ms, {"InstallGroupRoutes"})
    BY <1>8, GroupRoutesDelivered
  <2>2. SendersOnly({"InstallGroupRoutes"})
    BY <1>8 DEF SendersOnly
  <2> QED
    BY <2>1, <2>2 DEF Posts
<1> QED
  BY <1>1, <1>3, <1>4, <1>5, <1>6, <1>7, <1>8 DEF HandlerStep, QuietHandlerStep

LEMMA TasksPost ==
    ASSUME AdmissionInv, Seqs, SyncStep \/ CoordinatorStep
    PROVE  Posts
<1>1. CASE UNCHANGED wire
  BY <1>1, SilentPosts
<1>2. ASSUME NEW types, SendersOnly(types), \E ms : Delivers(ms) /\ Only(ms, types) PROVE Posts
  BY <1>2 DEF Posts
<1>3. CASE SyncSendRoutes
  <2>1. SendersOnly({"InstallRoutes"})
    BY <1>3 DEF SendersOnly
  <2> QED
    BY <1>2, <1>3, <2>1, SyncRoutesDelivered
<1>4. CASE SyncSendGroup
  <2>1. SendersOnly({"InstallGroupRoutes"})
    BY <1>4 DEF SendersOnly
  <2> QED
    BY <1>2, <1>4, <2>1, GroupRoutesDelivered
<1>5. CASE (\E f \in AllFlows : SyncFlow(f)) \/ SendFlows
  <2>1. SendersOnly({"AddFlows"})
    BY DEF SendersOnly
  <2> QED
    BY <1>2, <1>5, <2>1, FlowDelivered
<1>6. CASE SendLinkRates
  <2>1. SendersOnly({"SetLinkRate"})
    BY DEF SendersOnly
  <2> QED
    BY <1>2, <1>6, <2>1, RatesDelivered
<1>7. CASE \E x : MaybeBroadcastTopologyReady(x)
  <2>1. SendersOnly({"TopologyReady"})
    BY DEF SendersOnly
  <2> QED
    BY <1>2, <1>7, <2>1, MaybeDelivers
<1>8. SyncReadRoutes \/ SyncReadGroup => UNCHANGED wire
  BY DEF SyncReadRoutes, SyncReadGroup
<1> QED
  BY <1>1, <1>3, <1>4, <1>5, <1>6, <1>7, <1>8 DEF SyncStep, AllFlows, CoordinatorStep,
     NodeConnected, NodeLocallyReady, CheckReadyAfterDispatch

\* A step of a node reads one message.
LEMMA NodeReads ==
    ASSUME AdmissionInv, NEW n \in NodeIds, NodeStep(n)
    PROVE  /\ UNCHANGED <<tables, open, crashes>>
           /\ Conn(n) \in Conns /\ wire[Conn(n)] # << >> /\ wire'[Conn(n)] = Tail(wire[Conn(n)])
           /\ \A d \in Conns : d # Conn(n) => wire'[d] = wire[d] /\ inbox'[d] = inbox[d]
           /\ \A m \in NodeIds : m # n => dp'[m] = dp[m]
           /\ \A m \in NodeIds : Conn(m)' = Conn(m)
           /\ dp'[n].starts = dp[n].starts /\ dp'[n].phase = "up"
           /\ dp[n].phase = "starting" => TakeResponse(n)
<1>a. /\ ControlShape /\ DOMAIN dp = NodeIds /\ DOMAIN dp[n] = DOMAIN Fresh(0)
      /\ DOMAIN inbox = Conns /\ DOMAIN wire = Conns
  BY DEF AdmissionInv, ControlShape
<1>1. CASE TakeResponse(n)
  <2>1. Conn(n) \in Conns
    BY <1>1, <1>a, OwnConn DEF TakeResponse, ControlShape
  <2>2. /\ dp'[n].phase = "up" /\ dp'[n].starts = dp[n].starts
        /\ \A m \in NodeIds : m # n => dp'[m] = dp[m]
    BY <1>1, <1>a, FreshFields DEF TakeResponse
  <2> QED
    BY <1>1, <1>a, <2>1, <2>2 DEF TakeResponse, Conn
<1>2. CASE \/ AddNode(n) \/ SetLinkRate(n) \/ InstallRoutes(n) \/ AddFlows(n) \/ TopologyReady(n)
           \/ InstallGroupDirectory(n) \/ InstallGroupRoutes(n) \/ IgnoreMessage(n)
  <2>1. /\ Works(n)
        /\ dp[n].phase = "up" /\ wire[Conn(n)] # << >>
        /\ wire' = [wire EXCEPT ![Conn(n)] = Tail(@)]
        /\ UNCHANGED <<tables, open, crashes>>
    BY <1>2, HandlingWorks
  <2>2. Conn(n) \in Conns
    BY <2>1, UpIsOpen
  <2>3. \A d \in Conns : d # Conn(n) => inbox'[d] = inbox[d]
    BY <1>2, <1>a DEF AddNode, SetLinkRate, InstallRoutes, AddFlows, TopologyReady,
       InstallGroupDirectory, InstallGroupRoutes, IgnoreMessage, Settle
  <2> QED
    BY <1>a, <2>1, <2>2, <2>3 DEF Works, Conn
<1> QED
  BY <1>1, <1>2 DEF NodeStep

\* The steps there are: sending, reading, and the life of a process
LEMMA StepsPost ==
    ASSUME AdmissionInv, Seqs, [Next]_vars
    PROVE  \/ Posts /\ UNCHANGED <<dp, open>>
           \/ \E n \in NodeIds : NodeStep(n) \/ StartNode(n) \/ Crash(n)
           \/ \E n, m \in NodeIds : AcceptLink(n, m)
<1>1. ASSUME NEW c \in Conns, HandlerStep(c), Quiet PROVE Posts /\ UNCHANGED <<dp, open>>
  BY <1>1, HandlerPosts, HandlerWorks DEF Quiet
<1>2. CASE (SyncStep \/ CoordinatorStep) /\ Quiet
  <2>1. UNCHANGED open
    BY <1>2 DEF SyncStep, CoordinatorStep, SyncReadRoutes, SyncSendRoutes, SyncReadGroup,
         SyncSendGroup, SyncFlow, NodeConnected, NodeLocallyReady, SendLinkRates, SendFlows,
         CheckReadyAfterDispatch, syncFrame, coordFrame, TakeEvent
  <2> QED
    BY <1>2, <2>1, TasksPost DEF Quiet
<1>3. CASE \/ \E rs \in RouteChoices : UpdateRoutes(rs) /\ Quiet
           \/ \E f \in LaterFlows : InsertFlow(f) /\ Quiet
           \/ \E r \in Requests : Request(r)
           \/ UNCHANGED vars
  <2>1. UNCHANGED <<wire, dp, open>>
    BY <1>3 DEF UpdateRoutes, InsertFlow, Request, outsideFrame, Quiet, vars, controllerVars
  <2> QED
    BY <2>1, SilentPosts
<1> QED
  BY <1>1, <1>2, <1>3 DEF Next, SystemStep, OutsideStep, ControlPlaneAssumption

-----------------------------------------------------------------------------
(* What a node will hold *)

LEMMA HeldUnchanged ==
    ASSUME NEW n, NEW type, NEW field, NEW held, NEW x, WillHold(n, type, field, held, x),
           wire'[Conn(n)] = wire[Conn(n)], Conn(n)' = Conn(n), dp'[n].phase = dp[n].phase,
           dp'[n][held] = dp[n][held]
    PROVE  WillHold(n, type, field, held, x)'
BY DEF WillHold

\* Messages of other kinds change nothing,
LEMMA HeldBehind ==
    ASSUME Seqs, NEW ms, Delivers(ms), UNCHANGED dp, NEW n, Conn(n) \in Conns,
           NEW type, NEW field, NEW held, NEW x, WillHold(n, type, field, held, x),
           \A i \in DOMAIN ms[Conn(n)] : ms[Conn(n)][i].type # type
    PROVE  WillHold(n, type, field, held, x)'
<1> DEFINE v == wire[Conn(n)]
           t == ms[Conn(n)]
           w == wire'[Conn(n)]
           P(i) == dp[n].phase = "starting" => i # 1
<1>1. IsSequence(v) /\ IsSequence(t) /\ w = v \o t
  BY DEF Seqs, Delivers
<1>2. Conn(n)' = Conn(n)
  BY DEF Conn
<1>3. \/ \E i \in DOMAIN v : /\ v[i].type = type /\ P(i) /\ v[i][field] = x
                             /\ \A j \in DOMAIN v : j > i => v[j].type # type
      \/ (\A i \in DOMAIN v : ~(v[i].type = type /\ P(i))) /\ dp[n][held] = x
  BY DEF WillHold
<1>4. WillHold(n, type, field, held, x)' <=>
         \/ \E i \in DOMAIN w : /\ w[i].type = type /\ P(i) /\ w[i][field] = x
                                /\ \A j \in DOMAIN w : j > i => w[j].type # type
         \/ (\A i \in DOMAIN w : ~(w[i].type = type /\ P(i))) /\ dp[n][held] = x
  BY <1>2 DEF WillHold
<1>5. \A i \in DOMAIN t : t[i].type # type
  OBVIOUS
<1> HIDE DEF v, t, w, P
<1>6. \A i \in DOMAIN v : i \in DOMAIN w /\ w[i] = v[i]
  BY <1>1, ConcatSeq
<1>7. \A i \in DOMAIN w : (i \in DOMAIN v /\ w[i] = v[i]) \/ \E j \in DOMAIN t : w[i] = t[j]
  BY <1>1, ConcatParts
<1>8. CASE \E i \in DOMAIN v : /\ v[i].type = type /\ P(i) /\ v[i][field] = x
                               /\ \A j \in DOMAIN v : j > i => v[j].type # type
  <2>1. PICK i \in DOMAIN v : /\ v[i].type = type /\ P(i) /\ v[i][field] = x
                              /\ \A j \in DOMAIN v : j > i => v[j].type # type
    BY <1>8
  <2>2. i \in DOMAIN w /\ w[i] = v[i]
    BY <1>6
  <2>3. \A j \in DOMAIN w : j > i => w[j].type # type
    BY <1>5, <1>7, <2>1
  <2> QED
    BY <1>4, <2>1, <2>2, <2>3
<1>9. CASE (\A i \in DOMAIN v : ~(v[i].type = type /\ P(i))) /\ dp[n][held] = x
  <2>1. \A i \in DOMAIN w : ~(w[i].type = type /\ P(i))
    BY <1>5, <1>7, <1>9
  <2> QED
    BY <1>4, <1>9, <2>1
<1> QED
  BY <1>3, <1>8, <1>9

\* a new one of this kind is what counts,
LEMMA HeldSent ==
    ASSUME Seqs, NEW ms, Delivers(ms), UNCHANGED dp, NEW n, Conn(n) \in Conns,
           NEW type, NEW field, NEW held, NEW x,
           dp[n].phase = "starting" => wire[Conn(n)] # << >>,
           NEW k \in DOMAIN ms[Conn(n)], ms[Conn(n)][k].type = type, ms[Conn(n)][k][field] = x,
           \A i \in DOMAIN ms[Conn(n)] : i > k => ms[Conn(n)][i].type # type
    PROVE  WillHold(n, type, field, held, x)'
<1> DEFINE v == wire[Conn(n)]
           t == ms[Conn(n)]
           w == wire'[Conn(n)]
           P(i) == dp[n].phase = "starting" => i # 1
           l == Len(v) + k
<1>1. IsSequence(v) /\ IsSequence(t) /\ w = v \o t
  BY DEF Seqs, Delivers
<1>2. Conn(n)' = Conn(n)
  BY DEF Conn
<1>3. (\E i \in DOMAIN w : /\ w[i].type = type /\ P(i) /\ w[i][field] = x
                           /\ \A j \in DOMAIN w : j > i => w[j].type # type)
      => WillHold(n, type, field, held, x)'
  BY <1>2 DEF WillHold
<1>4. k \in DOMAIN t /\ t[k].type = type /\ t[k][field] = x /\ \A i \in DOMAIN t : i > k => t[i].type # type
  OBVIOUS
<1>5. (v = << >> => \A i : P(i)) /\ (\A i : i # 1 => P(i))
  OBVIOUS
<1> HIDE DEF v, t, w, P
<1>6. /\ Len(v) \in Nat /\ (v # << >> => Len(v) # 0) /\ DOMAIN v = 1 .. Len(v)
      /\ DOMAIN t = 1 .. Len(t) /\ Len(t) \in Nat
  BY <1>1, SeqFacts
<1>7. l \in DOMAIN w /\ w[l] = t[k]
  BY <1>1, <1>4, ConcatSeq
<1>8. l # 1 \/ v = << >>
  BY <1>4, <1>6
<1>9. ASSUME NEW j \in DOMAIN w, j > l PROVE w[j].type # type
  <2>1. \A i \in DOMAIN w : i \in Nat /\ (i \in DOMAIN v \/ (i - Len(v) \in DOMAIN t /\ w[i] = t[i - Len(v)]))
    BY <1>1, ConcatSeq
  <2>2. j \notin DOMAIN v
    BY <1>4, <1>6, <1>9
  <2>3. j - Len(v) \in DOMAIN t /\ w[j] = t[j - Len(v)]
    BY <2>1, <2>2
  <2>4. j - Len(v) > k
    BY <1>4, <1>6, <1>9, <2>1
  <2> QED
    BY <1>4, <2>3, <2>4
<1> QED
  BY <1>3, <1>4, <1>5, <1>7, <1>8, <1>9

-----------------------------------------------------------------------------
(* A node's connections *)

LEMMA StartFacts ==
    ASSUME AdmissionInv, NEW n \in NodeIds, StartNode(n)
    PROVE  /\ UNCHANGED <<tables, wire, crashes>> /\ dp[n].phase = "down"
           /\ Conn(n)' \in Conns /\ Conn(n)'[1] = n /\ Conn(n)'[2] = dp[n].starts + 1
           /\ dp[n].starts \in Nat /\ dp'[n].starts = dp[n].starts + 1 /\ dp'[n].phase = "starting"
           /\ \A m \in NodeIds : m # n => dp'[m] = dp[m] /\ Conn(m)' = Conn(m)
           /\ \A d \in Conns : d # Conn(n)' => inbox'[d] = inbox[d]
<1>a. /\ DOMAIN dp = NodeIds /\ DOMAIN inbox = Conns /\ dp[n].starts \in 0 .. MaxStarts
  BY DEF AdmissionInv, ControlShape
<1>1. dp[n].phase = "down" /\ <<n, dp[n].starts + 1>> \in Conns
  BY <1>a DEF StartNode, Conns
<1>2. /\ \A m \in NodeIds : m # n => dp'[m] = dp[m]
      /\ dp'[n].starts = dp[n].starts + 1 /\ dp'[n].phase = "starting"
  BY <1>a DEF StartNode, Fresh
<1>3. Conn(n)' = <<n, dp[n].starts + 1>> /\ \A m \in NodeIds : m # n => Conn(m)' = Conn(m)
  BY <1>2 DEF Conn
<1> QED
  BY <1>a, <1>1, <1>2, <1>3 DEF StartNode

LEMMA CrashFacts ==
    ASSUME AdmissionInv, NEW n \in NodeIds, Crash(n)
    PROVE  /\ UNCHANGED <<tables, inbox>>
           /\ dp'[n].phase = "down" /\ \A m \in NodeIds : m # n => dp'[m] = dp[m]
           /\ \A m \in NodeIds : Conn(m)' = Conn(m) /\ dp'[m].starts = dp[m].starts
           /\ \A d \in Conns : wire'[d] = wire[d] \/ wire'[d] = << >>
           /\ \A m \in NodeIds : m # n => wire'[Conn(m)] = wire[Conn(m)]
<1>a. DOMAIN dp = NodeIds /\ DOMAIN wire = Conns
  BY DEF AdmissionInv, ControlShape
<1>1. /\ \A m \in NodeIds : m # n => dp'[m] = dp[m]
      /\ dp'[n].starts = dp[n].starts /\ dp'[n].phase = "down"
  BY <1>a DEF Crash, Fresh
<1>2. \A m \in NodeIds : Conn(m)' = Conn(m) /\ (m # n => Conn(m) # Conn(n))
  BY <1>1 DEF Conn
<1>3. wire' = [wire EXCEPT ![Conn(n)] = << >>] /\ UNCHANGED <<tables, inbox>>
  BY DEF Crash
<1>4. \A d : d # Conn(n) => wire'[d] = wire[d]
  BY <1>3
<1>5. \A d \in Conns : wire'[d] = wire[d] \/ wire'[d] = << >>
  BY <1>a, <1>3
<1> QED
  BY <1>1, <1>2, <1>3, <1>4, <1>5

LEMMA AcceptFacts ==
    ASSUME AdmissionInv, NEW n \in NodeIds, NEW m \in NodeIds, AcceptLink(n, m)
    PROVE  /\ UNCHANGED <<tables, inbox, wire, crashes>>
           /\ \A k \in NodeIds : \A x \in DOMAIN Fresh(0) : x # "peers" => dp'[k][x] = dp[k][x]
           /\ \A k \in NodeIds : Conn(k)' = Conn(k)
<1>a. DOMAIN dp = NodeIds /\ \A k \in NodeIds : DOMAIN dp[k] = DOMAIN Fresh(0)
  BY DEF AdmissionInv, ControlShape
<1>1. UNCHANGED <<tables, inbox, wire, crashes>> /\ dp' = [dp EXCEPT ![m].peers = @ \cup {n}]
  BY DEF AcceptLink
<1>2. \A k \in NodeIds : \A x \in DOMAIN Fresh(0) : x # "peers" => dp'[k][x] = dp[k][x]
  BY <1>1, <1>a
<1>3. \A k \in NodeIds : dp'[k].starts = dp[k].starts
  BY <1>2, FreshFields
<1> QED
  BY <1>1, <1>2, <1>3, SameConns

LEMMA HoldersElse ==
    ASSUME AdmissionInv, [Next]_vars
    PROVE  \/ \E c \in Conns : HandlerStep(c) /\ Quiet
           \/ UNCHANGED <<node_ws, handler>>
<1>1. CASE SyncStep \/ CoordinatorStep
  BY <1>1 DEF SyncStep, CoordinatorStep, SyncReadRoutes, SyncSendRoutes, SyncReadGroup,
     SyncSendGroup, SyncFlow, NodeConnected, NodeLocallyReady, SendLinkRates, SendFlows,
     CheckReadyAfterDispatch, syncFrame, coordFrame, TakeEvent
<1>2. ASSUME NEW n \in NodeIds, NodeStep(n) \/ StartNode(n) \/ Crash(n)
      PROVE  UNCHANGED <<node_ws, handler>>
  BY <1>2, NodeReads, StartFacts, CrashFacts DEF tables
<1>3. ASSUME NEW n \in NodeIds, NEW m \in NodeIds, AcceptLink(n, m)
      PROVE  UNCHANGED <<node_ws, handler>>
  BY <1>3, AcceptFacts DEF tables
<1>4. CASE \/ \E rs \in RouteChoices : UpdateRoutes(rs) /\ Quiet
           \/ \E f \in LaterFlows : InsertFlow(f) /\ Quiet
           \/ \E r \in Requests : Request(r)
           \/ UNCHANGED vars
  BY <1>4 DEF UpdateRoutes, InsertFlow, Request, outsideFrame, vars, controllerVars, tables
<1> QED
  BY <1>1, <1>2, <1>3, <1>4 DEF Next, SystemStep, OutsideStep, ControlPlaneAssumption

\* Inboxes are filled by the node on its own connection only.
LEMMA InboxOthers ==
    ASSUME AdmissionInv, [Next]_vars, NEW d \in Conns, d[2] > dp[d[1]].starts,
           \A n \in NodeIds : StartNode(n) => d # Conn(n)'
    PROVE  inbox'[d] = inbox[d] \/ (inbox[d] = << >> => inbox'[d] = << >>)
<1>a. \A n \in NodeIds : d # Conn(n)
  <2>1. \A n \in NodeIds : Conn(n)[1] = n /\ Conn(n)[2] = dp[n].starts /\ dp[n].starts \in Nat
    BY DEF Conn, AdmissionInv, ControlShape
  <2> QED
    BY <2>1, ConnFacts
<1>1. ASSUME NEW c \in Conns, HandlerStep(c) PROVE inbox[d] = << >> => inbox'[d] = << >>
  BY <1>1, HandlerWorks
<1>2. CASE SyncStep \/ CoordinatorStep
  BY <1>2 DEF SyncStep, CoordinatorStep, SyncReadRoutes, SyncSendRoutes, SyncReadGroup,
     SyncSendGroup, SyncFlow, NodeConnected, NodeLocallyReady, SendLinkRates, SendFlows,
     CheckReadyAfterDispatch, syncFrame, coordFrame, TakeEvent
<1>3. ASSUME NEW n \in NodeIds, NodeStep(n) \/ StartNode(n) \/ Crash(n)
      PROVE  inbox'[d] = inbox[d]
  BY <1>3, <1>a, NodeReads, StartFacts, CrashFacts
<1>4. ASSUME NEW n \in NodeIds, NEW m \in NodeIds, AcceptLink(n, m)
      PROVE  inbox'[d] = inbox[d]
  BY <1>4, AcceptFacts
<1>5. ASSUME NEW r \in Requests, Request(r) PROVE inbox'[d] = inbox[d]
  <2>1. r.node \in NodeIds /\ DOMAIN inbox = Conns
    BY DEF ControlPlaneAssumption, AdmissionInv, ControlShape
  <2> QED
    BY <1>5, <1>a, <2>1 DEF Request
<1>6. CASE \/ \E rs \in RouteChoices : UpdateRoutes(rs) /\ Quiet
           \/ \E f \in LaterFlows : InsertFlow(f) /\ Quiet
           \/ UNCHANGED vars
  BY <1>6 DEF UpdateRoutes, InsertFlow, outsideFrame, vars, controllerVars
<1> QED
  BY <1>1, <1>2, <1>3, <1>4, <1>5, <1>6 DEF Next, SystemStep, OutsideStep, ControlPlaneAssumption

LEMMA StartsGrow ==
    ASSUME AdmissionInv, [Next]_vars, NEW n \in NodeIds
    PROVE  \/ dp'[n].starts = dp[n].starts
           \/ StartNode(n) /\ dp'[n].starts = dp[n].starts + 1
<1>1. ASSUME NEW m \in NodeIds, NodeStep(m) \/ StartNode(m) \/ Crash(m)
      PROVE  \/ dp'[n].starts = dp[n].starts
             \/ StartNode(n) /\ dp'[n].starts = dp[n].starts + 1
  BY <1>1, NodeReads, StartFacts, CrashFacts
<1>2. ASSUME NEW a \in NodeIds, NEW b \in NodeIds, AcceptLink(a, b)
      PROVE  dp'[n].starts = dp[n].starts
  BY <1>2, AcceptFacts, FreshFields
<1>3. CASE UNCHANGED dp
  BY <1>3
<1> QED
  BY <1>1, <1>2, <1>3 DEF Next, SystemStep, OutsideStep, ControlPlaneAssumption, Request, Quiet, vars

LEMMA SeqsStep ==
    ASSUME AdmissionInv, Seqs, [Next]_vars
    PROVE  Seqs'
<1>1. CASE Posts
  BY <1>1, SeqClosed DEF Posts, Delivers, Seqs
<1>2. ASSUME NEW n \in NodeIds, NodeStep(n) PROVE Seqs'
  <2>1. wire[Conn(n)] # << >> /\ wire'[Conn(n)] = Tail(wire[Conn(n)]) /\ Conn(n) \in Conns
        /\ \A d \in Conns : d # Conn(n) => wire'[d] = wire[d]
    BY <1>2, NodeReads
  <2> QED
    BY <2>1, SeqClosed DEF Seqs
<1>3. ASSUME NEW n \in NodeIds, StartNode(n) PROVE Seqs'
  BY <1>3, StartFacts DEF Seqs
<1>4. ASSUME NEW n \in NodeIds, Crash(n) PROVE Seqs'
  BY <1>4, CrashFacts, NothingSeq DEF Seqs
<1>5. ASSUME NEW n \in NodeIds, NEW m \in NodeIds, AcceptLink(n, m) PROVE Seqs'
  BY <1>5, AcceptFacts DEF Seqs
<1> QED
  BY <1>1, <1>2, <1>3, <1>4, <1>5, StepsPost

LEMMA ToComeStep ==
    ASSUME AdmissionInv, ToCome, [Next]_vars
    PROVE  ToCome'
<1> SUFFICES ASSUME NEW d \in Conns, d[2] > dp'[d[1]].starts
             PROVE  inbox'[d] = << >> /\ ~OwnsId(d)'
  BY DEF ToCome
<1>1. d[1] \in NodeIds /\ dp[d[1]].starts \in Nat /\ d[2] \in Nat
  BY ConnFacts DEF AdmissionInv, ControlShape
<1>2. d[2] > dp[d[1]].starts
  BY <1>1, StartsGrow
<1>3. inbox[d] = << >> /\ ~OwnsId(d)
  BY <1>2 DEF ToCome
<1>4. \A n \in NodeIds : StartNode(n) => d # Conn(n)'
  BY <1>1, StartFacts
<1>5. inbox'[d] = << >>
  BY <1>2, <1>3, <1>4, InboxOthers
<1>6. ~OwnsId(d)'
  <2>1. ASSUME NEW c \in Conns, HandlerStep(c) PROVE ~OwnsId(d)'
    BY <1>3, <2>1, HandlerHolds
  <2>2. CASE UNCHANGED <<node_ws, handler>>
    BY <1>3, <2>2 DEF OwnsId
  <2> QED
    BY <2>1, <2>2, HoldersElse
<1> QED
  BY <1>5, <1>6

LEMMA AnswerFirstStep ==
    ASSUME AdmissionInv, Seqs, ToCome, AnswerFirst, [Next]_vars
    PROVE  AnswerFirst'
<1> SUFFICES ASSUME NEW n \in NodeIds, dp'[n].phase = "starting", OwnsId(Conn(n))',
                    handler'[Conn(n)'].step # "upsert"
             PROVE  wire'[Conn(n)'] # << >>
  BY DEF AnswerFirst
<1>a. \A m \in NodeIds : dp[m].phase # "down" => Conn(m) \in Conns /\ Conn(m) \in open
  BY OwnConn DEF AdmissionInv, ControlShape, Registrations
<1>0. SUFFICES ASSUME Conn(n)' = Conn(n), dp[n].phase = "starting"
               PROVE  wire'[Conn(n)] # << >>
  <2>1. ASSUME NEW m \in NodeIds, NodeStep(m) \/ StartNode(m) \/ Crash(m), m # n
        PROVE  Conn(n)' = Conn(n) /\ dp[n].phase = "starting"
    BY <2>1, NodeReads, StartFacts, CrashFacts
  <2>2. ASSUME NodeStep(n) \/ Crash(n) PROVE FALSE
    <3>1. dp'[n].phase = "up" \/ dp'[n].phase = "down"
      BY <2>2, NodeReads, CrashFacts
    <3> QED
      BY <3>1
  <2>3. ASSUME StartNode(n) PROVE FALSE
    <3>1. Conn(n)' \in Conns /\ Conn(n)'[2] > dp[n].starts /\ Conn(n)'[1] = n /\ UNCHANGED node_ws
      BY <2>3, StartFacts DEF tables
    <3>2. ~OwnsId(Conn(n)')
      BY <3>1 DEF ToCome
    <3> QED
      BY <3>1, <3>2 DEF OwnsId
  <2>4. ASSUME NEW a \in NodeIds, NEW b \in NodeIds, AcceptLink(a, b)
        PROVE  Conn(n)' = Conn(n) /\ dp[n].phase = "starting"
    BY <2>4, AcceptFacts, FreshFields
  <2>5. CASE UNCHANGED dp
    BY <2>5 DEF Conn
  <2> QED
    BY <1>0, <2>1, <2>2, <2>3, <2>4, <2>5, StepsPost
<1>1. Conn(n) \in Conns /\ Conn(n) \in open
  BY <1>0, <1>a
<1>2. ASSUME wire[Conn(n)] # << >> PROVE wire'[Conn(n)] # << >>
  <2>1. CASE Posts
    <3>1. PICK t : wire'[Conn(n)] = wire[Conn(n)] \o t /\ IsSequence(t)
      BY <1>1, <2>1 DEF Posts, Delivers
    <3>2. IsSequence(wire[Conn(n)])
      BY <1>1 DEF Seqs
    <3> QED
      BY <1>2, <3>1, <3>2, ConcatSeq
  <2>2. ASSUME NEW m \in NodeIds, NodeStep(m) \/ StartNode(m) \/ Crash(m) PROVE wire'[Conn(n)] # << >>
    <3>1. m # n \/ StartNode(m)
      <4>1. CASE m = n /\ (NodeStep(m) \/ Crash(m))
        <5>1. dp'[n].phase = "up" \/ dp'[n].phase = "down"
          BY <4>1, NodeReads, CrashFacts
        <5> QED
          BY <5>1
      <4> QED
        BY <2>2, <4>1
    <3>2. m # n => Conn(m) # Conn(n)
      BY ConnsDiffer
    <3> QED
      BY <1>1, <1>2, <2>2, <3>1, <3>2, NodeReads, StartFacts, CrashFacts
  <2>3. ASSUME NEW a \in NodeIds, NEW b \in NodeIds, AcceptLink(a, b) PROVE wire'[Conn(n)] # << >>
    BY <1>2, <2>3, AcceptFacts
  <2> QED
    BY <2>1, <2>2, <2>3, StepsPost
<1>3. OwnsId(Conn(n))' <=> Conn(n)[1] \in DOMAIN node_ws' /\ node_ws'[Conn(n)[1]] = Conn(n)
  BY <1>0 DEF OwnsId
<1>4. CASE UNCHANGED <<node_ws, handler>>
  <2>1. OwnsId(Conn(n)) /\ handler[Conn(n)].step # "upsert"
    BY <1>0, <1>3, <1>4 DEF OwnsId
  <2> QED
    BY <1>0, <1>2, <2>1 DEF AnswerFirst
<1>5. ASSUME NEW c \in Conns, HandlerStep(c), Quiet PROVE wire'[Conn(n)] # << >>
  <2>1. OwnsId(Conn(n))
    <3> DEFINE d == Conn(n)
    <3>1. d \in Conns /\ handler'[d].step # "upsert"
      BY <1>0, <1>1
    <3>2. d[1] \in DOMAIN node_ws' /\ node_ws'[d[1]] = d
      BY <1>3
    <3>3. \A k \in Conns : OwnsId(k)' => OwnsId(k) \/ (k = c /\ handler'[c].step = "upsert")
      BY <1>5, HandlerHolds
    <3>4. \A k : OwnsId(k)' <=> k[1] \in DOMAIN node_ws' /\ node_ws'[k[1]] = k
      BY DEF OwnsId
    <3> HIDE DEF d
    <3>5. (d[1] \in DOMAIN node_ws' /\ node_ws'[d[1]] = d) =>
             (d[1] \in DOMAIN node_ws /\ node_ws[d[1]] = d) \/ (d = c /\ handler'[c].step = "upsert")
      BY <3>1, <3>3 DEF OwnsId
    <3> QED
      BY <3>1, <3>2, <3>5 DEF OwnsId, d
  <2>2. CASE handler[Conn(n)].step # "upsert"
    BY <1>0, <1>2, <2>1, <2>2 DEF AnswerFirst
  <2>3. CASE handler[Conn(n)].step = "upsert"
    <3>1. c = Conn(n)
      BY <1>0, <1>1, <1>5, <2>3, HandlerWorks
    <3>2. UpsertNode(c) /\ DOMAIN wire = Conns
      BY <1>5, <2>3, <3>1, HandlerWorks DEF AdmissionInv, ControlShape
    <3>3. wire'[c] = wire[c] \o <<[type |-> "StartUp"]>>
      BY <1>1, <3>1, <3>2 DEF UpsertNode, SendTo, Sent
    <3>4. wire[c] \o <<[type |-> "StartUp"]>> # << >>
      <4>1. IsSequence(wire[c]) /\ IsSequence(<<[type |-> "StartUp"]>>)
            /\ 1 \in DOMAIN <<[type |-> "StartUp"]>>
        BY OneSeq DEF Seqs
      <4>2. Len(wire[c]) + 1 \in DOMAIN (wire[c] \o <<[type |-> "StartUp"]>>)
        BY <4>1, ConcatSeq
      <4> QED
        BY <4>2
    <3> QED
      BY <3>1, <3>3, <3>4
  <2> QED
    BY <2>2, <2>3
<1> QED
  BY <1>4, <1>5, HoldersElse

LEMMA WireInit == Init => WireInv
<1> SUFFICES ASSUME Init PROVE WireInv
  OBVIOUS
<1>1. /\ \A c \in Conns : inbox[c] = << >> /\ wire[c] = << >>
      /\ node_ws = << >> /\ \A n \in NodeIds : dp[n].phase = "down"
  BY DEF Init, ControllerInit, Fresh
<1>2. \A c : ~OwnsId(c)
  BY <1>1 DEF OwnsId
<1> QED
  BY <1>1, <1>2, NothingSeq DEF WireInv, ToCome, AnswerFirst

LEMMA WireStep == ASSUME AdmissionInv, WireInv, [Next]_vars PROVE WireInv'
<1>1. Seqs
  BY DEF WireInv, Seqs
<1>2. Seqs'
  BY <1>1, SeqsStep
<1> QED
  BY <1>1, <1>2, ToComeStep, AnswerFirstStep DEF WireInv, Seqs

\* and what is read is held.
LEMMA HeldTaken ==
    ASSUME AdmissionInv, Seqs, NEW n \in NodeIds, NodeStep(n),
           NEW type, NEW field, NEW held, NEW x, WillHold(n, type, field, held, x),
           dp[n].phase = "up" /\ Head(wire[Conn(n)]).type = type =>
              dp'[n][held] = Head(wire[Conn(n)])[field],
           ~(dp[n].phase = "up" /\ Head(wire[Conn(n)]).type = type) => dp'[n][held] = dp[n][held]
    PROVE  WillHold(n, type, field, held, x)'
<1> DEFINE v == wire[Conn(n)]
           w == wire'[Conn(n)]
           up == dp[n].phase = "up"
           before == dp[n][held]
           after == dp'[n][held]
<1>1. Conn(n)' = Conn(n) /\ dp'[n].phase = "up" /\ v # << >> /\ w = Tail(v) /\ IsSequence(v)
  BY NodeReads DEF Seqs
<1>2. dp[n].phase = "starting" \/ up
  BY DEF NodeStep, TakeResponse, AddNode, SetLinkRate, InstallRoutes, AddFlows, TopologyReady,
     InstallGroupDirectory, InstallGroupRoutes, IgnoreMessage, Next1
<1>3. \/ \E i \in DOMAIN v : /\ v[i].type = type /\ (up \/ i # 1) /\ v[i][field] = x
                             /\ \A j \in DOMAIN v : j > i => v[j].type # type
      \/ (\A i \in DOMAIN v : ~(v[i].type = type /\ (up \/ i # 1))) /\ before = x
  BY <1>2 DEF WillHold
<1>4. WillHold(n, type, field, held, x)' <=>
         \/ \E i \in DOMAIN w : /\ w[i].type = type /\ w[i][field] = x
                                /\ \A j \in DOMAIN w : j > i => w[j].type # type
         \/ (\A i \in DOMAIN w : w[i].type # type) /\ after = x
  BY <1>1 DEF WillHold
<1>5. /\ up /\ Head(v).type = type => after = Head(v)[field]
      /\ ~(up /\ Head(v).type = type) => after = before
  OBVIOUS
<1> HIDE DEF v, w, up, before, after
<1>6. /\ \A i \in DOMAIN w : i \in Nat /\ i + 1 \in DOMAIN v /\ i + 1 # 1 /\ w[i] = v[i + 1]
      /\ \A i \in DOMAIN v : i \in Nat /\ (i # 1 => i - 1 \in DOMAIN w /\ w[i - 1] = v[i])
      /\ 1 \in DOMAIN v /\ Head(v) = v[1] /\ Len(v) \in Nat /\ DOMAIN v = 1 .. Len(v)
  BY <1>1, TailSeq, SeqFacts
<1>7. CASE \E i \in DOMAIN v : /\ v[i].type = type /\ (up \/ i # 1) /\ v[i][field] = x
                               /\ \A j \in DOMAIN v : j > i => v[j].type # type
  <2>1. PICK i \in DOMAIN v : /\ v[i].type = type /\ (up \/ i # 1) /\ v[i][field] = x
                              /\ \A j \in DOMAIN v : j > i => v[j].type # type
    BY <1>7
  <2>2. CASE i = 1
    <3>1. after = x
      BY <1>5, <1>6, <2>1, <2>2
    <3>2. \A k \in DOMAIN w : w[k].type # type
      BY <1>6, <2>1, <2>2
    <3> QED
      BY <1>4, <3>1, <3>2
  <2>3. CASE i # 1
    <3>1. i - 1 \in DOMAIN w /\ w[i - 1].type = type /\ w[i - 1][field] = x
      BY <1>6, <2>1, <2>3
    <3>2. \A k \in DOMAIN w : k > i - 1 => w[k].type # type
      BY <1>6, <2>1
    <3> QED
      BY <1>4, <3>1, <3>2
  <2> QED
    BY <2>2, <2>3
<1>8. CASE (\A i \in DOMAIN v : ~(v[i].type = type /\ (up \/ i # 1))) /\ before = x
  <2>1. \A i \in DOMAIN w : w[i].type # type
    BY <1>6, <1>8
  <2>2. after = x
    BY <1>5, <1>6, <1>8
  <2> QED
    BY <1>4, <2>1, <2>2
<1> QED
  BY <1>3, <1>7, <1>8

\* The tables of a node change by its own messages only.
Takes(n, type, field, held) ==
    LET m == Head(wire[Conn(n)]) IN
    /\ dp[n].phase = "up" /\ m.type = type => dp'[n][held] = m[field]
    /\ ~(dp[n].phase = "up" /\ m.type = type) => dp'[n][held] = dp[n][held]

LEMMA TablesTaken ==
    ASSUME AdmissionInv, NEW n \in NodeIds, NodeStep(n)
    PROVE  /\ Takes(n, "InstallRoutes", "entries", "routes")
           /\ Takes(n, "InstallGroupDirectory", "exists", "directory")
           /\ Takes(n, "InstallGroupRoutes", "entries", "group_routes")
<1> DEFINE m == Head(wire[Conn(n)])
           Same == /\ dp'[n].routes = dp[n].routes /\ dp'[n].directory = dp[n].directory
                   /\ dp'[n].group_routes = dp[n].group_routes
           Other == ~(dp[n].phase = "up" /\ m.type \in {"InstallRoutes", "InstallGroupDirectory",
                                                        "InstallGroupRoutes"})
<1>a. ControlShape /\ DOMAIN dp = NodeIds /\ DOMAIN dp[n] = DOMAIN Fresh(0)
  BY DEF AdmissionInv, ControlShape
<1>b. ASSUME NEW d, Settle(n, d), DOMAIN d = DOMAIN Fresh(0)
      PROVE  /\ dp'[n].routes = d.routes /\ dp'[n].directory = d.directory
             /\ dp'[n].group_routes = d.group_routes
  BY <1>a, <1>b, SettleReports, FreshFields
<1>1. CASE AddNode(n)
  <2> DEFINE d == [dp[n] EXCEPT !.expected = @ + 1, !.connected = @ + 1, !.peers = @ \cup {m.node}]
  <2>1. Settle(n, d) /\ m.type = "AddNode"
    BY <1>1 DEF AddNode, Next1
  <2>2. /\ DOMAIN d = DOMAIN Fresh(0) /\ d.routes = dp[n].routes
        /\ d.directory = dp[n].directory /\ d.group_routes = dp[n].group_routes
    BY <1>a, FreshFields
  <2> HIDE DEF d
  <2> QED
    BY <1>b, <2>1, <2>2 DEF Takes
<1>2. CASE InstallRoutes(n)
  <2> DEFINE d == [dp[n] EXCEPT !.routes = m.entries, !.routes_installed = TRUE]
  <2>1. Settle(n, d) /\ m.type = "InstallRoutes" /\ dp[n].phase = "up"
    BY <1>2 DEF InstallRoutes, Next1
  <2>2. /\ DOMAIN d = DOMAIN Fresh(0) /\ d.routes = m.entries
        /\ d.directory = dp[n].directory /\ d.group_routes = dp[n].group_routes
    BY <1>a, FreshFields
  <2> HIDE DEF d
  <2> QED
    BY <1>b, <2>1, <2>2 DEF Takes
<1>3. CASE InstallGroupDirectory(n)
  <2> DEFINE d == [dp[n] EXCEPT !.directory = m.exists, !.directory_installed = TRUE]
  <2>1. Settle(n, d) /\ m.type = "InstallGroupDirectory" /\ dp[n].phase = "up"
    BY <1>3 DEF InstallGroupDirectory, Next1
  <2>2. /\ DOMAIN d = DOMAIN Fresh(0) /\ d.routes = dp[n].routes
        /\ d.directory = m.exists /\ d.group_routes = dp[n].group_routes
    BY <1>a, FreshFields
  <2> HIDE DEF d
  <2> QED
    BY <1>b, <2>1, <2>2 DEF Takes
<1>4. CASE InstallGroupRoutes(n)
  <2>1. dp' = [dp EXCEPT ![n].group_routes = m.entries] /\ m.type = "InstallGroupRoutes"
        /\ dp[n].phase = "up"
    BY <1>4 DEF InstallGroupRoutes, Next1
  <2>2. /\ dp'[n].group_routes = m.entries /\ dp'[n].routes = dp[n].routes
        /\ dp'[n].directory = dp[n].directory
    BY <1>a, <2>1, FreshFields
  <2> QED
    BY <2>1, <2>2 DEF Takes
<1>5. CASE AddFlows(n)
  <2>1. m.type = "AddFlows"
    BY <1>5 DEF AddFlows, Next1
  <2>2. Same
    BY <1>5, <1>a DEF AddFlows
  <2> QED
    BY <2>1, <2>2 DEF Takes
<1>6. CASE TopologyReady(n)
  <2>1. m.type = "TopologyReady"
    BY <1>6 DEF TopologyReady, Next1
  <2>2. Same
    BY <1>6, <1>a DEF TopologyReady
  <2> QED
    BY <2>1, <2>2 DEF Takes
<1>7. CASE SetLinkRate(n)
  <2>1. m.type = "SetLinkRate"
    BY <1>7 DEF SetLinkRate, Next1
  <2>2. Same
    BY <1>7, <1>a DEF SetLinkRate
  <2> QED
    BY <2>1, <2>2 DEF Takes
<1>8. CASE TakeResponse(n)
  <2>1. dp[n].phase = "starting"
    BY <1>8 DEF TakeResponse
  <2>2. Same
    BY <1>8, <1>a DEF TakeResponse
  <2> QED
    BY <2>1, <2>2 DEF Takes
<1>9. CASE IgnoreMessage(n)
  <2>1. m.type \in {"GroupCreated", "StartUp"} /\ dp' = dp
    BY <1>9 DEF IgnoreMessage, Next1
  <2> QED
    BY <2>1 DEF Takes
<1> QED
  BY <1>1, <1>2, <1>3, <1>4, <1>5, <1>6, <1>7, <1>8, <1>9 DEF NodeStep

-----------------------------------------------------------------------------
(* The routes *)

LEMMA SyncElse ==
    ASSUME AdmissionInv, [Next]_vars
    PROVE  (SyncStep /\ Quiet) \/ UNCHANGED sync
<1>1. ASSUME NEW c \in Conns, HandlerStep(c) PROVE UNCHANGED sync
  BY <1>1 DEF HandlerStep, RegisterNode, UpsertNode, ReadNeighbors, SendAddNode,
     ReadRoutes, SendRoutes, SendMulticastState, NodeTopologyReady, CreateGroup, JoinGroup,
     LeaveGroup, ChangeMembership, SetGroupRoutes, NotifyGroupRoutes, CloseConnection
<1>2. CASE CoordinatorStep
  BY <1>2 DEF CoordinatorStep, NodeConnected, NodeLocallyReady, SendLinkRates,
     SendFlows, CheckReadyAfterDispatch, TakeEvent, coordFrame
<1>3. ASSUME NEW n \in NodeIds, NodeStep(n) \/ StartNode(n) \/ Crash(n)
      PROVE  UNCHANGED sync
  BY <1>3, NodeReads, StartFacts, CrashFacts DEF tables
<1>4. ASSUME NEW n \in NodeIds, NEW m \in NodeIds, AcceptLink(n, m)
      PROVE  UNCHANGED sync
  BY <1>4, AcceptFacts DEF tables
<1>5. CASE \/ \E rs \in RouteChoices : UpdateRoutes(rs) /\ Quiet
           \/ \E f \in LaterFlows : InsertFlow(f) /\ Quiet
           \/ \E r \in Requests : Request(r)
           \/ UNCHANGED vars
  BY <1>5 DEF UpdateRoutes, InsertFlow, Request, outsideFrame, vars, controllerVars, tables
<1> QED
  BY <1>1, <1>2, <1>3, <1>4, <1>5 DEF Next, SystemStep, OutsideStep, ControlPlaneAssumption

\* Those who send a table work on nothing else.
SendsTable(c) == SendRoutes(c) \/ SendMulticastState(c) \/ NotifyGroupRoutes(c)

LEMMA SendersQuiet ==
    ASSUME AdmissionInv, TablesShape, [Next]_vars,
           SyncSendRoutes \/ SyncSendGroup \/ \E c \in Conns : SendsTable(c)
    PROVE  UNCHANGED dp
<1>1. CASE SyncSendRoutes \/ SyncSendGroup
  <2>1. sync'.step # sync.step
    BY <1>1 DEF SyncSendRoutes, SyncSendGroup, SyncLeaves
  <2>2. ~UNCHANGED sync
    BY <2>1
  <2> QED
    BY <2>2, SyncElse DEF Quiet
<1>2. ASSUME NEW c \in Conns, SendsTable(c) PROVE UNCHANGED dp
  <2>1. handler'[c].step # handler[c].step
    <3>1. DOMAIN handler = Conns /\ DOMAIN handler[c] = {"step", "id", "data"}
      BY DEF AdmissionInv, ControlShape
    <3>2. PICK step, data : GotoWith(c, step, data) /\ step # handler[c].step
      BY <1>2 DEF SendsTable, SendRoutes, SendMulticastState, NotifyGroupRoutes
    <3> QED
      BY <3>1, <3>2 DEF GotoWith
  <2>2. ~UNCHANGED <<node_ws, handler>>
    BY <2>1
  <2> QED
    BY <2>2, HoldersElse DEF Quiet
<1> QED
  BY <1>1, <1>2

LEMMA OtherNode ==
    ASSUME AdmissionInv, NEW n \in NodeIds, NEW m \in NodeIds, m # n,
           NodeStep(m) \/ StartNode(m) \/ Crash(m)
    PROVE  /\ dp'[n] = dp[n] /\ Conn(n)' = Conn(n)
           /\ Conn(n) \in Conns => wire'[Conn(n)] = wire[Conn(n)]
<1>1. Conn(m) # Conn(n)
  BY ConnsDiffer
<1>2. CASE NodeStep(m)
  BY <1>1, <1>2, NodeReads
<1>3. CASE StartNode(m)
  BY <1>3, StartFacts
<1>4. CASE Crash(m)
  BY <1>4, CrashFacts
<1> QED
  BY <1>2, <1>3, <1>4

TableKinds == {<<"InstallRoutes", "entries", "routes">>,
               <<"InstallGroupDirectory", "exists", "directory">>,
               <<"InstallGroupRoutes", "entries", "group_routes">>}

LEMMA HeldKept ==
    ASSUME AdmissionInv, Seqs, [Next]_vars, NEW n \in NodeIds, Served(n), ~StartNode(n), ~Crash(n),
           NEW type, NEW field, NEW held, <<type, field, held>> \in TableKinds, NEW x,
           WillHold(n, type, field, held, x),
           \A types : SendersOnly(types) => type \notin types
    PROVE  WillHold(n, type, field, held, x)'
<1>a. Conn(n) \in Conns
  BY OwnConn DEF Served, AdmissionInv, ControlShape
<1>b. held \in DOMAIN Fresh(0) /\ held # "peers"
  BY FreshFields DEF TableKinds
<1>c. "phase" \in DOMAIN Fresh(0)
  BY FreshFields
<1>1. CASE Posts /\ UNCHANGED dp
  <2>1. PICK ms, types : Delivers(ms) /\ Only(ms, types) /\ SendersOnly(types)
    BY <1>1 DEF Posts
  <2>2. \A i \in DOMAIN ms[Conn(n)] : ms[Conn(n)][i].type # type
    BY <1>a, <2>1 DEF Only
  <2>3. UNCHANGED dp
    BY <1>1
  <2> QED
    BY <1>a, <2>1, <2>2, <2>3, HeldBehind
<1>2. CASE NodeStep(n)
  BY <1>2, HeldTaken, TablesTaken DEF Takes, TableKinds
<1>3. ASSUME NEW m \in NodeIds, m # n, NodeStep(m) \/ StartNode(m) \/ Crash(m)
      PROVE  WillHold(n, type, field, held, x)'
  <2>1. dp'[n] = dp[n] /\ Conn(n)' = Conn(n) /\ wire'[Conn(n)] = wire[Conn(n)]
    BY <1>3, <1>a, OtherNode
  <2> QED
    BY <2>1, HeldUnchanged
<1>4. ASSUME NEW a \in NodeIds, NEW b \in NodeIds, AcceptLink(a, b)
      PROVE  WillHold(n, type, field, held, x)'
  <2>1. /\ dp'[n][held] = dp[n][held] /\ dp'[n].phase = dp[n].phase
        /\ Conn(n)' = Conn(n) /\ wire'[Conn(n)] = wire[Conn(n)]
    BY <1>4, <1>b, <1>c, AcceptFacts
  <2> QED
    BY <2>1, HeldUnchanged
<1> QED
  BY <1>1, <1>2, <1>3, <1>4, StepsPost

\* A node that is served was so before, or is about to be greeted.
LEMMA ServedStays ==
    ASSUME AdmissionInv, ToCome, [Next]_vars, NEW n \in NodeIds, Served(n)',
           handler'[Conn(n)'].step # "upsert"
    PROVE  Served(n) /\ Conn(n)' = Conn(n) /\ ~StartNode(n) /\ ~Crash(n)
<1>1. ~StartNode(n)
  <2> SUFFICES ASSUME StartNode(n) PROVE FALSE
    OBVIOUS
  <2>a. /\ UNCHANGED tables
        /\ Conn(n)' \in Conns /\ Conn(n)'[1] = n /\ Conn(n)'[2] = dp[n].starts + 1
        /\ dp[n].starts \in Nat
    BY StartFacts, Zenon
  <2>b. Conn(n)'[2] > dp[n].starts
    BY <2>a
  <2>1. /\ Conn(n)' \in Conns /\ Conn(n)'[2] > dp[n].starts /\ Conn(n)'[1] = n /\ UNCHANGED node_ws
    BY <2>a, <2>b DEF tables
  <2>2. ~OwnsId(Conn(n)')
    BY <2>1 DEF ToCome
  <2> QED
    BY <2>1, <2>2 DEF Served, OwnsId
<1>2. ~Crash(n)
  BY CrashFacts DEF Served
<1>3. Conn(n)' = Conn(n)
  BY <1>1, StartsGrow DEF Conn
<1>4. dp[n].phase # "down"
  <2>1. ASSUME NodeStep(n) PROVE dp[n].phase # "down"
    BY <2>1 DEF NodeStep, TakeResponse, AddNode, SetLinkRate, InstallRoutes, AddFlows,
       TopologyReady, InstallGroupDirectory, InstallGroupRoutes, IgnoreMessage, Next1
  <2>2. ASSUME NEW m \in NodeIds, m # n, NodeStep(m) \/ StartNode(m) \/ Crash(m)
        PROVE  dp[n].phase # "down"
    BY <2>2, OtherNode DEF Served
  <2>3. ASSUME NEW a \in NodeIds, NEW b \in NodeIds, AcceptLink(a, b) PROVE dp[n].phase # "down"
    BY <2>3, AcceptFacts, FreshFields DEF Served
  <2>4. UNCHANGED dp => dp[n].phase # "down"
    BY DEF Served
  <2> QED
    BY <1>1, <1>2, <2>1, <2>2, <2>3, <2>4 DEF Next, SystemStep, OutsideStep, Quiet, Request, vars,
       ControlPlaneAssumption
<1>5. Conn(n) \in Conns
  BY <1>4, OwnConn DEF AdmissionInv, ControlShape
<1>6. OwnsId(Conn(n))
  <2> DEFINE d == Conn(n)
  <2>1. d \in Conns /\ handler'[d].step # "upsert" /\ d[1] \in DOMAIN node_ws' /\ node_ws'[d[1]] = d
    BY <1>3, <1>5 DEF Served, OwnsId
  <2>2. ASSUME NEW c \in Conns, HandlerStep(c)
        PROVE  d[1] \in DOMAIN node_ws /\ node_ws[d[1]] = d
    <3>1. \A k \in Conns : OwnsId(k)' => OwnsId(k) \/ (k = c /\ handler'[c].step = "upsert")
      BY <2>2, HandlerHolds
    <3> HIDE DEF d
    <3> QED
      BY <2>1, <3>1 DEF OwnsId
  <2>3. ASSUME UNCHANGED <<node_ws, handler>>
        PROVE  d[1] \in DOMAIN node_ws /\ node_ws[d[1]] = d
    BY <2>1, <2>3
  <2>4. d[1] \in DOMAIN node_ws /\ node_ws[d[1]] = d
    BY <2>2, <2>3, HoldersElse
  <2> QED
    BY <2>4 DEF OwnsId
<1> QED
  BY <1>1, <1>2, <1>3, <1>4, <1>6 DEF Served

\* What else a step does leaves the routes and the work on them alone.
RoutesSame ==
    /\ routes' = routes /\ notified'.routes = notified.routes
    /\ sync'.step = "routes" \/ sync.step = "routes" => sync' = sync
    /\ \A n : <<"routes", n>> \in overtaken' <=> <<"routes", n>> \in overtaken

LEMMA RoutesElse ==
    ASSUME AdmissionInv, TablesShape, [Next]_vars
    PROVE  \/ \E rs : UpdateRoutes(rs)
           \/ SyncReadRoutes \/ SyncSendRoutes \/ \E c \in Conns : SendRoutes(c)
           \/ RoutesSame
<1>1. ASSUME NEW c \in Conns, HandlerStep(c), ~SendRoutes(c) PROVE RoutesSame
  <2>1. /\ routes' = routes /\ sync' = sync
        /\ \/ notified' = notified
           \/ \E x : notified' = [notified EXCEPT !.group = x]
        /\ \/ overtaken' = overtaken
           \/ \E kind \in {"group", "directory"} : \E to, stale : Outdated(kind, to, stale)
    BY <1>1 DEF HandlerStep, RegisterNode, UpsertNode, ReadNeighbors, SendAddNode, ReadRoutes,
       SendRoutes, SendMulticastState, NodeTopologyReady, CreateGroup, JoinGroup, LeaveGroup,
       ChangeMembership, SetGroupRoutes, NotifyGroupRoutes, SendGroupRoutes, CloseConnection,
       history, dbVars
  <2>2. ASSUME NEW kind \in {"group", "directory"}, NEW to, NEW stale, Outdated(kind, to, stale)
        PROVE  \A n : <<"routes", n>> \in overtaken' <=> <<"routes", n>> \in overtaken
    BY <2>2 DEF Outdated
  <2> QED
    BY <2>1, <2>2 DEF RoutesSame, TablesShape
<1>2. ASSUME SyncStep, ~SyncReadRoutes, ~SyncSendRoutes PROVE RoutesSame
  <2>1. CASE SyncReadGroup
    BY <2>1 DEF SyncReadGroup, SyncLeaves, syncFrame, dbVars, history, TablesShape, RoutesSame
  <2>2. CASE SyncSendGroup
    <3>1. UNCHANGED <<routes, notified>> /\ sync.step = "group" /\ sync'.step = "idle"
      BY <2>2 DEF SyncSendGroup, SyncLeaves, syncFrame, dbVars
    <3>2. PICK to, stale : Outdated("group", to, stale)
      BY <2>2 DEF SyncSendGroup, SendGroupRoutes
    <3> QED
      BY <3>1, <3>2 DEF RoutesSame, Outdated
  <2>3. ASSUME NEW f, SyncFlow(f) PROVE RoutesSame
    BY <2>3 DEF SyncFlow, syncFrame, dbVars, history, TablesShape, RoutesSame
  <2> QED
    BY <1>2, <2>1, <2>2, <2>3 DEF SyncStep
<1>3. CASE CoordinatorStep
  BY <1>3 DEF RoutesSame, CoordinatorStep, NodeConnected, NodeLocallyReady, SendLinkRates,
     SendFlows, CheckReadyAfterDispatch, TakeEvent, coordFrame, dbVars, history
<1>4. ASSUME NEW n \in NodeIds, NodeStep(n) \/ StartNode(n) \/ Crash(n) PROVE RoutesSame
  <2>1. UNCHANGED tables
    BY <1>4, NodeReads, StartFacts, CrashFacts
  <2> QED
    BY <2>1 DEF tables, dbVars, history, RoutesSame
<1>5. ASSUME NEW n \in NodeIds, NEW m \in NodeIds, AcceptLink(n, m) PROVE RoutesSame
  BY <1>5, AcceptFacts DEF tables, dbVars, history, RoutesSame
<1>6. ASSUME NEW f, InsertFlow(f) PROVE RoutesSame
  BY <1>6 DEF InsertFlow, outsideFrame, TablesShape, RoutesSame, history
<1>7. ASSUME NEW r, Request(r) PROVE RoutesSame
  BY <1>7 DEF Request, tables, dbVars, history, RoutesSame
<1>8. CASE UNCHANGED vars
  BY <1>8 DEF vars, controllerVars, dbVars, history, RoutesSame
<1> QED
  BY <1>1, <1>2, <1>3, <1>4, <1>5, <1>6, <1>7, <1>8 DEF Next, SystemStep, OutsideStep,
     ControlPlaneAssumption

LEMMA ServedIsOpen ==
    ASSUME AdmissionInv, NEW n \in NodeIds, Served(n)
    PROVE  /\ Conn(n) \in Conns /\ Conn(n)[1] = n /\ Conn(n) \in open
           /\ n \in DOMAIN node_ws /\ node_ws[n] = Conn(n) /\ OwnsId(Conn(n))
BY OwnConn DEF AdmissionInv, ControlShape, Registrations, Served, OwnsId

\* Before the routes of a node were sent the first time, they are due.
LEMMA PreRoutesKept ==
    ASSUME AdmissionInv, [Next]_vars, NEW d \in Conns, handler[d].step \in PreRoutes, ~SendRoutes(d)
    PROVE  handler'[d].step \in PreRoutes
<1>1. ASSUME NEW c \in Conns, HandlerStep(c) PROVE handler'[d].step \in PreRoutes
  BY <1>1, HandlerWorks
<1> QED
  BY <1>1, HoldersElse

\* A node that was answered is sent what is sent to all.
LEMMA SyncRoutesSent ==
    ASSUME AdmissionInv, Seqs, AnswerFirst, SyncSendRoutes, UNCHANGED dp, NEW n \in NodeIds,
           Served(n), handler[Conn(n)].step # "upsert",
           NEW x, x = RoutesFor(sync.data, n), x # {}
    PROVE  WillHold(n, "InstallRoutes", "entries", "routes", x)'
<1> DEFINE to == {k \in DOMAIN node_ws : RoutesFor(sync.data, k) # {}}
           msgs == [k \in NodeIds |-> IF k \in to
                       THEN <<[type |-> "InstallRoutes", entries |-> RoutesFor(sync.data, k)]>> ELSE << >>]
<1>1. SendAll(msgs)
  BY DEF SyncSendRoutes
<1>2. \A k \in NodeIds : IsSequence(msgs[k])
  BY OneSeq, NothingSeq
<1>3. /\ Conn(n) \in Conns /\ Conn(n)[1] = n /\ Conn(n) \in open /\ OwnsId(Conn(n))
      /\ n \in DOMAIN node_ws
  BY ServedIsOpen
<1>4. msgs[n] = <<[type |-> "InstallRoutes", entries |-> x]>>
  BY <1>3
<1>a. ControlShape
  BY DEF AdmissionInv
<1> HIDE DEF msgs
<1>5. PICK ms : /\ Delivers(ms)
                /\ \A d \in Conns : ms[d] = IF OwnsId(d) /\ d \in open THEN msgs[d[1]] ELSE << >>
  BY <1>a, <1>1, <1>2, ToAllDelivered
<1>6. ms[Conn(n)] = <<[type |-> "InstallRoutes", entries |-> x]>>
  BY <1>3, <1>4, <1>5
<1>7. /\ 1 \in DOMAIN ms[Conn(n)] /\ ms[Conn(n)][1] = [type |-> "InstallRoutes", entries |-> x]
      /\ DOMAIN ms[Conn(n)] = {1}
  BY <1>6, OneSeq
<1>8. ms[Conn(n)][1].type = "InstallRoutes" /\ ms[Conn(n)][1]["entries"] = x
  BY <1>7
<1>9. \A i \in DOMAIN ms[Conn(n)] : i > 1 => ms[Conn(n)][i].type # "InstallRoutes"
  BY <1>7
<1>10. dp[n].phase = "starting" => wire[Conn(n)] # << >>
  BY <1>3 DEF AnswerFirst
<1> QED
  BY <1>3, <1>5, <1>7, <1>8, <1>9, <1>10, HeldSent

LEMMA OwnRoutesSent ==
    ASSUME AdmissionInv, Seqs, AnswerFirst, NEW n \in NodeIds, Served(n), SendRoutes(Conn(n)),
           UNCHANGED dp, NEW x, x = RoutesFor(handler[Conn(n)].data, n)
    PROVE  WillHold(n, "InstallRoutes", "entries", "routes", x)'
<1> DEFINE msgs == <<[type |-> "InstallRoutes", entries |-> x]>>
<1>1. /\ Conn(n) \in Conns /\ Conn(n)[1] = n /\ Conn(n) \in open /\ OwnsId(Conn(n))
  BY ServedIsOpen
<1>2. SendTo(Conn(n), msgs) /\ IsSequence(msgs)
  BY <1>1, OneSeq DEF SendRoutes
<1>a. ControlShape /\ handler[Conn(n)].step # "upsert"
  BY DEF AdmissionInv, SendRoutes
<1>3. PICK ms : Delivers(ms) /\ ms[Conn(n)] = msgs /\ \A d \in Conns : d # Conn(n) => ms[d] = << >>
  BY <1>a, <1>1, <1>2, ToOneDelivered
<1>4. /\ 1 \in DOMAIN ms[Conn(n)] /\ ms[Conn(n)][1] = [type |-> "InstallRoutes", entries |-> x]
      /\ DOMAIN ms[Conn(n)] = {1}
  BY <1>3, OneSeq
<1>5. ms[Conn(n)][1].type = "InstallRoutes" /\ ms[Conn(n)][1]["entries"] = x
  BY <1>4
<1>6. \A i \in DOMAIN ms[Conn(n)] : i > 1 => ms[Conn(n)][i].type # "InstallRoutes"
  BY <1>4
<1>7. dp[n].phase = "starting" => wire[Conn(n)] # << >>
  BY <1>1, <1>a DEF AnswerFirst
<1> QED
  BY <1>1, <1>3, <1>4, <1>5, <1>6, <1>7, HeldSent

LEMMA RoutesComingInit == Init => RoutesComing
<1> SUFFICES ASSUME Init PROVE RoutesComing
  OBVIOUS
<1>1. notified.routes = 0 /\ sync.step = "idle" /\ \A n \in NodeIds : dp[n].phase = "down"
  BY DEF Init, ControllerInit, Idle, Fresh
<1>2. \A n \in NodeIds : ~Served(n)
  BY <1>1 DEF Served
<1>3. 0 \in Nat /\ "idle" # "routes"
  OBVIOUS
<1> QED
  BY <1>1, <1>2, <1>3, Zenon DEF RoutesComing

\* What is to be sent stays so until it is the last that was sent.
LEMMA DueKept ==
    ASSUME AdmissionInv, TablesShape, WireInv, RoutesComing, [Next]_vars, NEW n \in NodeIds,
           Served(n)', <<"routes", n>> \notin overtaken', RoutesFor(routes', n) # {},
           notified'.routes \in Nat
    PROVE  RoutesDue(n)' \/ WillHold(n, "InstallRoutes", "entries", "routes", RoutesFor(routes, n))'
<1>a. SUFFICES ASSUME Served(n), Conn(n)' = Conn(n), ~StartNode(n), ~Crash(n)
               PROVE  \/ RoutesDue(n)'
                      \/ WillHold(n, "InstallRoutes", "entries", "routes", RoutesFor(routes, n))'
  <2>1. handler'[Conn(n)'].step = "upsert" => RoutesDue(n)'
    BY DEF RoutesDue
  <2> QED
    BY <2>1, <1>a, ServedStays DEF WireInv
<1>b. Seqs /\ AnswerFirst
  BY DEF WireInv, Seqs
<1>c. /\ Conn(n) \in Conns /\ Conn(n)[1] = n /\ Conn(n) \in open
      /\ n \in DOMAIN node_ws /\ node_ws[n] = Conn(n) /\ OwnsId(Conn(n))
  BY <1>a, ServedIsOpen
<1>d. RoutesDue(n)' <=> \/ notified'.routes > 0
                        \/ sync'.step = "routes" /\ sync'.data = routes'
                        \/ handler'[Conn(n)].step \in PreRoutes
  BY <1>a DEF RoutesDue, PreRoutes
<1>e. <<"routes", n>> \notin overtaken /\ RoutesFor(routes, n) # {} =>
         \/ notified.routes > 0
         \/ sync.step = "routes" /\ sync.data = routes
         \/ handler[Conn(n)].step \in PreRoutes
         \/ WillHold(n, "InstallRoutes", "entries", "routes", RoutesFor(routes, n))
  BY <1>a DEF RoutesComing, RoutesDue, PreRoutes
<1>1. CASE \E rs : UpdateRoutes(rs)
  <2>1. notified'.routes = notified.routes + 1 /\ notified.routes \in Nat
    BY <1>1 DEF UpdateRoutes, TablesShape, RoutesComing
  <2> QED
    BY <1>d, <2>1
<1>2. CASE SyncReadRoutes
  BY <1>2, <1>d DEF SyncReadRoutes, SyncLeaves, syncFrame, dbVars
<1>3. CASE SyncSendRoutes
  <2>1. UNCHANGED <<routes, notified, handler>> /\ sync.step = "routes"
    BY <1>3 DEF SyncSendRoutes, syncFrame, dbVars
  <2>2. CASE notified.routes > 0 \/ handler[Conn(n)].step \in PreRoutes
    BY <1>d, <2>1, <2>2
  <2>3. CASE ~(notified.routes > 0) /\ handler[Conn(n)].step \notin PreRoutes
    <3>1. sync.data = routes /\ handler[Conn(n)].step # "upsert"
      BY <2>1, <2>3 DEF RoutesComing, PreRoutes
    <3>2. UNCHANGED dp
      BY <1>3, SendersQuiet
    <3> DEFINE x == RoutesFor(routes, n)
    <3>3. x = RoutesFor(sync.data, n) /\ x # {}
      BY <2>1, <3>1
    <3>4. x = RoutesFor(routes', n)
      BY <2>1
    <3> HIDE DEF x
    <3>5. PICK y : y = x
      OBVIOUS
    <3>6. y = RoutesFor(sync.data, n) /\ y # {} /\ y = RoutesFor(routes', n)
      BY <3>3, <3>4, <3>5
    <3>7. WillHold(n, "InstallRoutes", "entries", "routes", y)'
      BY <1>a, <1>b, <1>3, <3>1, <3>2, <3>6, SyncRoutesSent
    <3> QED
      BY <3>6, <3>7
  <2> QED
    BY <2>2, <2>3
<1>4. ASSUME NEW c \in Conns, SendRoutes(c)
      PROVE  RoutesDue(n)' \/ WillHold(n, "InstallRoutes", "entries", "routes", RoutesFor(routes, n))'
  <2>1. /\ UNCHANGED <<routes, notified, sync>> /\ Outdated("routes", {c[1]}, StaleRoutes(handler[c].data))
        /\ handler[c].step = "routes" /\ GotoWith(c, "groups", group)
    BY <1>4 DEF SendRoutes, dbVars
  <2>2. UNCHANGED dp
    BY <1>4, SendersQuiet DEF SendsTable
  <2>3. OwnsId(c)
    BY <2>1 DEF AdmissionInv, Registrations
  <2>4. CASE c = Conn(n)
    <3>1. c[1] = n /\ n \notin StaleRoutes(handler[c].data)
      BY <1>c, <2>1, <2>4 DEF Outdated
    <3>2. RoutesFor(handler[Conn(n)].data, n) = RoutesFor(routes, n)
      BY <2>4, <3>1 DEF StaleRoutes
    <3>3. PICK y : y = RoutesFor(routes, n)
      OBVIOUS
    <3>4. y = RoutesFor(handler[Conn(n)].data, n) /\ y = RoutesFor(routes', n)
      BY <2>1, <3>2, <3>3
    <3>5. WillHold(n, "InstallRoutes", "entries", "routes", y)'
      BY <1>a, <1>b, <1>4, <2>2, <2>4, <3>4, OwnRoutesSent
    <3> QED
      BY <3>4, <3>5
  <2>5. CASE c # Conn(n)
    <3>1. c[1] # n
      BY <1>c, <2>3, <2>5 DEF OwnsId
    <3>2. <<"routes", n>> \notin overtaken
      BY <2>1, <3>1 DEF Outdated
    <3>3. handler'[Conn(n)] = handler[Conn(n)]
      BY <1>c, <2>1, <2>5 DEF GotoWith, AdmissionInv, ControlShape
    <3>4. ASSUME WillHold(n, "InstallRoutes", "entries", "routes", RoutesFor(routes, n))
          PROVE  WillHold(n, "InstallRoutes", "entries", "routes", RoutesFor(routes, n))'
      <4>1. PICK y : y = RoutesFor(routes, n)
        OBVIOUS
      <4>2. y = RoutesFor(routes', n) /\ WillHold(n, "InstallRoutes", "entries", "routes", y)
        BY <2>1, <3>4, <4>1
      <4>3. wire'[Conn(n)] = wire[Conn(n)]
        BY <2>5, <1>4 DEF SendRoutes, SendTo, Sent
      <4>4. dp'[n].phase = dp[n].phase /\ dp'[n]["routes"] = dp[n]["routes"]
        BY <2>2
      <4>5. WillHold(n, "InstallRoutes", "entries", "routes", y)'
        BY <1>a, <4>2, <4>3, <4>4, HeldUnchanged
      <4> QED
        BY <4>2, <4>5
    <3> QED
      BY <1>d, <1>e, <2>1, <3>2, <3>3, <3>4
  <2> QED
    BY <2>4, <2>5
<1>5. CASE RoutesSame /\ ~SyncSendRoutes /\ ~(\E c \in Conns : SendRoutes(c))
  <2>1. routes' = routes /\ notified'.routes = notified.routes /\ <<"routes", n>> \notin overtaken
        /\ (sync.step = "routes" => sync' = sync)
    BY <1>5 DEF RoutesSame
  <2>2. handler[Conn(n)].step \in PreRoutes => handler'[Conn(n)].step \in PreRoutes
    BY <1>c, <1>5, PreRoutesKept
  <2>3. ASSUME WillHold(n, "InstallRoutes", "entries", "routes", RoutesFor(routes, n))
        PROVE  WillHold(n, "InstallRoutes", "entries", "routes", RoutesFor(routes, n))'
    <3>1. PICK y : y = RoutesFor(routes, n)
      OBVIOUS
    <3>2. y = RoutesFor(routes', n) /\ WillHold(n, "InstallRoutes", "entries", "routes", y)
      BY <2>1, <2>3, <3>1
    <3>3. \A types : SendersOnly(types) => "InstallRoutes" \notin types
      BY <1>5 DEF SendersOnly
    <3>4. <<"InstallRoutes", "entries", "routes">> \in TableKinds
      BY DEF TableKinds
    <3>5. WillHold(n, "InstallRoutes", "entries", "routes", y)'
      BY <1>a, <1>b, <3>2, <3>3, <3>4, HeldKept
    <3> QED
      BY <3>2, <3>5
  <2> QED
    BY <1>d, <1>e, <2>1, <2>2, <2>3
<1> QED
  BY <1>1, <1>2, <1>3, <1>4, <1>5, RoutesElse

LEMMA RoutesComingStep ==
    ASSUME AdmissionInv, TablesShape, WireInv, RoutesComing, [Next]_vars
    PROVE  RoutesComing'
<1>1. /\ notified'.routes \in Nat
      /\ sync'.step = "routes" => sync'.data = routes' \/ notified'.routes > 0
  <2>a. notified.routes \in Nat /\ (sync.step = "routes" => sync.data = routes \/ notified.routes > 0)
    BY DEF RoutesComing
  <2>1. CASE \E rs : UpdateRoutes(rs)
    BY <2>a, <2>1 DEF UpdateRoutes, TablesShape
  <2>2. CASE SyncReadRoutes
    BY <2>a, <2>2 DEF SyncReadRoutes, SyncLeaves, syncFrame, dbVars, TablesShape
  <2>3. CASE SyncSendRoutes
    BY <2>a, <2>3 DEF SyncSendRoutes, SyncLeaves
  <2>4. ASSUME NEW c \in Conns, SendRoutes(c)
        PROVE  UNCHANGED <<routes, notified, sync>>
    BY <2>4 DEF SendRoutes, dbVars
  <2>5. CASE RoutesSame
    BY <2>a, <2>5 DEF RoutesSame
  <2> QED
    BY <2>a, <2>1, <2>2, <2>3, <2>4, <2>5, RoutesElse
<1>2. ASSUME NEW n \in NodeIds, Served(n)', <<"routes", n>> \notin overtaken', RoutesFor(routes', n) # {}
      PROVE  RoutesDue(n)' \/ WillHold(n, "InstallRoutes", "entries", "routes", RoutesFor(routes, n))'
  BY <1>1, <1>2, DueKept
<1> QED
  BY <1>1, <1>2 DEF RoutesComing

RoutesInv == AdmissionInv /\ TablesShape /\ WireInv /\ RoutesComing

\* Between a change of the routes table and the time the nodes hold it there is
\* always something that will tell them: a notification, what the sync task
\* read, or a message that counts.
THEOREM RoutesInductive == Spec => []RoutesInv
<1>1. Init => RoutesInv
  BY AdmissionInit, ShapeInit, WireInit, RoutesComingInit DEF RoutesInv
<1>2. RoutesInv /\ [Next]_vars => RoutesInv'
  BY AdmissionStep, ShapeStep, WireStep, RoutesComingStep DEF RoutesInv
<1> QED
  BY <1>1, <1>2, PTL DEF Spec

\* When all is quiet, every node that is connected and on some route holds the
\* entries of the current table, however the updates, the connections and the
\* crashes interleaved (sync_routes, the routes sent to a new node).
THEOREM RoutesAlwaysConverge == Spec => []RoutesConverge
<1>1. ASSUME RoutesInv PROVE RoutesConverge
  <2> SUFFICES ASSUME Quiescent, NEW n \in NodeIds, Up(n), RoutesFor(routes, n) # {},
                      <<"routes", n>> \notin overtaken
               PROVE  dp[n].routes = RoutesFor(routes, n)
    BY DEF RoutesConverge
  <2>1. Served(n)
    BY <1>1 DEF RoutesInv, AdmissionInv, Registrations, Served, Up
  <2>2. Conn(n) \in Conns
    BY <1>1, <2>1, ServedIsOpen DEF RoutesInv
  <2>3. wire[Conn(n)] = << >> /\ handler[Conn(n)].step = "idle" /\ sync.step = "idle"
        /\ notified.routes = 0
    BY <2>2 DEF Quiescent, ControllerIdle
  <2>4. ~RoutesDue(n)
    BY <2>3 DEF RoutesDue
  <2>5. WillHold(n, "InstallRoutes", "entries", "routes", RoutesFor(routes, n))
    BY <1>1, <2>1, <2>4 DEF RoutesInv, RoutesComing
  <2> QED
    BY <2>3, <2>5 DEF WillHold
<1> QED
  BY <1>1, RoutesInductive, PTL
=============================================================================
