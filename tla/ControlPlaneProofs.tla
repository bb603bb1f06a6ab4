-------------------------- MODULE ControlPlaneProofs --------------------------
(***************************************************************************)
(* Proofs about ControlPlane, for every topology, every number of starts,  *)
(* requests and crashes, and every content of the tables.                  *)
(***************************************************************************)
EXTENDS ControlPlane, SequenceTheorems, FiniteSetTheorems, TLAPS

USE ControllerAssumption, ControlPlaneAssumption

-----------------------------------------------------------------------------
(* Connections and messages *)

LEMMA ConnFacts ==
    ASSUME NEW c \in Conns
    PROVE  /\ c[1] \in NodeIds /\ c[2] \in 1 .. MaxStarts /\ c = <<c[1], c[2]>>
           /\ c[1] # NoNode
BY DEF Conns, NoNode

LEMMA OwnConn ==
    ASSUME ControlShape, NEW n \in NodeIds, dp[n].starts # 0
    PROVE  Conn(n) \in Conns /\ Conn(n)[1] = n /\ Conn(n)[2] = dp[n].starts
BY DEF ControlShape, Conn, Conns

\* Messages go to open connections that hold their id, or nowhere.
Sends == /\ DOMAIN wire' = Conns
         /\ \A d \in Conns : wire'[d] = wire[d] \/ (d \in open /\ OwnsId(d))

LEMMA SendAllReaches ==
    ASSUME ControlShape, NEW msgs, SendAll(msgs)
    PROVE  Sends
BY DEF ControlShape, SendAll, Sends, Range, OwnsId

LEMMA SendToReaches ==
    ASSUME ControlShape, NEW c \in Conns, OwnsId(c), NEW msgs, SendTo(c, msgs)
    PROVE  Sends
BY DEF ControlShape, SendTo, Sent, Sends

LEMMA NobodyReached == ASSUME ControlShape, UNCHANGED wire PROVE Sends
BY DEF ControlShape, Sends

-----------------------------------------------------------------------------
(* Admission *)

LEMMA AdmissionInit == Init => AdmissionInv
BY DEF Init, ControllerInit, AdmissionInv, ControlShape, Registrations, Fresh, Conns, Conn, OwnsId, NoNode

LEMMA UpIsOpen ==
    ASSUME AdmissionInv
    PROVE  \A n \in NodeIds : dp[n].phase = "up" => Conn(n) \in Conns /\ Conn(n) \in open
<1>1. \A n \in NodeIds : Conn(n)[1] = n
  BY DEF Conn
<1>2. \A n \in NodeIds : dp[n].phase = "up" => Conn(n) \in Conns
  BY <1>1 DEF AdmissionInv, Registrations, OwnsId, ControlShape
<1> QED
  BY <1>1, <1>2 DEF AdmissionInv, Registrations

\* A step of the controller that registers nobody and closes nothing
LEMMA SendKeepsAdmission ==
    ASSUME AdmissionInv, Sends, UNCHANGED <<node_ws, open, dp, crashes>>,
           DOMAIN inbox' = Conns,
           DOMAIN handler' = Conns,
           \A d \in Conns : DOMAIN handler'[d] = {"step", "id", "data"},
           \A d \in Conns : handler'[d].step # "idle" => OwnsId(d),
           \A d \in Conns : handler'[d].id # NoNode => handler'[d].id = d[1] /\ OwnsId(d)
    PROVE  AdmissionInv'
<1>1. ControlShape'
  BY DEF AdmissionInv, ControlShape, Sends
<1>2. \A c : OwnsId(c)' <=> OwnsId(c)
  BY DEF OwnsId
<1>3. \A n : Conn(n)' = Conn(n)
  BY DEF Conn
<1>4. Registrations'
  BY <1>2, <1>3 DEF AdmissionInv, Registrations, Sends
<1> QED
  BY <1>1, <1>4 DEF AdmissionInv


\* What the handlers may become while nobody is registered or closed
LEMMA GotoFacts ==
    ASSUME AdmissionInv, NEW c \in Conns, OwnsId(c), NEW step, NEW data,
           Goto(c, step) \/ GotoWith(c, step, data)
    PROVE  /\ DOMAIN handler' = Conns
           /\ \A d \in Conns : DOMAIN handler'[d] = {"step", "id", "data"}
           /\ \A d \in Conns : handler'[d].step # "idle" => OwnsId(d)
           /\ \A d \in Conns : handler'[d].id # NoNode => handler'[d].id = d[1] /\ OwnsId(d)
<1>1. /\ DOMAIN handler' = Conns
      /\ \A d \in Conns : DOMAIN handler'[d] = {"step", "id", "data"}
      /\ \A d \in Conns : d # c => handler'[d] = handler[d]
      /\ handler'[c].id = handler[c].id
  <2>1. CASE Goto(c, step)
    BY <2>1 DEF Goto, AdmissionInv, ControlShape
  <2>2. CASE GotoWith(c, step, data)
    BY <2>2 DEF GotoWith, AdmissionInv, ControlShape
  <2> QED
    BY <2>1, <2>2
<1> QED
  BY <1>1 DEF AdmissionInv, Registrations

LEMMA HandlersStay ==
    ASSUME AdmissionInv, UNCHANGED handler
    PROVE  /\ DOMAIN handler' = Conns
           /\ \A d \in Conns : DOMAIN handler'[d] = {"step", "id", "data"}
           /\ \A d \in Conns : handler'[d].step # "idle" => OwnsId(d)
           /\ \A d \in Conns : handler'[d].id # NoNode => handler'[d].id = d[1] /\ OwnsId(d)
BY DEF AdmissionInv, ControlShape, Registrations

LEMMA RegisterKeepsAdmission ==
    ASSUME AdmissionInv, NEW c \in Conns, RegisterNode(c), Quiet
    PROVE  AdmissionInv'
<1> USE DEF RegisterNode, Consume, Quiet
<1>1. CASE c[1] \in DOMAIN node_ws
  <2>1. Sends /\ UNCHANGED <<node_ws, open, dp, crashes, handler>> /\ DOMAIN inbox' = Conns
    BY <1>1, NobodyReached DEF AdmissionInv, ControlShape
  <2> QED
    BY <2>1, HandlersStay, SendKeepsAdmission
<1>2. CASE c[1] \notin DOMAIN node_ws
  <2>1. /\ node_ws' = Registered(c) /\ Goto(c, "upsert")
        /\ UNCHANGED <<wire, open, dp, crashes>>
        /\ DOMAIN inbox' = Conns
    BY <1>2 DEF AdmissionInv, ControlShape
  <2>2. /\ DOMAIN node_ws' = DOMAIN node_ws \cup {c[1]} /\ node_ws'[c[1]] = c
        /\ \A n \in DOMAIN node_ws : node_ws'[n] = node_ws[n]
    BY <1>2, <2>1 DEF Registered
  <2>3. \A d \in Conns : OwnsId(d) => OwnsId(d)'
    BY <2>2 DEF OwnsId
  <2>4. OwnsId(c)'
    BY <2>2 DEF OwnsId
  <2>5. /\ DOMAIN handler' = Conns
        /\ \A d \in Conns : DOMAIN handler'[d] = {"step", "id", "data"}
        /\ \A d \in Conns : d # c => handler'[d] = handler[d]
        /\ handler'[c].id = handler[c].id
    BY <2>1 DEF Goto, AdmissionInv, ControlShape
  <2>6. ControlShape'
    BY <2>1, <2>2, <2>5, ConnFacts DEF AdmissionInv, ControlShape
  <2>7. \A n : Conn(n)' = Conn(n)
    BY <2>1 DEF Conn
  <2>8. \A n \in NodeIds : dp[n].phase = "up" => Conn(n) \in Conns
    BY UpIsOpen
  <2>9. Registrations'
    BY <2>1, <2>3, <2>4, <2>5, <2>7, <2>8 DEF AdmissionInv, Registrations
  <2> QED
    BY <2>6, <2>9 DEF AdmissionInv
<1> QED
  BY <1>1, <1>2

LEMMA CloseKeepsAdmission ==
    ASSUME AdmissionInv, NEW c \in Conns, CloseConnection(c), Quiet
    PROVE  AdmissionInv'
<1>1. /\ c \notin open /\ handler[c].step = "idle" /\ wire[c] = << >>
      /\ handler[c].id = c[1] /\ OwnsId(c)
  BY DEF CloseConnection, AdmissionInv, Registrations
<1>2. UNCHANGED <<inbox, wire, open, dp, crashes>>
  BY DEF CloseConnection, Quiet
<1>3. /\ DOMAIN node_ws' = DOMAIN node_ws \ {c[1]}
      /\ \A n \in DOMAIN node_ws' : node_ws'[n] = node_ws[n]
  BY <1>1 DEF CloseConnection, Restrict
<1>4. /\ DOMAIN handler' = Conns
      /\ \A d \in Conns : DOMAIN handler'[d] = {"step", "id", "data"}
      /\ \A d \in Conns : d # c => handler'[d] = handler[d]
      /\ handler'[c].id = NoNode /\ handler'[c].step = "idle"
  BY <1>1 DEF CloseConnection, AdmissionInv, ControlShape
<1>5. \A d \in Conns : OwnsId(d) /\ d # c => OwnsId(d)'
  BY <1>1, <1>3 DEF OwnsId
<1>6. \A n : Conn(n)' = Conn(n)
  BY <1>2 DEF Conn
<1>7. \A n \in NodeIds : dp[n].phase = "up" => Conn(n) \in Conns /\ Conn(n) \in open
  BY UpIsOpen
<1>8. ControlShape'
  BY <1>2, <1>3, <1>4 DEF AdmissionInv, ControlShape
<1>9. Registrations'
  BY <1>1, <1>2, <1>4, <1>5, <1>6, <1>7 DEF AdmissionInv, Registrations
<1> QED
  BY <1>8, <1>9 DEF AdmissionInv

\* The other steps of a handler
LEMMA HandlerKeepsAdmission ==
    ASSUME AdmissionInv, NEW c \in Conns, HandlerStep(c), Quiet
    PROVE  AdmissionInv'
<1>a. UNCHANGED <<dp, crashes>>
  BY DEF Quiet
<1>b. handler[c].step # "idle" => OwnsId(c)
  BY DEF AdmissionInv, Registrations
<1>c. handler[c].id # NoNode => handler[c].id = c[1] /\ OwnsId(c)
  BY DEF AdmissionInv, Registrations
<1>d. ControlShape /\ DOMAIN inbox = Conns
  BY DEF AdmissionInv, ControlShape
<1>e. ASSUME Consume(c) PROVE DOMAIN inbox' = Conns
  BY <1>d, <1>e DEF Consume
<1>1. CASE RegisterNode(c)
  BY <1>1, RegisterKeepsAdmission
<1>2. CASE CloseConnection(c)
  BY <1>2, CloseKeepsAdmission
<1>3. CASE UpsertNode(c)
  <2>1. OwnsId(c) /\ UNCHANGED <<node_ws, inbox, open>>
    BY <1>3, <1>b DEF UpsertNode
  <2>2. Sends
    BY <1>3, <1>d, <2>1, SendToReaches DEF UpsertNode
  <2>3. /\ DOMAIN handler' = Conns
        /\ \A d \in Conns : DOMAIN handler'[d] = {"step", "id", "data"}
        /\ \A d \in Conns : d # c => handler'[d] = handler[d]
        /\ handler'[c].id = c[1]
    BY <1>3 DEF UpsertNode, AdmissionInv, ControlShape
  <2>4. /\ \A d \in Conns : handler'[d].step # "idle" => OwnsId(d)
        /\ \A d \in Conns : handler'[d].id # NoNode => handler'[d].id = d[1] /\ OwnsId(d)
    BY <2>1, <2>3 DEF AdmissionInv, Registrations
  <2> QED
    BY <1>a, <1>d, <2>1, <2>2, <2>3, <2>4, SendKeepsAdmission
<1>4. CASE \/ ReadNeighbors(c) \/ SendAddNode(c) \/ ReadRoutes(c) \/ SendRoutes(c)
           \/ SendMulticastState(c) \/ NotifyGroupRoutes(c)
  <2>1. OwnsId(c) /\ UNCHANGED <<node_ws, inbox, open>>
    BY <1>4, <1>b DEF ReadNeighbors, SendAddNode, ReadRoutes, SendRoutes, SendMulticastState,
                      NotifyGroupRoutes
  <2>2. Sends
    BY <1>4, <1>d, <2>1, SendToReaches, SendAllReaches, NobodyReached
    DEF ReadNeighbors, SendAddNode, ReadRoutes, SendRoutes, SendMulticastState,
        NotifyGroupRoutes, SendGroupRoutes
  <2>3. \E step, data : GotoWith(c, step, data)
    BY <1>4 DEF ReadNeighbors, SendAddNode, ReadRoutes, SendRoutes, SendMulticastState,
                NotifyGroupRoutes
  <2> QED
    BY <1>a, <1>d, <2>1, <2>2, <2>3, GotoFacts, SendKeepsAdmission
<1>5. CASE NodeTopologyReady(c) \/ CreateGroup(c) \/ JoinGroup(c) \/ LeaveGroup(c)
  <2>1. Consume(c) /\ UNCHANGED <<node_ws, open, handler>>
    BY <1>5 DEF NodeTopologyReady, CreateGroup, JoinGroup, LeaveGroup, ChangeMembership
  <2>2. Sends
    BY <1>5, <1>d, SendAllReaches, NobodyReached
    DEF NodeTopologyReady, CreateGroup, JoinGroup, LeaveGroup, ChangeMembership,
        BroadcastGroupDirectory
  <2> QED
    BY <1>a, <1>e, <2>1, <2>2, HandlersStay, SendKeepsAdmission
<1>6. CASE SetGroupRoutes(c)
  <2>1. Consume(c) /\ UNCHANGED <<node_ws, open, wire>>
    BY <1>6 DEF SetGroupRoutes
  <2>2. CASE UNCHANGED handler
    BY <1>a, <1>d, <1>e, <2>1, <2>2, NobodyReached, HandlersStay, SendKeepsAdmission
  <2>3. CASE handler[c].id = GroupOwner /\ \E step, data : GotoWith(c, step, data)
    <3>1. OwnsId(c)
      BY <2>3, <1>c DEF NoNode
    <3> QED
      BY <1>a, <1>d, <1>e, <2>1, <2>3, <3>1, NobodyReached, GotoFacts, SendKeepsAdmission
  <2> QED
    BY <1>6, <2>2, <2>3 DEF SetGroupRoutes
<1> QED
  BY <1>1, <1>2, <1>3, <1>4, <1>5, <1>6 DEF HandlerStep

LEMMA ControllerKeepsAdmission ==
    ASSUME AdmissionInv, SyncStep \/ CoordinatorStep, Quiet
    PROVE  AdmissionInv'
<1>d. ControlShape /\ DOMAIN inbox = Conns
  BY DEF AdmissionInv, ControlShape
<1>1. UNCHANGED <<node_ws, handler, inbox, open, dp, crashes>>
  BY DEF Quiet, SyncStep, CoordinatorStep, SyncReadRoutes, SyncSendRoutes, SyncReadGroup,
         SyncSendGroup, SyncFlow, NodeConnected, NodeLocallyReady, SendLinkRates, SendFlows,
         CheckReadyAfterDispatch, syncFrame, coordFrame, TakeEvent
<1>2. CASE SyncStep
  BY <1>1, <1>2, <1>d, SendAllReaches, NobodyReached, HandlersStay, SendKeepsAdmission
  DEF SyncStep, SyncReadRoutes, SyncSendRoutes, SyncReadGroup, SyncSendGroup, SyncFlow,
      SendGroupRoutes
<1>3. ASSUME NEW x, MaybeBroadcastTopologyReady(x) PROVE Sends
  BY <1>3, <1>d, SendAllReaches, NobodyReached DEF MaybeBroadcastTopologyReady
<1>4. CASE CoordinatorStep
  <2>1. Sends
    BY <1>4, <1>3, <1>d, SendAllReaches, NobodyReached
    DEF CoordinatorStep, NodeConnected, NodeLocallyReady, SendLinkRates, SendFlows,
        CheckReadyAfterDispatch
  <2> QED
    BY <1>1, <1>d, <2>1, HandlersStay, SendKeepsAdmission
<1> QED
  BY <1>2, <1>4

\* A node that works through its messages neither moves nor is moved.
LEMMA NodeKeepsAdmission ==
    ASSUME AdmissionInv,
           UNCHANGED <<node_ws, handler, open, crashes>>,
           DOMAIN inbox' = Conns, DOMAIN wire' = Conns, DOMAIN dp' = NodeIds,
           \A n \in NodeIds : /\ DOMAIN dp'[n] = DOMAIN dp[n]
                              /\ dp'[n].starts = dp[n].starts
                              /\ dp'[n].phase # "down" <=> dp[n].phase # "down"
                              /\ dp'[n].phase = "up" =>
                                    dp[n].phase = "up" \/ (Conn(n) \in Conns /\ wire[Conn(n)] # << >>),
           \A c \in Conns : wire[c] = << >> => wire'[c] = << >>
    PROVE  AdmissionInv'
<1>1. ControlShape'
  BY DEF AdmissionInv, ControlShape, Fresh
<1>2. \A c : OwnsId(c)' <=> OwnsId(c)
  BY DEF OwnsId
<1>3. \A n \in NodeIds : Conn(n)' = Conn(n)
  BY DEF Conn
<1>4. ASSUME NEW c \in Conns
      PROVE  /\ c \in open' <=> c = Conn(c[1])' /\ dp'[c[1]].phase # "down"
             /\ handler'[c].step # "idle" \/ wire'[c] # << >> => OwnsId(c)'
             /\ handler'[c].id # NoNode => handler'[c].id = c[1] /\ OwnsId(c)'
             /\ c \notin open' => wire'[c] = << >>
  <2>1. c[1] \in NodeIds
    BY ConnFacts
  <2>2. /\ c \in open <=> c = Conn(c[1]) /\ dp[c[1]].phase # "down"
        /\ handler[c].step # "idle" \/ wire[c] # << >> => OwnsId(c)
        /\ handler[c].id # NoNode => handler[c].id = c[1] /\ OwnsId(c)
        /\ c \notin open => wire[c] = << >>
    BY DEF AdmissionInv, Registrations
  <2>3. c \in open' <=> c = Conn(c[1])' /\ dp'[c[1]].phase # "down"
    BY <1>3, <2>1, <2>2
  <2>4. handler'[c].step # "idle" \/ wire'[c] # << >> => OwnsId(c)'
    BY <1>2, <2>2
  <2>5. handler'[c].id # NoNode => handler'[c].id = c[1] /\ OwnsId(c)'
    BY <1>2, <2>2
  <2>6. c \notin open' => wire'[c] = << >>
    BY <2>1, <2>2
  <2> QED
    BY <2>3, <2>4, <2>5, <2>6
<1>5. ASSUME NEW m \in NodeIds, dp'[m].phase = "up" PROVE OwnsId(Conn(m))'
  <2>1. dp[m].phase = "up" \/ (Conn(m) \in Conns /\ wire[Conn(m)] # << >>)
    BY <1>5
  <2>2. OwnsId(Conn(m))
    BY <2>1 DEF AdmissionInv, Registrations
  <2> QED
    BY <1>3, <2>2 DEF OwnsId
<1>6. Registrations'
  BY <1>4, <1>5 DEF Registrations
<1> QED
  BY <1>1, <1>6 DEF AdmissionInv

\* What a node's step on a message may change of its own record
Works(n) ==
    /\ DOMAIN dp' = NodeIds
    /\ \A m \in NodeIds : m # n => dp'[m] = dp[m]
    /\ DOMAIN dp'[n] = DOMAIN dp[n]
    /\ dp'[n].starts = dp[n].starts /\ dp'[n].phase = dp[n].phase

LEMMA SettleWorks ==
    ASSUME ControlShape, NEW n \in NodeIds, NEW d, Settle(n, d),
           DOMAIN d = DOMAIN dp[n], d.starts = dp[n].starts, d.phase = dp[n].phase
    PROVE  Works(n) /\ DOMAIN inbox' = Conns
BY DEF ControlShape, Settle, Works, Fresh

LEMMA HandlingWorks ==
    ASSUME AdmissionInv, NEW n \in NodeIds,
           \/ AddNode(n) \/ SetLinkRate(n) \/ InstallRoutes(n) \/ AddFlows(n) \/ TopologyReady(n)
           \/ InstallGroupDirectory(n) \/ InstallGroupRoutes(n) \/ IgnoreMessage(n)
    PROVE  /\ Works(n) /\ DOMAIN inbox' = Conns
           /\ dp[n].phase = "up" /\ wire[Conn(n)] # << >>
           /\ wire' = [wire EXCEPT ![Conn(n)] = Tail(@)]
           /\ UNCHANGED <<tables, open, ops, crashes>>
<1>a. ControlShape /\ DOMAIN dp = NodeIds /\ DOMAIN dp[n] = DOMAIN Fresh(0) /\ DOMAIN inbox = Conns
  BY DEF AdmissionInv, ControlShape
<1>b. DOMAIN Fresh(0) = {"starts", "phase", "configured", "expected", "connected", "peers",
                         "limited", "routes", "routes_installed", "directory",
                         "directory_installed", "group_routes", "ready_sent", "topology_ready",
                         "specs", "pending", "started"}
  BY DEF Fresh
<1>1. \E type : Next1(n, type)
  BY DEF AddNode, SetLinkRate, InstallRoutes, AddFlows, TopologyReady, InstallGroupDirectory,
         InstallGroupRoutes, IgnoreMessage
<1>2. CASE AddNode(n)
  <2>1. PICK m : Settle(n, [dp[n] EXCEPT !.expected = @ + 1, !.connected = @ + 1,
                                         !.peers = @ \cup {m}])
    BY <1>2 DEF AddNode
  <2> QED
    BY <1>1, <1>a, <1>b, <2>1, SettleWorks DEF Next1
<1>3. CASE InstallRoutes(n)
  <2>1. PICK x : Settle(n, [dp[n] EXCEPT !.routes = x, !.routes_installed = TRUE])
    BY <1>3 DEF InstallRoutes
  <2> QED
    BY <1>1, <1>a, <1>b, <2>1, SettleWorks DEF Next1
<1>4. CASE InstallGroupDirectory(n)
  <2>1. PICK x : Settle(n, [dp[n] EXCEPT !.directory = x, !.directory_installed = TRUE])
    BY <1>4 DEF InstallGroupDirectory
  <2> QED
    BY <1>1, <1>a, <1>b, <2>1, SettleWorks DEF Next1
<1>5. CASE SetLinkRate(n) \/ InstallGroupRoutes(n) \/ IgnoreMessage(n)
  BY <1>1, <1>5, <1>a, <1>b DEF Next1, SetLinkRate, InstallGroupRoutes, IgnoreMessage, Works
<1>6. CASE AddFlows(n)
  <2>1. PICK x, y, z : dp' = [dp EXCEPT ![n] = [dp[n] EXCEPT !.specs = x, !.started = y, !.pending = z]]
    BY <1>6 DEF AddFlows
  <2>2. UNCHANGED inbox
    BY <1>6 DEF AddFlows
  <2> QED
    BY <1>1, <1>a, <1>b, <2>1, <2>2 DEF Next1, Works
<1>7. CASE TopologyReady(n)
  BY <1>1, <1>7, <1>a, <1>b DEF Next1, TopologyReady, Works
<1> QED
  BY <1>2, <1>3, <1>4, <1>5, <1>6, <1>7

LEMMA NodeStepKeepsAdmission ==
    ASSUME AdmissionInv, NEW n \in NodeIds, NodeStep(n)
    PROVE  AdmissionInv'
<1>a. ControlShape /\ DOMAIN dp = NodeIds /\ DOMAIN dp[n] = DOMAIN Fresh(0) /\ DOMAIN inbox = Conns
      /\ DOMAIN wire = Conns
  BY DEF AdmissionInv, ControlShape
<1>1. CASE TakeResponse(n)
  <2>1. /\ DOMAIN dp' = NodeIds /\ \A m \in NodeIds : m # n => dp'[m] = dp[m]
        /\ DOMAIN dp'[n] = DOMAIN dp[n]
        /\ dp'[n].starts = dp[n].starts /\ dp'[n].phase = "up" /\ dp[n].phase # "down"
    BY <1>1, <1>a DEF TakeResponse, Fresh
  <2>2. /\ wire' = [wire EXCEPT ![Conn(n)] = Tail(@)] /\ wire[Conn(n)] # << >>
        /\ UNCHANGED <<node_ws, handler, open, crashes, inbox>>
    BY <1>1 DEF TakeResponse, tables
  <2>3. dp[n].phase = "starting"
    BY <1>1 DEF TakeResponse
  <2>4. Conn(n) \in Conns
    BY <2>3, <1>a, OwnConn DEF ControlShape
  <2>5. \A c \in Conns : wire[c] = << >> => wire'[c] = << >>
    BY <1>a, <2>2
  <2> QED
    BY <1>a, <2>1, <2>2, <2>4, <2>5, NodeKeepsAdmission
<1>2. CASE \/ AddNode(n) \/ SetLinkRate(n) \/ InstallRoutes(n) \/ AddFlows(n) \/ TopologyReady(n)
           \/ InstallGroupDirectory(n) \/ InstallGroupRoutes(n) \/ IgnoreMessage(n)
  <2>1. /\ Works(n) /\ DOMAIN inbox' = Conns
        /\ dp[n].phase = "up" /\ wire[Conn(n)] # << >>
        /\ wire' = [wire EXCEPT ![Conn(n)] = Tail(@)]
        /\ UNCHANGED <<node_ws, handler, open, crashes>>
    BY <1>2, HandlingWorks DEF tables
  <2>2. \A c \in Conns : wire[c] = << >> => wire'[c] = << >>
    BY <1>a, <2>1
  <2> QED
    BY <1>a, <2>1, <2>2, NodeKeepsAdmission DEF Works
<1> QED
  BY <1>1, <1>2 DEF NodeStep

LEMMA StartKeepsAdmission ==
    ASSUME AdmissionInv, NEW n \in NodeIds, StartNode(n)
    PROVE  AdmissionInv'
<1> DEFINE c0 == <<n, dp[n].starts + 1>>
<1>a. ControlShape /\ DOMAIN dp = NodeIds /\ DOMAIN inbox = Conns /\ dp[n].starts \in 0 .. MaxStarts
  BY DEF AdmissionInv, ControlShape
<1>1. /\ dp[n].phase = "down" /\ c0 \in Conns /\ c0[1] = n /\ c0[2] = dp[n].starts + 1
  BY <1>a DEF StartNode, Conns
<1>2. /\ open' = open \cup {c0}
      /\ UNCHANGED <<node_ws, handler, wire, crashes>>
      /\ DOMAIN inbox' = Conns
  BY <1>a DEF StartNode, tables
<1>3. /\ DOMAIN dp' = NodeIds /\ \A m \in NodeIds : m # n => dp'[m] = dp[m]
      /\ DOMAIN dp'[n] = DOMAIN Fresh(0)
      /\ dp'[n].starts = dp[n].starts + 1 /\ dp'[n].phase = "starting"
  BY <1>a DEF StartNode, Fresh
<1>4. ControlShape'
  BY <1>1, <1>2, <1>3, <1>a DEF ControlShape, StartNode, Fresh
<1>5. \A c : OwnsId(c)' <=> OwnsId(c)
  BY <1>2 DEF OwnsId
<1>6. /\ \A m \in NodeIds : m # n => Conn(m)' = Conn(m)
      /\ Conn(n)' = c0
  BY <1>3 DEF Conn
<1>7. \A c \in Conns : c \in open => c[1] # n
  BY <1>1 DEF AdmissionInv, Registrations
<1>8. ASSUME NEW c \in Conns
      PROVE  /\ c \in open' <=> c = Conn(c[1])' /\ dp'[c[1]].phase # "down"
             /\ handler'[c].step # "idle" \/ wire'[c] # << >> => OwnsId(c)'
             /\ handler'[c].id # NoNode => handler'[c].id = c[1] /\ OwnsId(c)'
             /\ c \notin open' => wire'[c] = << >>
  <2>1. c[1] \in NodeIds
    BY ConnFacts
  <2>2. /\ c \in open <=> c = Conn(c[1]) /\ dp[c[1]].phase # "down"
        /\ handler[c].step # "idle" \/ wire[c] # << >> => OwnsId(c)
        /\ handler[c].id # NoNode => handler[c].id = c[1] /\ OwnsId(c)
        /\ c \notin open => wire[c] = << >>
    BY DEF AdmissionInv, Registrations
  <2>3. c \in open' <=> c = Conn(c[1])' /\ dp'[c[1]].phase # "down"
    BY <1>1, <1>2, <1>3, <1>6, <1>7, <2>1, <2>2
  <2>4. handler'[c].step # "idle" \/ wire'[c] # << >> => OwnsId(c)'
    BY <1>2, <1>5, <2>2
  <2>5. handler'[c].id # NoNode => handler'[c].id = c[1] /\ OwnsId(c)'
    BY <1>2, <1>5, <2>2
  <2>6. c \notin open' => wire'[c] = << >>
    BY <1>2, <2>1, <2>2
  <2> QED
    BY <2>3, <2>4, <2>5, <2>6
<1>9. ASSUME NEW m \in NodeIds, dp'[m].phase = "up" PROVE OwnsId(Conn(m))'
  <2>1. m # n /\ dp[m].phase = "up"
    BY <1>3, <1>9
  <2>2. OwnsId(Conn(m)) /\ Conn(m)' = Conn(m)
    BY <1>6, <2>1 DEF AdmissionInv, Registrations
  <2> QED
    BY <1>2, <2>2 DEF OwnsId
<1>10. Registrations'
  BY <1>8, <1>9 DEF Registrations
<1> QED
  BY <1>4, <1>10 DEF AdmissionInv

LEMMA CrashKeepsAdmission ==
    ASSUME AdmissionInv, NEW n \in NodeIds, Crash(n)
    PROVE  AdmissionInv'
<1>a. ControlShape /\ DOMAIN dp = NodeIds /\ DOMAIN wire = Conns /\ dp[n].starts \in 0 .. MaxStarts
  BY DEF AdmissionInv, ControlShape
<1>1. /\ open' = open \ {Conn(n)} /\ crashes' = crashes + 1
      /\ UNCHANGED <<node_ws, handler, inbox>>
      /\ wire' = [wire EXCEPT ![Conn(n)] = << >>]
  BY DEF Crash, tables
<1>2. /\ DOMAIN dp' = NodeIds /\ \A m \in NodeIds : m # n => dp'[m] = dp[m]
      /\ DOMAIN dp'[n] = DOMAIN Fresh(0)
      /\ dp'[n].starts = dp[n].starts /\ dp'[n].phase = "down"
  BY <1>a DEF Crash, Fresh
<1>3. ControlShape'
  BY <1>1, <1>2, <1>a DEF ControlShape, Fresh
<1>4. \A c : OwnsId(c)' <=> OwnsId(c)
  BY <1>1 DEF OwnsId
<1>5. \A m \in NodeIds : Conn(m)' = Conn(m) /\ Conn(m)[1] = m
  BY <1>2 DEF Conn
<1>6. \A c \in Conns : wire'[c] = (IF c = Conn(n) THEN << >> ELSE wire[c])
  BY <1>1, <1>a
<1>7. ASSUME NEW c \in Conns
      PROVE  /\ c \in open' <=> c = Conn(c[1])' /\ dp'[c[1]].phase # "down"
             /\ handler'[c].step # "idle" \/ wire'[c] # << >> => OwnsId(c)'
             /\ handler'[c].id # NoNode => handler'[c].id = c[1] /\ OwnsId(c)'
             /\ c \notin open' => wire'[c] = << >>
  <2>1. c[1] \in NodeIds
    BY ConnFacts
  <2>2. /\ c \in open <=> c = Conn(c[1]) /\ dp[c[1]].phase # "down"
        /\ handler[c].step # "idle" \/ wire[c] # << >> => OwnsId(c)
        /\ handler[c].id # NoNode => handler[c].id = c[1] /\ OwnsId(c)
        /\ c \notin open => wire[c] = << >>
    BY DEF AdmissionInv, Registrations
  <2>3. c \in open' <=> c = Conn(c[1])' /\ dp'[c[1]].phase # "down"
    BY <1>1, <1>2, <1>5, <2>1, <2>2
  <2>4. handler'[c].step # "idle" \/ wire'[c] # << >> => OwnsId(c)'
    BY <1>1, <1>4, <1>6, <2>2
  <2>5. handler'[c].id # NoNode => handler'[c].id = c[1] /\ OwnsId(c)'
    BY <1>1, <1>4, <2>2
  <2>6. c \notin open' => wire'[c] = << >>
    BY <1>1, <1>6, <2>1, <2>2
  <2> QED
    BY <2>3, <2>4, <2>5, <2>6
<1>8. ASSUME NEW m \in NodeIds, dp'[m].phase = "up" PROVE OwnsId(Conn(m))'
  <2>1. m # n /\ dp[m].phase = "up"
    BY <1>2, <1>8
  <2>2. OwnsId(Conn(m)) /\ Conn(m)' = Conn(m)
    BY <1>5, <2>1 DEF AdmissionInv, Registrations
  <2> QED
    BY <1>1, <2>2 DEF OwnsId
<1>9. Registrations'
  BY <1>7, <1>8 DEF Registrations
<1> QED
  BY <1>3, <1>9 DEF AdmissionInv

LEMMA AdmissionStep == AdmissionInv /\ [Next]_vars => AdmissionInv'
<1> SUFFICES ASSUME AdmissionInv, [Next]_vars PROVE AdmissionInv'
  OBVIOUS
<1>a. ControlShape /\ DOMAIN inbox = Conns
  BY DEF AdmissionInv, ControlShape
<1>1. ASSUME NEW c \in Conns, HandlerStep(c), Quiet PROVE AdmissionInv'
  BY <1>1, HandlerKeepsAdmission
<1>2. CASE (SyncStep \/ CoordinatorStep) /\ Quiet
  BY <1>2, ControllerKeepsAdmission
<1>3. ASSUME NEW n \in NodeIds, StartNode(n) \/ NodeStep(n) PROVE AdmissionInv'
  BY <1>3, StartKeepsAdmission, NodeStepKeepsAdmission
<1>4. ASSUME NEW n \in NodeIds, NEW m \in NodeIds, AcceptLink(n, m) PROVE AdmissionInv'
  <2>1. /\ DOMAIN dp' = NodeIds /\ UNCHANGED <<node_ws, handler, open, crashes, inbox, wire>>
        /\ \A k \in NodeIds : /\ DOMAIN dp'[k] = DOMAIN dp[k]
                              /\ dp'[k].starts = dp[k].starts /\ dp'[k].phase = dp[k].phase
    BY <1>4 DEF AcceptLink, tables, AdmissionInv, ControlShape, Fresh
  <2> QED
    BY <1>a, <2>1, NodeKeepsAdmission DEF ControlShape
<1>5. CASE \/ \E rs \in RouteChoices : UpdateRoutes(rs) /\ Quiet
           \/ \E f \in LaterFlows : InsertFlow(f) /\ Quiet
  BY <1>5, <1>a, NobodyReached, HandlersStay, SendKeepsAdmission
  DEF UpdateRoutes, InsertFlow, Quiet, outsideFrame
<1>6. ASSUME NEW r \in Requests, Request(r) PROVE AdmissionInv'
  <2>1. UNCHANGED <<node_ws, handler, open, crashes, wire, dp>> /\ DOMAIN inbox' = Conns
    BY <1>6, <1>a DEF Request, tables
  <2> QED
    BY <1>a, <2>1, NobodyReached, HandlersStay, SendKeepsAdmission
<1>7. ASSUME NEW n \in CanCrash, Crash(n) PROVE AdmissionInv'
  BY <1>7, CrashKeepsAdmission
<1>8. CASE UNCHANGED vars
  BY <1>8, <1>a, NobodyReached, HandlersStay, SendKeepsAdmission DEF vars, controllerVars
<1> QED
  BY <1>1, <1>2, <1>3, <1>4, <1>5, <1>6, <1>7, <1>8 DEF Next, SystemStep, OutsideStep

\* An id has one holder, which keeps it as long as its node is there; nobody else is
\* answered or sent anything (the reservation in handle_connection).
THEOREM AdmissionInductive == Spec => []AdmissionInv
BY AdmissionInit, AdmissionStep, PTL DEF Spec

\* Whatever older connections of an id close, crash or still wait in between,
\* a node that was answered is reachable under its id.
THEOREM WriterAlwaysLive == Spec => []WriterIsLive
<1>1. AdmissionInv => WriterIsLive
  <2>1. \A n \in NodeIds : Conn(n)[1] = n
    BY DEF Conn
  <2> QED
    BY <2>1 DEF AdmissionInv, Registrations, WriterIsLive, Up, OwnsId
<1> QED
  BY <1>1, AdmissionInductive, PTL

-----------------------------------------------------------------------------
(* Sequences of anything *)

LEMMA SeqFacts ==
    ASSUME NEW s, IsSequence(s)
    PROVE  /\ Len(s) \in Nat /\ DOMAIN s = 1 .. Len(s)
           /\ s = << >> <=> Len(s) = 0
           /\ s # << >> => 1 \in DOMAIN s /\ Head(s) = s[1]
BY DEF IsSequence

LEMMA SeqOfOwn ==
    ASSUME NEW S, NEW s \in Seq(S)
    PROVE  IsSequence(s)
<1>1. /\ Len(s) \in Nat /\ s \in [1 .. Len(s) -> S]
  OBVIOUS
<1>2. s \in [1 .. Len(s) -> Range(s)]
  BY <1>1 DEF Range
<1>3. s \in Seq(Range(s))
  BY <1>1, <1>2
<1> QED
  BY <1>3 DEF IsSequence

LEMMA NothingSeq == \A s : s = << >> => IsSequence(s)
<1>1. \A s : s = << >> => s \in Seq({})
  OBVIOUS
<1> QED
  BY <1>1, SeqOfOwn

LEMMA OneSeq ==
    ASSUME NEW m
    PROVE  IsSequence(<<m>>) /\ DOMAIN <<m>> = {1} /\ <<m>>[1] = m /\ <<m>> # << >>
<1>1. <<m>> \in Seq({m})
  OBVIOUS
<1>2. IsSequence(<<m>>)
  BY <1>1, SeqOfOwn
<1>3. Len(<<m>>) = 1 /\ <<m>>[1] = m
  OBVIOUS
<1> QED
  BY <1>2, <1>3, SeqFacts

LEMMA TailSeq ==
    ASSUME NEW s, IsSequence(s), s # << >>
    PROVE  /\ IsSequence(Tail(s)) /\ Len(Tail(s)) = Len(s) - 1
           /\ \A i \in DOMAIN Tail(s) :
                 i \in Nat /\ i + 1 \in DOMAIN s /\ i + 1 # 1 /\ Tail(s)[i] = s[i + 1]
           /\ \A i \in DOMAIN s : i \in Nat /\ (i # 1 => i - 1 \in DOMAIN Tail(s) /\ Tail(s)[i - 1] = s[i])
<1>1. Tail(s) \in Seq(Range(s)) /\ Len(Tail(s)) = Len(s) - 1 /\ s \in Seq(Range(s))
  BY DEF IsSequence
<1>2. IsSequence(Tail(s))
  BY <1>1, SeqOfOwn
<1>3. DOMAIN Tail(s) = 1 .. Len(s) - 1 /\ DOMAIN s = 1 .. Len(s) /\ Len(s) \in Nat
  BY <1>1, <1>2, SeqFacts
<1>4. \A i \in 1 .. Len(s) - 1 : Tail(s)[i] = s[i + 1]
  BY <1>1
<1> QED
  BY <1>1, <1>2, <1>3, <1>4

LEMMA ConcatSeq ==
    ASSUME NEW s, IsSequence(s), NEW t, IsSequence(t)
    PROVE  /\ IsSequence(s \o t)
           /\ \A i \in DOMAIN s : i \in DOMAIN (s \o t) /\ (s \o t)[i] = s[i]
           /\ \A i \in DOMAIN t : Len(s) + i \in DOMAIN (s \o t) /\ (s \o t)[Len(s) + i] = t[i]
           /\ \A i \in DOMAIN (s \o t) :
                 /\ i \in Nat
                 /\ \/ i \in DOMAIN s
                    \/ i - Len(s) \in DOMAIN t /\ i > Len(s) /\ (s \o t)[i] = t[i - Len(s)]
           /\ Len(s \o t) = Len(s) + Len(t)
           /\ s # << >> => s \o t # << >> /\ (s \o t)[1] = s[1]
           /\ s = << >> => s \o t = t
           /\ t = << >> => s \o t = s
<1> DEFINE S == Range(s) \cup Range(t)
<1>1. s \in Seq(S) /\ t \in Seq(S)
  <2>1. /\ s \in [1 .. Len(s) -> Range(s)] /\ t \in [1 .. Len(t) -> Range(t)]
        /\ Len(s) \in Nat /\ Len(t) \in Nat
    BY DEF IsSequence
  <2>2. s \in [1 .. Len(s) -> S] /\ t \in [1 .. Len(t) -> S]
    BY <2>1
  <2> QED
    BY <2>1, <2>2
<1> HIDE DEF S
<1>2. /\ s \o t \in Seq(S) /\ Len(s \o t) = Len(s) + Len(t)
      /\ \A i \in 1 .. Len(s) + Len(t) :
            (s \o t)[i] = IF i <= Len(s) THEN s[i] ELSE t[i - Len(s)]
  BY <1>1
<1>3. IsSequence(s \o t)
  BY <1>2, SeqOfOwn
<1>4. /\ DOMAIN (s \o t) = 1 .. Len(s) + Len(t) /\ DOMAIN s = 1 .. Len(s) /\ DOMAIN t = 1 .. Len(t)
      /\ Len(s) \in Nat /\ Len(t) \in Nat
  BY <1>2, <1>3, SeqFacts
<1>5. s = << >> => s \o t = t
  BY <1>1
<1>6. t = << >> => s \o t = s
  BY <1>1
<1>7. s # << >> => Len(s) # 0
  BY SeqFacts
<1>8. s # << >> => s \o t # << >> /\ (s \o t)[1] = s[1]
  BY <1>2, <1>3, <1>4, <1>7, SeqFacts
<1>9. /\ \A i \in DOMAIN s : i \in DOMAIN (s \o t) /\ (s \o t)[i] = s[i]
      /\ \A i \in DOMAIN t : Len(s) + i \in DOMAIN (s \o t) /\ (s \o t)[Len(s) + i] = t[i]
  BY <1>2, <1>4
<1>10. \A i \in DOMAIN (s \o t) :
                 /\ i \in Nat
                 /\ \/ i \in DOMAIN s
                    \/ i - Len(s) \in DOMAIN t /\ i > Len(s) /\ (s \o t)[i] = t[i - Len(s)]
  BY <1>2, <1>4
<1> QED
  BY <1>2, <1>3, <1>5, <1>6, <1>8, <1>9, <1>10

LEMMA AppendSeq ==
    ASSUME NEW s, IsSequence(s), NEW m
    PROVE  Append(s, m) = s \o <<m>>
<1> DEFINE S == Range(s) \cup {m}
<1>1. s \in Seq(S) /\ m \in S
  <2>1. s \in [1 .. Len(s) -> Range(s)] /\ Len(s) \in Nat
    BY DEF IsSequence
  <2>2. s \in [1 .. Len(s) -> S]
    BY <2>1
  <2> QED
    BY <2>1, <2>2
<1> HIDE DEF S
<1> QED
  BY <1>1, AppendIsConcat

LEMMA TwoSeq ==
    ASSUME NEW a, NEW b
    PROVE  IsSequence(<<a, b>>) /\ DOMAIN <<a, b>> = {1, 2} /\ <<a, b>>[1] = a /\ <<a, b>>[2] = b
<1>1. <<a, b>> \in Seq({a, b})
  OBVIOUS
<1>2. IsSequence(<<a, b>>)
  BY <1>1, SeqOfOwn
<1>3. Len(<<a, b>>) = 2 /\ <<a, b>>[1] = a /\ <<a, b>>[2] = b
  OBVIOUS
<1> QED
  BY <1>2, <1>3, SeqFacts

\* The closure facts alone, in the form that quantified goals need
LEMMA SeqClosed ==
    /\ \A s, t : IsSequence(s) /\ IsSequence(t) => IsSequence(s \o t)
    /\ \A s : IsSequence(s) /\ s # << >> => IsSequence(Tail(s))
    /\ \A s, m : IsSequence(s) => IsSequence(Append(s, m))
<1>1. \A s, t : IsSequence(s) /\ IsSequence(t) => IsSequence(s \o t)
  BY ConcatSeq
<1>2. \A s : IsSequence(s) /\ s # << >> => IsSequence(Tail(s))
  BY TailSeq
<1>3. ASSUME NEW s, NEW m, IsSequence(s) PROVE IsSequence(Append(s, m))
  <2>1. Append(s, m) = s \o <<m>> /\ IsSequence(<<m>>)
    BY <1>3, AppendSeq, OneSeq
  <2> QED
    BY <1>1, <1>3, <2>1
<1> QED
  BY <1>1, <1>2, <1>3

-----------------------------------------------------------------------------
(* The first life of every node: one connection each *)

\* While no node has crashed, the id of a node is held by its only connection.
LEMMA OwnerIsConn ==
    ASSUME AdmissionInv, FirstLife
    PROVE  /\ \A c \in Conns : OwnsId(c) => c \in open
           /\ \A c \in open \cap Conns : c = Conn(c[1]) /\ dp[c[1]].phase # "down" /\ c[1] \in NodeIds
           /\ \A n \in DOMAIN node_ws :
                 /\ n \in NodeIds /\ node_ws[n] = Conn(n) /\ Conn(n) \in Conns /\ Conn(n) \in open
                 /\ dp[n].phase # "down" /\ OwnsId(Conn(n))
           /\ \A n \in NodeIds : dp[n].phase # "down" =>
                 Conn(n) \in Conns /\ Conn(n) \in open /\ Conn(n)[1] = n
<1>1. \A c \in Conns : OwnsId(c) => c \in open
  BY DEF FirstLife, Unused
<1>2. \A c \in open \cap Conns : c = Conn(c[1]) /\ dp[c[1]].phase # "down" /\ c[1] \in NodeIds
  BY ConnFacts DEF AdmissionInv, Registrations
<1>3. \A n \in DOMAIN node_ws : n \in NodeIds /\ node_ws[n] \in Conns /\ node_ws[n][1] = n
  BY DEF AdmissionInv, ControlShape
<1>4. \A n \in DOMAIN node_ws : OwnsId(node_ws[n])
  BY <1>3 DEF OwnsId
<1>5. \A n \in NodeIds : dp[n].phase # "down" => Conn(n) \in Conns /\ Conn(n)[1] = n
  BY OwnConn DEF AdmissionInv, ControlShape
<1>6. \A n \in NodeIds : dp[n].phase # "down" => Conn(n) \in open
  BY <1>5 DEF AdmissionInv, Registrations
<1>7. \A n \in DOMAIN node_ws : node_ws[n] \in open /\ node_ws[n] = Conn(n) /\ dp[n].phase # "down"
  BY <1>1, <1>2, <1>3, <1>4
<1> QED
  BY <1>1, <1>2, <1>3, <1>4, <1>5, <1>6, <1>7

\* Two nodes have two connections.
LEMMA ConnsDiffer == \A a, b \in NodeIds : a # b => Conn(a) # Conn(b)
BY DEF Conn

\* A step of the controller appends ms[c] to what is on its way to c.
Delivers(ms) ==
    /\ DOMAIN wire' = Conns
    /\ \A d \in Conns : /\ wire'[d] = wire[d] \o ms[d]
                        /\ IsSequence(ms[d])
                        /\ ms[d] # << >> => OwnsId(d) /\ d \in open

Seqs == \A d \in Conns : IsSequence(wire[d])

LEMMA FirstLifeSeqs == FirstLife => Seqs
BY DEF FirstLife, Seqs

LEMMA NothingDelivered ==
    ASSUME ControlShape, Seqs, UNCHANGED wire
    PROVE  \E ms : Delivers(ms) /\ \A d \in Conns : ms[d] = << >>
<1> DEFINE ms == [d \in Conns |-> << >>]
<1>1. \A d \in Conns : wire[d] \o ms[d] = wire[d]
  BY ConcatSeq, NothingSeq DEF Seqs
<1>2. Delivers(ms) /\ \A d \in Conns : ms[d] = << >>
  BY <1>1, NothingSeq DEF Delivers, ControlShape
<1> QED
  BY <1>2

LEMMA ToOneDelivered ==
    ASSUME ControlShape, Seqs, NEW c \in Conns, OwnsId(c), c \in open, NEW msgs, IsSequence(msgs),
           SendTo(c, msgs)
    PROVE  \E ms : Delivers(ms) /\ ms[c] = msgs /\ \A d \in Conns : d # c => ms[d] = << >>
<1> DEFINE ms == [d \in Conns |-> IF d = c THEN msgs ELSE << >>]
<1>1. \A d \in Conns : wire'[d] = IF d = c THEN wire[d] \o msgs ELSE wire[d]
  BY DEF SendTo, Sent, ControlShape
<1>2. DOMAIN wire' = Conns
  BY DEF SendTo, Sent, ControlShape
<1>3. \A d \in Conns : wire[d] \o << >> = wire[d]
  BY ConcatSeq, NothingSeq DEF Seqs
<1>4. Delivers(ms) /\ ms[c] = msgs /\ \A d \in Conns : d # c => ms[d] = << >>
  BY <1>1, <1>2, <1>3, NothingSeq DEF Delivers
<1> QED
  BY <1>4

LEMMA ToAllDelivered ==
    ASSUME ControlShape, Seqs, NEW msgs, \A n \in NodeIds : IsSequence(msgs[n]), SendAll(msgs)
    PROVE  \E ms : /\ Delivers(ms)
                   /\ \A d \in Conns : ms[d] = IF OwnsId(d) /\ d \in open THEN msgs[d[1]] ELSE << >>
<1> DEFINE ms == [d \in Conns |-> IF OwnsId(d) /\ d \in open THEN msgs[d[1]] ELSE << >>]
<1>1. \A d \in Conns : d \in Range(node_ws) <=> OwnsId(d)
  BY DEF Range, OwnsId, ControlShape
<1>2. DOMAIN wire' = Conns
  BY DEF SendAll
<1>3. \A d \in Conns : wire[d] \o << >> = wire[d]
  BY ConcatSeq, NothingSeq DEF Seqs
<1>4. \A d \in Conns : wire'[d] = wire[d] \o ms[d]
  BY <1>1, <1>3 DEF SendAll
<1>5. \A d \in Conns : IsSequence(ms[d])
  BY NothingSeq, ConnFacts
<1>6. \A d \in Conns : ms[d] # << >> => OwnsId(d) /\ d \in open
  OBVIOUS
<1>7. Delivers(ms)
  BY <1>2, <1>4, <1>5, <1>6 DEF Delivers
<1> QED
  BY <1>7

-----------------------------------------------------------------------------
(* A finite set as a sequence *)

LEMMA SetToSeqFacts ==
    ASSUME NEW S, IsFiniteSet(S)
    PROVE  IsSequence(SetToSeq(S)) /\ Range(SetToSeq(S)) = S
<1> DEFINE n == Cardinality(S)
           f == SetToSeq(S)
<1>1. n \in Nat /\ Bijection(1 .. n, S) # {}
  BY FS_CardinalityType DEF ExistsBijection
<1>2. \E g \in [1 .. n -> S] : IsInjective(g)
  BY <1>1 DEF Bijection, Injection
<1>3. f \in [1 .. n -> S] /\ IsInjective(f)
  BY <1>2 DEF SetToSeq
<1>4. f \in Injection(1 .. n, S)
  BY <1>3 DEF Injection
<1>5. IsFiniteSet(1 .. n) /\ Cardinality(1 .. n) = n
  BY <1>1, FS_Interval
<1>6. f \in Surjection(1 .. n, S)
  BY <1>4, <1>5, FS_Injection
<1> HIDE DEF n, f
<1>7. Range(f) = S
  BY <1>3, <1>6 DEF Surjection, Range
<1>8. f \in Seq(S)
  BY <1>1, <1>3 DEF n
<1>9. IsSequence(f)
  BY <1>8, SeqOfOwn
<1> QED
  BY <1>7, <1>9 DEF f

LEMMA RatesOfNode ==
    ASSUME NEW n
    PROVE  LET S == {[type |-> "SetLinkRate", node |-> r[2]] : r \in {q \in LinkRates : q[1] = n}}
           IN  /\ IsSequence(SetToSeq(S))
               /\ \A i \in DOMAIN SetToSeq(S) : SetToSeq(S)[i].type = "SetLinkRate"
<1> DEFINE T == {q \in LinkRates : q[1] = n}
           S == {[type |-> "SetLinkRate", node |-> r[2]] : r \in T}
           f == [r \in T |-> [type |-> "SetLinkRate", node |-> r[2]]]
<1>1. IsFiniteSet(T)
  BY FS_Subset
<1>2. f \in Surjection(T, S)
  BY DEF Surjection
<1> HIDE DEF T, f
<1>3. IsFiniteSet(S)
  BY <1>1, <1>2, FS_Surjection
<1>4. IsSequence(SetToSeq(S)) /\ Range(SetToSeq(S)) = S
  BY <1>3, SetToSeqFacts
<1>5. \A m \in S : m.type = "SetLinkRate"
  OBVIOUS
<1> HIDE DEF S
<1>6. \A i \in DOMAIN SetToSeq(S) : SetToSeq(S)[i] \in S
  BY <1>4 DEF Range
<1> QED
  BY <1>4, <1>5, <1>6 DEF S, T

-----------------------------------------------------------------------------
(* Steps of the controller in the first life *)

Neutral == {"StartUp", "GroupCreated", "InstallGroupRoutes", "AddFlows", "SetLinkRate",
            "TopologyReady"}
Only(ms, types) == \A d \in Conns : \A i \in DOMAIN ms[d] : ms[d][i].type \in types

\* Nothing to send, for a step that leaves the wire alone
LEMMA NothingIsNeutral ==
    ASSUME NEW ms, \A d \in Conns : ms[d] = << >>, NEW types
    PROVE  Only(ms, types)
BY DEF Only

LEMMA OnlyMore ==
    ASSUME NEW ms, NEW S, NEW T, Only(ms, S), S \subseteq T
    PROVE  Only(ms, T)
BY DEF Only

\* No handler works on a connection that was never used.
LEMMA HandlerIsOpen ==
    ASSUME AdmissionInv, FirstLife, NEW c \in Conns, HandlerStep(c)
    PROVE  /\ c \in open /\ c = Conn(c[1]) /\ c[1] \in NodeIds
           /\ ~CloseConnection(c)
           /\ RegisterNode(c) \/ OwnsId(c)
<1>1. ~CloseConnection(c)
  BY DEF CloseConnection, FirstLife, Unused
<1>2. Reading(c) \/ handler[c].step # "idle"
  BY <1>1 DEF HandlerStep, RegisterNode, UpsertNode, ReadNeighbors, SendAddNode, ReadRoutes,
         SendRoutes, SendMulticastState, NodeTopologyReady, CreateGroup, JoinGroup, LeaveGroup,
         SetGroupRoutes, NotifyGroupRoutes
<1>3. c \in open
  BY <1>2 DEF Reading, FirstLife, Unused
<1>4. c = Conn(c[1]) /\ c[1] \in NodeIds
  BY <1>3, OwnerIsConn
<1>5. handler[c].step # "idle" => OwnsId(c)
  BY DEF AdmissionInv, Registrations
<1>6. Reading(c) /\ Head(inbox[c]).type # "StartUp" => OwnsId(c)
  BY <1>3, SeqFacts DEF Reading, FirstLife
<1>7. \/ RegisterNode(c) \/ handler[c].step # "idle"
      \/ Reading(c) /\ Head(inbox[c]).type # "StartUp"
  BY <1>1 DEF HandlerStep, UpsertNode, ReadNeighbors, SendAddNode, ReadRoutes,
         SendRoutes, SendMulticastState, NodeTopologyReady, CreateGroup, JoinGroup, LeaveGroup,
         SetGroupRoutes, NotifyGroupRoutes
<1> QED
  BY <1>1, <1>3, <1>4, <1>5, <1>6, <1>7

\* What a handler's step leaves of inbox and handlers, after registration
LEMMA HandlerMoves ==
    ASSUME AdmissionInv, FirstLife, NEW c \in Conns, HandlerStep(c), ~RegisterNode(c)
    PROVE  /\ UNCHANGED <<node_ws, open, ops>>
           /\ \A d \in Conns : IsSequence(inbox'[d])
           /\ \A d \in Conns : d # c => handler'[d] = handler[d] /\ inbox'[d] = inbox[d]
           /\ UpsertNode(c) => handler'[c].id = c[1]
           /\ ~UpsertNode(c) => handler[c].step # "upsert" /\ handler'[c].id = handler[c].id
           /\ handler'[c].step # "upsert"
<1>a. c \in open /\ OwnsId(c) /\ ~CloseConnection(c)
  BY HandlerIsOpen
<1>b. DOMAIN handler = Conns /\ DOMAIN handler[c] = {"step", "id", "data"} /\ DOMAIN inbox = Conns
  BY DEF AdmissionInv, ControlShape
<1>c. \A d \in Conns : IsSequence(inbox[d])
  BY DEF FirstLife
<1>d. ASSUME Reading(c), Consume(c)
      PROVE  /\ \A d \in Conns : IsSequence(inbox'[d])
             /\ \A d \in Conns : d # c => inbox'[d] = inbox[d]
  BY <1>b, <1>c, <1>d, TailSeq DEF Reading, Consume
<1>1. CASE UpsertNode(c)
  BY <1>1, <1>b, <1>c DEF UpsertNode
<1>2. CASE \/ ReadNeighbors(c) \/ SendAddNode(c) \/ ReadRoutes(c) \/ SendRoutes(c)
           \/ SendMulticastState(c) \/ NotifyGroupRoutes(c)
  <2>1. /\ handler[c].step # "upsert" /\ UNCHANGED <<node_ws, open, inbox, ops>>
        /\ \E step, data : step # "upsert" /\ GotoWith(c, step, data)
    BY <1>2 DEF ReadNeighbors, SendAddNode, ReadRoutes, SendRoutes, SendMulticastState,
                NotifyGroupRoutes
  <2>2. /\ handler'[c].id = handler[c].id /\ handler'[c].step # "upsert"
        /\ \A d \in Conns : d # c => handler'[d] = handler[d]
    BY <2>1, <1>b DEF GotoWith
  <2> QED
    BY <1>c, <2>1, <2>2 DEF UpsertNode
<1>3. CASE NodeTopologyReady(c) \/ CreateGroup(c) \/ JoinGroup(c) \/ LeaveGroup(c)
  <2>1. Reading(c) /\ Consume(c) /\ UNCHANGED <<node_ws, open, handler, ops>>
    BY <1>3 DEF NodeTopologyReady, CreateGroup, JoinGroup, LeaveGroup, ChangeMembership
  <2> QED
    BY <1>b, <1>d, <2>1 DEF Reading, UpsertNode
<1>4. CASE SetGroupRoutes(c)
  <2>1. Reading(c) /\ Consume(c) /\ UNCHANGED <<node_ws, open, ops>>
    BY <1>4 DEF SetGroupRoutes
  <2>2. UNCHANGED handler \/ \E data : GotoWith(c, "notify_group", data)
    BY <1>4 DEF SetGroupRoutes
  <2>3. /\ handler'[c].id = handler[c].id /\ handler'[c].step # "upsert"
        /\ \A d \in Conns : d # c => handler'[d] = handler[d]
    BY <2>1, <2>2, <1>b DEF GotoWith, Reading
  <2> QED
    BY <1>d, <2>1, <2>3 DEF Reading, UpsertNode
<1> QED
  BY <1>a, <1>1, <1>2, <1>3, <1>4 DEF HandlerStep

\* What each step of the controller sends
QuietHandlerStep(c) ==
    \/ RegisterNode(c) \/ ReadNeighbors(c) \/ ReadRoutes(c) \/ NodeTopologyReady(c)
    \/ JoinGroup(c) \/ LeaveGroup(c) \/ SetGroupRoutes(c)

QuietSyncStep == SyncReadRoutes \/ SyncReadGroup

QuietOutsideStep ==
    \/ \E rs \in RouteChoices : UpdateRoutes(rs)
    \/ \E f \in LaterFlows : InsertFlow(f)
    \/ \E r \in Requests : Request(r)

LEMMA QuietDelivers ==
    ASSUME AdmissionInv, Seqs,
           (\E c \in Conns : QuietHandlerStep(c)) \/ QuietSyncStep \/ QuietOutsideStep
    PROVE  \E ms : Delivers(ms) /\ \A d \in Conns : ms[d] = << >>
<1>1. UNCHANGED wire
  BY DEF QuietHandlerStep, QuietSyncStep, QuietOutsideStep, RegisterNode, ReadNeighbors,
         ReadRoutes, NodeTopologyReady, JoinGroup, LeaveGroup, ChangeMembership, SetGroupRoutes,
         SyncReadRoutes, SyncReadGroup, UpdateRoutes, InsertFlow, Request, outsideFrame
<1> QED
  BY <1>1, NothingDelivered DEF AdmissionInv, FirstLife, Seqs

LEMMA UpsertDelivers ==
    ASSUME AdmissionInv, FirstLife, NEW c \in Conns, UpsertNode(c)
    PROVE  \E ms : /\ Delivers(ms) /\ ms[c] = <<[type |-> "StartUp"]>>
                   /\ \A d \in Conns : d # c => ms[d] = << >>
<1>1. OwnsId(c) /\ c \in open
  BY HandlerIsOpen DEF HandlerStep, UpsertNode, RegisterNode, Reading
<1> QED
  BY <1>1, OneSeq, ToOneDelivered DEF UpsertNode, AdmissionInv, FirstLife, Seqs

LEMMA AddNodeDelivers ==
    ASSUME AdmissionInv, FirstLife, NEW c \in Conns, SendAddNode(c)
    PROVE  \E n \in handler[c].data : \E ms :
              /\ Delivers(ms) /\ ms[c] = <<[type |-> "AddNode", node |-> n]>>
              /\ \A d \in Conns : d # c => ms[d] = << >>
              /\ GotoWith(c, "adding", handler[c].data \ {n})
<1>1. OwnsId(c) /\ c \in open
  BY HandlerIsOpen DEF HandlerStep, SendAddNode, RegisterNode, Reading
<1>2. PICK n \in handler[c].data :
          /\ SendTo(c, <<[type |-> "AddNode", node |-> n]>>)
          /\ GotoWith(c, "adding", handler[c].data \ {n})
  BY DEF SendAddNode
<1>3. \E ms : /\ Delivers(ms) /\ ms[c] = <<[type |-> "AddNode", node |-> n]>>
              /\ \A d \in Conns : d # c => ms[d] = << >>
  BY <1>1, <1>2, OneSeq, ToOneDelivered DEF AdmissionInv, FirstLife, Seqs
<1> QED
  BY <1>2, <1>3

LEMMA RoutesDelivered ==
    ASSUME AdmissionInv, FirstLife, NEW c \in Conns, SendRoutes(c)
    PROVE  \E ms : /\ Delivers(ms) /\ \A d \in Conns : d # c => ms[d] = << >>
                   /\ Only(ms, {"InstallRoutes"}) /\ ms[c] # << >>
<1>1. OwnsId(c) /\ c \in open
  BY HandlerIsOpen DEF HandlerStep, SendRoutes, RegisterNode, Reading
<1> DEFINE m == [type |-> "InstallRoutes", entries |-> RoutesFor(handler[c].data, c[1])]
<1>2. SendTo(c, <<m>>) /\ m.type = "InstallRoutes"
  BY DEF SendRoutes
<1> HIDE DEF m
<1>3. PICK ms : Delivers(ms) /\ ms[c] = <<m>> /\ \A d \in Conns : d # c => ms[d] = << >>
  BY <1>1, <1>2, OneSeq, ToOneDelivered DEF AdmissionInv, FirstLife, Seqs
<1>4. Only(ms, {"InstallRoutes"}) /\ ms[c] # << >>
  BY <1>2, <1>3, OneSeq DEF Only
<1> QED
  BY <1>3, <1>4

LEMMA MulticastDelivered ==
    ASSUME AdmissionInv, FirstLife, NEW c \in Conns, SendMulticastState(c)
    PROVE  \E ms : /\ Delivers(ms) /\ \A d \in Conns : d # c => ms[d] = << >>
                   /\ Only(ms, {"InstallGroupDirectory", "InstallGroupRoutes"})
                   /\ 1 \in DOMAIN ms[c] /\ ms[c][1].type = "InstallGroupDirectory"
<1>1. OwnsId(c) /\ c \in open
  BY HandlerIsOpen DEF HandlerStep, SendMulticastState, RegisterNode, Reading
<1>2. \A g : GroupDirectory(g).type = "InstallGroupDirectory"
  BY DEF GroupDirectory
<1>3. \A g, n : GroupRoutesSnapshot(g, n).type = "InstallGroupRoutes"
  BY DEF GroupRoutesSnapshot
<1>4. \/ \E g : SendTo(c, <<GroupDirectory(g)>>)
      \/ \E g, n : SendTo(c, <<GroupDirectory(g), GroupRoutesSnapshot(g, n)>>)
  BY DEF SendMulticastState, MulticastState
<1>5. ASSUME NEW g, SendTo(c, <<GroupDirectory(g)>>)
      PROVE  \E ms : /\ Delivers(ms) /\ \A d \in Conns : d # c => ms[d] = << >>
                     /\ Only(ms, {"InstallGroupDirectory", "InstallGroupRoutes"})
                     /\ 1 \in DOMAIN ms[c] /\ ms[c][1].type = "InstallGroupDirectory"
  <2>1. PICK ms : /\ Delivers(ms) /\ ms[c] = <<GroupDirectory(g)>>
                  /\ \A d \in Conns : d # c => ms[d] = << >>
    BY <1>1, <1>5, OneSeq, ToOneDelivered DEF AdmissionInv, FirstLife, Seqs
  <2> QED
    BY <1>2, <2>1, OneSeq DEF Only
<1>6. ASSUME NEW g, NEW n, SendTo(c, <<GroupDirectory(g), GroupRoutesSnapshot(g, n)>>)
      PROVE  \E ms : /\ Delivers(ms) /\ \A d \in Conns : d # c => ms[d] = << >>
                     /\ Only(ms, {"InstallGroupDirectory", "InstallGroupRoutes"})
                     /\ 1 \in DOMAIN ms[c] /\ ms[c][1].type = "InstallGroupDirectory"
  <2>1. PICK ms : /\ Delivers(ms) /\ ms[c] = <<GroupDirectory(g), GroupRoutesSnapshot(g, n)>>
                  /\ \A d \in Conns : d # c => ms[d] = << >>
    BY <1>1, <1>6, TwoSeq, ToOneDelivered DEF AdmissionInv, FirstLife, Seqs
  <2> QED
    BY <1>2, <1>3, <2>1, TwoSeq DEF Only
<1> QED
  BY <1>4, <1>5, <1>6

LEMMA CreateDelivers ==
    ASSUME AdmissionInv, Seqs, NEW c \in Conns, CreateGroup(c)
    PROVE  \E ms : /\ Delivers(ms)
                   /\ \/ UNCHANGED early /\ \A d \in Conns : ms[d] = << >>
                      \/ /\ early' = early \cup ({"directory"} \X Unwired)
                         /\ Only(ms, {"GroupCreated", "InstallGroupDirectory"})
<1>1. CASE UNCHANGED <<wire, early>>
  BY <1>1, NothingDelivered DEF AdmissionInv, FirstLife, Seqs
<1>2. CASE /\ BroadcastGroupDirectory(c[1])
           /\ early' = early \cup ({"directory"} \X Unwired)
  <2> DEFINE g == GroupDirectory(NewGroup)
             m == [type |-> "GroupCreated"]
             msgs == [n \in NodeIds |-> (IF n = c[1] THEN <<m>> ELSE << >>) \o <<g>>]
  <2>1. SendAll(msgs)
    BY <1>2 DEF BroadcastGroupDirectory
  <2>2. g.type = "InstallGroupDirectory" /\ m.type = "GroupCreated"
    BY DEF GroupDirectory
  <2> HIDE DEF g, m
  <2>3. ASSUME NEW n \in NodeIds
        PROVE  /\ IsSequence(msgs[n])
               /\ \A i \in DOMAIN msgs[n] :
                     msgs[n][i].type \in {"GroupCreated", "InstallGroupDirectory"}
    <3> DEFINE s == IF n = c[1] THEN <<m>> ELSE << >>
    <3>1. IsSequence(s) /\ \A i \in DOMAIN s : s[i] = m
      BY OneSeq, NothingSeq
    <3>2. msgs[n] = s \o <<g>>
      OBVIOUS
    <3>3. IsSequence(<<g>>) /\ \A i \in DOMAIN <<g>> : <<g>>[i] = g
      BY OneSeq
    <3> DEFINE t == <<g>>
    <3>4. IsSequence(t) /\ (\A i \in DOMAIN t : t[i] = g) /\ msgs[n] = s \o t
      BY <3>2, <3>3
    <3> HIDE DEF s, t, msgs
    <3>5. /\ IsSequence(s \o t)
          /\ \A i \in DOMAIN s : (s \o t)[i] = s[i]
          /\ \A i \in DOMAIN (s \o t) :
                i \in DOMAIN s \/ (i - Len(s) \in DOMAIN t /\ (s \o t)[i] = t[i - Len(s)])
      BY <3>1, <3>4, ConcatSeq
    <3>6. \A i \in DOMAIN (s \o t) : (s \o t)[i] = m \/ (s \o t)[i] = g
      BY <3>1, <3>4, <3>5
    <3> QED
      BY <2>2, <3>4, <3>5, <3>6
  <2>4. \A n \in NodeIds : /\ IsSequence(msgs[n])
                           /\ \A i \in DOMAIN msgs[n] :
                                 msgs[n][i].type \in {"GroupCreated", "InstallGroupDirectory"}
    BY <2>3
  <2> HIDE DEF msgs
  <2>5. PICK ms : /\ Delivers(ms)
                  /\ \A d \in Conns : ms[d] = IF OwnsId(d) /\ d \in open THEN msgs[d[1]] ELSE << >>
    BY <2>1, <2>4, ToAllDelivered DEF AdmissionInv, FirstLife, Seqs
  <2>6. Only(ms, {"GroupCreated", "InstallGroupDirectory"})
    BY <2>4, <2>5, ConnFacts DEF Only
  <2> QED
    BY <1>2, <2>5, <2>6
<1> QED
  BY <1>1, <1>2 DEF CreateGroup

\* Broadcasts of at most one message each
OneOrNone(msgs, types) ==
    \A n \in NodeIds : msgs[n] = << >> \/ \E m : msgs[n] = <<m>> /\ m.type \in types

LEMMA BroadcastDelivers ==
    ASSUME AdmissionInv, Seqs, NEW msgs, NEW types, SendAll(msgs),
           OneOrNone(msgs, types)
    PROVE  \E ms : /\ Delivers(ms) /\ Only(ms, types)
                   /\ \A d \in Conns : ms[d] = IF OwnsId(d) /\ d \in open THEN msgs[d[1]] ELSE << >>
<1>1. ASSUME NEW n \in NodeIds
      PROVE  IsSequence(msgs[n]) /\ \A i \in DOMAIN msgs[n] : msgs[n][i].type \in types
  <2>1. CASE msgs[n] = << >>
    BY <2>1, NothingSeq
  <2>2. CASE \E m : msgs[n] = <<m>> /\ m.type \in types
    BY <2>2, OneSeq
  <2> QED
    BY <2>1, <2>2 DEF OneOrNone
<1>2. PICK ms : /\ Delivers(ms)
                /\ \A d \in Conns : ms[d] = IF OwnsId(d) /\ d \in open THEN msgs[d[1]] ELSE << >>
  BY <1>1, ToAllDelivered DEF AdmissionInv, FirstLife, Seqs
<1>3. Only(ms, types)
  BY <1>1, <1>2, ConnFacts DEF Only
<1> QED
  BY <1>2, <1>3

LEMMA GroupRoutesDelivered ==
    ASSUME AdmissionInv, Seqs, (\E c \in Conns : NotifyGroupRoutes(c)) \/ SyncSendGroup
    PROVE  \E ms : Delivers(ms) /\ Only(ms, {"InstallGroupRoutes"})
<1>1. PICK to, g : SendGroupRoutes(to, g)
  BY DEF NotifyGroupRoutes, SyncSendGroup
<1> DEFINE msgs == [n \in NodeIds |-> IF n \in to THEN <<GroupRoutesSnapshot(g, n)>> ELSE << >>]
<1>2. SendAll(msgs)
  BY <1>1 DEF SendGroupRoutes
<1>3. OneOrNone(msgs, {"InstallGroupRoutes"})
  BY DEF GroupRoutesSnapshot, OneOrNone
<1> HIDE DEF msgs
<1> QED
  BY <1>2, <1>3, BroadcastDelivers

LEMMA SyncRoutesDelivered ==
    ASSUME AdmissionInv, Seqs, SyncSendRoutes
    PROVE  \E ms : /\ Delivers(ms) /\ Only(ms, {"InstallRoutes"})
                   /\ \A d \in Conns : ms[d] # << >> /\ d[1] \in Unwired => <<"routes", d[1]>> \in early'
                   /\ early \subseteq early'
<1> DEFINE to == {n \in DOMAIN node_ws : RoutesFor(sync.data, n) # {}}
           msgs == [n \in NodeIds |-> IF n \in to
                       THEN <<[type |-> "InstallRoutes", entries |-> RoutesFor(sync.data, n)]>>
                       ELSE << >>]
<1>1. SendAll(msgs) /\ early' = early \cup ({"routes"} \X (to \cap Unwired))
  BY DEF SyncSendRoutes
<1>2. OneOrNone(msgs, {"InstallRoutes"})
  BY DEF OneOrNone
<1>3. \A n \in NodeIds : msgs[n] # << >> => n \in to
  OBVIOUS
<1> HIDE DEF msgs
<1>4. PICK ms : /\ Delivers(ms) /\ Only(ms, {"InstallRoutes"})
                /\ \A d \in Conns : ms[d] = IF OwnsId(d) /\ d \in open THEN msgs[d[1]] ELSE << >>
  BY <1>1, <1>2, BroadcastDelivers
<1>5. \A d \in Conns : ms[d] # << >> => d[1] \in to
  BY <1>3, <1>4, ConnFacts
<1> QED
  BY <1>1, <1>4, <1>5

LEMMA FlowDelivered ==
    ASSUME AdmissionInv, Seqs, (\E f \in AllFlows : SyncFlow(f)) \/ SendFlows
    PROVE  \E ms : Delivers(ms) /\ Only(ms, {"AddFlows"})
<1>1. CASE \E f \in AllFlows : SyncFlow(f)
  <2>1. PICK f \in AllFlows : SyncFlow(f)
    BY <1>1
  <2> DEFINE msgs == [n \in NodeIds |-> IF n \in {f.src, f.dst}
                          THEN <<[type |-> "AddFlows", flows |-> {f}]>> ELSE << >>]
  <2>2. SendAll(msgs)
    BY <2>1 DEF SyncFlow
  <2>3. OneOrNone(msgs, {"AddFlows"})
    BY DEF OneOrNone
  <2> HIDE DEF msgs
  <2> QED
    BY <2>2, <2>3, BroadcastDelivers
<1>2. CASE SendFlows
  <2> DEFINE of(n) == {f \in coord.data : n \in {f.src, f.dst}}
             msgs == [n \in NodeIds |-> IF of(n) = {} THEN << >>
                                        ELSE <<[type |-> "AddFlows", flows |-> of(n)]>>]
  <2>2. SendAll(msgs)
    BY <1>2 DEF SendFlows
  <2> HIDE DEF of
  <2>3. OneOrNone(msgs, {"AddFlows"})
    BY DEF OneOrNone
  <2> HIDE DEF msgs
  <2> QED
    BY <2>2, <2>3, BroadcastDelivers
<1> QED
  BY <1>1, <1>2

LEMMA RatesDelivered ==
    ASSUME AdmissionInv, Seqs, SendLinkRates
    PROVE  \E ms : Delivers(ms) /\ Only(ms, {"SetLinkRate"})
<1> DEFINE msgs == [n \in NodeIds |-> SetToSeq({[type |-> "SetLinkRate", node |-> r[2]] :
                                        r \in {q \in LinkRates : q[1] = n}})]
<1>1. SendAll(msgs)
  BY DEF SendLinkRates
<1>2. \A n \in NodeIds : /\ IsSequence(msgs[n])
                         /\ \A i \in DOMAIN msgs[n] : msgs[n][i].type = "SetLinkRate"
  BY RatesOfNode
<1> HIDE DEF msgs
<1>3. PICK ms : /\ Delivers(ms)
                /\ \A d \in Conns : ms[d] = IF OwnsId(d) /\ d \in open THEN msgs[d[1]] ELSE << >>
  BY <1>1, <1>2, ToAllDelivered DEF AdmissionInv, FirstLife, Seqs
<1>4. Only(ms, {"SetLinkRate"})
  BY <1>2, <1>3, ConnFacts DEF Only
<1> QED
  BY <1>3, <1>4

LEMMA MaybeDelivers ==
    ASSUME AdmissionInv, Seqs, NEW x, MaybeBroadcastTopologyReady(x)
    PROVE  \E ms : /\ Delivers(ms) /\ Only(ms, {"TopologyReady"})
                   /\ \/ coord' = x /\ ~(~x.ready_sent /\ x.connected = NodeIds /\ x.ready = NodeIds)
                      \/ /\ coord' = [x EXCEPT !.ready_sent = TRUE]
                         /\ x.connected = NodeIds /\ x.ready = NodeIds
                         /\ \A d \in Conns : OwnsId(d) /\ d \in open => ms[d] = <<[type |-> "TopologyReady"]>>
<1> DEFINE go == ~x.ready_sent /\ x.connected = NodeIds /\ x.ready = NodeIds
           msgs == [n \in NodeIds |-> <<[type |-> "TopologyReady"]>>]
<1>1. CASE ~go
  <2>1. PICK ms : Delivers(ms) /\ \A d \in Conns : ms[d] = << >>
    BY <1>1, NothingDelivered DEF MaybeBroadcastTopologyReady, AdmissionInv, FirstLife, Seqs
  <2> QED
    BY <1>1, <2>1, NothingIsNeutral DEF MaybeBroadcastTopologyReady
<1>2. CASE go
  <2>1. SendAll(msgs) /\ coord' = [x EXCEPT !.ready_sent = TRUE]
    BY <1>2 DEF MaybeBroadcastTopologyReady
  <2>2. OneOrNone(msgs, {"TopologyReady"})
    BY DEF OneOrNone
  <2>3. \A n \in NodeIds : msgs[n] = <<[type |-> "TopologyReady"]>>
    OBVIOUS
  <2> HIDE DEF msgs
  <2>4. PICK ms : /\ Delivers(ms) /\ Only(ms, {"TopologyReady"})
                  /\ \A d \in Conns : ms[d] = IF OwnsId(d) /\ d \in open THEN msgs[d[1]] ELSE << >>
    BY <2>1, <2>2, BroadcastDelivers
  <2> QED
    BY <1>2, <2>1, <2>3, <2>4, ConnFacts
<1> QED
  BY <1>1, <1>2

-----------------------------------------------------------------------------
(* The first life goes on *)

LEMMA FirstLifeInit == Init => FirstLife
<1>1. \A c : Init /\ c \in Conns => inbox[c] = << >> /\ wire[c] = << >>
  BY DEF Init, ControllerInit
<1>2. Init => \A c \in Conns : ~OwnsId(c)
  BY DEF Init, ControllerInit, OwnsId
<1> QED
  BY <1>1, <1>2, NothingSeq DEF Init, ControllerInit, FirstLife, Unused, Fresh

\* A step of the controller
LEMMA FirstLifeKept ==
    ASSUME AdmissionInv, FirstLife, NEW ms, Delivers(ms), UNCHANGED <<dp, open>>,
           \A d \in Conns : IsSequence(inbox'[d]),
           \A d \in Conns : d \notin open =>
              handler'[d] = handler[d] /\ inbox'[d] = inbox[d] /\ (OwnsId(d)' <=> OwnsId(d)),
           \A d \in Conns : d \in open /\ ~OwnsId(d)' => inbox'[d] = inbox[d] /\ ~OwnsId(d),
           \A d \in Conns : OwnsId(d)' /\ handler'[d].step # "upsert" => handler'[d].id = d[1]
    PROVE  FirstLife'
<1>1. \A d \in Conns : IsSequence(wire'[d])
  <2>1. ASSUME NEW d \in Conns PROVE IsSequence(wire'[d])
    <3>1. IsSequence(wire[d]) /\ IsSequence(ms[d]) /\ wire'[d] = wire[d] \o ms[d]
      BY <2>1 DEF FirstLife, Delivers
    <3> QED
      BY <3>1, SeqClosed
  <2> QED
    BY <2>1
<1>2. \A d \in Conns : d \notin open => Unused(d)'
  BY DEF FirstLife, Unused
<1>3. \A d \in Conns : d \in open /\ ~OwnsId(d)' => inbox'[d] # << >> /\ inbox'[d][1].type = "StartUp"
  BY DEF FirstLife
<1> QED
  BY <1>1, <1>2, <1>3 DEF FirstLife

LEMMA HandlerDelivers ==
    ASSUME AdmissionInv, FirstLife, NEW c \in Conns, HandlerStep(c)
    PROVE  \E ms : Delivers(ms)
BY FirstLifeSeqs, HandlerIsOpen, QuietDelivers, UpsertDelivers, AddNodeDelivers, RoutesDelivered,
   MulticastDelivered, CreateDelivers, GroupRoutesDelivered DEF HandlerStep, QuietHandlerStep

LEMMA HandlerKeepsFirstLife ==
    ASSUME AdmissionInv, FirstLife, NEW c \in Conns, HandlerStep(c), Quiet
    PROVE  FirstLife'
<1>a. PICK ms : Delivers(ms)
  BY HandlerDelivers
<1>b. c \in open /\ (RegisterNode(c) \/ OwnsId(c))
  BY HandlerIsOpen
<1>1. CASE ~RegisterNode(c)
  <2>1. /\ UNCHANGED <<node_ws, open, dp>>
        /\ \A d \in Conns : IsSequence(inbox'[d])
        /\ \A d \in Conns : d # c => handler'[d] = handler[d] /\ inbox'[d] = inbox[d]
        /\ OwnsId(c)
    BY <1>1, <1>b, HandlerMoves DEF Quiet
  <2>2. handler'[c].id = c[1]
    <3>1. ~UpsertNode(c) => handler[c].step # "upsert" /\ handler'[c].id = handler[c].id
      BY <1>1, HandlerMoves
    <3>2. UpsertNode(c) => handler'[c].id = c[1]
      BY <1>1, HandlerMoves
    <3> QED
      BY <3>1, <3>2, <2>1 DEF FirstLife
  <2>3. \A d \in Conns : OwnsId(d)' <=> OwnsId(d)
    BY <2>1 DEF OwnsId
  <2>4. \A d \in Conns : OwnsId(d)' /\ handler'[d].step # "upsert" => handler'[d].id = d[1]
    BY <2>1, <2>2, <2>3 DEF FirstLife
  <2> QED
    BY <1>a, <1>b, <2>1, <2>3, <2>4, FirstLifeKept
<1>2. CASE RegisterNode(c)
  <2>1. /\ UNCHANGED <<dp, open>> /\ DOMAIN inbox = Conns /\ DOMAIN handler = Conns
        /\ DOMAIN handler[c] = {"step", "id", "data"}
    BY <1>2 DEF RegisterNode, Quiet, AdmissionInv, ControlShape
  <2>2. /\ \A d \in Conns : IsSequence(inbox'[d])
        /\ \A d \in Conns : d # c => inbox'[d] = inbox[d]
    BY <1>2, <2>1, TailSeq DEF RegisterNode, Consume, Reading, FirstLife
  <2>3. CASE c[1] \in DOMAIN node_ws
    <3>1. OwnsId(c)
      BY <2>3, <1>b, OwnerIsConn
    <3>2. UNCHANGED <<node_ws, handler>>
      BY <1>2, <2>3 DEF RegisterNode
    <3>3. \A d \in Conns : OwnsId(d)' <=> OwnsId(d)
      BY <3>2 DEF OwnsId
    <3>4. \A d \in Conns : OwnsId(d)' /\ handler'[d].step # "upsert" => handler'[d].id = d[1]
      BY <3>2, <3>3 DEF FirstLife
    <3> QED
      BY <1>a, <1>b, <2>1, <2>2, <3>1, <3>2, <3>3, <3>4, FirstLifeKept
  <2>4. CASE c[1] \notin DOMAIN node_ws
    <3>1. node_ws' = Registered(c) /\ Goto(c, "upsert")
      BY <1>2, <2>4 DEF RegisterNode
    <3>2. /\ DOMAIN node_ws' = DOMAIN node_ws \cup {c[1]} /\ node_ws'[c[1]] = c
          /\ \A n \in DOMAIN node_ws : node_ws'[n] = node_ws[n]
      BY <2>4, <3>1 DEF Registered
    <3>3. \A d \in Conns : OwnsId(d)' <=> OwnsId(d) \/ d = c
      BY <2>4, <3>2 DEF OwnsId
    <3>4. handler'[c].step = "upsert" /\ \A d \in Conns : d # c => handler'[d] = handler[d]
      BY <2>1, <3>1 DEF Goto
    <3>5. \A d \in Conns : OwnsId(d)' /\ handler'[d].step # "upsert" => handler'[d].id = d[1]
      BY <3>3, <3>4 DEF FirstLife
    <3> QED
      BY <1>a, <1>b, <2>1, <2>2, <3>3, <3>4, <3>5, FirstLifeKept
  <2> QED
    BY <2>3, <2>4
<1> QED
  BY <1>1, <1>2

LEMMA SyncDelivers ==
    ASSUME AdmissionInv, Seqs, SyncStep
    PROVE  \E ms : Delivers(ms)
BY QuietDelivers, GroupRoutesDelivered, SyncRoutesDelivered, FlowDelivered
DEF SyncStep, QuietSyncStep, AllFlows

LEMMA CoordinatorDelivers ==
    ASSUME AdmissionInv, Seqs, CoordinatorStep
    PROVE  \E ms : Delivers(ms) /\ Only(ms, Neutral)
<1>1. CASE UNCHANGED wire
  BY <1>1, NothingDelivered, NothingIsNeutral DEF AdmissionInv, FirstLife, Seqs
<1>2. CASE SendLinkRates
  BY <1>2, RatesDelivered DEF Only, Neutral
<1>3. CASE SendFlows
  BY <1>3, FlowDelivered DEF Only, Neutral
<1>4. CASE \E x : MaybeBroadcastTopologyReady(x)
  BY <1>4, MaybeDelivers DEF Only, Neutral
<1> QED
  BY <1>1, <1>2, <1>3, <1>4 DEF CoordinatorStep, NodeConnected, NodeLocallyReady,
                                CheckReadyAfterDispatch

LEMMA TasksKeepFirstLife ==
    ASSUME AdmissionInv, FirstLife, SyncStep \/ CoordinatorStep, Quiet
    PROVE  FirstLife'
<1>1. UNCHANGED <<node_ws, handler, inbox, open, dp>>
  BY DEF Quiet, SyncStep, CoordinatorStep, SyncReadRoutes, SyncSendRoutes, SyncReadGroup,
         SyncSendGroup, SyncFlow, NodeConnected, NodeLocallyReady, SendLinkRates, SendFlows,
         CheckReadyAfterDispatch, syncFrame, coordFrame, TakeEvent
<1>2. \A d : OwnsId(d)' <=> OwnsId(d)
  BY <1>1 DEF OwnsId
<1>3. PICK ms : Delivers(ms)
  BY FirstLifeSeqs, SyncDelivers, CoordinatorDelivers
<1> QED
  BY <1>1, <1>2, <1>3, FirstLifeKept DEF FirstLife

\* A step of a node: inboxes grow, the wire is read.
LEMMA NodeKeepsFirstLife ==
    ASSUME AdmissionInv, FirstLife, UNCHANGED <<node_ws, handler, open>>,
           \A n \in NodeIds : /\ dp'[n].starts = dp[n].starts
                              /\ dp'[n].phase \in {"down", "starting", "up"}
                              /\ dp'[n].phase = "down" <=> dp[n].phase = "down",
           \A d \in Conns : wire'[d] = wire[d] \/ (wire[d] # << >> /\ wire'[d] = Tail(wire[d])),
           \A d \in Conns : inbox'[d] = inbox[d]
                            \/ (OwnsId(d) /\ \E m : inbox'[d] = Append(inbox[d], m))
    PROVE  FirstLife'
<1>1. \A d \in Conns : IsSequence(wire'[d])
  BY TailSeq DEF FirstLife
<1>2. \A d \in Conns : IsSequence(inbox'[d])
  <2>1. ASSUME NEW d \in Conns PROVE IsSequence(inbox'[d])
    <3>1. IsSequence(inbox[d])
      BY <2>1 DEF FirstLife
    <3>2. CASE inbox'[d] = inbox[d]
      BY <3>1, <3>2
    <3>3. ASSUME NEW m, inbox'[d] = Append(inbox[d], m) PROVE IsSequence(inbox'[d])
      <4> HIDE DEF FirstLife
      <4> QED
        BY <3>1, <3>3, SeqClosed
    <3> QED
      BY <2>1, <3>2, <3>3
  <2> QED
    BY <2>1
<1>3. \A d \in Conns : OwnsId(d)' <=> OwnsId(d)
  BY DEF OwnsId
<1>4. \A d \in Conns : d \notin open => Unused(d)'
  BY <1>3 DEF FirstLife, Unused
<1>5. \A d \in Conns : d \in open /\ ~OwnsId(d)' => inbox'[d] # << >> /\ inbox'[d][1].type = "StartUp"
  BY <1>3 DEF FirstLife
<1>6. \A d \in Conns : OwnsId(d)' /\ handler'[d].step # "upsert" => handler'[d].id = d[1]
  BY <1>3 DEF FirstLife
<1> QED
  BY <1>1, <1>2, <1>4, <1>5, <1>6 DEF FirstLife

\* The effects of a node's step on the wire and the inboxes
LEMMA NodeTakes ==
    ASSUME AdmissionInv, FirstLife, NEW n \in NodeIds, NodeStep(n)
    PROVE  /\ UNCHANGED <<tables, open, ops, crashes>>
           /\ Conn(n) \in Conns /\ wire[Conn(n)] # << >> /\ wire'[Conn(n)] = Tail(wire[Conn(n)])
           /\ \A d \in Conns : d # Conn(n) => wire'[d] = wire[d] /\ inbox'[d] = inbox[d]
           /\ OwnsId(Conn(n)) /\ n \in DOMAIN node_ws
           /\ \/ inbox'[Conn(n)] = inbox[Conn(n)]
              \/ inbox'[Conn(n)] = Append(inbox[Conn(n)], [type |-> "NodeTopologyReady"])
           /\ \A m \in NodeIds : m # n => dp'[m] = dp[m]
           /\ dp'[n].starts = dp[n].starts /\ dp'[n].phase = "up" /\ dp[n].phase # "down"
           /\ DOMAIN dp'[n] = DOMAIN dp[n]
           /\ UNCHANGED <<node_ws, handler, nodes, topo_events, coord, early>>
<1>a. /\ ControlShape /\ DOMAIN dp = NodeIds /\ DOMAIN dp[n] = DOMAIN Fresh(0)
      /\ DOMAIN inbox = Conns /\ DOMAIN wire = Conns
  BY DEF AdmissionInv, ControlShape
<1>1. ASSUME dp[n].phase # "down", wire[Conn(n)] # << >>,
             wire' = [wire EXCEPT ![Conn(n)] = Tail(@)]
      PROVE  /\ Conn(n) \in Conns /\ wire'[Conn(n)] = Tail(wire[Conn(n)])
             /\ \A d \in Conns : d # Conn(n) => wire'[d] = wire[d]
             /\ OwnsId(Conn(n)) /\ n \in DOMAIN node_ws
  <2>1. Conn(n) \in Conns /\ Conn(n)[1] = n
    BY <1>1, OwnerIsConn
  <2>2. OwnsId(Conn(n))
    BY <1>1, <2>1 DEF AdmissionInv, Registrations
  <2> QED
    BY <1>1, <1>a, <2>1, <2>2 DEF OwnsId
<1>2. CASE TakeResponse(n)
  <2>1. /\ dp[n].phase = "starting" /\ wire[Conn(n)] # << >>
        /\ wire' = [wire EXCEPT ![Conn(n)] = Tail(@)]
        /\ UNCHANGED <<tables, inbox, open, ops, crashes>>
    BY <1>2 DEF TakeResponse
  <2>2. /\ \A m \in NodeIds : m # n => dp'[m] = dp[m]
        /\ dp'[n].starts = dp[n].starts /\ dp'[n].phase = "up"
        /\ DOMAIN dp'[n] = DOMAIN dp[n]
    BY <1>2, <1>a DEF TakeResponse, Fresh
  <2> QED
    BY <1>1, <2>1, <2>2 DEF tables, dbVars, history
<1>3. CASE \/ AddNode(n) \/ SetLinkRate(n) \/ InstallRoutes(n) \/ AddFlows(n) \/ TopologyReady(n)
           \/ InstallGroupDirectory(n) \/ InstallGroupRoutes(n) \/ IgnoreMessage(n)
  <2>1. /\ Works(n) /\ dp[n].phase = "up" /\ wire[Conn(n)] # << >>
        /\ wire' = [wire EXCEPT ![Conn(n)] = Tail(@)]
        /\ UNCHANGED <<tables, open, ops, crashes>>
    BY <1>3, HandlingWorks
  <2>2. \/ UNCHANGED inbox
        \/ inbox' = [inbox EXCEPT ![Conn(n)] = Append(@, [type |-> "NodeTopologyReady"])]
    BY <1>3 DEF AddNode, SetLinkRate, InstallRoutes, AddFlows, TopologyReady,
           InstallGroupDirectory, InstallGroupRoutes, IgnoreMessage, Settle
  <2>3. Conn(n) \in Conns
    BY <1>1, <2>1
  <2>4. /\ \A d \in Conns : d # Conn(n) => inbox'[d] = inbox[d]
        /\ \/ inbox'[Conn(n)] = inbox[Conn(n)]
           \/ inbox'[Conn(n)] = Append(inbox[Conn(n)], [type |-> "NodeTopologyReady"])
    BY <2>2, <2>3, <1>a
  <2> QED
    BY <1>1, <2>1, <2>4 DEF tables, dbVars, history, Works
<1> QED
  BY <1>2, <1>3 DEF NodeStep

LEMMA StartKeepsFirstLife ==
    ASSUME AdmissionInv, FirstLife, NEW n \in NodeIds, StartNode(n)
    PROVE  FirstLife'
<1> DEFINE c0 == <<n, 1>>
<1>a. ControlShape /\ DOMAIN dp = NodeIds /\ DOMAIN inbox = Conns
  BY DEF AdmissionInv, ControlShape
<1>0. dp[n].phase = "down" /\ dp[n].starts = 0 /\ dp[n].starts + 1 = 1 /\ 0 < MaxStarts
  BY DEF FirstLife, StartNode
<1>1. /\ dp[n].phase = "down" /\ dp[n].starts = 0 /\ c0 \in Conns
      /\ open' = open \cup {c0} /\ inbox' = [inbox EXCEPT ![c0] = <<[type |-> "StartUp"]>>]
      /\ UNCHANGED <<node_ws, handler, wire>>
  <2>1. c0 \in Conns
    BY <1>0 DEF Conns
  <2>2. UNCHANGED <<node_ws, handler, wire>>
    BY DEF StartNode, tables
  <2> QED
    BY <1>0, <2>1, <2>2 DEF StartNode
<1>2. /\ \A m \in NodeIds : m # n => dp'[m] = dp[m]
      /\ dp'[n].starts = 1 /\ dp'[n].phase = "starting"
  BY <1>a, <1>1 DEF StartNode, Fresh
<1>3. c0 \notin open
  BY <1>1 DEF AdmissionInv, Registrations, Conn
<1>4. \A d \in Conns : OwnsId(d)' <=> OwnsId(d)
  BY <1>1 DEF OwnsId
<1>5. IsSequence(<<[type |-> "StartUp"]>>) /\ <<[type |-> "StartUp"]>> # << >>
      /\ <<[type |-> "StartUp"]>>[1].type = "StartUp"
  BY OneSeq
<1>6. /\ \A d \in Conns : d # c0 => inbox'[d] = inbox[d]
      /\ inbox'[c0] = <<[type |-> "StartUp"]>>
  BY <1>1, <1>a
<1>7. \A d \in Conns : d \notin open' => Unused(d)'
  BY <1>1, <1>4, <1>6 DEF FirstLife, Unused
<1>8. \A d \in Conns : IsSequence(inbox'[d]) /\ IsSequence(wire'[d])
  BY <1>1, <1>5, <1>6 DEF FirstLife
<1>9. \A d \in Conns : d \in open' /\ ~OwnsId(d)' => inbox'[d] # << >> /\ inbox'[d][1].type = "StartUp"
  BY <1>1, <1>4, <1>5, <1>6 DEF FirstLife
<1>10. \A d \in Conns : OwnsId(d)' /\ handler'[d].step # "upsert" => handler'[d].id = d[1]
  BY <1>1, <1>4 DEF FirstLife
<1>11. \A m \in NodeIds : /\ dp'[m].phase \in {"down", "starting", "up"}
                          /\ dp'[m].starts = IF dp'[m].phase = "down" THEN 0 ELSE 1
  BY <1>2 DEF FirstLife
<1> QED
  BY <1>7, <1>8, <1>9, <1>10, <1>11 DEF FirstLife

\* A request goes to the inbox of a connection that holds its id.
LEMMA RequestKeepsFirstLife ==
    ASSUME AdmissionInv, FirstLife, NEW r \in Requests, Request(r)
    PROVE  /\ FirstLife'
           /\ \A d \in Conns : inbox'[d] = inbox[d] \/ inbox'[d] = Append(inbox[d], r.msg)
<1>a. ControlShape /\ DOMAIN inbox = Conns
  BY DEF AdmissionInv, ControlShape
<1>1. /\ dp[r.node].phase = "up" /\ r.node \in NodeIds
      /\ inbox' = [inbox EXCEPT ![Conn(r.node)] = Append(@, r.msg)]
      /\ UNCHANGED <<node_ws, handler, open, dp, wire>>
  BY DEF Request, tables
<1>2. OwnsId(Conn(r.node))
  BY <1>1 DEF AdmissionInv, Registrations
<1>3. \A d \in Conns : inbox'[d] = inbox[d] \/ (OwnsId(d) /\ inbox'[d] = Append(inbox[d], r.msg))
  BY <1>1, <1>2, <1>a
<1>4. \A m \in NodeIds : /\ dp'[m].starts = dp[m].starts
                         /\ dp'[m].phase \in {"down", "starting", "up"}
                         /\ dp'[m].phase = "down" <=> dp[m].phase = "down"
  BY <1>1 DEF FirstLife
<1>5. \A d \in Conns : inbox'[d] = inbox[d]
                       \/ (OwnsId(d) /\ \E m : inbox'[d] = Append(inbox[d], m))
  BY <1>3
<1> QED
  BY <1>1, <1>3, <1>4, <1>5, NodeKeepsFirstLife

LEMMA NoCrash ==
    ASSUME AdmissionInv, NEW n \in NodeIds, Crash(n), crashes' = 0
    PROVE  FALSE
BY DEF Crash, AdmissionInv, ControlShape

LEMMA FirstLifeStep ==
    ASSUME AdmissionInv, FirstLife, [Next]_vars, crashes' = 0
    PROVE  FirstLife'
<1>1. ASSUME NEW c \in Conns, HandlerStep(c), Quiet PROVE FirstLife'
  BY <1>1, HandlerKeepsFirstLife
<1>2. CASE (SyncStep \/ CoordinatorStep) /\ Quiet
  BY <1>2, TasksKeepFirstLife
<1>3. ASSUME NEW n \in NodeIds, StartNode(n) PROVE FirstLife'
  BY <1>3, StartKeepsFirstLife
<1>4. ASSUME NEW n \in NodeIds, NodeStep(n) PROVE FirstLife'
  <2>1. \A m \in NodeIds : /\ dp'[m].starts = dp[m].starts
                           /\ dp'[m].phase \in {"down", "starting", "up"}
                           /\ dp'[m].phase = "down" <=> dp[m].phase = "down"
    BY <1>4, NodeTakes DEF FirstLife
  <2>2. \A d \in Conns : wire'[d] = wire[d] \/ (wire[d] # << >> /\ wire'[d] = Tail(wire[d]))
    BY <1>4, NodeTakes
  <2>3. \A d \in Conns : inbox'[d] = inbox[d]
                            \/ (OwnsId(d) /\ \E m : inbox'[d] = Append(inbox[d], m))
    BY <1>4, NodeTakes
  <2>4. UNCHANGED <<node_ws, handler, open>>
    BY <1>4, NodeTakes
  <2> QED
    BY <2>1, <2>2, <2>3, <2>4, NodeKeepsFirstLife
<1>5. ASSUME NEW n \in NodeIds, NEW m \in NodeIds, AcceptLink(n, m) PROVE FirstLife'
  <2>1. /\ \A k \in NodeIds : dp'[k].starts = dp[k].starts /\ dp'[k].phase = dp[k].phase
        /\ UNCHANGED <<node_ws, handler, open, wire, inbox>>
    BY <1>5 DEF AcceptLink, tables, AdmissionInv, ControlShape, Fresh
  <2> QED
    BY <2>1, NodeKeepsFirstLife DEF FirstLife
<1>6. CASE UNCHANGED <<node_ws, handler, open, dp, wire, inbox>>
  BY <1>6, NodeKeepsFirstLife DEF FirstLife
<1>7. CASE \/ \E rs \in RouteChoices : UpdateRoutes(rs) /\ Quiet
           \/ \E f \in LaterFlows : InsertFlow(f) /\ Quiet
  BY <1>6, <1>7 DEF UpdateRoutes, InsertFlow, outsideFrame, Quiet
<1>8. ASSUME NEW r \in Requests, Request(r) PROVE FirstLife'
  BY <1>8, RequestKeepsFirstLife
<1>9. ASSUME NEW n \in CanCrash, Crash(n) PROVE FirstLife'
  BY <1>9, NoCrash
<1>10. CASE UNCHANGED vars
  BY <1>6, <1>10 DEF vars, controllerVars
<1> QED
  BY <1>1, <1>2, <1>3, <1>4, <1>5, <1>7, <1>8, <1>9, <1>10 DEF Next, SystemStep, OutsideStep

-----------------------------------------------------------------------------
(* In which order a node is configured *)

Wiring == {"upsert", "neighbors", "adding"}
Answered(n) == n \in DOMAIN node_ws /\ handler[node_ws[n]].step # "upsert"

\* Nothing that was reached is taken back.
Advances ==
    /\ DOMAIN node_ws \subseteq DOMAIN node_ws'
    /\ \A n \in DOMAIN node_ws : node_ws'[n] = node_ws[n]
    /\ Introduced \subseteq Introduced'
    /\ \A n \in NodeIds : Answered(n) => Answered(n)'

LEMMA HandlerStages ==
    ASSUME AdmissionInv, FirstLife, NEW c \in Conns, HandlerStep(c), ~RegisterNode(c)
    PROVE  handler[c].step \notin Wiring => handler'[c].step \notin Wiring
<1>a. DOMAIN handler = Conns /\ DOMAIN handler[c] = {"step", "id", "data"}
  BY DEF AdmissionInv, ControlShape
<1>1. CASE UpsertNode(c) \/ ReadNeighbors(c) \/ SendAddNode(c) \/ ReadRoutes(c)
  BY <1>1 DEF UpsertNode, ReadNeighbors, SendAddNode, ReadRoutes, Wiring
<1>2. CASE SendRoutes(c) \/ SendMulticastState(c) \/ NotifyGroupRoutes(c)
  <2>1. \E step, data : step \notin Wiring /\ GotoWith(c, step, data)
    BY <1>2 DEF SendRoutes, SendMulticastState, NotifyGroupRoutes, Wiring
  <2> QED
    BY <2>1, <1>a DEF GotoWith
<1>3. CASE NodeTopologyReady(c) \/ CreateGroup(c) \/ JoinGroup(c) \/ LeaveGroup(c)
  <2>1. UNCHANGED handler
    BY <1>3 DEF NodeTopologyReady, CreateGroup, JoinGroup, LeaveGroup, ChangeMembership
  <2> QED
    BY <2>1
<1>4. CASE SetGroupRoutes(c)
  <2>1. UNCHANGED handler \/ \E data : GotoWith(c, "notify_group", data)
    BY <1>4 DEF SetGroupRoutes
  <2> QED
    BY <2>1, <1>a DEF GotoWith, Wiring
<1> QED
  BY <1>1, <1>2, <1>3, <1>4, HandlerIsOpen DEF HandlerStep

\* Registration adds a node that has not been answered.
LEMMA RegisterFacts ==
    ASSUME AdmissionInv, FirstLife, NEW c \in Conns, RegisterNode(c)
    PROVE  \/ UNCHANGED <<node_ws, handler>>
           \/ /\ c[1] \notin DOMAIN node_ws
              /\ DOMAIN node_ws' = DOMAIN node_ws \cup {c[1]} /\ node_ws'[c[1]] = c
              /\ \A n \in DOMAIN node_ws : node_ws'[n] = node_ws[n] /\ node_ws[n] # c
              /\ handler'[c].step = "upsert"
              /\ \A d \in Conns : d # c => handler'[d] = handler[d]
<1>1. CASE c[1] \in DOMAIN node_ws
  BY <1>1 DEF RegisterNode
<1>2. CASE c[1] \notin DOMAIN node_ws
  <2>1. node_ws' = Registered(c) /\ Goto(c, "upsert")
    BY <1>2 DEF RegisterNode
  <2>2. /\ DOMAIN node_ws' = DOMAIN node_ws \cup {c[1]} /\ node_ws'[c[1]] = c
        /\ \A n \in DOMAIN node_ws : node_ws'[n] = node_ws[n]
    BY <1>2, <2>1 DEF Registered
  <2>3. handler'[c].step = "upsert" /\ \A d \in Conns : d # c => handler'[d] = handler[d]
    BY <2>1 DEF Goto, AdmissionInv, ControlShape
  <2>4. \A n \in DOMAIN node_ws : node_ws[n] # c
    BY <1>2 DEF AdmissionInv, ControlShape
  <2> QED
    BY <1>2, <2>2, <2>3, <2>4
<1> QED
  BY <1>1, <1>2

LEMMA HandlerAdvances ==
    ASSUME AdmissionInv, FirstLife, NEW c \in Conns, HandlerStep(c)
    PROVE  /\ Advances
           /\ ~UpsertNode(c) => \A n \in NodeIds : Answered(n)' => Answered(n)
<1>a. \A n \in DOMAIN node_ws : node_ws[n] \in Conns /\ n \in NodeIds
  BY DEF AdmissionInv, ControlShape
<1>1. CASE RegisterNode(c)
  <2>1. CASE UNCHANGED <<node_ws, handler>>
    BY <2>1 DEF Advances, Introduced, Unwired, Answered
  <2>2. CASE ~UNCHANGED <<node_ws, handler>>
    <3>1. /\ c[1] \notin DOMAIN node_ws
          /\ DOMAIN node_ws' = DOMAIN node_ws \cup {c[1]} /\ node_ws'[c[1]] = c
          /\ \A n \in DOMAIN node_ws : node_ws'[n] = node_ws[n] /\ node_ws[n] # c
          /\ handler'[c].step = "upsert"
          /\ \A d \in Conns : d # c => handler'[d] = handler[d]
      BY <1>1, <2>2, RegisterFacts
    <3>2. \A n \in DOMAIN node_ws : handler'[node_ws'[n]] = handler[node_ws[n]]
      BY <1>a, <3>1
    <3>3. Introduced \subseteq Introduced'
      BY <3>1, <3>2 DEF Introduced, Unwired
    <3>4. \A n \in NodeIds : Answered(n)' <=> Answered(n)
      BY <3>1, <3>2 DEF Answered
    <3> QED
      BY <3>1, <3>3, <3>4 DEF Advances
  <2> QED
    BY <2>1, <2>2
<1>2. CASE ~RegisterNode(c)
  <2>1. /\ UNCHANGED node_ws /\ \A d \in Conns : d # c => handler'[d] = handler[d]
        /\ ~UpsertNode(c) => handler[c].step # "upsert"
        /\ handler'[c].step # "upsert"
    BY <1>2, HandlerMoves
  <2>2. handler[c].step \notin Wiring => handler'[c].step \notin Wiring
    BY <1>2, HandlerStages
  <2>3. Introduced \subseteq Introduced'
    BY <1>a, <2>1, <2>2 DEF Introduced, Unwired, Wiring
  <2>4. \A n \in NodeIds : Answered(n) => Answered(n)'
    BY <1>a, <2>1 DEF Answered
  <2>5. ~UpsertNode(c) => \A n \in NodeIds : Answered(n)' => Answered(n)
    BY <1>a, <2>1 DEF Answered
  <2> QED
    BY <2>1, <2>3, <2>4, <2>5 DEF Advances
<1> QED
  BY <1>1, <1>2

\* What is sent keeps the order: AddNodes to a node that is still to be
\* introduced, routes and directory to one that is, or early.
InOrder(ms) ==
    /\ Delivers(ms) /\ Advances /\ early \subseteq early' /\ UNCHANGED dp
    /\ \A n \in NodeIds : dp[n].phase # "down" =>
          /\ Answered(n)' => Answered(n) \/ (ms[Conn(n)] # << >> /\ ms[Conn(n)][1].type # "AddNode")
          /\ \A i \in DOMAIN ms[Conn(n)] :
                /\ ms[Conn(n)][i].type = "AddNode" =>
                      /\ DOMAIN ms[Conn(n)] = {1} /\ n \notin Introduced /\ Answered(n)
                      /\ handler[Conn(n)].step = "adding"
                      /\ ms[Conn(n)][i].node \in handler[Conn(n)].data
                /\ ms[Conn(n)][i].type = "InstallRoutes" =>
                      <<"routes", n>> \in early' \/ n \in Introduced'
                /\ ms[Conn(n)][i].type = "InstallGroupDirectory" =>
                      <<"directory", n>> \in early' \/ n \in Introduced'

LEMMA OnlyInOrder ==
    ASSUME AdmissionInv, FirstLife, NEW ms, NEW types, Delivers(ms), Only(ms, types), Advances,
           early \subseteq early', UNCHANGED dp,
           \A n \in NodeIds : Answered(n)' => Answered(n),
           "AddNode" \notin types,
           "InstallRoutes" \in types => \A d \in Conns : ms[d] # << >> =>
              <<"routes", d[1]>> \in early' \/ d[1] \in Introduced',
           "InstallGroupDirectory" \in types => \A d \in Conns : ms[d] # << >> =>
              <<"directory", d[1]>> \in early' \/ d[1] \in Introduced'
    PROVE  InOrder(ms)
<1> SUFFICES ASSUME NEW n \in NodeIds, dp[n].phase # "down", NEW i \in DOMAIN ms[Conn(n)]
             PROVE  /\ ms[Conn(n)][i].type # "AddNode"
                    /\ ms[Conn(n)][i].type = "InstallRoutes" =>
                          <<"routes", n>> \in early' \/ n \in Introduced'
                    /\ ms[Conn(n)][i].type = "InstallGroupDirectory" =>
                          <<"directory", n>> \in early' \/ n \in Introduced'
  BY DEF InOrder
<1>1. Conn(n) \in Conns /\ Conn(n)[1] = n
  BY OwnerIsConn
<1>2. ms[Conn(n)][i].type \in types
  BY <1>1 DEF Only
<1>3. ms[Conn(n)] # << >>
  BY <1>1, SeqFacts DEF Delivers
<1> QED
  BY <1>1, <1>2, <1>3

\* The holder of an id is introduced or still to be wired.
LEMMA HolderStage ==
    ASSUME AdmissionInv, NEW d \in Conns, OwnsId(d)
    PROVE  /\ d[1] \in DOMAIN node_ws /\ (d[1] \in Introduced \/ d[1] \in Unwired)
           /\ d[1] \in Unwired <=> handler[d].step \in Wiring
           /\ Answered(d[1]) <=> handler[d].step # "upsert"
BY DEF OwnsId, Introduced, Unwired, Wiring, Answered

LEMMA QuietInOrder ==
    ASSUME AdmissionInv, FirstLife, UNCHANGED <<dp, early>>, Advances,
           \A n \in NodeIds : Answered(n)' => Answered(n),
           NEW ms, Delivers(ms), \A d \in Conns : ms[d] = << >>
    PROVE  InOrder(ms)
<1>1. Only(ms, {})
  BY NothingIsNeutral
<1> QED
  BY <1>1, OnlyInOrder

LEMMA HandlerInOrder ==
    ASSUME AdmissionInv, FirstLife, NEW c \in Conns, HandlerStep(c), Quiet
    PROVE  \E ms : InOrder(ms)
<1>a. UNCHANGED dp
  BY DEF Quiet
<1>b. Advances /\ (~UpsertNode(c) => \A n \in NodeIds : Answered(n)' => Answered(n))
  BY HandlerAdvances
<1>c. c \in open /\ c = Conn(c[1]) /\ c[1] \in NodeIds /\ (RegisterNode(c) \/ OwnsId(c))
  BY HandlerIsOpen
<1>1. CASE QuietHandlerStep(c)
  <2>1. UNCHANGED early /\ ~UpsertNode(c)
    BY <1>1 DEF QuietHandlerStep, RegisterNode, ReadNeighbors, ReadRoutes, NodeTopologyReady,
                JoinGroup, LeaveGroup, ChangeMembership, SetGroupRoutes, UpsertNode, Reading, history
  <2> QED
    BY FirstLifeSeqs, <1>1, <1>a, <1>b, <2>1, QuietDelivers, QuietInOrder
<1>2. CASE UpsertNode(c)
  <2>1. PICK ms : /\ Delivers(ms) /\ ms[c] = <<[type |-> "StartUp"]>>
                  /\ \A d \in Conns : d # c => ms[d] = << >>
    BY <1>2, UpsertDelivers
  <2>2. UNCHANGED early
    BY <1>2 DEF UpsertNode, history
  <2>3. \A d \in Conns : \A i \in DOMAIN ms[d] : ms[d][i].type = "StartUp"
    BY <2>1, OneSeq
  <2>4. ms[c] # << >> /\ ms[c][1].type = "StartUp"
    BY <2>1, OneSeq
  <2>5. /\ UNCHANGED node_ws
        /\ \A d \in Conns : d # c => handler'[d] = handler[d]
    BY <1>2, HandlerMoves DEF UpsertNode, RegisterNode, Reading
  <2>6. \A n \in NodeIds : dp[n].phase # "down" /\ Answered(n)' => Answered(n) \/ Conn(n) = c
    <3>1. \A n \in DOMAIN node_ws : node_ws[n] = Conn(n) /\ Conn(n) \in Conns
      BY OwnerIsConn
    <3> QED
      BY <2>5, <3>1 DEF Answered
  <2>7. \A n \in NodeIds : dp[n].phase # "down" => Conn(n) \in Conns
    BY OwnerIsConn
  <2>8. InOrder(ms)
    BY <1>a, <1>b, <2>1, <2>2, <2>3, <2>4, <2>6, <2>7 DEF InOrder
  <2> QED
    BY <2>8
<1>3. CASE SendAddNode(c)
  <2>1. PICK m \in handler[c].data : \E ms :
              /\ Delivers(ms) /\ ms[c] = <<[type |-> "AddNode", node |-> m]>>
              /\ \A d \in Conns : d # c => ms[d] = << >>
              /\ GotoWith(c, "adding", handler[c].data \ {m})
    BY <1>3, AddNodeDelivers
  <2>2. PICK ms : /\ Delivers(ms) /\ ms[c] = <<[type |-> "AddNode", node |-> m]>>
                  /\ \A d \in Conns : d # c => ms[d] = << >>
    BY <2>1
  <2>3. UNCHANGED early /\ handler[c].step = "adding" /\ ~UpsertNode(c)
    BY <1>3 DEF SendAddNode, history, UpsertNode
  <2>4. OwnsId(c)
    BY <1>c, <2>3 DEF RegisterNode, Reading
  <2>5. c[1] \notin Introduced /\ Answered(c[1])
    BY <2>3, <2>4, HolderStage DEF Introduced, Wiring
  <2>6. DOMAIN ms[c] = {1} /\ ms[c][1].type = "AddNode" /\ ms[c][1].node \in handler[c].data
    BY <2>1, <2>2, OneSeq
  <2>7. \A d \in Conns : d # c => DOMAIN ms[d] = {}
    BY <2>2
  <2>8. \A n \in NodeIds : dp[n].phase # "down" => Conn(n) \in Conns /\ Conn(n)[1] = n
    BY OwnerIsConn
  <2>9. InOrder(ms)
    <3>1. Delivers(ms) /\ Advances /\ early \subseteq early' /\ UNCHANGED dp
      BY <1>a, <1>b, <2>2, <2>3
    <3>2. \A n \in NodeIds : Answered(n)' => Answered(n)
      BY <1>b, <2>3
    <3>3. ASSUME NEW n \in NodeIds, dp[n].phase # "down", NEW i \in DOMAIN ms[Conn(n)]
          PROVE  /\ Conn(n) = c /\ n = c[1] /\ i = 1
                 /\ DOMAIN ms[Conn(n)] = {1} /\ ms[Conn(n)][i].type = "AddNode"
                 /\ ms[Conn(n)][i].node \in handler[Conn(n)].data
      <4>1. Conn(n) \in Conns /\ Conn(n)[1] = n
        BY <2>8, <3>3
      <4>2. Conn(n) = c
        BY <2>7, <3>3, <4>1
      <4> QED
        BY <2>6, <3>3, <4>1, <4>2
    <3>4. ASSUME NEW n \in NodeIds, dp[n].phase # "down", NEW i \in DOMAIN ms[Conn(n)]
          PROVE  /\ n \notin Introduced /\ Answered(n) /\ handler[Conn(n)].step = "adding"
      BY <2>3, <2>5, <3>3, <3>4
    <3> QED
      BY <3>1, <3>2, <3>3, <3>4 DEF InOrder
  <2> QED
    BY <2>9
<1>4. CASE SendRoutes(c) \/ SendMulticastState(c)
  <2>1. /\ UNCHANGED early /\ handler[c].step \in {"routes", "groups"} /\ ~UpsertNode(c)
    BY <1>4 DEF SendRoutes, SendMulticastState, UpsertNode
  <2>2. PICK ms : /\ Delivers(ms) /\ \A d \in Conns : d # c => ms[d] = << >>
                  /\ Only(ms, {"InstallRoutes", "InstallGroupDirectory", "InstallGroupRoutes"})
    <3>1. CASE SendRoutes(c)
      BY <3>1, RoutesDelivered, OnlyMore
    <3>2. CASE SendMulticastState(c)
      BY <3>2, MulticastDelivered, OnlyMore
    <3> QED
      BY <1>4, <3>1, <3>2
  <2>3. OwnsId(c)
    BY <1>c, <2>1 DEF RegisterNode, Reading
  <2>4. c[1] \in Introduced'
    BY <1>b, <2>1, <2>3, HolderStage DEF Wiring, Advances
  <2> QED
    BY <1>a, <1>b, <2>1, <2>2, <2>4, OnlyInOrder
<1>5. CASE CreateGroup(c)
  <2>1. PICK ms : /\ Delivers(ms)
                  /\ \/ UNCHANGED early /\ \A d \in Conns : ms[d] = << >>
                     \/ /\ early' = early \cup ({"directory"} \X Unwired)
                        /\ Only(ms, {"GroupCreated", "InstallGroupDirectory"})
    BY FirstLifeSeqs, <1>5, CreateDelivers
  <2>2. ~UpsertNode(c)
    BY <1>5 DEF CreateGroup, UpsertNode, Reading
  <2>3. CASE UNCHANGED early /\ \A d \in Conns : ms[d] = << >>
    BY <1>a, <1>b, <2>1, <2>2, <2>3, QuietInOrder
  <2>4. CASE /\ early' = early \cup ({"directory"} \X Unwired)
             /\ Only(ms, {"GroupCreated", "InstallGroupDirectory"})
    <3>1. \A d \in Conns : ms[d] # << >> =>
              <<"directory", d[1]>> \in early' \/ d[1] \in Introduced'
      BY <1>b, <2>1, <2>4, HolderStage DEF Delivers, Advances
    <3> QED
      BY <1>a, <1>b, <2>1, <2>2, <2>4, <3>1, OnlyInOrder
  <2> QED
    BY <2>1, <2>3, <2>4
<1>6. CASE NotifyGroupRoutes(c)
  <2>1. PICK ms : Delivers(ms) /\ Only(ms, {"InstallGroupRoutes"})
    BY FirstLifeSeqs, <1>6, GroupRoutesDelivered
  <2>2. UNCHANGED early /\ ~UpsertNode(c)
    BY <1>6 DEF NotifyGroupRoutes, UpsertNode
  <2> QED
    BY <1>a, <1>b, <2>1, <2>2, OnlyInOrder
<1> QED
  BY <1>1, <1>2, <1>3, <1>4, <1>5, <1>6, HandlerIsOpen DEF HandlerStep, QuietHandlerStep

\* The other tasks move no handler.
LEMMA TasksStand ==
    ASSUME SyncStep \/ CoordinatorStep, Quiet
    PROVE  /\ UNCHANGED <<node_ws, handler, nodes, open, dp>> /\ Advances
           /\ \A n \in NodeIds : Answered(n)' => Answered(n)
<1>1. UNCHANGED <<node_ws, handler, nodes, open, dp>>
  BY DEF Quiet, SyncStep, CoordinatorStep, SyncReadRoutes, SyncSendRoutes, SyncReadGroup,
         SyncSendGroup, SyncFlow, NodeConnected, NodeLocallyReady, SendLinkRates, SendFlows,
         CheckReadyAfterDispatch, syncFrame, coordFrame, TakeEvent, dbVars
<1>2. Introduced' = Introduced
  BY <1>1 DEF Introduced, Unwired
<1> QED
  BY <1>1, <1>2 DEF Advances, Answered

LEMMA TasksInOrder ==
    ASSUME AdmissionInv, FirstLife, SyncStep \/ CoordinatorStep, Quiet
    PROVE  \E ms : InOrder(ms)
<1>a. UNCHANGED dp /\ Advances /\ \A n \in NodeIds : Answered(n)' => Answered(n)
  BY TasksStand
<1>1. CASE CoordinatorStep
  <2>1. UNCHANGED early
    BY <1>1 DEF CoordinatorStep, NodeConnected, NodeLocallyReady, SendLinkRates, SendFlows,
                CheckReadyAfterDispatch, coordFrame, TakeEvent, history
  <2>2. PICK ms : Delivers(ms) /\ Only(ms, Neutral)
    BY FirstLifeSeqs, <1>1, CoordinatorDelivers
  <2>3. {"AddNode", "InstallRoutes", "InstallGroupDirectory"} \cap Neutral = {}
    BY DEF Neutral
  <2> QED
    BY <1>a, <2>1, <2>2, <2>3, OnlyInOrder
<1>2. CASE QuietSyncStep
  <2>1. UNCHANGED early
    BY <1>2 DEF QuietSyncStep, SyncReadRoutes, SyncReadGroup, history
  <2> QED
    BY FirstLifeSeqs, <1>a, <1>2, <2>1, QuietDelivers, QuietInOrder
<1>3. CASE SyncSendRoutes
  <2>1. PICK ms : /\ Delivers(ms) /\ Only(ms, {"InstallRoutes"})
                  /\ \A d \in Conns : ms[d] # << >> /\ d[1] \in Unwired => <<"routes", d[1]>> \in early'
                  /\ early \subseteq early'
    BY FirstLifeSeqs, <1>3, SyncRoutesDelivered
  <2>2. \A d \in Conns : ms[d] # << >> => <<"routes", d[1]>> \in early' \/ d[1] \in Introduced'
    BY <1>a, <2>1, HolderStage DEF Delivers, Advances
  <2> QED
    BY <1>a, <2>1, <2>2, OnlyInOrder
<1>4. CASE SyncSendGroup
  <2>1. PICK ms : Delivers(ms) /\ Only(ms, {"InstallGroupRoutes"})
    BY FirstLifeSeqs, <1>4, GroupRoutesDelivered
  <2>2. UNCHANGED early
    BY <1>4 DEF SyncSendGroup
  <2> QED
    BY <1>a, <2>1, <2>2, OnlyInOrder
<1>5. CASE \E f \in AllFlows : SyncFlow(f)
  <2>1. PICK ms : Delivers(ms) /\ Only(ms, {"AddFlows"})
    BY FirstLifeSeqs, <1>5, FlowDelivered
  <2>2. UNCHANGED early
    BY <1>5 DEF SyncFlow, history
  <2> QED
    BY <1>a, <2>1, <2>2, OnlyInOrder
<1> QED
  BY <1>1, <1>2, <1>3, <1>4, <1>5 DEF SyncStep, QuietSyncStep, AllFlows

LEMMA OutsideInOrder ==
    ASSUME AdmissionInv, FirstLife,
           \/ \E rs \in RouteChoices : UpdateRoutes(rs) /\ Quiet
           \/ \E f \in LaterFlows : InsertFlow(f) /\ Quiet
           \/ \E r \in Requests : Request(r)
           \/ UNCHANGED vars
    PROVE  \E ms : InOrder(ms)
<1>1. UNCHANGED <<dp, early, wire, node_ws, handler>>
  BY DEF UpdateRoutes, InsertFlow, outsideFrame, Quiet, Request, tables, history, vars,
         controllerVars
<1>2. \E ms : Delivers(ms) /\ \A d \in Conns : ms[d] = << >>
  BY <1>1, NothingDelivered DEF AdmissionInv, FirstLife, Seqs
<1>3. Introduced' = Introduced
  BY <1>1 DEF Introduced, Unwired
<1>4. Advances /\ \A n \in NodeIds : Answered(n)' => Answered(n)
  BY <1>1, <1>3 DEF Advances, Answered
<1> QED
  BY <1>1, <1>2, <1>4, QuietInOrder

\* What a node's step does to its own record: nothing that was reached is lost,
\* and only the message at the head of the wire adds something.
Handled(n) ==
    LET m == Head(wire[Conn(n)]) IN
    /\ dp[n].peers \subseteq dp'[n].peers
    /\ dp[n].phase = "up" /\ m.type = "AddNode" => m.node \in dp'[n].peers
    /\ dp[n].routes_installed => dp'[n].routes_installed
    /\ dp[n].phase = "up" /\ m.type = "InstallRoutes" => dp'[n].routes_installed
    /\ dp'[n].routes_installed =>
          dp[n].routes_installed \/ (dp[n].phase = "up" /\ m.type = "InstallRoutes")
    /\ dp[n].directory_installed => dp'[n].directory_installed
    /\ dp[n].phase = "up" /\ m.type = "InstallGroupDirectory" => dp'[n].directory_installed
    /\ dp'[n].directory_installed =>
          dp[n].directory_installed \/ (dp[n].phase = "up" /\ m.type = "InstallGroupDirectory")
    /\ dp[n].topology_ready => dp'[n].topology_ready
    /\ dp[n].phase = "up" /\ m.type = "TopologyReady" => dp'[n].topology_ready

\* maybe_send_local_topology_ready, wherever it is called
Reports(n) ==
    /\ \/ dp'[n].expected = dp[n].expected /\ dp'[n].connected = dp[n].connected
       \/ dp'[n].expected = dp[n].expected + 1 /\ dp'[n].connected = dp[n].connected + 1
    /\ dp[n].ready_sent => dp'[n].ready_sent
    /\ \/ UNCHANGED inbox /\ (dp'[n].ready_sent => dp[n].ready_sent)
       \/ /\ dp'[n].ready_sent /\ dp'[n].routes_installed /\ dp'[n].directory_installed
          /\ dp[n].phase = "up"
          /\ inbox' = [inbox EXCEPT ![Conn(n)] = Append(@, [type |-> "NodeTopologyReady"])]
    /\ dp'[n].routes_installed /\ dp'[n].directory_installed /\ dp'[n].connected >= dp'[n].expected =>
          \/ dp'[n].ready_sent
          \/ /\ dp[n].routes_installed /\ dp[n].directory_installed
             /\ dp'[n].expected = dp[n].expected /\ dp'[n].connected = dp[n].connected

LEMMA FreshFields ==
    DOMAIN Fresh(0) = {"starts", "phase", "configured", "expected", "connected", "peers",
                       "limited", "routes", "routes_installed", "directory",
                       "directory_installed", "group_routes", "ready_sent", "topology_ready",
                       "specs", "pending", "started"}
BY DEF Fresh

\* Settle leaves the record it is given, up to the report.
LEMMA SettleReports ==
    ASSUME ControlShape, NEW n \in NodeIds, NEW d, Settle(n, d), DOMAIN d = DOMAIN Fresh(0)
    PROVE  /\ \A k \in DOMAIN Fresh(0) : k # "ready_sent" => dp'[n][k] = d[k]
           /\ d.ready_sent => dp'[n].ready_sent
           /\ \/ UNCHANGED inbox /\ (dp'[n].ready_sent => d.ready_sent)
              \/ /\ dp'[n].ready_sent /\ d.routes_installed /\ d.directory_installed
                 /\ inbox' = [inbox EXCEPT ![Conn(n)] = Append(@, [type |-> "NodeTopologyReady"])]
           /\ d.routes_installed /\ d.directory_installed /\ d.connected >= d.expected =>
                 dp'[n].ready_sent
<1> DEFINE go == ~d.ready_sent /\ d.connected >= d.expected /\ d.routes_installed
                 /\ d.directory_installed
<1>a. DOMAIN dp = NodeIds
  BY DEF ControlShape
<1>1. CASE go
  <2>1. /\ dp'[n] = [d EXCEPT !.ready_sent = TRUE]
        /\ inbox' = [inbox EXCEPT ![Conn(n)] = Append(@, [type |-> "NodeTopologyReady"])]
    BY <1>1, <1>a DEF Settle
  <2>2. dp'[n].ready_sent /\ \A k \in DOMAIN Fresh(0) : k # "ready_sent" => dp'[n][k] = d[k]
    BY <2>1, FreshFields
  <2> QED
    BY <1>1, <2>1, <2>2
<1>2. CASE ~go
  <2>1. dp'[n] = d /\ UNCHANGED inbox
    BY <1>2, <1>a DEF Settle
  <2> QED
    BY <1>2, <2>1
<1> QED
  BY <1>1, <1>2

LEMMA NodeHandles ==
    ASSUME AdmissionInv, NEW n \in NodeIds, NodeStep(n)
    PROVE  Handled(n) /\ Reports(n)
<1>a. ControlShape /\ DOMAIN dp = NodeIds /\ DOMAIN dp[n] = DOMAIN Fresh(0)
  BY DEF AdmissionInv, ControlShape
<1> DEFINE m == Head(wire[Conn(n)])
<1>1. CASE TakeResponse(n)
  <2>1. /\ dp[n].phase = "starting" /\ UNCHANGED inbox
        /\ \A k \in DOMAIN Fresh(0) : k \notin {"phase", "configured"} => dp'[n][k] = dp[n][k]
    BY <1>1, <1>a, FreshFields DEF TakeResponse
  <2> QED
    BY <2>1, FreshFields DEF Handled, Reports
<1>2. CASE AddNode(n)
  <2> DEFINE d == [dp[n] EXCEPT !.expected = @ + 1, !.connected = @ + 1, !.peers = @ \cup {m.node}]
  <2>1. Settle(n, d) /\ dp[n].phase = "up" /\ m.type = "AddNode"
    BY <1>2 DEF AddNode, Next1
  <2>2. /\ DOMAIN d = DOMAIN Fresh(0)
        /\ \A k \in DOMAIN Fresh(0) : k \notin {"expected", "connected", "peers"} => d[k] = dp[n][k]
        /\ d.expected = dp[n].expected + 1 /\ d.connected = dp[n].connected + 1
        /\ d.peers = dp[n].peers \cup {m.node}
    BY <1>a, FreshFields
  <2> HIDE DEF d
  <2>3. Handled(n)
    BY <1>a, <2>1, <2>2, FreshFields, SettleReports DEF Handled
  <2>4. Reports(n)
    BY <1>a, <2>1, <2>2, FreshFields, SettleReports DEF Reports
  <2> QED
    BY <2>3, <2>4
<1>3. CASE InstallRoutes(n)
  <2> DEFINE d == [dp[n] EXCEPT !.routes = m.entries, !.routes_installed = TRUE]
  <2>1. Settle(n, d) /\ dp[n].phase = "up" /\ m.type = "InstallRoutes"
    BY <1>3 DEF InstallRoutes, Next1
  <2>2. /\ DOMAIN d = DOMAIN Fresh(0)
        /\ \A k \in DOMAIN Fresh(0) : k \notin {"routes", "routes_installed"} => d[k] = dp[n][k]
        /\ d.routes_installed
    BY <1>a, FreshFields
  <2> HIDE DEF d
  <2>a. \A k \in DOMAIN Fresh(0) : k # "ready_sent" => dp'[n][k] = d[k]
    BY <1>a, <2>1, <2>2, SettleReports
  <2>b. /\ dp'[n].peers = dp[n].peers /\ dp'[n].topology_ready = dp[n].topology_ready
        /\ dp'[n].directory_installed = dp[n].directory_installed
    BY <2>2, <2>a, FreshFields
  <2>c. dp'[n].routes_installed
    BY <2>2, <2>a, FreshFields
  <2>3. Handled(n)
    BY <2>1, <2>b, <2>c DEF Handled
  <2>4. Reports(n)
    BY <1>a, <2>1, <2>2, FreshFields, SettleReports DEF Reports
  <2> QED
    BY <2>3, <2>4
<1>4. CASE InstallGroupDirectory(n)
  <2> DEFINE d == [dp[n] EXCEPT !.directory = m.exists, !.directory_installed = TRUE]
  <2>1. Settle(n, d) /\ dp[n].phase = "up" /\ m.type = "InstallGroupDirectory"
    BY <1>4 DEF InstallGroupDirectory, Next1
  <2>2. /\ DOMAIN d = DOMAIN Fresh(0)
        /\ \A k \in DOMAIN Fresh(0) : k \notin {"directory", "directory_installed"} => d[k] = dp[n][k]
        /\ d.directory_installed
    BY <1>a, FreshFields
  <2> HIDE DEF d
  <2>a. \A k \in DOMAIN Fresh(0) : k # "ready_sent" => dp'[n][k] = d[k]
    BY <1>a, <2>1, <2>2, SettleReports
  <2>b. /\ dp'[n].peers = dp[n].peers /\ dp'[n].topology_ready = dp[n].topology_ready
        /\ dp'[n].routes_installed = dp[n].routes_installed
    BY <2>2, <2>a, FreshFields
  <2>c. dp'[n].directory_installed
    BY <2>2, <2>a, FreshFields
  <2>3. Handled(n)
    BY <2>1, <2>b, <2>c DEF Handled
  <2>4. Reports(n)
    BY <1>a, <2>1, <2>2, FreshFields, SettleReports DEF Reports
  <2> QED
    BY <2>3, <2>4
<1>5. CASE \/ SetLinkRate(n) \/ InstallGroupRoutes(n) \/ IgnoreMessage(n)
           \/ AddFlows(n) \/ TopologyReady(n)
  <2>1. /\ dp[n].phase = "up" /\ UNCHANGED inbox
        /\ m.type \in {"SetLinkRate", "InstallGroupRoutes", "GroupCreated", "StartUp", "AddFlows",
                       "TopologyReady"}
    BY <1>5 DEF SetLinkRate, InstallGroupRoutes, IgnoreMessage, AddFlows, TopologyReady, Next1
  <2>2. /\ \A k \in DOMAIN Fresh(0) :
              k \notin {"limited", "group_routes", "specs", "started", "pending", "topology_ready"} =>
                 dp'[n][k] = dp[n][k]
        /\ dp[n].topology_ready => dp'[n].topology_ready
        /\ m.type = "TopologyReady" => dp'[n].topology_ready
    <3>1. CASE SetLinkRate(n)
      BY <3>1, <1>a, FreshFields DEF SetLinkRate, Next1
    <3>2. CASE InstallGroupRoutes(n)
      BY <3>2, <1>a, FreshFields DEF InstallGroupRoutes, Next1
    <3>3. CASE IgnoreMessage(n)
      BY <3>3, <1>a, FreshFields DEF IgnoreMessage, Next1
    <3>4. CASE AddFlows(n)
      <4>1. PICK x, y, z : dp' = [dp EXCEPT ![n] = [dp[n] EXCEPT !.specs = x, !.started = y, !.pending = z]]
        BY <3>4 DEF AddFlows
      <4>2. m.type = "AddFlows"
        BY <3>4 DEF AddFlows, Next1
      <4> QED
        BY <4>1, <4>2, <1>a, FreshFields
    <3>5. CASE TopologyReady(n)
      BY <3>5, <1>a, FreshFields DEF TopologyReady, Next1
    <3> QED
      BY <1>5, <3>1, <3>2, <3>3, <3>4, <3>5
  <2> QED
    BY <2>1, <2>2, FreshFields DEF Handled, Reports
<1> QED
  BY <1>1, <1>2, <1>3, <1>4, <1>5 DEF NodeStep

\* No AddNode behind a message of the given type: appended to, and read
LEMMA OrderAppended ==
    ASSUME NEW w, IsSequence(w), NEW m, IsSequence(m), NEW type,
           \A i, j \in DOMAIN w : i < j /\ w[i].type = type => w[j].type # "AddNode",
           (\E i \in DOMAIN w : w[i].type = type) => \A j \in DOMAIN m : m[j].type # "AddNode",
           \A j \in DOMAIN m : m[j].type = "AddNode" => DOMAIN m = {1}
    PROVE  \A i, j \in DOMAIN (w \o m) :
              i < j /\ (w \o m)[i].type = type => (w \o m)[j].type # "AddNode"
<1> SUFFICES ASSUME NEW i \in DOMAIN (w \o m), NEW j \in DOMAIN (w \o m), i < j,
                    (w \o m)[i].type = type, (w \o m)[j].type = "AddNode"
             PROVE  FALSE
  OBVIOUS
<1>1. /\ i \in Nat /\ j \in Nat /\ Len(w) \in Nat /\ DOMAIN w = 1 .. Len(w)
      /\ i \in DOMAIN w \/ (i - Len(w) \in DOMAIN m /\ i > Len(w) /\ (w \o m)[i] = m[i - Len(w)])
      /\ j \in DOMAIN w \/ (j - Len(w) \in DOMAIN m /\ j > Len(w) /\ (w \o m)[j] = m[j - Len(w)])
  <2>1. \A k \in DOMAIN (w \o m) :
                 /\ k \in Nat
                 /\ \/ k \in DOMAIN w
                    \/ k - Len(w) \in DOMAIN m /\ k > Len(w) /\ (w \o m)[k] = m[k - Len(w)]
    BY ConcatSeq
  <2>2. Len(w) \in Nat /\ DOMAIN w = 1 .. Len(w)
    BY SeqFacts
  <2> QED
    BY <2>1, <2>2
<1>2. \A k \in DOMAIN w : (w \o m)[k] = w[k]
  BY ConcatSeq
<1>3. CASE j \in DOMAIN w
  <2>1. i \in DOMAIN w
    BY <1>1, <1>3
  <2> QED
    BY <1>2, <1>3, <2>1
<1>4. CASE j \notin DOMAIN w
  <2>1. j - Len(w) \in DOMAIN m /\ m[j - Len(w)].type = "AddNode" /\ DOMAIN m = {1}
    BY <1>1, <1>4
  <2>2. i \in DOMAIN w
    BY <1>1, <2>1
  <2> QED
    BY <1>2, <2>1, <2>2
<1> QED
  BY <1>3, <1>4

LEMMA OrderRead ==
    ASSUME NEW w, IsSequence(w), w # << >>, NEW type,
           \A i, j \in DOMAIN w : i < j /\ w[i].type = type => w[j].type # "AddNode"
    PROVE  /\ \A i, j \in DOMAIN Tail(w) :
                 i < j /\ Tail(w)[i].type = type => Tail(w)[j].type # "AddNode"
           /\ Head(w).type = type => \A j \in DOMAIN Tail(w) : Tail(w)[j].type # "AddNode"
<1>1. /\ \A i \in DOMAIN Tail(w) : i \in Nat /\ i + 1 \in DOMAIN w /\ i + 1 # 1 /\ Tail(w)[i] = w[i + 1]
      /\ \A i \in DOMAIN w : i \in Nat
      /\ 1 \in DOMAIN w /\ Head(w) = w[1]
  BY TailSeq, SeqFacts
<1>2. \A i, j \in DOMAIN Tail(w) : i < j => i + 1 < j + 1
  BY <1>1
<1>3. \A j \in DOMAIN Tail(w) : 1 < j + 1
  BY <1>1
<1> QED
  BY <1>1, <1>2, <1>3

\* The three parts of EndsConfiguration after a delivery
LEMMA EndsKept ==
    ASSUME AdmissionInv, FirstLife, NEW ms, InOrder(ms), NEW n \in NodeIds, dp[n].phase # "down",
           NEW kind, NEW type, NEW installed, EndsConfiguration(n, kind, type, installed),
           \A i \in DOMAIN ms[Conn(n)] : ms[Conn(n)][i].type = type =>
              <<kind, n>> \in early' \/ n \in Introduced'
    PROVE  LET w == wire'[Conn(n)] IN
           <<kind, n>> \notin early' =>
              /\ (\E i \in DOMAIN w : w[i].type = type) \/ dp[n][installed] => n \in Introduced'
              /\ dp[n][installed] => ~\E i \in DOMAIN w : w[i].type = "AddNode"
              /\ \A i, j \in DOMAIN w : i < j /\ w[i].type = type => w[j].type # "AddNode"
<1> SUFFICES ASSUME <<kind, n>> \notin early'
             PROVE  LET w == wire'[Conn(n)] IN
                    /\ (\E i \in DOMAIN w : w[i].type = type) \/ dp[n][installed] => n \in Introduced'
                    /\ dp[n][installed] => ~\E i \in DOMAIN w : w[i].type = "AddNode"
                    /\ \A i, j \in DOMAIN w : i < j /\ w[i].type = type => w[j].type # "AddNode"
  OBVIOUS
<1> DEFINE v == wire[Conn(n)]
           m == ms[Conn(n)]
<1>1. Conn(n) \in Conns
  BY OwnerIsConn
<1>2. IsSequence(v) /\ IsSequence(m) /\ wire'[Conn(n)] = v \o m
  BY <1>1 DEF FirstLife, InOrder, Delivers
<1>3. /\ (\E i \in DOMAIN v : v[i].type = type) \/ dp[n][installed] => n \in Introduced
      /\ dp[n][installed] => ~\E i \in DOMAIN v : v[i].type = "AddNode"
      /\ \A i, j \in DOMAIN v : i < j /\ v[i].type = type => v[j].type # "AddNode"
  BY DEF EndsConfiguration, OnWire, InOrder
<1>4. /\ \A i \in DOMAIN m : m[i].type = "AddNode" => DOMAIN m = {1} /\ n \notin Introduced
      /\ \A i \in DOMAIN m : m[i].type = type => n \in Introduced'
      /\ n \in Introduced => n \in Introduced'
  BY DEF InOrder, Advances
<1> HIDE DEF v, m
<1>5. \A i \in DOMAIN (v \o m) : \/ i \in DOMAIN v /\ (v \o m)[i] = v[i]
                                 \/ \E j \in DOMAIN m : (v \o m)[i] = m[j]
  BY <1>2, ConcatSeq
<1>6. (\E i \in DOMAIN (v \o m) : (v \o m)[i].type = type) \/ dp[n][installed] => n \in Introduced'
  BY <1>3, <1>4, <1>5
<1>7. dp[n][installed] => ~\E i \in DOMAIN (v \o m) : (v \o m)[i].type = "AddNode"
  BY <1>3, <1>4, <1>5
<1>8. (\E i \in DOMAIN v : v[i].type = type) => \A j \in DOMAIN m : m[j].type # "AddNode"
  BY <1>3, <1>4
<1>9. \A i, j \in DOMAIN (v \o m) : i < j /\ (v \o m)[i].type = type => (v \o m)[j].type # "AddNode"
  <2>1. \A j \in DOMAIN m : m[j].type = "AddNode" => DOMAIN m = {1}
    BY <1>4
  <2>2. \A i, j \in DOMAIN v : i < j /\ v[i].type = type => v[j].type # "AddNode"
    BY <1>3
  <2> QED
    BY <1>2, <1>8, <2>1, <2>2, OrderAppended
<1> QED
  BY <1>2, <1>6, <1>7, <1>9

LEMMA SentInOrder ==
    ASSUME AdmissionInv, FirstLife, ConfigurationOrder, NEW ms, InOrder(ms)
    PROVE  ConfigurationOrder'
<1>a. UNCHANGED dp /\ \A n : Conn(n)' = Conn(n)
  BY DEF InOrder, Conn
<1> SUFFICES ASSUME NEW n \in NodeIds, dp[n].phase # "down"
             PROVE  /\ dp[n].phase = "starting" =>
                          IF Answered(n)'
                          THEN wire'[Conn(n)] # << >> /\ wire'[Conn(n)][1].type # "AddNode"
                          ELSE ~OnWire(n, "AddNode")'
                    /\ EndsConfiguration(n, "routes", "InstallRoutes", "routes_installed")'
                    /\ EndsConfiguration(n, "directory", "InstallGroupDirectory",
                                         "directory_installed")'
  BY <1>a DEF ConfigurationOrder, Answered
<1>1. Conn(n) \in Conns
  BY OwnerIsConn
<1> DEFINE v == wire[Conn(n)]
           m == ms[Conn(n)]
<1>2. IsSequence(v) /\ IsSequence(m) /\ wire'[Conn(n)] = v \o m
  BY <1>1 DEF FirstLife, InOrder, Delivers
<1>3. \A i \in DOMAIN m :
         /\ m[i].type = "AddNode" => Answered(n)
         /\ m[i].type = "InstallRoutes" => <<"routes", n>> \in early' \/ n \in Introduced'
         /\ m[i].type = "InstallGroupDirectory" => <<"directory", n>> \in early' \/ n \in Introduced'
  BY DEF InOrder
<1>4. EndsConfiguration(n, "routes", "InstallRoutes", "routes_installed")'
  <2>1. EndsConfiguration(n, "routes", "InstallRoutes", "routes_installed")
    BY DEF ConfigurationOrder
  <2>0. \A i \in DOMAIN ms[Conn(n)] : ms[Conn(n)][i].type = "InstallRoutes" =>
              <<"routes", n>> \in early' \/ n \in Introduced'
    BY <1>3
  <2>2. LET w == wire'[Conn(n)] IN
        <<"routes", n>> \notin early' =>
              /\ (\E i \in DOMAIN w : w[i].type = "InstallRoutes") \/ dp[n]["routes_installed"] =>
                    n \in Introduced'
              /\ dp[n]["routes_installed"] => ~\E i \in DOMAIN w : w[i].type = "AddNode"
              /\ \A i, j \in DOMAIN w :
                    i < j /\ w[i].type = "InstallRoutes" => w[j].type # "AddNode"
    BY <2>0, <2>1, EndsKept
  <2> QED
    BY <1>a, <2>2 DEF EndsConfiguration, OnWire
<1>5. EndsConfiguration(n, "directory", "InstallGroupDirectory", "directory_installed")'
  <2>1. EndsConfiguration(n, "directory", "InstallGroupDirectory", "directory_installed")
    BY DEF ConfigurationOrder
  <2>0. \A i \in DOMAIN ms[Conn(n)] : ms[Conn(n)][i].type = "InstallGroupDirectory" =>
              <<"directory", n>> \in early' \/ n \in Introduced'
    BY <1>3
  <2>2. LET w == wire'[Conn(n)] IN
        <<"directory", n>> \notin early' =>
              /\ (\E i \in DOMAIN w : w[i].type = "InstallGroupDirectory")
                 \/ dp[n]["directory_installed"] => n \in Introduced'
              /\ dp[n]["directory_installed"] => ~\E i \in DOMAIN w : w[i].type = "AddNode"
              /\ \A i, j \in DOMAIN w :
                    i < j /\ w[i].type = "InstallGroupDirectory" => w[j].type # "AddNode"
    BY <2>0, <2>1, EndsKept
  <2> QED
    BY <1>a, <2>2 DEF EndsConfiguration, OnWire
<1>6. ASSUME dp[n].phase = "starting", Answered(n)'
      PROVE  wire'[Conn(n)] # << >> /\ wire'[Conn(n)][1].type # "AddNode"
  <2>1. CASE Answered(n)
    <3>1. v # << >> /\ v[1].type # "AddNode"
      BY <1>6, <2>1 DEF ConfigurationOrder, Answered
    <3> HIDE DEF v, m
    <3> QED
      BY <1>2, <3>1, ConcatSeq
  <2>2. CASE ~Answered(n)
    <3>1. m # << >> /\ m[1].type # "AddNode"
      BY <1>6, <2>2 DEF InOrder
    <3>2. \A i \in DOMAIN v : v[i].type # "AddNode"
      BY <1>6, <2>2 DEF ConfigurationOrder, Answered, OnWire
    <3> HIDE DEF v, m
    <3>3. CASE v = << >>
      BY <1>2, <3>1, <3>3, ConcatSeq
    <3>4. CASE v # << >>
      <4>1. v[1].type # "AddNode"
        BY <1>2, <3>2, <3>4, SeqFacts
      <4> QED
        BY <1>2, <3>4, <4>1, ConcatSeq
    <3> QED
      BY <3>3, <3>4
  <2> QED
    BY <2>1, <2>2
<1>7. ASSUME dp[n].phase = "starting", ~Answered(n)'
      PROVE  ~OnWire(n, "AddNode")'
  <2>1. ~Answered(n)
    BY <1>7 DEF InOrder, Advances
  <2>2. \A i \in DOMAIN v : v[i].type # "AddNode"
    BY <1>7, <2>1 DEF ConfigurationOrder, Answered, OnWire
  <2>3. \A i \in DOMAIN m : m[i].type # "AddNode"
    BY <1>3, <2>1
  <2> HIDE DEF v, m
  <2>4. \A i \in DOMAIN (v \o m) : (v \o m)[i].type # "AddNode"
    BY <1>2, <2>2, <2>3, ConcatSeq
  <2> QED
    BY <1>2, <1>a, <2>4 DEF OnWire
<1> QED
  BY <1>4, <1>5, <1>6, <1>7

LEMMA SameConns ==
    ASSUME \A n \in NodeIds : dp'[n].starts = dp[n].starts
    PROVE  \A n \in NodeIds : Conn(n)' = Conn(n)
BY DEF Conn

\* The three parts of EndsConfiguration after the node has read a message
LEMMA EndsRead ==
    ASSUME AdmissionInv, FirstLife, NEW n \in NodeIds, NodeStep(n),
           NEW kind, NEW type, NEW installed, EndsConfiguration(n, kind, type, installed),
           dp'[n][installed] => dp[n][installed] \/ Head(wire[Conn(n)]).type = type
    PROVE  EndsConfiguration(n, kind, type, installed)'
<1> DEFINE v == wire[Conn(n)]
<1>1. /\ Conn(n) \in Conns /\ v # << >> /\ wire'[Conn(n)] = Tail(v)
      /\ UNCHANGED <<node_ws, handler, early>>
      /\ \A m \in NodeIds : dp'[m].starts = dp[m].starts
  BY NodeTakes
<1>2. Introduced' = Introduced /\ Conn(n)' = Conn(n)
  BY <1>1, SameConns DEF Introduced, Unwired
<1>3. IsSequence(v)
  BY <1>1 DEF FirstLife
<1> SUFFICES ASSUME <<kind, n>> \notin early
             PROVE  /\ (\E i \in DOMAIN Tail(v) : Tail(v)[i].type = type) \/ dp'[n][installed] =>
                          n \in Introduced
                    /\ dp'[n][installed] => ~\E i \in DOMAIN Tail(v) : Tail(v)[i].type = "AddNode"
                    /\ \A i, j \in DOMAIN Tail(v) :
                          i < j /\ Tail(v)[i].type = type => Tail(v)[j].type # "AddNode"
  BY <1>1, <1>2 DEF EndsConfiguration, OnWire
<1>4. /\ (\E i \in DOMAIN v : v[i].type = type) \/ dp[n][installed] => n \in Introduced
      /\ dp[n][installed] => ~\E i \in DOMAIN v : v[i].type = "AddNode"
      /\ \A i, j \in DOMAIN v : i < j /\ v[i].type = type => v[j].type # "AddNode"
  BY DEF EndsConfiguration, OnWire
<1>5. dp'[n][installed] => dp[n][installed] \/ Head(v).type = type
  OBVIOUS
<1>6. v # << >>
  BY <1>1
<1> HIDE DEF v
<1>7. /\ \A i, j \in DOMAIN Tail(v) : i < j /\ Tail(v)[i].type = type => Tail(v)[j].type # "AddNode"
      /\ Head(v).type = type => \A j \in DOMAIN Tail(v) : Tail(v)[j].type # "AddNode"
  BY <1>3, <1>4, <1>6, OrderRead
<1>8. /\ \A i \in DOMAIN Tail(v) : i + 1 \in DOMAIN v /\ Tail(v)[i] = v[i + 1]
      /\ 1 \in DOMAIN v /\ Head(v) = v[1]
  BY <1>3, <1>6, TailSeq, SeqFacts
<1>9. (\E i \in DOMAIN Tail(v) : Tail(v)[i].type = type) \/ dp'[n][installed] => n \in Introduced
  BY <1>4, <1>5, <1>8
<1>10. dp'[n][installed] => ~\E i \in DOMAIN Tail(v) : Tail(v)[i].type = "AddNode"
  BY <1>4, <1>5, <1>7, <1>8
<1> QED
  BY <1>7, <1>9, <1>10

\* A node whose wire and record are as before
LEMMA OthersInOrder ==
    ASSUME NEW n \in NodeIds, UNCHANGED <<node_ws, handler, early>>, Conn(n)' = Conn(n),
           wire'[Conn(n)] = wire[Conn(n)],
           \A k \in {"phase", "routes_installed", "directory_installed"} : dp'[n][k] = dp[n][k],
           dp[n].phase # "down",
           ConfigurationOrder
    PROVE  /\ dp'[n].phase = "starting" =>
                 IF Answered(n)'
                 THEN wire'[Conn(n)] # << >> /\ wire'[Conn(n)][1].type # "AddNode"
                 ELSE ~OnWire(n, "AddNode")'
           /\ EndsConfiguration(n, "routes", "InstallRoutes", "routes_installed")'
           /\ EndsConfiguration(n, "directory", "InstallGroupDirectory", "directory_installed")'
<1>1. Introduced' = Introduced /\ (Answered(n)' <=> Answered(n))
  BY DEF Introduced, Unwired, Answered
<1>2. \A type : OnWire(n, type)' <=> OnWire(n, type)
  BY DEF OnWire
<1>3. /\ dp[n].phase = "starting" =>
                 IF Answered(n) THEN wire[Conn(n)] # << >> /\ wire[Conn(n)][1].type # "AddNode"
                 ELSE ~OnWire(n, "AddNode")
      /\ EndsConfiguration(n, "routes", "InstallRoutes", "routes_installed")
      /\ EndsConfiguration(n, "directory", "InstallGroupDirectory", "directory_installed")
  BY DEF ConfigurationOrder, Answered
<1>4. EndsConfiguration(n, "routes", "InstallRoutes", "routes_installed")'
  BY <1>1, <1>2, <1>3 DEF EndsConfiguration
<1>5. EndsConfiguration(n, "directory", "InstallGroupDirectory", "directory_installed")'
  BY <1>1, <1>2, <1>3 DEF EndsConfiguration
<1> QED
  BY <1>1, <1>2, <1>3, <1>4, <1>5

LEMMA TakenInOrder ==
    ASSUME AdmissionInv, FirstLife, ConfigurationOrder, NEW n \in NodeIds, NodeStep(n)
    PROVE  ConfigurationOrder'
<1>1. /\ UNCHANGED <<node_ws, handler, early>>
      /\ \A m \in NodeIds : m # n => dp'[m] = dp[m]
      /\ \A m \in NodeIds : dp'[m].starts = dp[m].starts
      /\ dp'[n].phase = "up" /\ dp[n].phase # "down"
      /\ \A d \in Conns : d # Conn(n) => wire'[d] = wire[d]
  BY NodeTakes
<1>2. \A m \in NodeIds : Conn(m)' = Conn(m)
  BY <1>1, SameConns
<1>3. \A m \in NodeIds : m # n /\ dp[m].phase # "down" => wire'[Conn(m)] = wire[Conn(m)]
  BY <1>1, OwnerIsConn, ConnsDiffer
<1>4. EndsConfiguration(n, "routes", "InstallRoutes", "routes_installed")'
  BY <1>1, NodeHandles, EndsRead DEF ConfigurationOrder, Handled
<1>5. EndsConfiguration(n, "directory", "InstallGroupDirectory", "directory_installed")'
  BY <1>1, NodeHandles, EndsRead DEF ConfigurationOrder, Handled
<1>6. ASSUME NEW m \in NodeIds, m # n, dp'[m].phase # "down"
      PROVE  /\ dp'[m].phase = "starting" =>
                   IF Answered(m)'
                   THEN wire'[Conn(m)] # << >> /\ wire'[Conn(m)][1].type # "AddNode"
                   ELSE ~OnWire(m, "AddNode")'
             /\ EndsConfiguration(m, "routes", "InstallRoutes", "routes_installed")'
             /\ EndsConfiguration(m, "directory", "InstallGroupDirectory", "directory_installed")'
  <2>1. dp[m].phase # "down" /\ dp'[m] = dp[m] /\ wire'[Conn(m)] = wire[Conn(m)] /\ Conn(m)' = Conn(m)
    BY <1>1, <1>2, <1>3, <1>6
  <2> QED
    BY <1>1, <2>1, OthersInOrder
<1> QED
  BY <1>1, <1>2, <1>4, <1>5, <1>6 DEF ConfigurationOrder, Answered

LEMMA AcceptedInOrder ==
    ASSUME AdmissionInv, ConfigurationOrder, NEW a \in NodeIds, NEW b \in NodeIds, AcceptLink(a, b)
    PROVE  ConfigurationOrder'
<1>1. UNCHANGED <<node_ws, handler, early, wire>>
  BY DEF AcceptLink, tables, history
<1>2. \A m \in NodeIds : \A k \in DOMAIN Fresh(0) : k # "peers" => dp'[m][k] = dp[m][k]
  BY FreshFields DEF AcceptLink, AdmissionInv, ControlShape
<1>3. \A m \in NodeIds : Conn(m)' = Conn(m)
  BY <1>2, SameConns, FreshFields
<1>4. ASSUME NEW m \in NodeIds, dp'[m].phase # "down"
      PROVE  /\ dp'[m].phase = "starting" =>
                   IF Answered(m)'
                   THEN wire'[Conn(m)] # << >> /\ wire'[Conn(m)][1].type # "AddNode"
                   ELSE ~OnWire(m, "AddNode")'
             /\ EndsConfiguration(m, "routes", "InstallRoutes", "routes_installed")'
             /\ EndsConfiguration(m, "directory", "InstallGroupDirectory", "directory_installed")'
  BY <1>1, <1>2, <1>3, <1>4, FreshFields, OthersInOrder
<1> QED
  BY <1>3, <1>4 DEF ConfigurationOrder, Answered

LEMMA StartedInOrder ==
    ASSUME AdmissionInv, FirstLife, ConfigurationOrder, NEW n \in NodeIds, StartNode(n)
    PROVE  ConfigurationOrder'
<1>a. ControlShape /\ DOMAIN dp = NodeIds
  BY DEF AdmissionInv, ControlShape
<1>1. /\ UNCHANGED <<node_ws, handler, early, wire>>
      /\ \A m \in NodeIds : m # n => dp'[m] = dp[m]
      /\ dp[n].phase = "down"
  BY <1>a DEF StartNode, tables, history
<1>2. /\ dp'[n].starts = 1 /\ dp[n].starts = 0 /\ dp'[n].phase = "starting"
      /\ dp'[n].routes_installed = FALSE /\ dp'[n].directory_installed = FALSE /\ 0 < MaxStarts
  BY <1>a DEF StartNode, Fresh, FirstLife
<1>3. Conn(n)' = <<n, 1>> /\ <<n, 1>> \in Conns
  BY <1>2 DEF Conn, Conns
<1>4. <<n, 1>> \notin open
  BY <1>1, <1>3 DEF AdmissionInv, Registrations
<1>5. wire[<<n, 1>>] = << >>
  BY <1>3, <1>4 DEF AdmissionInv, Registrations
<1>6. n \notin DOMAIN node_ws
  BY <1>1, OwnerIsConn
<1>7. ~Answered(n)' /\ \A type : ~OnWire(n, type)'
  BY <1>1, <1>3, <1>5, <1>6 DEF Answered, OnWire
<1>8. /\ EndsConfiguration(n, "routes", "InstallRoutes", "routes_installed")'
      /\ EndsConfiguration(n, "directory", "InstallGroupDirectory", "directory_installed")'
  <2>1. DOMAIN wire[<<n, 1>>] = {}
    BY <1>5
  <2> QED
    BY <1>1, <1>2, <1>3, <1>7, <2>1 DEF EndsConfiguration
<1>9. ASSUME NEW m \in NodeIds, m # n, dp'[m].phase # "down"
      PROVE  /\ dp'[m].phase = "starting" =>
                   IF Answered(m)'
                   THEN wire'[Conn(m)'] # << >> /\ wire'[Conn(m)'][1].type # "AddNode"
                   ELSE ~OnWire(m, "AddNode")'
             /\ EndsConfiguration(m, "routes", "InstallRoutes", "routes_installed")'
             /\ EndsConfiguration(m, "directory", "InstallGroupDirectory", "directory_installed")'
  <2>1. dp[m].phase # "down" /\ dp'[m] = dp[m] /\ Conn(m)' = Conn(m)
    BY <1>1, <1>9 DEF Conn
  <2> QED
    BY <1>1, <2>1, OthersInOrder
<1> QED
  BY <1>7, <1>8, <1>9 DEF ConfigurationOrder, Answered

\* The steps of the first life
LEMMA StepKinds ==
    ASSUME AdmissionInv, FirstLife, [Next]_vars, crashes' = 0
    PROVE  \/ \E ms : InOrder(ms)
           \/ \E n \in NodeIds : NodeStep(n) \/ StartNode(n)
           \/ \E n, m \in NodeIds : AcceptLink(n, m)
<1>1. ASSUME NEW c \in Conns, HandlerStep(c), Quiet PROVE \E ms : InOrder(ms)
  BY <1>1, HandlerInOrder
<1>2. CASE (SyncStep \/ CoordinatorStep) /\ Quiet
  BY <1>2, TasksInOrder
<1>3. CASE \/ \E rs \in RouteChoices : UpdateRoutes(rs) /\ Quiet
           \/ \E f \in LaterFlows : InsertFlow(f) /\ Quiet
           \/ \E r \in Requests : Request(r)
           \/ UNCHANGED vars
  BY <1>3, OutsideInOrder
<1>4. ASSUME NEW n \in CanCrash, Crash(n) PROVE FALSE
  BY <1>4, NoCrash
<1> QED
  BY <1>1, <1>2, <1>3, <1>4 DEF Next, SystemStep, OutsideStep

LEMMA OrderStep ==
    ASSUME AdmissionInv, FirstLife, ConfigurationOrder, [Next]_vars, crashes' = 0
    PROVE  ConfigurationOrder'
BY StepKinds, SentInOrder, TakenInOrder, StartedInOrder, AcceptedInOrder

-----------------------------------------------------------------------------
(* Every edge is dialled from one of its ends *)

LEMMA NeighborsBothWays ==
    ASSUME NEW e \in TopologyEdges
    PROVE  e[1] \in NeighborsOf(e[2]) /\ e[2] \in NeighborsOf(e[1])
<1>1. e = <<e[1], e[2]>>
  OBVIOUS
<1>2. e[1] \in NodesOf(TopologyEdges) /\ e[2] \in NodesOf(TopologyEdges)
  BY DEF NodesOf
<1> QED
  BY <1>1, <1>2 DEF NeighborsOf, Neighbors, BuildNeighborIndex

\* What a was told stays told while its wire only grows.
LEMMA ToldSent ==
    ASSUME AdmissionInv, FirstLife, NEW ms, Delivers(ms), UNCHANGED dp,
           NEW a \in NodeIds, dp[a].phase # "down", NEW b, Told(a, b),
           handler[Conn(a)].step = "adding" /\ b \in handler[Conn(a)].data =>
              \/ handler'[Conn(a)] = handler[Conn(a)]
              \/ handler'[Conn(a)].step = "adding" /\ b \in handler'[Conn(a)].data
              \/ \E i \in DOMAIN ms[Conn(a)] :
                    ms[Conn(a)][i].type = "AddNode" /\ ms[Conn(a)][i].node = b
    PROVE  Told(a, b)'
<1> DEFINE v == wire[Conn(a)]
           m == ms[Conn(a)]
<1>1. Conn(a) \in Conns /\ Conn(a)' = Conn(a)
  BY OwnerIsConn DEF Conn
<1>2. IsSequence(v) /\ IsSequence(m) /\ wire'[Conn(a)] = v \o m
  BY <1>1 DEF FirstLife, Delivers
<1>3. /\ \A i \in DOMAIN v : i \in DOMAIN (v \o m) /\ (v \o m)[i] = v[i]
      /\ \A i \in DOMAIN m : \E j \in DOMAIN (v \o m) : (v \o m)[j] = m[i]
  <2> HIDE DEF v, m
  <2>1. \A i \in DOMAIN v : i \in DOMAIN (v \o m) /\ (v \o m)[i] = v[i]
    BY <1>2, ConcatSeq
  <2>2. \A i \in DOMAIN m : Len(v) + i \in DOMAIN (v \o m) /\ (v \o m)[Len(v) + i] = m[i]
    BY <1>2, ConcatSeq
  <2> QED
    BY <2>1, <2>2
<1> DEFINE w == wire'[Conn(a)]
<1>4. w = v \o m
  BY <1>2
<1>5. CASE b \in dp[a].peers
  BY <1>5 DEF Told
<1>6. ASSUME NEW i \in DOMAIN v, v[i].type = "AddNode", v[i].node = b
      PROVE  Told(a, b)'
  <2>1. i \in DOMAIN w /\ w[i] = v[i]
    BY <1>3, <1>4
  <2> QED
    BY <1>1, <1>6, <2>1 DEF Told
<1>7. ASSUME handler[Conn(a)].step = "adding", b \in handler[Conn(a)].data
      PROVE  Told(a, b)'
  <2>1. ASSUME NEW i \in DOMAIN m, m[i].type = "AddNode", m[i].node = b
        PROVE  Told(a, b)'
    <3>1. PICK j \in DOMAIN w : w[j] = m[i]
      BY <1>3, <1>4
    <3> QED
      BY <1>1, <2>1, <3>1 DEF Told
  <2> QED
    BY <1>1, <1>7, <2>1 DEF Told
<1> QED
  BY <1>5, <1>6, <1>7 DEF Told

LEMMA EdgesStay ==
    ASSUME EdgesTold, LookedUp' \subseteq LookedUp, nodes' \subseteq NodeIds,
           \A n \in DOMAIN node_ws' : handler'[node_ws'[n]].step # "upsert" => n \in nodes',
           \A a \in LookedUp, b \in NodeIds : Told(a, b) => Told(a, b)'
    PROVE  EdgesTold'
BY DEF EdgesTold

LEMMA LookedUpFacts ==
    ASSUME AdmissionInv, FirstLife
    PROVE  \A a \in LookedUp : /\ a \in NodeIds /\ dp[a].phase # "down" /\ a \in DOMAIN node_ws
                               /\ node_ws[a] = Conn(a) /\ Conn(a) \in Conns
                               /\ handler[Conn(a)].step \notin {"upsert", "neighbors"}
<1>1. \A n \in DOMAIN node_ws : /\ n \in NodeIds /\ node_ws[n] = Conn(n) /\ Conn(n) \in Conns
                                /\ dp[n].phase # "down"
  BY OwnerIsConn
<1> QED
  BY <1>1 DEF LookedUp

LEMMA RegisterKeepsEdges ==
    ASSUME AdmissionInv, FirstLife, EdgesTold, NEW c \in Conns, RegisterNode(c), Quiet
    PROVE  EdgesTold'
<1>a. UNCHANGED <<dp, nodes, wire>>
  BY DEF RegisterNode, Quiet, dbVars
<1>b. PICK ms : Delivers(ms) /\ \A d \in Conns : ms[d] = << >>
  BY <1>a, NothingDelivered DEF AdmissionInv, FirstLife, Seqs
<1>c. \A n \in DOMAIN node_ws : node_ws[n] \in Conns
  BY DEF AdmissionInv, ControlShape
<1>1. /\ LookedUp' \subseteq LookedUp
      /\ \A n \in DOMAIN node_ws' : handler'[node_ws'[n]].step # "upsert" => n \in nodes'
      /\ \A a \in LookedUp : handler'[node_ws[a]] = handler[node_ws[a]]
  <2>1. CASE UNCHANGED <<node_ws, handler>>
    BY <1>a, <2>1 DEF LookedUp, EdgesTold
  <2>2. CASE /\ c[1] \notin DOMAIN node_ws
             /\ DOMAIN node_ws' = DOMAIN node_ws \cup {c[1]} /\ node_ws'[c[1]] = c
             /\ \A n \in DOMAIN node_ws : node_ws'[n] = node_ws[n] /\ node_ws[n] # c
             /\ handler'[c].step = "upsert"
             /\ \A d \in Conns : d # c => handler'[d] = handler[d]
    <3>1. \A n \in DOMAIN node_ws : handler'[node_ws'[n]] = handler[node_ws[n]]
                                    /\ node_ws'[n] = node_ws[n]
      BY <1>c, <2>2
    <3> QED
      BY <1>a, <2>2, <3>1 DEF LookedUp, EdgesTold
  <2> QED
    BY <2>1, <2>2, RegisterFacts
<1>2. \A a \in LookedUp, b \in NodeIds : Told(a, b) => Told(a, b)'
  BY <1>a, <1>b, <1>1, LookedUpFacts, ToldSent
<1> QED
  BY <1>a, <1>1, <1>2, EdgesStay DEF EdgesTold

\* The steps that neither register nor look up
LEMMA HandlerKeepsEdges ==
    ASSUME AdmissionInv, FirstLife, EdgesTold, NEW c \in Conns, HandlerStep(c), Quiet,
           ~RegisterNode(c), ~ReadNeighbors(c)
    PROVE  EdgesTold'
<1>a. UNCHANGED <<dp, node_ws>> /\ \A d \in Conns : d # c => handler'[d] = handler[d]
  BY HandlerMoves DEF Quiet
<1>b. c = Conn(c[1]) /\ c[1] \in NodeIds /\ OwnsId(c) /\ ~CloseConnection(c)
  BY HandlerIsOpen
<1>c. \A n \in DOMAIN node_ws : node_ws[n] \in Conns /\ n \in NodeIds /\ (node_ws[n] = c => n = c[1])
  BY DEF AdmissionInv, ControlShape
<1>1. /\ UpsertNode(c) \/ handler[c].step \notin {"upsert", "neighbors"}
      /\ UpsertNode(c) => nodes' = nodes \cup {c[1]} /\ handler[c].step = "upsert"
                          /\ handler'[c].step = "neighbors"
      /\ ~UpsertNode(c) => UNCHANGED nodes
  <2>1. CASE UpsertNode(c)
    BY <2>1 DEF UpsertNode, AdmissionInv, ControlShape
  <2>2. CASE ~UpsertNode(c)
    <3>1. handler[c].step \notin {"upsert", "neighbors"}
      BY <1>b, <2>2 DEF HandlerStep, SendAddNode, ReadRoutes, SendRoutes, SendMulticastState,
             NodeTopologyReady, CreateGroup, JoinGroup, LeaveGroup, SetGroupRoutes,
             NotifyGroupRoutes, Reading
    <3>2. UNCHANGED nodes
      BY <1>b, <2>2 DEF HandlerStep, SendAddNode, ReadRoutes, SendRoutes, SendMulticastState,
             NodeTopologyReady, CreateGroup, JoinGroup, LeaveGroup, ChangeMembership,
             SetGroupRoutes, NotifyGroupRoutes, dbVars
    <3> QED
      BY <2>2, <3>1, <3>2
  <2> QED
    BY <2>1, <2>2
<1>2. LookedUp' \subseteq LookedUp
  BY <1>a, <1>c, <1>1 DEF LookedUp
<1>3. /\ nodes' \subseteq NodeIds
      /\ \A n \in DOMAIN node_ws' : handler'[node_ws'[n]].step # "upsert" => n \in nodes'
  BY <1>a, <1>b, <1>c, <1>1 DEF EdgesTold
<1>4. \A a \in LookedUp, b \in NodeIds : Told(a, b) => Told(a, b)'
  <2>1. CASE SendAddNode(c)
    <3>1. PICK m \in handler[c].data : \E ms :
                /\ Delivers(ms) /\ ms[c] = <<[type |-> "AddNode", node |-> m]>>
                /\ \A d \in Conns : d # c => ms[d] = << >>
                /\ GotoWith(c, "adding", handler[c].data \ {m})
      BY <2>1, AddNodeDelivers
    <3>2. PICK ms : /\ Delivers(ms) /\ ms[c] = <<[type |-> "AddNode", node |-> m]>>
                    /\ GotoWith(c, "adding", handler[c].data \ {m})
      BY <3>1
    <3>3. handler'[c].step = "adding" /\ handler'[c].data = handler[c].data \ {m}
      BY <3>2 DEF GotoWith, AdmissionInv, ControlShape
    <3>4. 1 \in DOMAIN ms[c] /\ ms[c][1].type = "AddNode" /\ ms[c][1].node = m
      BY <3>2, OneSeq
    <3>5. ASSUME NEW a \in LookedUp, NEW b \in NodeIds
          PROVE  handler[Conn(a)].step = "adding" /\ b \in handler[Conn(a)].data =>
                    \/ handler'[Conn(a)] = handler[Conn(a)]
                    \/ handler'[Conn(a)].step = "adding" /\ b \in handler'[Conn(a)].data
                    \/ \E i \in DOMAIN ms[Conn(a)] :
                          ms[Conn(a)][i].type = "AddNode" /\ ms[Conn(a)][i].node = b
      <4>1. Conn(a) \in Conns
        BY LookedUpFacts
      <4>2. CASE Conn(a) = c
        BY <3>3, <3>4, <4>2
      <4>3. CASE Conn(a) # c
        BY <1>a, <4>1, <4>3
      <4> QED
        BY <4>2, <4>3
    <3>6. UNCHANGED dp /\ Delivers(ms)
      BY <1>a, <3>2
    <3>7. ASSUME NEW a \in LookedUp, NEW b \in NodeIds, Told(a, b)
          PROVE  Told(a, b)'
      <4>1. a \in NodeIds /\ dp[a].phase # "down"
        BY LookedUpFacts
      <4> HIDE DEF SendAddNode
      <4> QED
        BY <3>5, <3>6, <3>7, <4>1, ToldSent
    <3> QED
      BY <3>7
  <2>2. CASE ~SendAddNode(c)
    <3>1. PICK ms : Delivers(ms)
      BY HandlerDelivers
    <3>2. handler[c].step = "adding" => handler[c].data = {}
      BY <1>b, <2>2 DEF HandlerStep, UpsertNode, ReadRoutes, SendRoutes, SendMulticastState,
             NodeTopologyReady, CreateGroup, JoinGroup, LeaveGroup, SetGroupRoutes,
             NotifyGroupRoutes, Reading
    <3>3. ASSUME NEW a \in LookedUp, NEW b \in NodeIds
          PROVE  handler[Conn(a)].step = "adding" /\ b \in handler[Conn(a)].data =>
                    handler'[Conn(a)] = handler[Conn(a)]
      <4>1. Conn(a) \in Conns
        BY LookedUpFacts
      <4> QED
        BY <1>a, <3>2, <4>1
    <3> QED
      BY <1>a, <3>1, <3>3, LookedUpFacts, ToldSent
  <2> QED
    BY <2>1, <2>2
<1> QED
  BY <1>2, <1>3, <1>4, EdgesStay

\* The second of two neighbours finds the first in the table.
LEMMA LookUpKeepsEdges ==
    ASSUME AdmissionInv, FirstLife, EdgesTold, NEW c \in Conns, ReadNeighbors(c), Quiet
    PROVE  EdgesTold'
<1>a. HandlerStep(c) /\ ~RegisterNode(c) /\ handler[c].step = "neighbors"
  BY DEF HandlerStep, RegisterNode, ReadNeighbors, Reading
<1>b. /\ UNCHANGED <<dp, node_ws, nodes, wire>>
      /\ handler'[c].step = "adding" /\ handler'[c].data = NeighborsOf(c[1]) \cap nodes
      /\ \A d \in Conns : d # c => handler'[d] = handler[d]
  BY DEF ReadNeighbors, Quiet, dbVars, GotoWith, AdmissionInv, ControlShape
<1>c. c = Conn(c[1]) /\ c[1] \in NodeIds /\ OwnsId(c) /\ Conn(c[1])' = c
  BY <1>a, <1>b, HandlerIsOpen DEF Conn
<1>d. \A n \in DOMAIN node_ws : node_ws[n] \in Conns /\ n \in NodeIds /\ (node_ws[n] = c => n = c[1])
  BY DEF AdmissionInv, ControlShape
<1>1. LookedUp' \subseteq LookedUp \cup {c[1]}
  BY <1>b, <1>d DEF LookedUp
<1>2. LookedUp' \subseteq nodes
  BY <1>a, <1>b, <1>d DEF LookedUp, EdgesTold
<1>3. PICK ms : Delivers(ms)
  BY <1>a, HandlerDelivers
<1>4. ASSUME NEW a \in LookedUp, NEW b \in NodeIds, Told(a, b)
      PROVE  Told(a, b)'
  <2>1. /\ a \in NodeIds /\ dp[a].phase # "down" /\ Conn(a) \in Conns
        /\ handler[Conn(a)].step # "neighbors"
    BY LookedUpFacts
  <2>2. handler'[Conn(a)] = handler[Conn(a)]
    BY <1>a, <1>b, <2>1
  <2> QED
    BY <1>3, <1>4, <1>b, <2>1, <2>2, ToldSent
<1>5. \A b \in NeighborsOf(c[1]) \cap nodes : Told(c[1], b)'
  BY <1>b, <1>c DEF Told
<1>6. ASSUME NEW e \in TopologyEdges, e[1] \in LookedUp', e[2] \in LookedUp'
      PROVE  Told(e[1], e[2])' \/ Told(e[2], e[1])'
  <2>1. e[1] \in NeighborsOf(e[2]) /\ e[2] \in NeighborsOf(e[1]) /\ e[1] \in NodeIds /\ e[2] \in NodeIds
    BY NeighborsBothWays
  <2>2. CASE e[1] = c[1]
    BY <1>2, <1>5, <1>6, <2>1, <2>2
  <2>3. CASE e[2] = c[1]
    BY <1>2, <1>5, <1>6, <2>1, <2>3
  <2>4. CASE e[1] # c[1] /\ e[2] # c[1]
    <3>1. Told(e[1], e[2]) \/ Told(e[2], e[1])
      BY <1>1, <1>6, <2>4 DEF EdgesTold
    <3> QED
      BY <1>1, <1>4, <1>6, <2>1, <2>4, <3>1
  <2> QED
    BY <2>2, <2>3, <2>4
<1>7. \A n \in DOMAIN node_ws' : handler'[node_ws'[n]].step # "upsert" => n \in nodes'
  BY <1>a, <1>b, <1>d DEF EdgesTold
<1> QED
  BY <1>6, <1>7, <1>b DEF EdgesTold

\* Steps that leave the handlers alone
LEMMA OthersKeepEdges ==
    ASSUME AdmissionInv, FirstLife, EdgesTold, UNCHANGED <<node_ws, handler, nodes>>,
           \A a \in LookedUp, b \in NodeIds : Told(a, b) => Told(a, b)'
    PROVE  EdgesTold'
<1>1. LookedUp' = LookedUp
  BY DEF LookedUp
<1> QED
  BY <1>1, EdgesStay DEF EdgesTold

LEMMA SendingKeepsEdges ==
    ASSUME AdmissionInv, FirstLife, EdgesTold, UNCHANGED <<node_ws, handler, nodes, dp>>,
           NEW ms, Delivers(ms)
    PROVE  EdgesTold'
<1>1. \A a \in LookedUp, b \in NodeIds : Told(a, b) => Told(a, b)'
  BY LookedUpFacts, ToldSent
<1> QED
  BY <1>1, OthersKeepEdges

\* A node that has taken an AddNode has its peer, and it takes none for the
\* answer to its StartUp.
LEMMA NodeKeepsEdges ==
    ASSUME AdmissionInv, FirstLife, EdgesTold, ConfigurationOrder, NEW n \in NodeIds, NodeStep(n)
    PROVE  EdgesTold'
<1>1. /\ UNCHANGED <<node_ws, handler, nodes>>
      /\ \A m \in NodeIds : m # n => dp'[m] = dp[m]
      /\ \A m \in NodeIds : dp'[m].starts = dp[m].starts
      /\ dp[n].phase # "down" /\ n \in DOMAIN node_ws
      /\ Conn(n) \in Conns /\ wire[Conn(n)] # << >> /\ wire'[Conn(n)] = Tail(wire[Conn(n)])
      /\ \A d \in Conns : d # Conn(n) => wire'[d] = wire[d]
  BY NodeTakes
<1>2. \A m \in NodeIds : Conn(m)' = Conn(m)
  BY <1>1, SameConns
<1>3. /\ dp[n].peers \subseteq dp'[n].peers
      /\ dp[n].phase = "up" /\ Head(wire[Conn(n)]).type = "AddNode" =>
            Head(wire[Conn(n)]).node \in dp'[n].peers
  BY NodeHandles DEF Handled
<1>4. ASSUME NEW a \in LookedUp, NEW b \in NodeIds, Told(a, b)
      PROVE  Told(a, b)'
  <2>1. a \in NodeIds /\ dp[a].phase # "down" /\ Conn(a) \in Conns /\ Answered(a)
    BY LookedUpFacts DEF Answered
  <2>2. CASE a # n
    <3>1. wire'[Conn(a)] = wire[Conn(a)] /\ dp'[a] = dp[a] /\ Conn(a)' = Conn(a)
      BY <1>1, <1>2, <2>1, <2>2, ConnsDiffer
    <3> QED
      BY <1>1, <1>4, <3>1 DEF Told
  <2>3. CASE a = n
    <3> DEFINE v == wire[Conn(n)]
    <3>1. v # << >> /\ wire'[Conn(n)] = Tail(v) /\ IsSequence(v)
      BY <1>1 DEF FirstLife
    <3>2. CASE b \in dp[n].peers
      BY <1>3, <2>3, <3>2 DEF Told
    <3>3. CASE handler[Conn(n)].step = "adding" /\ b \in handler[Conn(n)].data
      BY <1>1, <1>2, <2>3, <3>3 DEF Told
    <3>4. ASSUME NEW i \in DOMAIN v, v[i].type = "AddNode", v[i].node = b
          PROVE  Told(a, b)'
      <4>1. CASE i # 1
        <5>1. i - 1 \in DOMAIN Tail(v) /\ Tail(v)[i - 1] = v[i]
          <6> HIDE DEF v
          <6> QED
            BY <3>1, <3>4, <4>1, TailSeq
        <5> QED
          BY <1>2, <2>3, <3>1, <3>4, <5>1 DEF Told
      <4>2. CASE i = 1
        <5>1. Head(v) = v[1]
          <6> HIDE DEF v
          <6> QED
            BY <3>1, SeqFacts
        <5>2. dp[n].phase # "starting"
          BY <2>1, <2>3, <3>4, <4>2 DEF ConfigurationOrder, Answered
        <5>3. dp[n].phase = "up"
          BY <1>1, <5>2 DEF FirstLife
        <5> QED
          BY <1>3, <2>3, <3>4, <4>2, <5>1, <5>3 DEF Told
      <4> QED
        BY <4>1, <4>2
    <3> QED
      BY <1>4, <2>3, <3>2, <3>3, <3>4 DEF Told
  <2> QED
    BY <2>2, <2>3
<1> QED
  BY <1>1, <1>4, OthersKeepEdges

LEMMA EdgesStep ==
    ASSUME AdmissionInv, FirstLife, EdgesTold, ConfigurationOrder, [Next]_vars, crashes' = 0
    PROVE  EdgesTold'
<1>1. ASSUME NEW c \in Conns, HandlerStep(c), Quiet PROVE EdgesTold'
  BY <1>1, RegisterKeepsEdges, LookUpKeepsEdges, HandlerKeepsEdges
<1>2. CASE (SyncStep \/ CoordinatorStep) /\ Quiet
  BY FirstLifeSeqs, <1>2, TasksStand, SyncDelivers, CoordinatorDelivers, SendingKeepsEdges
<1>3. ASSUME NEW n \in NodeIds, NodeStep(n) PROVE EdgesTold'
  BY <1>3, NodeKeepsEdges
<1>4. ASSUME NEW n \in NodeIds, StartNode(n) PROVE EdgesTold'
  <2>1. /\ UNCHANGED <<node_ws, handler, nodes, wire>> /\ dp[n].phase = "down"
        /\ \A m \in NodeIds : m # n => dp'[m] = dp[m]
    BY <1>4 DEF StartNode, tables, dbVars, AdmissionInv, ControlShape
  <2>2. \A a \in LookedUp : dp'[a] = dp[a] /\ Conn(a)' = Conn(a)
    BY <2>1, LookedUpFacts DEF Conn
  <2>3. \A a \in LookedUp, b \in NodeIds : Told(a, b) => Told(a, b)'
    BY <2>1, <2>2 DEF Told
  <2> QED
    BY <2>1, <2>3, OthersKeepEdges
<1>5. ASSUME NEW n \in NodeIds, NEW m \in NodeIds, AcceptLink(n, m) PROVE EdgesTold'
  <2>1. UNCHANGED <<node_ws, handler, nodes, wire>>
    BY <1>5 DEF AcceptLink, tables, dbVars
  <2>2. \A k \in NodeIds : dp[k].peers \subseteq dp'[k].peers /\ dp'[k].starts = dp[k].starts
    BY <1>5, FreshFields DEF AcceptLink, AdmissionInv, ControlShape
  <2>3. \A k \in NodeIds : Conn(k)' = Conn(k)
    BY <2>2, SameConns
  <2>4. \A a \in LookedUp, b \in NodeIds : Told(a, b) => Told(a, b)'
    BY <2>1, <2>2, <2>3, LookedUpFacts DEF Told
  <2> QED
    BY <2>1, <2>4, OthersKeepEdges
<1>6. CASE \/ \E rs \in RouteChoices : UpdateRoutes(rs) /\ Quiet
           \/ \E f \in LaterFlows : InsertFlow(f) /\ Quiet
           \/ \E r \in Requests : Request(r)
           \/ UNCHANGED vars
  <2>1. UNCHANGED <<dp, wire, node_ws, handler, nodes>>
    BY <1>6 DEF UpdateRoutes, InsertFlow, outsideFrame, Quiet, Request, tables, dbVars, vars,
           controllerVars
  <2>2. \E ms : Delivers(ms)
    BY <2>1, NothingDelivered DEF AdmissionInv, FirstLife, Seqs
  <2> QED
    BY <2>1, <2>2, SendingKeepsEdges
<1>7. ASSUME NEW n \in CanCrash, Crash(n) PROVE FALSE
  BY <1>7, NoCrash
<1> QED
  BY <1>1, <1>2, <1>3, <1>4, <1>5, <1>6, <1>7 DEF Next, SystemStep, OutsideStep

-----------------------------------------------------------------------------
(* Only nodes that are ready count as ready *)

\* What a handler's step does to its inbox and to the coordinator's channel
LEMMA HandlerEvents ==
    ASSUME AdmissionInv, FirstLife, NEW c \in Conns, HandlerStep(c)
    PROVE  /\ UNCHANGED coord
           /\ \A d \in Conns : inbox'[d] = inbox[d] \/ (inbox[d] # << >> /\ inbox'[d] = Tail(inbox[d]))
           /\ \/ UNCHANGED topo_events
              \/ /\ SendMulticastState(c)
                 /\ topo_events' = Append(topo_events, [type |-> "NodeConnected", node |-> c[1]])
              \/ /\ inbox[c] # << >> /\ inbox[c][1].type = "NodeTopologyReady"
                 /\ topo_events' = Append(topo_events, [type |-> "NodeLocallyReady", node |-> c[1]])
<1>a. ~CloseConnection(c) /\ DOMAIN inbox = Conns
  BY HandlerIsOpen DEF AdmissionInv, ControlShape
<1>b. Reading(c) => inbox[c] # << >> /\ Head(inbox[c]) = inbox[c][1]
  BY SeqFacts DEF Reading, FirstLife
<1>1. UNCHANGED coord
  BY <1>a DEF HandlerStep, RegisterNode, UpsertNode, ReadNeighbors, SendAddNode, ReadRoutes,
         SendRoutes, SendMulticastState, NodeTopologyReady, CreateGroup, JoinGroup, LeaveGroup,
         SetGroupRoutes, NotifyGroupRoutes, ChangeMembership
<1>2. UNCHANGED inbox \/ (Reading(c) /\ Consume(c))
  BY <1>a DEF HandlerStep, RegisterNode, UpsertNode, ReadNeighbors, SendAddNode, ReadRoutes,
         SendRoutes, SendMulticastState, NodeTopologyReady, CreateGroup, JoinGroup, LeaveGroup,
         SetGroupRoutes, NotifyGroupRoutes, ChangeMembership
<1>3. \A d \in Conns : inbox'[d] = inbox[d] \/ (inbox[d] # << >> /\ inbox'[d] = Tail(inbox[d]))
  BY <1>a, <1>2 DEF Consume, Reading
<1>4. SendMulticastState(c) =>
         topo_events' = Append(topo_events, [type |-> "NodeConnected", node |-> c[1]])
  BY DEF SendMulticastState
<1>5. ASSUME NodeTopologyReady(c)
      PROVE  /\ inbox[c] # << >> /\ inbox[c][1].type = "NodeTopologyReady"
             /\ topo_events' = Append(topo_events, [type |-> "NodeLocallyReady", node |-> c[1]])
  <2>1. OwnsId(c)
    BY <1>5, HandlerIsOpen DEF HandlerStep, NodeTopologyReady, RegisterNode
  <2>2. handler[c].id = c[1] /\ c[1] # NoNode
    BY <1>5, <2>1, ConnFacts DEF FirstLife, NodeTopologyReady, Reading
  <2> QED
    BY <1>5, <1>b, <2>2 DEF NodeTopologyReady
<1>6. ~SendMulticastState(c) /\ ~NodeTopologyReady(c) => UNCHANGED topo_events
  BY <1>a DEF HandlerStep, RegisterNode, UpsertNode, ReadNeighbors, SendAddNode, ReadRoutes,
         SendRoutes, CreateGroup, JoinGroup, LeaveGroup,
         SetGroupRoutes, NotifyGroupRoutes, ChangeMembership
<1> QED
  BY <1>1, <1>3, <1>4, <1>5, <1>6

\* Reading a message leaves only old ones.
LEMMA TailIsOld ==
    ASSUME NEW s, IsSequence(s), NEW t, t = s \/ (s # << >> /\ t = Tail(s))
    PROVE  IsSequence(t) /\ \A i \in DOMAIN t : \E j \in DOMAIN s : t[i] = s[j]
<1>1. CASE t = s
  BY <1>1
<1>2. CASE s # << >> /\ t = Tail(s)
  <2>1. IsSequence(t) /\ \A i \in DOMAIN t : i + 1 \in DOMAIN s /\ t[i] = s[i + 1]
    BY <1>2, TailSeq
  <2> QED
    BY <2>1
<1> QED
  BY <1>1, <1>2

LEMMA AppendFacts ==
    ASSUME NEW s, IsSequence(s), NEW m
    PROVE  /\ IsSequence(Append(s, m))
           /\ \A i \in DOMAIN Append(s, m) :
                 (i \in DOMAIN s /\ Append(s, m)[i] = s[i]) \/ Append(s, m)[i] = m
           /\ \A i \in DOMAIN s : i \in DOMAIN Append(s, m) /\ Append(s, m)[i] = s[i]
           /\ \E i \in DOMAIN Append(s, m) : Append(s, m)[i] = m
<1>1. Append(s, m) = s \o <<m>> /\ IsSequence(<<m>>) /\ DOMAIN <<m>> = {1} /\ <<m>>[1] = m
  BY AppendSeq, OneSeq
<1> DEFINE t == <<m>>
<1>2. IsSequence(t) /\ DOMAIN t = {1} /\ t[1] = m /\ Append(s, m) = s \o t
  BY <1>1
<1> HIDE DEF t
<1>3. /\ IsSequence(s \o t)
      /\ \A i \in DOMAIN s : i \in DOMAIN (s \o t) /\ (s \o t)[i] = s[i]
  BY <1>2, ConcatSeq
<1>4. \A i \in DOMAIN (s \o t) : i \in DOMAIN s \/ (i - Len(s) \in DOMAIN t /\ (s \o t)[i] = t[i - Len(s)])
  BY <1>2, ConcatSeq
<1>5. \A i \in DOMAIN t : Len(s) + i \in DOMAIN (s \o t) /\ (s \o t)[Len(s) + i] = t[i]
  BY <1>2, ConcatSeq
<1>6. Len(s) + 1 \in DOMAIN (s \o t) /\ (s \o t)[Len(s) + 1] = m
  BY <1>2, <1>5
<1>7. \A i \in DOMAIN (s \o t) : (i \in DOMAIN s /\ (s \o t)[i] = s[i]) \/ (s \o t)[i] = m
  BY <1>2, <1>3, <1>4
<1> QED
  BY <1>2, <1>3, <1>6, <1>7

LEMMA HandlerKeepsReadiness ==
    ASSUME AdmissionInv, FirstLife, ReadinessTrue, NEW c \in Conns, HandlerStep(c), Quiet
    PROVE  ReadinessTrue'
<1>0. \A d \in Conns : inbox'[d] = inbox[d] \/ (inbox[d] # << >> /\ inbox'[d] = Tail(inbox[d]))
  BY HandlerEvents, Zenon
<1>1. UNCHANGED <<dp, coord>>
  BY HandlerEvents DEF Quiet
<1>2. \A d \in Conns : \A i \in DOMAIN inbox'[d] :
         inbox'[d][i].type = "NodeTopologyReady" => dp[d[1]].ready_sent
  <2>1. ASSUME NEW d \in Conns
        PROVE  \A i \in DOMAIN inbox'[d] : \E j \in DOMAIN inbox[d] : inbox'[d][i] = inbox[d][j]
    <3> DEFINE s == inbox[d]
               t == inbox'[d]
    <3>1. t = s \/ (s # << >> /\ t = Tail(s))
      BY <1>0
    <3>2. IsSequence(s)
      BY DEF FirstLife
    <3> HIDE DEF s, t
    <3>3. \A i \in DOMAIN t : \E j \in DOMAIN s : t[i] = s[j]
      BY <3>1, <3>2, TailIsOld
    <3> QED
      BY <3>3 DEF s, t
  <2> QED
    BY <2>1 DEF ReadinessTrue
<1>3. /\ IsSequence(topo_events')
      /\ \A i \in DOMAIN topo_events' : topo_events'[i].type = "NodeLocallyReady" =>
            topo_events'[i].node \in NodeIds /\ dp[topo_events'[i].node].ready_sent
  <2>1. CASE UNCHANGED topo_events
    BY <2>1 DEF ReadinessTrue
  <2>2. CASE \E e : /\ topo_events' = Append(topo_events, e)
                    /\ e.type = "NodeLocallyReady" => e.node \in NodeIds /\ dp[e.node].ready_sent
    <3>1. PICK e : /\ topo_events' = Append(topo_events, e)
                   /\ e.type = "NodeLocallyReady" => e.node \in NodeIds /\ dp[e.node].ready_sent
      BY <2>2
    <3>2. IsSequence(topo_events)
      BY DEF ReadinessTrue
    <3>3. /\ IsSequence(topo_events')
          /\ \A i \in DOMAIN topo_events' :
                (i \in DOMAIN topo_events /\ topo_events'[i] = topo_events[i]) \/ topo_events'[i] = e
      BY <3>1, <3>2, AppendFacts
    <3> QED
      BY <3>1, <3>3 DEF ReadinessTrue
  <2>3. CASE /\ inbox[c] # << >> /\ inbox[c][1].type = "NodeTopologyReady"
             /\ topo_events' = Append(topo_events, [type |-> "NodeLocallyReady", node |-> c[1]])
    <3>0. IsSequence(inbox[c])
      BY DEF FirstLife
    <3>1. 1 \in DOMAIN inbox[c]
      BY <2>3, <3>0, SeqFacts
    <3>2. c[1] \in NodeIds /\ dp[c[1]].ready_sent
      BY <2>3, <3>1, ConnFacts DEF ReadinessTrue
    <3>3. [type |-> "NodeLocallyReady", node |-> c[1]].node = c[1]
      OBVIOUS
    <3> QED
      BY <2>2, <2>3, <3>2, <3>3
  <2>4. CASE topo_events' = Append(topo_events, [type |-> "NodeConnected", node |-> c[1]])
    <3>1. [type |-> "NodeConnected", node |-> c[1]].type # "NodeLocallyReady"
      OBVIOUS
    <3> QED
      BY <2>2, <2>4, <3>1
  <2> QED
    BY <2>1, <2>3, <2>4, HandlerEvents
<1> QED
  BY <1>1, <1>2, <1>3 DEF ReadinessTrue

CoordFields == {"connected", "ready", "dispatched", "ready_sent", "step", "data"}

LEMMA MaybeReady ==
    ASSUME NEW x, DOMAIN x = CoordFields, MaybeBroadcastTopologyReady(x)
    PROVE  /\ DOMAIN coord' = CoordFields
           /\ \A k \in CoordFields : k # "ready_sent" => coord'[k] = x[k]
           /\ coord'.ready_sent => x.ready_sent \/ x.ready = NodeIds
           /\ x.ready_sent => coord'.ready_sent
           /\ x.connected = NodeIds /\ x.ready = NodeIds => coord'.ready_sent
BY DEF MaybeBroadcastTopologyReady, CoordFields

\* What the coordinator does with an event
LEMMA CoordinatorEvents ==
    ASSUME DOMAIN coord = CoordFields, CoordinatorStep
    PROVE  /\ UNCHANGED <<node_ws, handler, inbox, early>>
           /\ DOMAIN coord' = CoordFields
           /\ UNCHANGED topo_events \/ (topo_events # << >> /\ topo_events' = Tail(topo_events))
           /\ coord.ready_sent => coord'.ready_sent
           /\ coord.ready \subseteq coord'.ready
           /\ \/ coord'.ready = coord.ready
              \/ /\ topo_events # << >> /\ Head(topo_events).type = "NodeLocallyReady"
                 /\ coord'.ready = coord.ready \cup {Head(topo_events).node}
           /\ coord'.ready_sent => coord.ready_sent \/ coord'.ready = NodeIds
<1>1. UNCHANGED <<node_ws, handler, inbox, early>>
  BY DEF CoordinatorStep, NodeConnected, NodeLocallyReady, SendLinkRates, SendFlows,
         CheckReadyAfterDispatch, coordFrame, TakeEvent, history
<1>2. UNCHANGED topo_events \/ (topo_events # << >> /\ topo_events' = Tail(topo_events))
  BY DEF CoordinatorStep, NodeConnected, NodeLocallyReady, SendLinkRates, SendFlows,
         CheckReadyAfterDispatch, TakeEvent
<1>3. CASE NodeConnected
  <2> DEFINE joined == [coord EXCEPT !.connected = @ \cup {Head(topo_events).node}]
  <2>1. \/ UNCHANGED coord
        \/ coord' = [joined EXCEPT !.dispatched = TRUE, !.step = "addresses"]
        \/ MaybeBroadcastTopologyReady(joined)
    BY <1>3 DEF NodeConnected
  <2>2. DOMAIN joined = CoordFields /\ joined.ready = coord.ready /\ joined.ready_sent = coord.ready_sent
    BY DEF CoordFields
  <2> HIDE DEF joined
  <2>3. CASE UNCHANGED coord
    BY <1>1, <1>2, <2>3
  <2>4. CASE coord' = [joined EXCEPT !.dispatched = TRUE, !.step = "addresses"]
    BY <1>1, <1>2, <2>2, <2>4 DEF CoordFields
  <2>5. CASE MaybeBroadcastTopologyReady(joined)
    BY <1>1, <1>2, <2>2, <2>5, MaybeReady DEF CoordFields
  <2> QED
    BY <2>1, <2>3, <2>4, <2>5
<1>4. CASE NodeLocallyReady
  <2> DEFINE x == [coord EXCEPT !.ready = @ \cup {Head(topo_events).node}]
  <2>1. MaybeBroadcastTopologyReady(x) /\ topo_events # << >> /\ Head(topo_events).type = "NodeLocallyReady"
    BY <1>4 DEF NodeLocallyReady, TakeEvent
  <2>2. /\ DOMAIN x = CoordFields /\ x.ready = coord.ready \cup {Head(topo_events).node}
        /\ x.ready_sent = coord.ready_sent
    BY DEF CoordFields
  <2> HIDE DEF x
  <2> QED
    BY <1>1, <1>2, <2>1, <2>2, MaybeReady DEF CoordFields
<1>5. CASE SendLinkRates \/ SendFlows
  <2>1. \E s, d : coord' = [coord EXCEPT !.step = s, !.data = d]
    BY <1>5 DEF SendLinkRates, SendFlows
  <2> QED
    BY <1>1, <1>2, <2>1 DEF CoordFields
<1>6. CASE CheckReadyAfterDispatch
  <2> DEFINE x == [coord EXCEPT !.step = "idle"]
  <2>1. MaybeBroadcastTopologyReady(x)
    BY <1>6 DEF CheckReadyAfterDispatch
  <2>2. DOMAIN x = CoordFields /\ x.ready = coord.ready /\ x.ready_sent = coord.ready_sent
    BY DEF CoordFields
  <2> HIDE DEF x
  <2> QED
    BY <1>1, <1>2, <2>1, <2>2, MaybeReady DEF CoordFields
<1> QED
  BY <1>3, <1>4, <1>5, <1>6 DEF CoordinatorStep

LEMMA CoordinatorKeepsReadiness ==
    ASSUME ReadinessTrue, CoordinatorStep, Quiet
    PROVE  ReadinessTrue'
<1>a. DOMAIN coord = CoordFields /\ IsSequence(topo_events)
  BY DEF ReadinessTrue, CoordFields
<1>1. UNCHANGED <<dp, inbox>> /\ DOMAIN coord' = CoordFields
  BY <1>a, CoordinatorEvents DEF Quiet
<1>2. IsSequence(topo_events') /\ \A i \in DOMAIN topo_events' : \E j \in DOMAIN topo_events :
                                     topo_events'[i] = topo_events[j]
  BY <1>a, CoordinatorEvents, TailIsOld
<1>3. topo_events # << >> => 1 \in DOMAIN topo_events /\ Head(topo_events) = topo_events[1]
  BY <1>a, SeqFacts
<1>4. coord'.ready \subseteq NodeIds /\ \A n \in coord'.ready : dp[n].ready_sent
  BY <1>a, <1>3, CoordinatorEvents DEF ReadinessTrue
<1>5. coord'.ready_sent => coord'.ready = NodeIds
  <2>1. /\ coord'.ready_sent => coord.ready_sent \/ coord'.ready = NodeIds
        /\ coord.ready \subseteq coord'.ready
    BY <1>a, CoordinatorEvents
  <2> QED
    BY <1>4, <2>1 DEF ReadinessTrue
<1> QED
  BY <1>1, <1>2, <1>4, <1>5 DEF ReadinessTrue, CoordFields

LEMMA NodeKeepsReadiness ==
    ASSUME AdmissionInv, FirstLife, ReadinessTrue, NEW n \in NodeIds, NodeStep(n)
    PROVE  ReadinessTrue'
<1>1. /\ UNCHANGED <<topo_events, coord>>
      /\ \A m \in NodeIds : m # n => dp'[m] = dp[m]
      /\ dp'[n].phase = "up"
      /\ Conn(n) \in Conns /\ \A d \in Conns : d # Conn(n) => inbox'[d] = inbox[d]
  BY NodeTakes
<1>2. Reports(n) /\ Handled(n) /\ DOMAIN inbox = Conns
  BY NodeHandles DEF AdmissionInv, ControlShape
<1>3. \A m \in NodeIds : dp[m].ready_sent => dp'[m].ready_sent
  BY <1>1, <1>2 DEF Reports
<1>4. dp'[n].ready_sent => dp'[n].routes_installed /\ dp'[n].directory_installed
  BY <1>2 DEF Reports, Handled, ReadinessTrue
<1>5. Conn(n)[1] = n
  BY DEF Conn
<1>6. ASSUME NEW d \in Conns, NEW i \in DOMAIN inbox'[d], inbox'[d][i].type = "NodeTopologyReady"
      PROVE  dp'[d[1]].ready_sent
  <2>a. d[1] \in NodeIds /\ IsSequence(inbox[d])
    BY ConnFacts DEF FirstLife
  <2>1. CASE inbox'[d] = inbox[d]
    BY <1>3, <1>6, <2>1, <2>a DEF ReadinessTrue
  <2>2. CASE inbox'[d] # inbox[d]
    <3>1. d = Conn(n) /\ dp'[n].ready_sent
      BY <1>1, <1>2, <2>2 DEF Reports
    <3> QED
      BY <1>5, <3>1
  <2> QED
    BY <2>1, <2>2
<1>7. \A m \in NodeIds : dp'[m].ready_sent =>
          dp'[m].phase = "up" /\ dp'[m].routes_installed /\ dp'[m].directory_installed
  BY <1>1, <1>4 DEF ReadinessTrue
<1> QED
  BY <1>1, <1>3, <1>6, <1>7 DEF ReadinessTrue

\* Steps of others: no node forgets that it reported, no report comes in.
LEMMA OthersKeepReadiness ==
    ASSUME ReadinessTrue, UNCHANGED <<topo_events, coord>>,
           \A n \in NodeIds : dp[n].ready_sent => dp'[n].ready_sent,
           \A n \in NodeIds : dp'[n].ready_sent =>
              dp'[n].phase = "up" /\ dp'[n].routes_installed /\ dp'[n].directory_installed,
           \A d \in Conns : \A i \in DOMAIN inbox'[d] :
              inbox'[d][i].type = "NodeTopologyReady" => i \in DOMAIN inbox[d] /\ inbox'[d][i] = inbox[d][i]
    PROVE  ReadinessTrue'
<1>1. \A d \in Conns : d[1] \in NodeIds
  BY ConnFacts
<1> QED
  BY <1>1 DEF ReadinessTrue

LEMMA ReadinessStep ==
    ASSUME AdmissionInv, FirstLife, ReadinessTrue, [Next]_vars, crashes' = 0
    PROVE  ReadinessTrue'
<1>1. ASSUME NEW c \in Conns, HandlerStep(c), Quiet PROVE ReadinessTrue'
  BY <1>1, HandlerKeepsReadiness
<1>2. CASE CoordinatorStep /\ Quiet
  BY <1>2, CoordinatorKeepsReadiness
<1>3. ASSUME NEW n \in NodeIds, NodeStep(n) PROVE ReadinessTrue'
  BY <1>3, NodeKeepsReadiness
<1>4. ASSUME NEW n \in NodeIds, StartNode(n) PROVE ReadinessTrue'
  <2>a. ControlShape /\ DOMAIN dp = NodeIds /\ DOMAIN inbox = Conns
    BY DEF AdmissionInv, ControlShape
  <2>1. /\ UNCHANGED <<topo_events, coord>> /\ dp[n].phase = "down"
        /\ \A m \in NodeIds : m # n => dp'[m] = dp[m]
        /\ dp'[n].ready_sent = FALSE
    BY <1>4, <2>a DEF StartNode, tables, Fresh
  <2>2. ASSUME NEW d \in Conns, NEW i \in DOMAIN inbox'[d], inbox'[d][i].type = "NodeTopologyReady"
        PROVE  i \in DOMAIN inbox[d] /\ inbox'[d][i] = inbox[d][i]
    <3>1. inbox'[d] = inbox[d] \/ inbox'[d] = <<[type |-> "StartUp"]>>
      BY <1>4, <2>a DEF StartNode
    <3>2. CASE inbox'[d] = inbox[d]
      BY <2>2, <3>2
    <3>3. CASE inbox'[d] = <<[type |-> "StartUp"]>>
      <4>1. inbox'[d][i].type = "StartUp"
        BY <2>2, <3>3, OneSeq
      <4> QED
        BY <2>2, <4>1
    <3> QED
      BY <3>1, <3>2, <3>3
  <2>3. /\ \A m \in NodeIds : dp[m].ready_sent => dp'[m].ready_sent
        /\ \A m \in NodeIds : dp'[m].ready_sent =>
              dp'[m].phase = "up" /\ dp'[m].routes_installed /\ dp'[m].directory_installed
    BY <2>1 DEF ReadinessTrue
  <2> QED
    BY <2>1, <2>2, <2>3, OthersKeepReadiness
<1>5. ASSUME NEW n \in NodeIds, NEW m \in NodeIds, AcceptLink(n, m) PROVE ReadinessTrue'
  <2>1. UNCHANGED <<topo_events, coord, inbox>>
    BY <1>5 DEF AcceptLink, tables
  <2>2. \A k \in NodeIds : /\ dp'[k].ready_sent = dp[k].ready_sent /\ dp'[k].phase = dp[k].phase
                           /\ dp'[k].routes_installed = dp[k].routes_installed
                           /\ dp'[k].directory_installed = dp[k].directory_installed
    BY <1>5, FreshFields DEF AcceptLink, AdmissionInv, ControlShape
  <2>3. /\ \A k \in NodeIds : dp[k].ready_sent => dp'[k].ready_sent
        /\ \A k \in NodeIds : dp'[k].ready_sent =>
              dp'[k].phase = "up" /\ dp'[k].routes_installed /\ dp'[k].directory_installed
    BY <2>2 DEF ReadinessTrue
  <2> QED
    BY <2>1, <2>3, OthersKeepReadiness
<1>6. CASE UNCHANGED <<topo_events, coord, dp, inbox>>
  <2>1. \A n \in NodeIds : dp'[n].ready_sent =>
              dp'[n].phase = "up" /\ dp'[n].routes_installed /\ dp'[n].directory_installed
    BY <1>6 DEF ReadinessTrue
  <2> QED
    BY <1>6, <2>1, OthersKeepReadiness
<1>7. CASE \/ SyncStep /\ Quiet
           \/ \E rs \in RouteChoices : UpdateRoutes(rs) /\ Quiet
           \/ \E f \in LaterFlows : InsertFlow(f) /\ Quiet
           \/ UNCHANGED vars
  <2>1. UNCHANGED <<topo_events, coord, dp, inbox>>
    BY <1>7 DEF UpdateRoutes, InsertFlow, outsideFrame, Quiet, vars, controllerVars, SyncStep,
           SyncReadRoutes, SyncSendRoutes, SyncReadGroup, SyncSendGroup, SyncFlow, syncFrame
  <2> QED
    BY <1>6, <2>1
<1>8. ASSUME NEW r \in Requests, Request(r) PROVE ReadinessTrue'
  <2>1. UNCHANGED <<topo_events, coord, dp>> /\ r.msg.type # "NodeTopologyReady"
    BY <1>8 DEF Request, tables
  <2>2. ASSUME NEW d \in Conns, NEW i \in DOMAIN inbox'[d], inbox'[d][i].type = "NodeTopologyReady"
        PROVE  i \in DOMAIN inbox[d] /\ inbox'[d][i] = inbox[d][i]
    <3>1. inbox'[d] = inbox[d] \/ inbox'[d] = Append(inbox[d], r.msg)
      BY <1>8, RequestKeepsFirstLife
    <3>2. IsSequence(inbox[d])
      BY DEF FirstLife
    <3>3. CASE inbox'[d] = inbox[d]
      BY <2>2, <3>3
    <3>4. CASE inbox'[d] = Append(inbox[d], r.msg)
      BY <2>1, <2>2, <3>2, <3>4, AppendFacts
    <3> QED
      BY <3>1, <3>3, <3>4
  <2>3. \A n \in NodeIds : dp'[n].ready_sent =>
              dp'[n].phase = "up" /\ dp'[n].routes_installed /\ dp'[n].directory_installed
    BY <2>1 DEF ReadinessTrue
  <2> QED
    BY <2>1, <2>2, <2>3, OthersKeepReadiness
<1>9. ASSUME NEW n \in CanCrash, Crash(n) PROVE FALSE
  BY <1>9, NoCrash
<1> QED
  BY <1>1, <1>2, <1>3, <1>4, <1>5, <1>7, <1>8, <1>9 DEF Next, SystemStep, OutsideStep

-----------------------------------------------------------------------------
(* The edges are wired when TopologyReady is broadcast *)

LEMMA WiringInit == Init => WiringInv
<1> SUFFICES ASSUME Init PROVE FirstLife /\ EdgesTold /\ ConfigurationOrder /\ ReadinessTrue
  BY DEF WiringInv
<1>1. FirstLife
  BY FirstLifeInit
<1>2. DOMAIN node_ws = {} /\ nodes = {} /\ topo_events = << >> /\ \A n \in NodeIds : dp[n] = Fresh(0)
  BY DEF Init, ControllerInit
<1>3. LookedUp = {}
  BY <1>2 DEF LookedUp
<1>4. EdgesTold
  BY <1>2, <1>3 DEF EdgesTold
<1>5. ConfigurationOrder
  BY <1>2 DEF ConfigurationOrder, Fresh
<1>6. \A n \in NodeIds : dp[n].ready_sent = FALSE
  BY <1>2 DEF Fresh
<1>7. \A c \in Conns : inbox[c] = << >>
  BY DEF Init, ControllerInit
<1>8. IsSequence(topo_events) /\ DOMAIN topo_events = {} /\ \A c \in Conns : DOMAIN inbox[c] = {}
  BY <1>2, <1>7, NothingSeq
<1>9. /\ DOMAIN coord = {"connected", "ready", "dispatched", "ready_sent", "step", "data"}
      /\ coord.ready = {} /\ coord.ready_sent = FALSE
  BY DEF Init, ControllerInit
<1>10. ReadinessTrue
  BY <1>6, <1>8, <1>9 DEF ReadinessTrue
<1> QED
  BY <1>1, <1>4, <1>5, <1>10

LEMMA NeverCrashed ==
    ASSUME AdmissionInv, [Next]_vars, crashes' = 0
    PROVE  crashes = 0
<1>1. crashes \in Nat
  BY DEF AdmissionInv, ControlShape
<1>2. UNCHANGED crashes \/ crashes' = crashes + 1
  BY DEF Next, SystemStep, OutsideStep, Quiet, StartNode, NodeStep, TakeResponse, AddNode,
         SetLinkRate, InstallRoutes, AddFlows, TopologyReady, InstallGroupDirectory,
         InstallGroupRoutes, IgnoreMessage, Next1, AcceptLink, Request, Crash, vars
<1> QED
  BY <1>1, <1>2

LEMMA WiringStep ==
    ASSUME AdmissionInv, WiringInv, [Next]_vars
    PROVE  WiringInv'
<1> SUFFICES ASSUME crashes' = 0
             PROVE  (FirstLife /\ EdgesTold /\ ConfigurationOrder /\ ReadinessTrue)'
  BY DEF WiringInv
<1>1. crashes = 0
  BY NeverCrashed
<1>2. FirstLife /\ EdgesTold /\ ConfigurationOrder /\ ReadinessTrue
  BY <1>1 DEF WiringInv
<1> QED
  BY <1>2, FirstLifeStep, EdgesStep, OrderStep, ReadinessStep

\* Until a node crashes: of two neighbours the one looked up second is told to dial
\* the other, routes and directory follow a node's AddNodes unless they were
\* broadcast early, and only configured nodes count as ready (handle_connection,
\* maybe_send_local_topology_ready, new_node_connected).
THEOREM WiringInductive == Spec => [](AdmissionInv /\ WiringInv)
BY AdmissionInit, AdmissionStep, WiringInit, WiringStep, PTL DEF Spec

LEMMA WiredEdges == ASSUME AdmissionInv, WiringInv PROVE EdgesWiredWhenReady
<1> SUFFICES ASSUME coord.ready_sent, crashes = 0
             PROVE  /\ \A e \in TopologyEdges :
                          \/ e[2] \in dp[e[1]].peers \/ e[1] \in dp[e[2]].peers
                          \/ Misled(e[1]) \/ Misled(e[2])
                    /\ \A n \in NodeIds : dp[n].routes_installed /\ dp[n].directory_installed
  BY DEF EdgesWiredWhenReady
<1>a. FirstLife /\ EdgesTold /\ ConfigurationOrder /\ ReadinessTrue
  BY DEF WiringInv
<1>1. \A n \in NodeIds : /\ dp[n].phase = "up" /\ dp[n].routes_installed /\ dp[n].directory_installed
  BY <1>a DEF ReadinessTrue
<1>2. ASSUME NEW n \in NodeIds, ~Misled(n)
      PROVE  n \in Introduced /\ ~OnWire(n, "AddNode")
  <2>1. <<"routes", n>> \notin early \/ <<"directory", n>> \notin early
    BY <1>2 DEF Misled
  <2>2. /\ EndsConfiguration(n, "routes", "InstallRoutes", "routes_installed")
        /\ EndsConfiguration(n, "directory", "InstallGroupDirectory", "directory_installed")
    BY <1>1, <1>a DEF ConfigurationOrder
  <2> QED
    BY <1>1, <2>1, <2>2 DEF EndsConfiguration
<1>3. ASSUME NEW n \in Introduced
      PROVE  /\ n \in LookedUp /\ n \in NodeIds /\ handler[Conn(n)].step # "adding"
  <2>1. n \in DOMAIN node_ws /\ handler[node_ws[n]].step \notin Wiring
    BY DEF Introduced, Unwired, Wiring
  <2>2. node_ws[n] = Conn(n) /\ n \in NodeIds
    BY <1>a, <2>1, OwnerIsConn
  <2> QED
    BY <2>1, <2>2 DEF LookedUp, Wiring
<1>4. ASSUME NEW a \in NodeIds, ~Misled(a), NEW b, Told(a, b)
      PROVE  b \in dp[a].peers
  BY <1>2, <1>3, <1>4 DEF Told, OnWire
<1>5. ASSUME NEW e \in TopologyEdges, ~Misled(e[1]), ~Misled(e[2])
      PROVE  e[2] \in dp[e[1]].peers \/ e[1] \in dp[e[2]].peers
  <2>1. e[1] \in NodeIds /\ e[2] \in NodeIds
    OBVIOUS
  <2>2. e[1] \in LookedUp /\ e[2] \in LookedUp
    BY <1>2, <1>3, <1>5, <2>1
  <2>3. Told(e[1], e[2]) \/ Told(e[2], e[1])
    BY <1>a, <2>2 DEF EdgesTold
  <2> QED
    BY <1>4, <1>5, <2>1, <2>3
<1> QED
  BY <1>1, <1>5

\* For every topology, every interleaving of the registrations and every
\* request or table change in between: when TopologyReady is broadcast and no
\* node has crashed, every node has its routes and its directory and every edge
\* was dialled by one of its ends, except at nodes that both broadcasts reached
\* before their AddNodes.
THEOREM EdgesAlwaysWired == Spec => []EdgesWiredWhenReady
BY WiringInductive, WiredEdges, PTL

-----------------------------------------------------------------------------
(* What a node needs stays ahead of it until it has been handled *)

LEMMA ComesDelivered ==
    ASSUME AdmissionInv, FirstLife, NEW ms, Delivers(ms), UNCHANGED dp,
           NEW n \in NodeIds, dp[n].phase # "down", NEW type
    PROVE  /\ Comes(n, type) => Comes(n, type)'
           /\ \A i \in DOMAIN ms[Conn(n)] :
                 /\ ms[Conn(n)][i].type = type
                 /\ dp[n].phase = "starting" => wire[Conn(n)] # << >>
                 => Comes(n, type)'
<1> DEFINE v == wire[Conn(n)]
           m == ms[Conn(n)]
           w == wire'[Conn(n)]
<1>1. Conn(n) \in Conns /\ Conn(n)' = Conn(n)
  BY OwnerIsConn DEF Conn
<1>2. IsSequence(v) /\ IsSequence(m) /\ w = v \o m
  BY <1>1 DEF FirstLife, Delivers
<1>3. Comes(n, type)' <=> \E i \in DOMAIN w : w[i].type = type /\ (dp[n].phase = "starting" => i # 1)
  BY <1>1 DEF Comes
<1>4. Comes(n, type) <=> \E i \in DOMAIN v : v[i].type = type /\ (dp[n].phase = "starting" => i # 1)
  BY DEF Comes
<1> HIDE DEF v, m, w
<1>5. \A i \in DOMAIN v : i \in DOMAIN w /\ w[i] = v[i]
  BY <1>2, ConcatSeq
<1>6. \A i \in DOMAIN m : Len(v) + i \in DOMAIN w /\ w[Len(v) + i] = m[i]
  BY <1>2, ConcatSeq
<1>7. /\ Len(v) \in Nat /\ (v # << >> => Len(v) # 0)
      /\ DOMAIN m = 1 .. Len(m) /\ Len(m) \in Nat
  BY <1>2, SeqFacts
<1>8. \A i \in DOMAIN m : v # << >> => Len(v) + i # 1
  BY <1>7
<1>9. Comes(n, type) => Comes(n, type)'
  BY <1>3, <1>4, <1>5
<1>10. ASSUME NEW i \in DOMAIN m, m[i].type = type, dp[n].phase = "starting" => v # << >>
       PROVE  Comes(n, type)'
  BY <1>3, <1>6, <1>8, <1>10
<1> QED
  BY <1>9, <1>10 DEF v, m

\* Reading brings the message forward or handles it.
LEMMA ComesTaken ==
    ASSUME AdmissionInv, FirstLife, NEW n \in NodeIds, NodeStep(n), NEW type, Comes(n, type)
    PROVE  Comes(n, type)' \/ (dp[n].phase = "up" /\ Head(wire[Conn(n)]).type = type)
<1> DEFINE v == wire[Conn(n)]
           w == wire'[Conn(n)]
<1>1. /\ Conn(n) \in Conns /\ v # << >> /\ w = Tail(v)
      /\ \A m \in NodeIds : dp'[m].starts = dp[m].starts
      /\ dp'[n].phase = "up" /\ dp[n].phase # "down"
  BY NodeTakes
<1>2. Conn(n)' = Conn(n) /\ IsSequence(v)
  BY <1>1, SameConns DEF FirstLife
<1>3. dp[n].phase \in {"starting", "up"}
  BY <1>1 DEF FirstLife
<1>4. PICK i \in DOMAIN v : v[i].type = type /\ (dp[n].phase = "starting" => i # 1)
  BY DEF Comes
<1>5. (\E j \in DOMAIN w : w[j].type = type) => Comes(n, type)'
  BY <1>1, <1>2 DEF Comes
<1>6. v # << >> /\ w = Tail(v)
  BY <1>1
<1>7. Head(wire[Conn(n)]) = Head(v)
  OBVIOUS
<1> HIDE DEF v, w
<1>8. CASE i = 1
  <2>1. Head(v) = v[1]
    BY <1>2, <1>6, SeqFacts
  <2> QED
    BY <1>3, <1>4, <1>7, <1>8, <2>1
<1>9. CASE i # 1
  <2>1. i - 1 \in DOMAIN w /\ w[i - 1] = v[i]
    BY <1>2, <1>6, <1>9, TailSeq
  <2> QED
    BY <1>4, <1>5, <2>1
<1> QED
  BY <1>8, <1>9

Needs == {<<"InstallRoutes", "routes_installed">>, <<"InstallGroupDirectory", "directory_installed">>,
          <<"TopologyReady", "topology_ready">>}

LEMMA AheadKept ==
    ASSUME AdmissionInv, FirstLife, [Next]_vars, crashes' = 0,
           NEW n \in NodeIds, dp[n].phase # "down", NEW type, NEW done, <<type, done>> \in Needs,
           Ahead(n, type, done)
    PROVE  Ahead(n, type, done)'
<1>a. done \in {"routes_installed", "directory_installed", "topology_ready"}
  BY DEF Needs
<1>1. ASSUME NEW ms, InOrder(ms) PROVE Ahead(n, type, done)'
  <2>1. Delivers(ms) /\ UNCHANGED dp
    BY <1>1 DEF InOrder
  <2>2. Comes(n, type) => Comes(n, type)'
    BY <2>1, ComesDelivered
  <2> QED
    BY <2>1, <2>2 DEF Ahead
<1>2. ASSUME NodeStep(n) PROVE Ahead(n, type, done)'
  <2>1. dp[n][done] => dp'[n][done]
    BY <1>2, <1>a, NodeHandles DEF Handled
  <2>2. dp[n].phase = "up" /\ Head(wire[Conn(n)]).type = type => dp'[n][done]
    BY <1>2, NodeHandles DEF Handled, Needs
  <2>3. Comes(n, type) => Comes(n, type)' \/ (dp[n].phase = "up" /\ Head(wire[Conn(n)]).type = type)
    BY <1>2, ComesTaken
  <2> QED
    BY <2>1, <2>2, <2>3 DEF Ahead
<1>3. ASSUME wire'[Conn(n)] = wire[Conn(n)], dp'[n].phase = dp[n].phase, dp'[n].starts = dp[n].starts,
             dp'[n][done] = dp[n][done]
      PROVE  Ahead(n, type, done)'
  <2>1. Conn(n)' = Conn(n)
    BY <1>3 DEF Conn
  <2> QED
    BY <1>3, <2>1 DEF Ahead, Comes
<1>4. ASSUME NEW m \in NodeIds, m # n, NodeStep(m) PROVE Ahead(n, type, done)'
  <2>1. dp'[n] = dp[n] /\ \A d \in Conns : d # Conn(m) => wire'[d] = wire[d]
    BY <1>4, NodeTakes
  <2>2. wire'[Conn(n)] = wire[Conn(n)]
    BY <1>4, <2>1, OwnerIsConn, ConnsDiffer
  <2> QED
    BY <1>3, <2>1, <2>2
<1>5. ASSUME NEW m \in NodeIds, StartNode(m) PROVE Ahead(n, type, done)'
  <2>1. dp'[n] = dp[n] /\ UNCHANGED wire
    BY <1>5 DEF StartNode, AdmissionInv, ControlShape
  <2> QED
    BY <1>3, <2>1
<1>6. ASSUME NEW m \in NodeIds, NEW k \in NodeIds, AcceptLink(m, k) PROVE Ahead(n, type, done)'
  <2>1. /\ dp'[n].phase = dp[n].phase /\ dp'[n].starts = dp[n].starts /\ UNCHANGED wire
        /\ dp'[n].routes_installed = dp[n].routes_installed
        /\ dp'[n].directory_installed = dp[n].directory_installed
        /\ dp'[n].topology_ready = dp[n].topology_ready
    BY <1>6, FreshFields DEF AcceptLink, AdmissionInv, ControlShape
  <2> QED
    BY <1>3, <1>a, <2>1
<1> QED
  BY <1>1, <1>2, <1>4, <1>5, <1>6, StepKinds

-----------------------------------------------------------------------------
(* The coordinator hears of every node *)

LEMMA CoordinatorTakes ==
    ASSUME DOMAIN coord = CoordFields, CoordinatorStep
    PROVE  /\ coord.connected \subseteq coord'.connected
           /\ \/ coord'.connected = coord.connected
              \/ /\ topo_events # << >> /\ Head(topo_events).type = "NodeConnected"
                 /\ coord'.connected = coord.connected \cup {Head(topo_events).node}
           /\ \/ UNCHANGED topo_events
              \/ /\ topo_events' = Tail(topo_events) /\ topo_events # << >>
                 /\ Head(topo_events).type = "NodeConnected" =>
                       Head(topo_events).node \in coord'.connected
                 /\ Head(topo_events).type = "NodeLocallyReady" =>
                       Head(topo_events).node \in coord'.ready
           /\ \/ UNCHANGED coord
              \/ coord'.step # "idle"
              \/ coord'.connected = NodeIds /\ coord'.ready = NodeIds => coord'.ready_sent
<1>1. CASE NodeConnected
  <2> DEFINE h == Head(topo_events).node
             joined == [coord EXCEPT !.connected = @ \cup {h}]
  <2>1. /\ topo_events' = Tail(topo_events) /\ topo_events # << >>
        /\ Head(topo_events).type = "NodeConnected"
        /\ \/ UNCHANGED coord /\ h \in coord.connected
           \/ coord' = [joined EXCEPT !.dispatched = TRUE, !.step = "addresses"]
           \/ MaybeBroadcastTopologyReady(joined)
    BY <1>1 DEF NodeConnected, TakeEvent
  <2>2. DOMAIN joined = CoordFields /\ joined.connected = coord.connected \cup {h}
    BY DEF CoordFields
  <2> HIDE DEF joined, h
  <2>3. CASE UNCHANGED coord /\ h \in coord.connected
    BY <2>1, <2>3 DEF h
  <2>4. CASE coord' = [joined EXCEPT !.dispatched = TRUE, !.step = "addresses"]
    BY <2>1, <2>2, <2>4 DEF h, CoordFields
  <2>5. CASE MaybeBroadcastTopologyReady(joined)
    BY <2>1, <2>2, <2>5, MaybeReady DEF h, CoordFields
  <2> QED
    BY <2>1, <2>3, <2>4, <2>5
<1>2. CASE NodeLocallyReady
  <2> DEFINE h == Head(topo_events).node
             x == [coord EXCEPT !.ready = @ \cup {h}]
  <2>1. /\ topo_events' = Tail(topo_events) /\ topo_events # << >>
        /\ Head(topo_events).type = "NodeLocallyReady" /\ MaybeBroadcastTopologyReady(x)
    BY <1>2 DEF NodeLocallyReady, TakeEvent
  <2>2. DOMAIN x = CoordFields /\ x.connected = coord.connected /\ x.ready = coord.ready \cup {h}
    BY DEF CoordFields
  <2> HIDE DEF x, h
  <2> QED
    BY <2>1, <2>2, MaybeReady DEF h, CoordFields
<1>3. CASE SendLinkRates \/ SendFlows
  <2>1. UNCHANGED topo_events /\ \E s, d : s # "idle" /\ coord' = [coord EXCEPT !.step = s, !.data = d]
    BY <1>3 DEF SendLinkRates, SendFlows
  <2> QED
    BY <2>1 DEF CoordFields
<1>4. CASE CheckReadyAfterDispatch
  <2> DEFINE x == [coord EXCEPT !.step = "idle"]
  <2>1. MaybeBroadcastTopologyReady(x) /\ UNCHANGED topo_events
    BY <1>4 DEF CheckReadyAfterDispatch
  <2>2. DOMAIN x = CoordFields /\ x.connected = coord.connected /\ x.ready = coord.ready
    BY DEF CoordFields
  <2> HIDE DEF x
  <2> QED
    BY <2>1, <2>2, MaybeReady DEF CoordFields
<1> QED
  BY <1>1, <1>2, <1>3, <1>4 DEF CoordinatorStep

\* An event stays in the channel until it has been counted.
LEMMA EventTaken ==
    ASSUME ReadinessTrue, CoordinatorStep, NEW type, NEW n,
           \E i \in DOMAIN topo_events : Announces(i, type, n)
    PROVE  \/ (\E i \in DOMAIN topo_events : Announces(i, type, n))'
           \/ /\ topo_events # << >> /\ topo_events' = Tail(topo_events)
              /\ Head(topo_events).type = type /\ Head(topo_events).node = n
<1>a. DOMAIN coord = CoordFields /\ IsSequence(topo_events)
  BY DEF ReadinessTrue, CoordFields
<1>1. PICK i \in DOMAIN topo_events : topo_events[i].type = type /\ topo_events[i].node = n
  BY DEF Announces
<1>2. UNCHANGED topo_events \/ (topo_events # << >> /\ topo_events' = Tail(topo_events))
  BY <1>a, CoordinatorEvents
<1>3. CASE UNCHANGED topo_events
  BY <1>1, <1>3 DEF Announces
<1>4. CASE topo_events # << >> /\ topo_events' = Tail(topo_events)
  <2>1. CASE i = 1
    BY <1>1, <1>4, <1>a, <2>1, SeqFacts
  <2>2. CASE i # 1
    <3>1. i - 1 \in DOMAIN topo_events' /\ topo_events'[i - 1] = topo_events[i]
      BY <1>1, <1>4, <1>a, <2>2, TailSeq
    <3> QED
      BY <1>1, <3>1 DEF Announces
  <2> QED
    BY <2>1, <2>2
<1> QED
  BY <1>2, <1>3, <1>4

\* and the channel only grows otherwise.
LEMMA EventStays ==
    ASSUME ReadinessTrue, NEW e, topo_events' = Append(topo_events, e), NEW type, NEW n
    PROVE  /\ (\E i \in DOMAIN topo_events : Announces(i, type, n)) =>
                 (\E i \in DOMAIN topo_events : Announces(i, type, n))'
           /\ e.type = type /\ e.node = n => (\E i \in DOMAIN topo_events : Announces(i, type, n))'
<1>1. IsSequence(topo_events)
  BY DEF ReadinessTrue
<1>2. /\ \A i \in DOMAIN topo_events : i \in DOMAIN topo_events' /\ topo_events'[i] = topo_events[i]
      /\ \E i \in DOMAIN topo_events' : topo_events'[i] = e
  BY <1>1, AppendFacts
<1> QED
  BY <1>2 DEF Announces

\* Everybody but handlers and coordinator leaves channel and counts alone.
LEMMA EventsElsewhere ==
    ASSUME AdmissionInv, FirstLife, [Next]_vars, crashes' = 0
    PROVE  \/ \E c \in Conns : HandlerStep(c) /\ Quiet
           \/ CoordinatorStep /\ Quiet
           \/ /\ UNCHANGED <<topo_events, coord>>
              /\ \/ UNCHANGED <<dp, inbox>>
                 \/ \E r \in Requests : Request(r)
                 \/ \E n \in NodeIds : NodeStep(n) \/ StartNode(n)
                 \/ \E n, m \in NodeIds : AcceptLink(n, m)
<1>1. ASSUME NEW n \in NodeIds, NodeStep(n) PROVE UNCHANGED <<topo_events, coord>>
  BY <1>1, NodeTakes
<1>2. ASSUME NEW n \in NodeIds, StartNode(n) PROVE UNCHANGED <<topo_events, coord>>
  BY <1>2 DEF StartNode, tables
<1>3. ASSUME NEW n \in NodeIds, NEW m \in NodeIds, AcceptLink(n, m)
      PROVE UNCHANGED <<topo_events, coord>>
  BY <1>3 DEF AcceptLink, tables
<1>4. ASSUME NEW r \in Requests, Request(r) PROVE UNCHANGED <<topo_events, coord>>
  BY <1>4 DEF Request, tables
<1>5. CASE \/ SyncStep /\ Quiet
           \/ \E rs \in RouteChoices : UpdateRoutes(rs) /\ Quiet
           \/ \E f \in LaterFlows : InsertFlow(f) /\ Quiet
           \/ UNCHANGED vars
  BY <1>5 DEF UpdateRoutes, InsertFlow, outsideFrame, Quiet, vars, controllerVars, SyncStep,
         SyncReadRoutes, SyncSendRoutes, SyncReadGroup, SyncSendGroup, SyncFlow, syncFrame
<1>6. ASSUME NEW n \in CanCrash, Crash(n) PROVE FALSE
  BY <1>6, NoCrash
<1> QED
  BY <1>1, <1>2, <1>3, <1>4, <1>5, <1>6 DEF Next, SystemStep, OutsideStep

LEMMA TailDiffers ==
    ASSUME NEW s, IsSequence(s), s # << >>
    PROVE  Tail(s) # s
<1>1. Len(Tail(s)) = Len(s) - 1
  BY TailSeq
<1>2. Len(s) \in Nat
  BY SeqFacts
<1> SUFFICES ASSUME Tail(s) = s PROVE FALSE
  OBVIOUS
<1>3. Len(Tail(s)) = Len(s)
  OBVIOUS
<1> QED
  BY <1>1, <1>2, <1>3

LEMMA CountedKept ==
    ASSUME AdmissionInv, FirstLife, ReadinessTrue, [Next]_vars, crashes' = 0, NEW n, Counted(n)
    PROVE  Counted(n)'
<1>a. DOMAIN coord = CoordFields
  BY DEF ReadinessTrue, CoordFields
<1>1. ASSUME NEW c \in Conns, HandlerStep(c) PROVE Counted(n)'
  <2>1. UNCHANGED coord /\ (UNCHANGED topo_events \/ \E e : topo_events' = Append(topo_events, e))
    BY <1>1, HandlerEvents
  <2>2. CASE UNCHANGED topo_events
    BY <2>1, <2>2 DEF Counted, Announces
  <2>3. CASE \E e : topo_events' = Append(topo_events, e)
    BY <2>1, <2>3, EventStays DEF Counted
  <2> QED
    BY <2>1, <2>2, <2>3
<1>2. ASSUME CoordinatorStep PROVE Counted(n)'
  <2>1. CASE n \in coord.connected
    BY <1>2, <1>a, <2>1, CoordinatorTakes DEF Counted
  <2>2. CASE \E i \in DOMAIN topo_events : Announces(i, "NodeConnected", n)
    <3>1. CASE (\E i \in DOMAIN topo_events : Announces(i, "NodeConnected", n))'
      BY <3>1 DEF Counted
    <3>2. CASE /\ topo_events # << >> /\ topo_events' = Tail(topo_events)
               /\ Head(topo_events).type = "NodeConnected" /\ Head(topo_events).node = n
      <4>1. topo_events' # topo_events
        BY <3>2, TailDiffers DEF ReadinessTrue
      <4> QED
        BY <1>2, <1>a, <3>2, <4>1, CoordinatorTakes DEF Counted
    <3> QED
      BY <1>2, <2>2, <3>1, <3>2, EventTaken
  <2> QED
    BY <2>1, <2>2 DEF Counted
<1>3. CASE UNCHANGED <<topo_events, coord>>
  BY <1>3 DEF Counted, Announces
<1> QED
  BY <1>1, <1>2, <1>3, EventsElsewhere

\* A report stays where it is or moves on, from the inbox to the channel to the
\* count.
LEMMA HandlerConsumes ==
    ASSUME AdmissionInv, FirstLife, NEW c \in Conns, HandlerStep(c)
    PROVE  /\ \A d \in Conns : d # c => inbox'[d] = inbox[d]
           /\ \/ inbox'[c] = inbox[c]
              \/ /\ inbox[c] # << >> /\ inbox'[c] = Tail(inbox[c])
                 /\ inbox[c][1].type = "NodeTopologyReady" =>
                       topo_events' = Append(topo_events, [type |-> "NodeLocallyReady", node |-> c[1]])
<1>a. /\ DOMAIN inbox = Conns /\ IsSequence(inbox[c])
      /\ inbox[c] # << >> => Head(inbox[c]) = inbox[c][1]
  BY SeqFacts DEF AdmissionInv, ControlShape, FirstLife
<1>1. CASE \/ UpsertNode(c) \/ ReadNeighbors(c) \/ SendAddNode(c) \/ ReadRoutes(c) \/ SendRoutes(c)
           \/ SendMulticastState(c) \/ NotifyGroupRoutes(c) \/ CloseConnection(c)
  BY <1>1 DEF UpsertNode, ReadNeighbors, SendAddNode, ReadRoutes, SendRoutes, SendMulticastState,
         NotifyGroupRoutes, CloseConnection
<1>2. CASE \/ RegisterNode(c) \/ CreateGroup(c) \/ JoinGroup(c) \/ LeaveGroup(c) \/ SetGroupRoutes(c)
  <2>1. /\ inbox' = [inbox EXCEPT ![c] = Tail(@)] /\ inbox[c] # << >>
        /\ Head(inbox[c]).type # "NodeTopologyReady"
    BY <1>2 DEF RegisterNode, CreateGroup, JoinGroup, LeaveGroup, SetGroupRoutes, ChangeMembership,
           Consume, Reading
  <2> QED
    BY <1>a, <2>1
<1>3. CASE NodeTopologyReady(c)
  <2>1. /\ inbox' = [inbox EXCEPT ![c] = Tail(@)] /\ inbox[c] # << >> /\ handler[c].step = "idle"
        /\ topo_events' = IF handler[c].id = NoNode THEN topo_events
                          ELSE Append(topo_events, [type |-> "NodeLocallyReady", node |-> handler[c].id])
    BY <1>3 DEF NodeTopologyReady, Consume, Reading
  <2>2. OwnsId(c)
    <3>1. RegisterNode(c) \/ OwnsId(c)
      BY HandlerIsOpen
    <3>2. ~RegisterNode(c)
      BY <1>3 DEF RegisterNode, NodeTopologyReady
    <3> QED
      BY <3>1, <3>2
  <2>3. handler[c].id = c[1] /\ c[1] # NoNode
    BY <2>1, <2>2, ConnFacts DEF FirstLife
  <2> QED
    BY <1>a, <2>1, <2>3
<1> QED
  BY <1>1, <1>2, <1>3 DEF HandlerStep

LEMMA ReportedKept ==
    ASSUME AdmissionInv, FirstLife, ReadinessTrue, [Next]_vars, crashes' = 0,
           NEW n \in NodeIds, dp[n].phase # "down", Reported(n)
    PROVE  Reported(n)'
<1>a. /\ DOMAIN coord = CoordFields /\ IsSequence(topo_events)
      /\ Conn(n) \in Conns /\ Conn(n)[1] = n /\ DOMAIN inbox = Conns /\ IsSequence(inbox[Conn(n)])
  BY OwnerIsConn DEF ReadinessTrue, CoordFields, AdmissionInv, ControlShape, FirstLife
<1>b. ASSUME dp'[n].starts = dp[n].starts PROVE Conn(n)' = Conn(n)
  BY <1>b DEF Conn
<1>c. ASSUME dp'[n].starts = dp[n].starts, UNCHANGED <<topo_events, coord>>,
             \/ inbox'[Conn(n)] = inbox[Conn(n)]
             \/ \E m : inbox'[Conn(n)] = Append(inbox[Conn(n)], m)
      PROVE  Reported(n)'
  <2>1. \A i \in DOMAIN inbox[Conn(n)] :
           i \in DOMAIN inbox'[Conn(n)] /\ inbox'[Conn(n)][i] = inbox[Conn(n)][i]
    BY <1>c, <1>a, AppendFacts
  <2> QED
    BY <1>b, <1>c, <2>1 DEF Reported, Announces
<1>1. ASSUME NEW c \in Conns, HandlerStep(c), Quiet PROVE Reported(n)'
  <2>a. Conn(n)' = Conn(n)
    BY <1>1, <1>b DEF Quiet
  <2>b. UNCHANGED coord
    BY <1>1, HandlerEvents
  <2>1. CASE n \in coord.ready
    BY <2>1, <2>b DEF Reported
  <2>2. CASE \E i \in DOMAIN topo_events : Announces(i, "NodeLocallyReady", n)
    <3>1. UNCHANGED topo_events \/ \E e : topo_events' = Append(topo_events, e)
      BY <1>1, HandlerEvents
    <3>2. CASE UNCHANGED topo_events
      BY <2>2, <3>2 DEF Reported, Announces
    <3>3. CASE \E e : topo_events' = Append(topo_events, e)
      BY <2>2, <3>3, EventStays DEF Reported
    <3> QED
      BY <3>1, <3>2, <3>3
  <2>3. CASE \E i \in DOMAIN inbox[Conn(n)] : inbox[Conn(n)][i].type = "NodeTopologyReady"
    <3>1. PICK i \in DOMAIN inbox[Conn(n)] : inbox[Conn(n)][i].type = "NodeTopologyReady"
      BY <2>3
    <3>2. CASE inbox'[Conn(n)] = inbox[Conn(n)]
      BY <2>a, <3>1, <3>2 DEF Reported
    <3>3. CASE inbox'[Conn(n)] # inbox[Conn(n)]
      <4>1. /\ Conn(n) = c /\ inbox[c] # << >> /\ inbox'[c] = Tail(inbox[c])
            /\ inbox[c][1].type = "NodeTopologyReady" =>
                  topo_events' = Append(topo_events, [type |-> "NodeLocallyReady", node |-> c[1]])
        BY <1>1, <1>a, <3>3, HandlerConsumes
      <4>2. CASE i = 1
        <5>1. topo_events' = Append(topo_events, [type |-> "NodeLocallyReady", node |-> n])
          BY <1>a, <3>1, <4>1, <4>2
        <5>2. (\E j \in DOMAIN topo_events : Announces(j, "NodeLocallyReady", n))'
          BY <5>1, EventStays
        <5> QED
          BY <5>2 DEF Reported
      <4>3. CASE i # 1
        <5>1. i - 1 \in DOMAIN Tail(inbox[c]) /\ Tail(inbox[c])[i - 1] = inbox[c][i]
          BY <1>a, <3>1, <4>1, <4>3, TailSeq
        <5> QED
          BY <2>a, <3>1, <4>1, <5>1 DEF Reported
      <4> QED
        BY <4>2, <4>3
    <3> QED
      BY <3>2, <3>3
  <2> QED
    BY <2>1, <2>2, <2>3 DEF Reported
<1>2. ASSUME CoordinatorStep, Quiet PROVE Reported(n)'
  <2>a. Conn(n)' = Conn(n) /\ UNCHANGED inbox
    BY <1>2, <1>a, <1>b, CoordinatorEvents DEF Quiet
  <2>1. CASE n \in coord.ready
    BY <1>2, <1>a, <2>1, CoordinatorEvents DEF Reported
  <2>2. CASE \E i \in DOMAIN topo_events : Announces(i, "NodeLocallyReady", n)
    <3>1. CASE (\E i \in DOMAIN topo_events : Announces(i, "NodeLocallyReady", n))'
      BY <3>1 DEF Reported
    <3>2. CASE /\ topo_events # << >> /\ topo_events' = Tail(topo_events)
               /\ Head(topo_events).type = "NodeLocallyReady" /\ Head(topo_events).node = n
      <4>1. topo_events' # topo_events
        BY <1>a, <3>2, TailDiffers
      <4> QED
        BY <1>2, <1>a, <3>2, <4>1, CoordinatorTakes DEF Reported
    <3> QED
      BY <1>2, <2>2, <3>1, <3>2, EventTaken
  <2>3. CASE \E i \in DOMAIN inbox[Conn(n)] : inbox[Conn(n)][i].type = "NodeTopologyReady"
    BY <2>a, <2>3 DEF Reported
  <2> QED
    BY <2>1, <2>2, <2>3 DEF Reported
<1>3. ASSUME UNCHANGED <<topo_events, coord, dp, inbox>> PROVE Reported(n)'
  BY <1>3, <1>c
<1>4. ASSUME UNCHANGED <<topo_events, coord>>, NEW r \in Requests, Request(r) PROVE Reported(n)'
  <2>1. UNCHANGED dp
    BY <1>4 DEF Request
  <2> QED
    BY <1>4, <1>c, <1>a, <2>1, RequestKeepsFirstLife
<1>5. ASSUME UNCHANGED <<topo_events, coord>>, NEW m \in NodeIds, NodeStep(m) PROVE Reported(n)'
  <2>1. dp'[n].starts = dp[n].starts
    BY <1>5, NodeTakes
  <2> QED
    BY <1>5, <1>c, <1>a, <2>1, NodeTakes
<1>6. ASSUME UNCHANGED <<topo_events, coord>>, NEW m \in NodeIds, StartNode(m) PROVE Reported(n)'
  <2>1. m # n /\ inbox' = [inbox EXCEPT ![<<m, dp[m].starts + 1>>] = <<[type |-> "StartUp"]>>]
    BY <1>6 DEF StartNode
  <2>2. dp'[n] = dp[n]
    BY <1>6, <2>1 DEF StartNode, AdmissionInv, ControlShape
  <2>3. Conn(n) # <<m, dp[m].starts + 1>>
    BY <1>a, <2>1
  <2>4. inbox'[Conn(n)] = inbox[Conn(n)]
    BY <1>a, <2>1, <2>3
  <2> QED
    BY <1>6, <1>c, <2>2, <2>4
<1>7. ASSUME UNCHANGED <<topo_events, coord>>, NEW a \in NodeIds, NEW b \in NodeIds, AcceptLink(a, b)
      PROVE  Reported(n)'
  <2>1. dp'[n].starts = dp[n].starts /\ UNCHANGED inbox
    BY <1>7, FreshFields DEF AcceptLink, AdmissionInv, ControlShape
  <2> QED
    BY <1>7, <1>c, <2>1
<1> QED
  BY <1>1, <1>2, <1>3, <1>4, <1>5, <1>6, <1>7, EventsElsewhere

-----------------------------------------------------------------------------
(* Every registered node is sent all it needs *)

LEMMA SameConn ==
    ASSUME AdmissionInv, FirstLife, [Next]_vars, crashes' = 0, NEW n \in NodeIds, dp[n].phase # "down"
    PROVE  dp'[n].starts = dp[n].starts /\ dp'[n].phase # "down" /\ Conn(n)' = Conn(n)
<1>a. DOMAIN dp = NodeIds /\ DOMAIN dp[n] = DOMAIN Fresh(0)
  BY DEF AdmissionInv, ControlShape
<1>1. ASSUME NEW ms, InOrder(ms) PROVE dp'[n].starts = dp[n].starts /\ dp'[n].phase # "down"
  BY <1>1 DEF InOrder
<1>2. ASSUME NEW m \in NodeIds, NodeStep(m) PROVE dp'[n].starts = dp[n].starts /\ dp'[n].phase # "down"
  BY <1>2, NodeTakes
<1>3. ASSUME NEW m \in NodeIds, StartNode(m) PROVE dp'[n].starts = dp[n].starts /\ dp'[n].phase # "down"
  BY <1>3, <1>a DEF StartNode
<1>4. ASSUME NEW a \in NodeIds, NEW b \in NodeIds, AcceptLink(a, b)
      PROVE  dp'[n].starts = dp[n].starts /\ dp'[n].phase # "down"
  BY <1>4, <1>a, FreshFields DEF AcceptLink
<1>5. dp'[n].starts = dp[n].starts /\ dp'[n].phase # "down"
  BY <1>1, <1>2, <1>3, <1>4, StepKinds
<1> QED
  BY <1>5 DEF Conn

\* How a handler reaches a stage
LEMMA HandlerReaches ==
    ASSUME AdmissionInv, FirstLife, EdgesTold, NEW c \in Conns, HandlerStep(c), ~RegisterNode(c)
    PROVE  /\ handler'[c].step = "adding" =>
                 \/ handler[c].step = "adding" /\ handler'[c].data \subseteq handler[c].data
                 \/ handler'[c].data \subseteq NodeIds
           /\ handler'[c].step \in {"groups", "idle", "notify_group"} =>
                 handler[c].step \in {"groups", "idle", "notify_group"} \/ SendRoutes(c)
           /\ handler'[c].step \in {"idle", "notify_group"} =>
                 handler[c].step \in {"idle", "notify_group"} \/ SendMulticastState(c)
<1>a. DOMAIN handler = Conns /\ DOMAIN handler[c] = {"step", "id", "data"}
  BY DEF AdmissionInv, ControlShape
<1>1. CASE UpsertNode(c)
  BY <1>1, <1>a DEF UpsertNode
<1>2. CASE ReadNeighbors(c)
  BY <1>2, <1>a DEF ReadNeighbors, GotoWith, EdgesTold
<1>3. CASE SendAddNode(c)
  BY <1>3, <1>a DEF SendAddNode, GotoWith
<1>4. CASE ReadRoutes(c)
  BY <1>4, <1>a DEF ReadRoutes, GotoWith
<1>5. CASE SendRoutes(c)
  BY <1>5, <1>a DEF SendRoutes, GotoWith
<1>6. CASE SendMulticastState(c)
  BY <1>6, <1>a DEF SendMulticastState, GotoWith
<1>7. CASE NodeTopologyReady(c) \/ CreateGroup(c) \/ JoinGroup(c) \/ LeaveGroup(c)
  BY <1>7 DEF NodeTopologyReady, CreateGroup, JoinGroup, LeaveGroup, ChangeMembership, Reading
<1>8. CASE SetGroupRoutes(c)
  <2>1. /\ handler[c].step = "idle"
        /\ UNCHANGED handler \/ \E data : GotoWith(c, "notify_group", data)
    BY <1>8 DEF SetGroupRoutes, Reading
  <2> QED
    BY <2>1, <1>a DEF GotoWith
<1>9. CASE NotifyGroupRoutes(c)
  BY <1>9, <1>a DEF NotifyGroupRoutes, GotoWith
<1>10. ~CloseConnection(c)
  BY HandlerIsOpen
<1> QED
  BY <1>1, <1>2, <1>3, <1>4, <1>5, <1>6, <1>7, <1>8, <1>9, <1>10 DEF HandlerStep

ToNodes(n) ==
    \A i \in DOMAIN wire[Conn(n)] :
        wire[Conn(n)][i].type = "AddNode" => wire[Conn(n)][i].node \in NodeIds

LEMMA ToNodesKept ==
    ASSUME AdmissionInv, FirstLife, [Next]_vars, crashes' = 0, NEW n \in NodeIds, dp[n].phase # "down",
           handler[Conn(n)].step = "adding" => handler[Conn(n)].data \subseteq NodeIds,
           ToNodes(n)
    PROVE  ToNodes(n)'
<1>a. Conn(n)' = Conn(n) /\ Conn(n) \in Conns /\ IsSequence(wire[Conn(n)])
  BY SameConn, OwnerIsConn DEF FirstLife
<1>b. ASSUME wire'[Conn(n)] = wire[Conn(n)] PROVE ToNodes(n)'
  BY <1>a, <1>b DEF ToNodes
<1>1. ASSUME NEW ms, InOrder(ms) PROVE ToNodes(n)'
  <2> DEFINE v == wire[Conn(n)]
             m == ms[Conn(n)]
  <2>1. wire'[Conn(n)] = v \o m /\ IsSequence(m) /\ IsSequence(v)
    BY <1>1, <1>a DEF InOrder, Delivers
  <2>2. \A i \in DOMAIN m : m[i].type = "AddNode" => m[i].node \in NodeIds
    BY <1>1 DEF InOrder
  <2>3. \A i \in DOMAIN v : v[i].type = "AddNode" => v[i].node \in NodeIds
    BY DEF ToNodes
  <2> HIDE DEF v, m
  <2>4. \A i \in DOMAIN (v \o m) : i \in DOMAIN v \/ (i - Len(v) \in DOMAIN m /\ (v \o m)[i] = m[i - Len(v)])
    BY <2>1, ConcatSeq
  <2>5. \A i \in DOMAIN v : (v \o m)[i] = v[i]
    BY <2>1, ConcatSeq
  <2>6. \A i \in DOMAIN (v \o m) : (v \o m)[i].type = "AddNode" => (v \o m)[i].node \in NodeIds
    BY <2>2, <2>3, <2>4, <2>5
  <2> QED
    BY <1>a, <2>1, <2>6 DEF ToNodes
<1>2. ASSUME NEW m \in NodeIds, NodeStep(m) PROVE ToNodes(n)'
  <2>1. CASE m = n
    <3>1. wire'[Conn(n)] = Tail(wire[Conn(n)]) /\ wire[Conn(n)] # << >>
      BY <1>2, <2>1, NodeTakes
    <3>2. \A i \in DOMAIN wire'[Conn(n)] : \E j \in DOMAIN wire[Conn(n)] :
             wire'[Conn(n)][i] = wire[Conn(n)][j]
      <4> DEFINE s == wire[Conn(n)]
                 t == wire'[Conn(n)]
      <4>1. IsSequence(s) /\ s # << >> /\ t = Tail(s)
        BY <1>a, <3>1
      <4> HIDE DEF s, t
      <4>2. \A i \in DOMAIN Tail(s) : i + 1 \in DOMAIN s /\ Tail(s)[i] = s[i + 1]
        BY <4>1, TailSeq
      <4>3. \A i \in DOMAIN t : \E j \in DOMAIN s : t[i] = s[j]
        BY <4>1, <4>2
      <4> QED
        BY <4>3 DEF s, t
    <3> QED
      BY <1>a, <3>2 DEF ToNodes
  <2>2. CASE m # n
    <3>1. Conn(n) # Conn(m)
      BY <2>2, ConnsDiffer
    <3> QED
      BY <1>2, <1>a, <1>b, <3>1, NodeTakes
  <2> QED
    BY <2>1, <2>2
<1>3. ASSUME NEW m \in NodeIds, StartNode(m) PROVE ToNodes(n)'
  BY <1>3, <1>b DEF StartNode
<1>4. ASSUME NEW a \in NodeIds, NEW b \in NodeIds, AcceptLink(a, b) PROVE ToNodes(n)'
  BY <1>4, <1>b DEF AcceptLink
<1> QED
  BY <1>1, <1>2, <1>3, <1>4, StepKinds

\* A step changes a handler only if it is the handler's own.
LEMMA HandlersElse ==
    ASSUME AdmissionInv, FirstLife, [Next]_vars, crashes' = 0
    PROVE  (\E c \in Conns : HandlerStep(c) /\ Quiet) \/ UNCHANGED <<node_ws, handler>>
<1>1. ASSUME NEW n \in NodeIds, NodeStep(n) PROVE UNCHANGED <<node_ws, handler>>
  BY <1>1, NodeTakes
<1>2. ASSUME NEW n \in NodeIds, StartNode(n) PROVE UNCHANGED <<node_ws, handler>>
  BY <1>2 DEF StartNode, tables
<1>3. ASSUME NEW n \in NodeIds, NEW m \in NodeIds, AcceptLink(n, m) PROVE UNCHANGED <<node_ws, handler>>
  BY <1>3 DEF AcceptLink, tables
<1>4. ASSUME NEW r \in Requests, Request(r) PROVE UNCHANGED <<node_ws, handler>>
  BY <1>4 DEF Request, tables
<1>5. CASE (SyncStep \/ CoordinatorStep) /\ Quiet
  BY <1>5, TasksStand
<1>6. CASE \/ \E rs \in RouteChoices : UpdateRoutes(rs) /\ Quiet
           \/ \E f \in LaterFlows : InsertFlow(f) /\ Quiet
           \/ UNCHANGED vars
  BY <1>6 DEF UpdateRoutes, InsertFlow, outsideFrame, vars, controllerVars
<1>7. ASSUME NEW n \in CanCrash, Crash(n) PROVE FALSE
  BY <1>7, NoCrash
<1> QED
  BY <1>1, <1>2, <1>3, <1>4, <1>5, <1>6, <1>7 DEF Next, SystemStep, OutsideStep

LEMMA ConfiguredStep ==
    ASSUME AdmissionInv, FirstLife, EdgesTold, ConfigurationOrder, ReadinessTrue, Configured,
           [Next]_vars, crashes' = 0
    PROVE  Configured'
<1>a. \A n \in DOMAIN node_ws : /\ n \in NodeIds /\ dp[n].phase # "down" /\ Conn(n) \in Conns
                                /\ node_ws[n] = Conn(n) /\ Conn(n)' = Conn(n)
  BY OwnerIsConn, SameConn
<1> DEFINE Needed(n) ==
      /\ handler[Conn(n)].step = "adding" => handler[Conn(n)].data \subseteq NodeIds
      /\ ToNodes(n)
      /\ handler[Conn(n)].step \in {"groups", "idle", "notify_group"} =>
            Ahead(n, "InstallRoutes", "routes_installed")
      /\ handler[Conn(n)].step \in {"idle", "notify_group"} =>
            Ahead(n, "InstallGroupDirectory", "directory_installed") /\ Counted(n)
<1>b. \A n \in DOMAIN node_ws : Needed(n)
  BY DEF Configured, ToNodes
<1>c. ASSUME \A n \in DOMAIN node_ws' : Needed(n)' PROVE Configured'
  BY <1>c DEF Configured, ToNodes
<1>d. \A n \in DOMAIN node_ws : ToNodes(n)'
  <2>1. \A n \in DOMAIN node_ws :
           /\ handler[Conn(n)].step = "adding" => handler[Conn(n)].data \subseteq NodeIds
           /\ ToNodes(n)
    BY <1>b
  <2> QED
    BY <1>a, <2>1, ToNodesKept
<1>e. \A n \in DOMAIN node_ws :
         /\ Ahead(n, "InstallRoutes", "routes_installed") =>
               Ahead(n, "InstallRoutes", "routes_installed")'
         /\ Ahead(n, "InstallGroupDirectory", "directory_installed") =>
               Ahead(n, "InstallGroupDirectory", "directory_installed")'
         /\ Counted(n) => Counted(n)'
  <2>1. /\ <<"InstallRoutes", "routes_installed">> \in Needs
        /\ <<"InstallGroupDirectory", "directory_installed">> \in Needs
    BY DEF Needs
  <2>2. \A n \in DOMAIN node_ws : Ahead(n, "InstallRoutes", "routes_installed") =>
               Ahead(n, "InstallRoutes", "routes_installed")'
    BY <1>a, <2>1, AheadKept
  <2>3. \A n \in DOMAIN node_ws : Ahead(n, "InstallGroupDirectory", "directory_installed") =>
               Ahead(n, "InstallGroupDirectory", "directory_installed")'
    BY <1>a, <2>1, AheadKept
  <2>4. \A n \in DOMAIN node_ws : Counted(n) => Counted(n)'
    BY CountedKept
  <2> QED
    BY <2>2, <2>3, <2>4
<1>f. ASSUME NEW n \in DOMAIN node_ws, handler'[Conn(n)] = handler[Conn(n)] PROVE Needed(n)'
  <2>1. Conn(n)' = Conn(n)
    BY <1>a
  <2> QED
    BY <1>b, <1>d, <1>e, <1>f, <2>1
<1>1. CASE UNCHANGED <<node_ws, handler>>
  BY <1>1, <1>c, <1>f
<1>2. ASSUME NEW c \in Conns, HandlerStep(c), Quiet, RegisterNode(c) PROVE Configured'
  <2>1. CASE UNCHANGED <<node_ws, handler>>
    BY <2>1, <1>c, <1>f
  <2>2. CASE ~UNCHANGED <<node_ws, handler>>
    <3>1. /\ c[1] \notin DOMAIN node_ws
          /\ DOMAIN node_ws' = DOMAIN node_ws \cup {c[1]} /\ node_ws'[c[1]] = c
          /\ \A n \in DOMAIN node_ws : node_ws'[n] = node_ws[n] /\ node_ws[n] # c
          /\ handler'[c].step = "upsert"
          /\ \A d \in Conns : d # c => handler'[d] = handler[d]
      BY <1>2, <2>2, RegisterFacts
    <3>2. \A n \in DOMAIN node_ws : Needed(n)'
      BY <1>a, <1>f, <3>1
    <3>3. Needed(c[1])'
      <4>1. c = Conn(c[1]) /\ Conn(c[1])' = Conn(c[1])
        BY <1>2, HandlerIsOpen DEF Quiet, Conn
      <4>2. wire[c] = << >> /\ wire' = wire
        BY <1>2, <3>1 DEF AdmissionInv, Registrations, OwnsId, RegisterNode
      <4>3. ToNodes(c[1])'
        BY <4>1, <4>2 DEF ToNodes
      <4> QED
        BY <3>1, <4>1, <4>3
    <3> QED
      BY <1>c, <3>1, <3>2, <3>3
  <2> QED
    BY <2>1, <2>2
<1>3. ASSUME NEW c \in Conns, HandlerStep(c), Quiet, ~RegisterNode(c) PROVE Configured'
  <2>1. /\ UNCHANGED node_ws /\ \A d \in Conns : d # c => handler'[d] = handler[d]
    BY <1>3, HandlerMoves
  <2>2. OwnsId(c) /\ c = Conn(c[1]) /\ c[1] \in NodeIds
    BY <1>3, HandlerIsOpen
  <2> DEFINE n == c[1]
  <2>3. n \in DOMAIN node_ws /\ Conn(n) = c /\ Conn(n)' = c /\ dp[n].phase # "down" /\ UNCHANGED dp
    BY <1>a, <1>3, <2>2 DEF OwnsId, Quiet
  <2>4. Needed(n)
    BY <1>b, <2>3
  <2>5. /\ handler'[c].step = "adding" =>
              \/ handler[c].step = "adding" /\ handler'[c].data \subseteq handler[c].data
              \/ handler'[c].data \subseteq NodeIds
        /\ handler'[c].step \in {"groups", "idle", "notify_group"} =>
              handler[c].step \in {"groups", "idle", "notify_group"} \/ SendRoutes(c)
        /\ handler'[c].step \in {"idle", "notify_group"} =>
              handler[c].step \in {"idle", "notify_group"} \/ SendMulticastState(c)
    BY <1>3, HandlerReaches
  <2>6. ASSUME handler[c].step # "upsert", dp[n].phase = "starting" PROVE wire[Conn(n)] # << >>
    BY <2>2, <2>3, <2>6 DEF ConfigurationOrder, OwnsId
  <2>7. ASSUME SendRoutes(c) PROVE Ahead(n, "InstallRoutes", "routes_installed")'
    <3>1. PICK ms : Delivers(ms) /\ Only(ms, {"InstallRoutes"}) /\ ms[c] # << >>
      BY <2>7, RoutesDelivered
    <3>2. 1 \in DOMAIN ms[c] /\ ms[c][1].type = "InstallRoutes"
      BY <3>1, SeqFacts DEF Delivers, Only
    <3>3. handler[c].step # "upsert"
      BY <2>7 DEF SendRoutes
    <3>4. Comes(n, "InstallRoutes")'
      BY <2>2, <2>3, <2>6, <3>1, <3>2, <3>3, ComesDelivered
    <3> QED
      BY <3>4 DEF Ahead
  <2>8. ASSUME SendMulticastState(c)
        PROVE Ahead(n, "InstallGroupDirectory", "directory_installed")' /\ Counted(n)'
    <3>1. PICK ms : Delivers(ms) /\ 1 \in DOMAIN ms[c] /\ ms[c][1].type = "InstallGroupDirectory"
      BY <2>8, MulticastDelivered
    <3>2. handler[c].step # "upsert"
      BY <2>8 DEF SendMulticastState
    <3>3. Comes(n, "InstallGroupDirectory")'
      BY <2>2, <2>3, <2>6, <3>1, <3>2, ComesDelivered
    <3>4. topo_events' = Append(topo_events, [type |-> "NodeConnected", node |-> c[1]])
      BY <2>8 DEF SendMulticastState
    <3>5. (\E i \in DOMAIN topo_events : Announces(i, "NodeConnected", n))'
      BY <3>4, EventStays
    <3> QED
      BY <3>3, <3>5 DEF Ahead, Counted
  <2>9. handler'[c].step = "adding" => handler'[c].data \subseteq NodeIds
    BY <2>3, <2>4, <2>5
  <2>10. handler'[c].step \in {"groups", "idle", "notify_group"} =>
            Ahead(n, "InstallRoutes", "routes_installed")'
    BY <1>e, <2>3, <2>4, <2>5, <2>7
  <2>11. handler'[c].step \in {"idle", "notify_group"} =>
            Ahead(n, "InstallGroupDirectory", "directory_installed")' /\ Counted(n)'
    BY <1>e, <2>3, <2>4, <2>5, <2>8
  <2>12. Needed(n)'
    BY <1>d, <2>3, <2>9, <2>10, <2>11
  <2>13. ASSUME NEW m \in DOMAIN node_ws PROVE Needed(m)'
    <3>1. CASE Conn(m) = c
      <4>1. m = n
        BY <1>a, <2>3, <2>13, <3>1, ConnsDiffer
      <4> QED
        BY <2>12, <4>1
    <3>2. CASE Conn(m) # c
      BY <1>a, <1>f, <2>1, <2>13, <3>2
    <3> QED
      BY <3>1, <3>2
  <2> QED
    BY <1>c, <2>1, <2>13
<1> QED
  BY <1>1, <1>2, <1>3, HandlersElse

-----------------------------------------------------------------------------
(* Who is waited for tells *)

NodeProgress(n) ==
    /\ dp[n].expected \in Nat /\ dp[n].connected = dp[n].expected
    /\ dp[n].routes_installed /\ dp[n].directory_installed => dp[n].ready_sent
    /\ dp[n].ready_sent => Reported(n)

LEMMA NodeProgressStep ==
    ASSUME AdmissionInv, FirstLife, ReadinessTrue, [Next]_vars, crashes' = 0,
           NEW n \in NodeIds, NodeProgress(n)
    PROVE  NodeProgress(n)'
<1>a. /\ DOMAIN dp = NodeIds /\ DOMAIN dp[n] = DOMAIN Fresh(0) /\ DOMAIN inbox = Conns
  BY DEF AdmissionInv, ControlShape
<1>b. dp[n].ready_sent => Reported(n)'
  <2>1. dp[n].ready_sent => dp[n].phase # "down"
    BY DEF ReadinessTrue
  <2> QED
    BY <2>1, ReportedKept DEF NodeProgress
<1>c. ASSUME \A k \in {"expected", "connected", "routes_installed", "directory_installed", "ready_sent"} :
                dp'[n][k] = dp[n][k]
      PROVE  NodeProgress(n)'
  BY <1>b, <1>c DEF NodeProgress
<1>1. ASSUME NEW ms, InOrder(ms) PROVE NodeProgress(n)'
  BY <1>1, <1>c DEF InOrder
<1>2. ASSUME NEW m \in NodeIds, NodeStep(m), m # n PROVE NodeProgress(n)'
  BY <1>2, <1>c, NodeTakes
<1>3. ASSUME NodeStep(n) PROVE NodeProgress(n)'
  <2>1. Reports(n)
    BY <1>3, NodeHandles
  <2>2. dp'[n].expected \in Nat /\ dp'[n].connected = dp'[n].expected
    BY <2>1 DEF Reports, NodeProgress
  <2>3. dp'[n].routes_installed /\ dp'[n].directory_installed => dp'[n].ready_sent
    <3>1. dp'[n].connected >= dp'[n].expected
      BY <2>2
    <3> QED
      BY <2>1, <3>1 DEF Reports, NodeProgress
  <2>4. dp'[n].ready_sent => Reported(n)'
    <3>1. CASE dp'[n].ready_sent => dp[n].ready_sent
      BY <1>b, <3>1
    <3>2. CASE inbox' = [inbox EXCEPT ![Conn(n)] = Append(@, [type |-> "NodeTopologyReady"])]
      <4>1. Conn(n) \in Conns /\ Conn(n)' = Conn(n)
        BY <1>3, NodeTakes DEF Conn
      <4>2. inbox'[Conn(n)] = Append(inbox[Conn(n)], [type |-> "NodeTopologyReady"])
        BY <1>a, <3>2, <4>1
      <4>3. IsSequence(inbox[Conn(n)])
        BY <4>1 DEF FirstLife
      <4>4. \E i \in DOMAIN inbox'[Conn(n)] : inbox'[Conn(n)][i] = [type |-> "NodeTopologyReady"]
        BY <4>2, <4>3, AppendFacts
      <4> QED
        BY <4>1, <4>4 DEF Reported
    <3> QED
      BY <2>1, <3>1, <3>2 DEF Reports
  <2> QED
    BY <2>2, <2>3, <2>4 DEF NodeProgress
<1>4. ASSUME NEW m \in NodeIds, StartNode(m), m # n PROVE NodeProgress(n)'
  <2>1. dp'[n] = dp[n]
    BY <1>4, <1>a DEF StartNode
  <2> QED
    BY <1>c, <2>1
<1>5. ASSUME StartNode(n) PROVE NodeProgress(n)'
  <2>1. /\ dp'[n].expected = 0 /\ dp'[n].connected = 0 /\ ~dp'[n].routes_installed
        /\ ~dp'[n].ready_sent
    BY <1>5, <1>a DEF StartNode, Fresh
  <2> QED
    BY <2>1 DEF NodeProgress
<1>6. ASSUME NEW a \in NodeIds, NEW b \in NodeIds, AcceptLink(a, b) PROVE NodeProgress(n)'
  <2>1. \A k \in {"expected", "connected", "routes_installed", "directory_installed", "ready_sent"} :
           dp'[n][k] = dp[n][k]
    BY <1>6, <1>a, FreshFields DEF AcceptLink
  <2> QED
    BY <1>c, <2>1
<1> QED
  BY <1>1, <1>2, <1>3, <1>4, <1>5, <1>6, StepKinds

\* The coordinator counts registered nodes only.
CountsNodes ==
    /\ \A i \in DOMAIN topo_events : topo_events[i].type = "NodeConnected" =>
          topo_events[i].node \in DOMAIN node_ws
    /\ coord.connected \subseteq DOMAIN node_ws

LEMMA CountsNodesStep ==
    ASSUME AdmissionInv, FirstLife, ReadinessTrue, [Next]_vars, crashes' = 0, CountsNodes
    PROVE  CountsNodes'
<1>a. DOMAIN coord = CoordFields /\ IsSequence(topo_events)
  BY DEF ReadinessTrue, CoordFields
<1>1. ASSUME NEW c \in Conns, HandlerStep(c) PROVE CountsNodes'
  <2>1. DOMAIN node_ws \subseteq DOMAIN node_ws'
    BY <1>1, HandlerAdvances DEF Advances
  <2>2. UNCHANGED coord
    BY <1>1, HandlerEvents
  <2>3. CASE UNCHANGED topo_events
    BY <2>1, <2>2, <2>3 DEF CountsNodes
  <2>4. ASSUME NEW e, topo_events' = Append(topo_events, e),
               e.type = "NodeConnected" => e.node \in DOMAIN node_ws
        PROVE  CountsNodes'
    <3>1. \A i \in DOMAIN topo_events' :
             (i \in DOMAIN topo_events /\ topo_events'[i] = topo_events[i]) \/ topo_events'[i] = e
      BY <1>a, <2>4, AppendFacts
    <3> QED
      BY <2>1, <2>2, <2>4, <3>1 DEF CountsNodes
  <2>5. CASE /\ SendMulticastState(c)
             /\ topo_events' = Append(topo_events, [type |-> "NodeConnected", node |-> c[1]])
    <3>1. OwnsId(c)
      BY <2>5, <1>1, HandlerIsOpen DEF RegisterNode, SendMulticastState, Reading
    <3> QED
      BY <2>4, <2>5, <3>1 DEF OwnsId
  <2>6. CASE topo_events' = Append(topo_events, [type |-> "NodeLocallyReady", node |-> c[1]])
    BY <2>4, <2>6
  <2> QED
    BY <1>1, <2>3, <2>5, <2>6, HandlerEvents
<1>2. ASSUME CoordinatorStep PROVE CountsNodes'
  <2>1. /\ UNCHANGED node_ws
        /\ UNCHANGED topo_events \/ (topo_events # << >> /\ topo_events' = Tail(topo_events))
    BY <1>2, <1>a, CoordinatorEvents
  <2>2. \A i \in DOMAIN topo_events' : \E j \in DOMAIN topo_events : topo_events'[i] = topo_events[j]
    <3>1. CASE UNCHANGED topo_events
      BY <3>1
    <3>2. CASE topo_events # << >> /\ topo_events' = Tail(topo_events)
      <4>1. \A i \in DOMAIN Tail(topo_events) :
               i + 1 \in DOMAIN topo_events /\ Tail(topo_events)[i] = topo_events[i + 1]
        BY <1>a, <3>2, TailSeq
      <4> QED
        BY <3>2, <4>1
    <3> QED
      BY <2>1, <3>1, <3>2
  <2>3. coord'.connected \subseteq DOMAIN node_ws
    <3>1. \/ coord'.connected = coord.connected
          \/ /\ topo_events # << >> /\ Head(topo_events).type = "NodeConnected"
             /\ coord'.connected = coord.connected \cup {Head(topo_events).node}
      BY <1>2, <1>a, CoordinatorTakes
    <3>2. topo_events # << >> => 1 \in DOMAIN topo_events /\ Head(topo_events) = topo_events[1]
      BY <1>a, SeqFacts
    <3> QED
      BY <3>1, <3>2 DEF CountsNodes
  <2> QED
    BY <2>1, <2>2, <2>3 DEF CountsNodes
<1>3. ASSUME UNCHANGED <<topo_events, coord>> PROVE CountsNodes'
  <2>1. DOMAIN node_ws \subseteq DOMAIN node_ws'
    BY HandlersElse, HandlerAdvances DEF Advances
  <2> QED
    BY <1>3, <2>1 DEF CountsNodes
<1> QED
  BY <1>1, <1>2, <1>3, EventsElsewhere

\* TopologyReady goes to everybody.
LEMMA CoordinatorAnnounces ==
    ASSUME AdmissionInv, FirstLife, DOMAIN coord = CoordFields, CoordinatorStep, ~coord.ready_sent,
           coord'.ready_sent
    PROVE  \E ms : /\ Delivers(ms)
                   /\ \A d \in Conns : OwnsId(d) /\ d \in open => ms[d] = <<[type |-> "TopologyReady"]>>
<1>1. ASSUME NEW x, MaybeBroadcastTopologyReady(x), x.ready_sent = coord.ready_sent
      PROVE  \E ms : /\ Delivers(ms)
                     /\ \A d \in Conns : OwnsId(d) /\ d \in open => ms[d] = <<[type |-> "TopologyReady"]>>
  BY FirstLifeSeqs, <1>1, MaybeDelivers
<1>2. CASE NodeConnected
  <2> DEFINE joined == [coord EXCEPT !.connected = @ \cup {Head(topo_events).node}]
  <2>1. \/ UNCHANGED coord
        \/ coord' = [joined EXCEPT !.dispatched = TRUE, !.step = "addresses"]
        \/ MaybeBroadcastTopologyReady(joined)
    BY <1>2 DEF NodeConnected
  <2>2. joined.ready_sent = coord.ready_sent /\ DOMAIN joined = CoordFields
    BY DEF CoordFields
  <2> HIDE DEF joined
  <2>3. ~(coord' = [joined EXCEPT !.dispatched = TRUE, !.step = "addresses"])
    BY <2>2 DEF CoordFields
  <2> QED
    BY <1>1, <2>1, <2>2, <2>3
<1>3. CASE NodeLocallyReady
  <2> DEFINE x == [coord EXCEPT !.ready = @ \cup {Head(topo_events).node}]
  <2>1. MaybeBroadcastTopologyReady(x) /\ x.ready_sent = coord.ready_sent
    BY <1>3 DEF NodeLocallyReady, CoordFields
  <2> HIDE DEF x
  <2> QED
    BY <1>1, <2>1
<1>4. CASE SendLinkRates \/ SendFlows
  BY <1>4 DEF SendLinkRates, SendFlows, CoordFields
<1>5. CASE CheckReadyAfterDispatch
  <2> DEFINE x == [coord EXCEPT !.step = "idle"]
  <2>1. MaybeBroadcastTopologyReady(x) /\ x.ready_sent = coord.ready_sent
    BY <1>5 DEF CheckReadyAfterDispatch, CoordFields
  <2> HIDE DEF x
  <2> QED
    BY <1>1, <2>1
<1> QED
  BY <1>2, <1>3, <1>4, <1>5 DEF CoordinatorStep

Announced == coord.ready_sent => \A n \in NodeIds : Ahead(n, "TopologyReady", "topology_ready")

LEMMA AnnouncedStep ==
    ASSUME AdmissionInv, FirstLife, ReadinessTrue, ReadinessTrue', [Next]_vars, crashes' = 0, Announced
    PROVE  Announced'
<1>a. DOMAIN coord = CoordFields
  BY DEF ReadinessTrue, CoordFields
<1>1. CASE coord.ready_sent
  <2>1. \A n \in NodeIds : dp[n].phase # "down"
    BY <1>1 DEF ReadinessTrue
  <2>2. <<"TopologyReady", "topology_ready">> \in Needs
    BY DEF Needs
  <2>3. \A n \in NodeIds : Ahead(n, "TopologyReady", "topology_ready")'
    BY <1>1, <2>1, <2>2, AheadKept DEF Announced
  <2> QED
    BY <2>3 DEF Announced
<1>2. CASE ~coord.ready_sent /\ coord'.ready_sent
  <2>1. CoordinatorStep /\ Quiet
    <3>1. ASSUME NEW c \in Conns, HandlerStep(c) PROVE UNCHANGED coord
      BY <3>1, HandlerEvents
    <3> QED
      BY <1>2, <3>1, EventsElsewhere
  <2>2. PICK ms : /\ Delivers(ms)
                  /\ \A d \in Conns : OwnsId(d) /\ d \in open => ms[d] = <<[type |-> "TopologyReady"]>>
    BY <1>a, <1>2, <2>1, CoordinatorAnnounces
  <2>3. ASSUME NEW n \in NodeIds PROVE Ahead(n, "TopologyReady", "topology_ready")'
    <3>1. dp[n].phase = "up" /\ UNCHANGED dp
      BY <1>2, <2>1, <2>3 DEF ReadinessTrue, Quiet
    <3>2. Conn(n) \in Conns /\ Conn(n) \in open /\ OwnsId(Conn(n))
      BY <3>1, UpIsOpen DEF AdmissionInv, Registrations
    <3>3. 1 \in DOMAIN ms[Conn(n)] /\ ms[Conn(n)][1].type = "TopologyReady"
      BY <2>2, <3>2, OneSeq
    <3>4. Comes(n, "TopologyReady")'
      BY <2>2, <3>1, <3>3, ComesDelivered
    <3> QED
      BY <3>4 DEF Ahead
  <2> QED
    BY <2>3 DEF Announced
<1>3. CASE ~coord'.ready_sent
  BY <1>3 DEF Announced
<1> QED
  BY <1>1, <1>2, <1>3

LEMMA ProgressStep ==
    ASSUME AdmissionInv, FirstLife, ReadinessTrue, ReadinessTrue', [Next]_vars, crashes' = 0, Progress
    PROVE  Progress'
<1>1. \A n \in NodeIds : NodeProgress(n)'
  BY NodeProgressStep DEF Progress, NodeProgress
<1>2. CountsNodes'
  BY CountsNodesStep DEF Progress, CountsNodes
<1>3. Announced'
  BY AnnouncedStep DEF Progress, Announced
<1>4. (coord.step = "idle" /\ coord.connected = NodeIds /\ coord.ready = NodeIds => coord.ready_sent)'
  <2>1. CASE UNCHANGED coord
    BY <2>1 DEF Progress
  <2>2. CASE CoordinatorStep
    <3>1. DOMAIN coord = CoordFields
      BY DEF ReadinessTrue, CoordFields
    <3> QED
      BY <2>1, <2>2, <3>1, CoordinatorTakes
  <2>3. ASSUME NEW c \in Conns, HandlerStep(c) PROVE UNCHANGED coord
    BY <2>3, HandlerEvents
  <2> QED
    BY <2>1, <2>2, <2>3, EventsElsewhere
<1> QED
  BY <1>1, <1>2, <1>3, <1>4 DEF Progress, NodeProgress, CountsNodes, Announced

LEMMA ReadyInit == Init => ReadyInv
<1> SUFFICES ASSUME Init PROVE Configured /\ Progress
  BY DEF ReadyInv
<1>1. /\ node_ws = << >> /\ topo_events = << >> /\ dp = [n \in NodeIds |-> Fresh(0)]
      /\ coord = [connected |-> {}, ready |-> {}, dispatched |-> FALSE, ready_sent |-> FALSE,
                  step |-> "idle", data |-> {}]
  BY DEF Init, ControllerInit
<1>2. DOMAIN node_ws = {} /\ DOMAIN topo_events = {}
  BY <1>1
<1>3. Configured
  BY <1>2 DEF Configured
<1>4. \A n \in NodeIds : /\ dp[n].expected = 0 /\ dp[n].connected = 0 /\ ~dp[n].routes_installed
                         /\ ~dp[n].ready_sent
  BY <1>1 DEF Fresh
<1>5. coord.connected = {} /\ coord.ready = {} /\ ~coord.ready_sent /\ NodeIds # {}
  BY <1>1
<1>6. Progress
  BY <1>2, <1>4, <1>5 DEF Progress
<1> QED
  BY <1>3, <1>6

LEMMA ReadyStep ==
    ASSUME AdmissionInv, WiringInv, WiringInv', ReadyInv, [Next]_vars
    PROVE  ReadyInv'
<1> SUFFICES ASSUME crashes' = 0 PROVE Configured' /\ Progress'
  BY DEF ReadyInv
<1>1. crashes = 0
  BY NeverCrashed
<1>2. /\ FirstLife /\ EdgesTold /\ ConfigurationOrder /\ ReadinessTrue /\ ReadinessTrue'
      /\ Configured /\ Progress
  BY <1>1 DEF WiringInv, ReadyInv
<1>3. Configured'
  BY <1>2, ConfiguredStep
<1>4. Progress'
  BY <1>2, ProgressStep
<1> QED
  BY <1>3, <1>4

\* Until a node crashes, everything a registered node or the coordinator still
\* waits for was handled or is on its way to it (handle_connection,
\* maybe_send_local_topology_ready, new_node_connected).
THEOREM ReadyInductive == Spec => [](AdmissionInv /\ WiringInv /\ ReadyInv)
<1>1. Init => AdmissionInv /\ WiringInv /\ ReadyInv
  BY AdmissionInit, WiringInit, ReadyInit
<1>2. AdmissionInv /\ WiringInv /\ ReadyInv /\ [Next]_vars => (AdmissionInv /\ WiringInv /\ ReadyInv)'
  BY AdmissionStep, WiringStep, ReadyStep
<1> QED
  BY <1>1, <1>2, PTL DEF Spec

LEMMA NobodyLeftWaiting ==
    ASSUME AdmissionInv, WiringInv, ReadyInv
    PROVE  ReadyUnlessCrashed
<1> SUFFICES ASSUME ControllerIdle, crashes = 0, \A n \in NodeIds : Waiting(n)
             PROVE  \A n \in NodeIds : dp[n].topology_ready
  BY DEF ReadyUnlessCrashed
<1>a. FirstLife /\ ConfigurationOrder /\ ReadinessTrue /\ Configured /\ Progress
  BY DEF WiringInv, ReadyInv
<1>b. /\ \A c \in Conns : handler[c].step = "idle" /\ inbox[c] = << >>
      /\ coord.step = "idle" /\ topo_events = << >>
  BY DEF ControllerIdle
<1>1. ASSUME NEW n \in NodeIds
      PROVE  /\ dp[n].phase # "down" /\ Conn(n) \in Conns /\ OwnsId(Conn(n))
             /\ n \in DOMAIN node_ws /\ node_ws[n] = Conn(n)
  <2>1. dp[n].phase # "down" /\ Conn(n) \in Conns /\ Conn(n) \in open /\ Conn(n)[1] = n
    BY <1>a, <1>1, OwnerIsConn DEF Waiting
  <2>2. OwnsId(Conn(n))
    BY <1>a, <1>b, <2>1 DEF FirstLife
  <2> QED
    BY <2>1, <2>2 DEF OwnsId
<1>2. ASSUME NEW n \in NodeIds, wire[Conn(n)] # << >>
      PROVE  /\ wire[Conn(n)][1].type = "AddNode" /\ dp[wire[Conn(n)][1].node].phase # "up"
             /\ 1 \in DOMAIN wire[Conn(n)]
  <2>1. IsSequence(wire[Conn(n)])
    BY <1>a, <1>1, <1>2 DEF FirstLife
  <2>2. 1 \in DOMAIN wire[Conn(n)] /\ Head(wire[Conn(n)]) = wire[Conn(n)][1]
    BY <1>2, <2>1, SeqFacts
  <2> QED
    BY <1>2, <2>2 DEF Waiting
<1>3. ASSUME NEW n \in NodeIds PROVE dp[n].phase = "up"
  <2>1. dp[n].phase \in {"starting", "up"}
    BY <1>a, <1>1 DEF FirstLife
  <2>2. handler[node_ws[n]].step # "upsert"
    BY <1>b, <1>1
  <2>3. dp[n].phase = "starting" => wire[Conn(n)] # << >> /\ wire[Conn(n)][1].type # "AddNode"
    BY <1>a, <1>1, <2>2 DEF ConfigurationOrder
  <2> QED
    BY <1>2, <2>1, <2>3
<1>4. ASSUME NEW n \in NodeIds PROVE wire[Conn(n)] = << >>
  BY <1>a, <1>1, <1>2, <1>3 DEF Configured
<1>5. ASSUME NEW n \in NodeIds, NEW type, NEW done, Ahead(n, type, done) PROVE dp[n][done]
  <2>1. ~Comes(n, type)
    BY <1>4 DEF Comes
  <2> QED
    BY <1>5, <2>1 DEF Ahead
<1>6. ASSUME NEW n \in NodeIds PROVE n \in coord.connected /\ n \in coord.ready
  <2>1. /\ Ahead(n, "InstallRoutes", "routes_installed")
        /\ Ahead(n, "InstallGroupDirectory", "directory_installed") /\ Counted(n)
    BY <1>a, <1>b, <1>1 DEF Configured
  <2>2. dp[n].routes_installed /\ dp[n].directory_installed
    BY <1>5, <2>1
  <2>3. Reported(n)
    BY <1>a, <2>2 DEF Progress
  <2>4. n \in coord.connected
    BY <1>b, <2>1 DEF Counted
  <2>5. n \in coord.ready
    BY <1>b, <1>1, <2>3 DEF Reported
  <2> QED
    BY <2>4, <2>5
<1>7. coord.connected = NodeIds /\ coord.ready = NodeIds
  <2>1. coord.connected \subseteq NodeIds
    BY <1>a DEF Progress, AdmissionInv, ControlShape
  <2>2. coord.ready \subseteq NodeIds
    BY <1>a DEF ReadinessTrue
  <2> QED
    BY <1>6, <2>1, <2>2
<1>8. \A n \in NodeIds : Ahead(n, "TopologyReady", "topology_ready")
  BY <1>a, <1>b, <1>7 DEF Progress
<1> QED
  BY <1>5, <1>8

\* Whatever order the nodes start, register, dial and report in, the start-up
\* never ends with somebody waiting: when controller and nodes have nothing left
\* to do and no node crashed, every node was told that the topology is ready.
THEOREM NobodyWaits == Spec => []ReadyUnlessCrashed
BY ReadyInductive, NobodyLeftWaiting, PTL
===============================================================================
