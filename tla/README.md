# TLA+ models of nextmini

nextmini is an overlay network: a *controller* admits nodes and computes routes,
and each node runs a *data plane* that moves packets between local applications
and peers. Its own protocol is the *lossless session*: one sender multicasts an
object of numbered blocks over lossy trees to a set of receivers and learns, by
rounds of reports, when all of them hold it. This directory holds the TLA+
models of both, the TLC configurations that check them, and TLAPS proofs.

## 1. Inventory

| Component | State it keeps | Operations | Talks to |
|---|---|---|---|
| Plain sender (`session/sender/{mod,state,plain}.rs`) | phase of `run`, frozen quorum, source cursor, open round, reports of the round, required / emitted / queued blocks, feedback timer | topology gate, Manifest/Ready handshake, send, open / close a round, `on_need`, solicit, time out | receivers (frames), runtime (inbox, gate) |
| Plain receiver (`session/receiver/{mod,plain}.rs`) | lifecycle, manifest, stored blocks, last round and its cached report | install manifest, store block, answer SourceDone, finish, hand the last round to the runtime | sender, runtime |
| Need reports (`messages/src/lossless_session`) | none | scan for missing ranges, validate, encode, decode | both ends |
| Runtime (`session/{runtime,api}.rs`) | message queue, session entries with bounded inboxes, completed receivers, topology gate; handles watch a task's end | start, abort, deliver, replay, register, exit | clients, tasks, processor |
| FEC sender / receiver (`session/{sender,receiver}/fec.rs`) | per block symbol counters and deficits; symbols held, decoded blocks | emit, repair under a speculative window, report, decode | as in plain mode |
| Planning, policy, timing (`session/{plan,fec_policy,timing}.rs`) | none | block spans, symbol sizes, preflight, derived timeouts | sender, receiver |
| Scheduler of a link (`node/scheduler`) | bounded channel, FIFO or WRR queues, slots, wake-up permit, token bucket | offer, enqueue or drop, wake, collect a batch, send | processors, network interface |
| Processors, routes (`node/{processor,route}.rs`, `node/flow/server.rs`) | per lane: packet channel, place in the broadcast, routing table with caches and pins, schedulers, user-space senders; shared: servers by flow | submit, forward, install routes, groups and pins, fall behind, start a server | everything in the node |
| Connector, TCP max (`node/{connector,conductor}.rs`, `network/tcp_max.rs`) | per node: message and packet channel, addresses, schedulers by flow; streams and splices | first packet or SOCKS5 request opens a chain of streams; relay, answer | next hop's TCP max server, external servers |
| Stream and UDP links (`node/network`) | connection set-up, frames half written or half read, probe trains; UDP peers, queues, readers | dial, retry, accept, write, read; look a peer up, forward, replace | remote nodes, processors |
| TUN writer (`node/local/writer*.rs`) | heap of a flow, active flows, expected sequence number, gap deadlines, timers, a Notify | receive, activate, write in order, force a backlog, give a gap up | processors, kernel |
| User-space flows (`node/flow`, `controller/lossless_unicast.rs`) | client and server threads, ports, channels, sessions | start, connect, send, end, report | controller, processors, runtime |
| Flow statistics (`controller/flowstats.rs`) | entry per flow, pending reports | report, flush; record at the controller | all that see flows begin and end |
| Controller interface (`node/controller/interface.rs`) | configuration, links, routes, directory, readiness, deferred flows | StartUp, control messages, requests of applications | controller, processor, runtime |
| Controller (`controller/src`) | tables of routes, flows, groups; writers by node; coordinator; pending notifications | admit, answer StartUp, dispatch, announce readiness, sync changes | nodes, database |
| Topologies, routes (`controller/src/{topology,routing.rs,utils.rs}`) | none | presets, shortest paths, entries per node, group routes | controller |
| Namespaces, Python bridge, Mettle codec | namespaces; byte buffers; peeling state | see section 5 | |

What is hard here: reports, payload and SourceDone travel separately and may be
lost, repeated or reordered around a round change; the quorum freezes while
Ready frames are still arriving; a receiver may leave while its last report is
lost; the runtime names sessions by id although ids are reused; a bounded inbox
couples the actor to the tasks it serves; round ids saturate; a report has a
bounded wire form. In FEC mode repair starts before all reports are in, so what
is asked for changes while it is being sent. In the scheduler and in the TUN
writer two tasks share queues and one stored wake-up, and decide by what they
read earlier. The processors share updates by a channel that forgets what a slow
one has not read. In the controller three kinds of task read the same tables and
send what they read later, over connections whose nodes restart; and every party
waits for some other before it calls itself ready. `PROJECT.json` lists each of
these hazards at its line with the properties that would catch it.

What makes each part correct: a *sender* may say Completed only when every
member of the frozen quorum holds the object, must send again all that was asked
for, and must always be able to end; *receivers* must answer every duplicate of a
round alike and claim Complete only with all blocks; the *runtime* must never
apply to one session what belongs to another, and must not stop; the *scheduler*
must neither lose slots nor wake-ups nor reorder a flow; a *routing table* must
not answer from a cache that has outlived its routes; *processors* must end up
with the same routes although each has its own, and keep a flow in order; the
*controller* must reach every node it admitted, announce a topology only when all
links are up, start every flow once it is, and leave no node with old routes; the
*links* must hand over what was given to them; the *TUN writer* must lose nothing
and hold packets back only for a gap; a *flow* that has ended must hold nothing
and be recorded as ended.

## 2. Modules

| Module | Models |
|---|---|
| `SessionReports` | reports as values: kinds, decoding's guarantees, validity for a manifest |
| `PlainSender` | the plain sender, alone, against peers that may send anything |
| `PlainReceiver` | the receivers, and the replay that answers for one that has left |
| `PlainSession` | sender, receivers and a network that remembers every frame |
| `LosslessTransfer` | abstract specification: members join, blocks accumulate, completion means all members hold the object |
| `PlainSessionLive` | the same sender and receivers over links that deliver or lose, with fairness |
| `NeedRanges` | from stored blocks to ranges to bytes and back |
| `SessionPlan` | the layout of an object in blocks and symbols, the sender's preflight, the receiver's validation |
| `FecReports` | FEC reports as values: kinds, deficits, validity |
| `FecSender` | the FEC send loop from the frozen quorum on, against peers that may report anything |
| `FecReceiver` | symbols held, decoding, deficit reports, and the replay after the receiver has left |
| `FecSession` | FEC sender, receivers and a network that remembers every frame; its steps are steps of `LosslessTransfer` |
| `FecSessionLive` | the same over links that deliver in order or lose, with fairness |
| `LosslessRuntime` | the actor, its queue, entries, inboxes, handles |
| `Scheduler` | reader and writer of one link's scheduler, queues, slots, wake-ups, token bucket |
| `RoutingTable` | the routing table as a value: route ids of trees, installation, pins, lookup and its caches |
| `Processor` | the lanes of a node, the broadcast of updates, forwarding, user-space servers |
| `Topologies`, `RouteBuilder` | presets, shortest and custom routes, entries of a node, group trees and ids, as operators |
| `Controller` | handlers of the connections, coordinator, database sync, tables |
| `ControlPlane` | `Controller` with the controller interfaces of its nodes, their requests, crashes and restarts |
| `FlowStats` | the reporter of a node and the controller's rows for one flow |
| `Connector` | max mode along one route: connectors, TCP max servers, SOCKS5, splices |
| `StreamLink` | TCP and QUIC set-up, framing with partial writes, probes |
| `UdpLink` | UDP handshake, workers, peers and readers over an unreliable network |
| `TunWriter` | producer and consumer of the TUN writer for one flow |
| `UserFlows` | client and server threads of TCP flows, lossless unicast flows |
| `Services` | those parts but the TUN writer, and `NeedRanges`, side by side: an initial state picks the part that runs |
| `LocalWriter` | the TUN writer with its constants and variables, as a part of a composition |
| `*Proofs` | TLAPS proofs of the module they extend (`ControlTablesProofs`: of `ControlPlane`, `ProcessorProofs`: of `LocalWriter` too) |
| `MC*` | instances for TLC; `MCNodeTasks` runs either the processors or the session runtime of a node |

**State and actions.** Variables carry the names of the Rust fields; an action is
one handler or one turn of a loop, with every state change the handler makes.
`PlainSender` splits the loop of `PlainSender::run` into the alternatives it
tests, in its order: abort on a protocol error, send a source block, send a
retransmission, open a round, close it (`CompleteRound`, `AdvanceRound`), or
wait (`Solicit`, `PeerReportTimeout`, `ControlClosed`). Control frames are
handled between those steps, which is where `drain_controls` and
`wait_for_signal` handle them. `HandleSourceDone` includes the lifecycle test
that follows it in the receive loop. In `LosslessRuntime`, each `await` of the
actor or of a task that another party can overtake ends an action: the delivery
into a full inbox (`blocked`), and the receiver's wait for its acknowledgment
(`registering`). In `Scheduler` a step is what one task does between two accesses
to state it shares with the other: reading a queue's length, pushing the packet
and storing the wake-up are three steps of the reader, as in `enqueue`. WRR's
`collect_packets` drops its locks between counting rounds and taking turns, so
these are separate steps too. With a token bucket the writer meters a batch packet
by packet (`MeterPacket`); the code sends those that pass in one go after the last,
the model as they pass, which nobody but the writer can tell. A lane of `Processor` handles one packet or one
message in a step; `lane` says whether it may look at the broadcast channel
("Select"), must drain its packets first ("Batch"), or waits for packets alone
("PacketsOnly", after `Lagged` has failed the pattern of its select). `RoutingTable`
has no variables, as every lane owns a table; a lookup returns the table it
leaves behind, and the route ids of a key are a set. `published` is the table after
each prefix of the broadcast messages, whether a lane has read them or not. The jump hash that chooses among several unicast routes is any
choice, the one that chooses a lane is the constant `Slot`.

`FecSender` starts where the common handshake of `PlainSender` ends. A loop turn is
one of: emit a source symbol, open the round, repair, close or advance, wait. The
target of a block is the largest deficit reported for it; the *window* is the part
of the target that the reports received so far have unlocked.

In `Controller` a step of a handler, of the coordinator or of the sync task ends
with a read of the tables, and the next one begins with the send of what was read:
that is where the tables and the other tasks can overtake it. `handler[c].step`
follows `handle_connection` through the parts of its StartUp branch; `notified` is
what the database's triggers have announced and `sync` has not handled yet. A
connection is a pair of a node and the number of its start, so that messages of an
earlier life of a node cannot reach a later one. In `ControlPlane` the wire to each
node is a queue, which a node works through one message at a time; `AddNode` stays at
its head until the neighbour accepts. `overtaken` remembers which node's last
message was out of date when it was sent, or that it was told of an empty
directory while a group existed, and exempts that node from the convergence
property of that kind; `early` remembers which broadcasts reached a node before it
had been sent its AddNodes (see section 5 for both). They are history: no step
depends on them.

`Connector` gives every node its two channels and one job at a time, as the code
connects within its loop; streams are sequences in both directions. `StreamLink`
counts bytes in units: one for a length, one per unit of packet, and a vectored
write takes any number of them. `UdpLink` separates look-up, creation, insertion
and forwarding, each under its own lock. In `TunWriter` each section under a lock is
a step, so that the producer can come between any two of them; the batched writer
is the same with `BatchSize` above one. `FlowStats` has one channel for each task
that reports and lets the reporter take from any. In `UserFlows` the TCP state
machine is reduced to what the threads look at: connected or not, room in the send
buffer, data or a reset received.

**What the data became.** A block is its id; payload bytes and sink buffers are
left out. A report is its kind and the set of blocks its ranges denote;
`NeedRanges` shows that this conversion loses nothing. A manifest is a model
value; `SessionPlan` says what is in it. A repair symbol is its id; RaptorQ is
external, and modelled by what the
code relies on: fewer than K distinct symbols are never enough, all K source symbols
always are, and on any other set of K or more it may fail. The live module counts
such a failure as a fault. Timers have no duration: a timer that may fire is an
action that may happen. In the sender this makes the timeout race every late report. Pacing
only delays a send and is left out. A database is its tables; a node address is its
node id; a route is a set of edges.

**Network.** In `PlainSession` frames are never removed, so a frame can arrive any
number of times, in any order, late, or never. That is the most general
network, and safety over it holds over every link the code uses. Liveness needs
frames that can really be lost: `PlainSessionLive` takes frames off the link
when they are handled or dropped and charges every loss, every overtaking of
payload by SourceDone, and every crash to `MaxFaults`. Connections to the
controller and TCP streams are reliable and in order, and end with the process.

Operators marked "Slip" in the modules are deliberate mistakes. Nothing uses
them; each shows, put in the place of the definition that follows it, that a
property would notice.

## 3. Runs

| Run | Instance | Shows |
|---|---|---|
| `plain_session` | 2 receivers, 2 blocks, rounds 0..2 | the retransmission ledger balances; the sender blocks only when a member owes a report and a timer runs; completion means delivery; honest receivers never look like violators; recorded reports cover what is missing; `LosslessTransfer` is implemented |
| `plain_session_live` | 1 receiver, 2 blocks, rounds 0..2, 2 faults | the protocol ends without its timeout unless the receiver crashes, with it in any case, and a completed session releases its receiver |
| `fec_session` | 2 receivers, 1 block of 2 symbols, symbol ids below 4, rounds 0..1 | completion means delivery although the decoder may fail; no honest receiver looks like a violator; reports ask for enough; repair targets are the largest deficits reported; repair stays inside its window and each block's target, the full quorum opens the whole target, and the loop waits only for reports |
| `fec_live` | 2 receivers, 1 block of 2 symbols, ids below 9, 2 faults | the session ends without its timeout unless a receiver crashes, with it in any case; each further round is paid for by a fault |
| `scheduler` | 2 flows, 3 kinds of packet, capacity 2, channel 1, 3 packets, 1 control message, every configuration | WRR's assertion holds, slots add up, no admitted packet is refused, a flow stays in order but for what the token bucket allows, no queue is forgotten but for the case in section 5 |
| `node_tasks` | the processors: 2 lanes, Sequential and Concurrent, channels of 2, 3 flows, 4 kinds of packet, 2 packets, 2 updates after startup; or the runtime: 2 incarnations of a receiver (interchangeable), 1 abortable sender, inboxes of 1, 2 frames | a lookup answers with a route installed for its flow or pinned since; lanes that have read all updates agree; a flow keeps its order on a lane; a flow gets one server; handles, entries and replays belong to the right task, and an idle actor leaves nobody waiting |
| `control_plane` | 2 nodes and a link, 2 starts each, with and without a stored group, 1 outside event before readiness or 2 after it | an admitted node is reachable; readiness means all links; nobody waits for ever; flows start whenever they are inserted; routes and group routes converge |
| `control_plane_early` | 2 nodes and a link, 1 start each, a change of routes and a new group during start-up | **violated**: TopologyReady is announced although the link has been dialled by neither end |
| `control_plane_reconnect` | 2 nodes and a link, 2 starts each; once all are ready, a new group, a member, its routes and a restart of node 2 | **violated**: the node that connects again has no routes of the group |
| `services` | one part per initial state: 7 blocks; 2 routes and 2 clients of a flow; a route of 3 nodes; 2 clients with a stream; 2 UDP workers; 3 packets around the end of a sequence space of 16; 4 user-space flows | a report means what the receiver lacks; statistics find their rows and flows are recorded as ended; max mode, streams, UDP peers and the TUN writer hand over what they got; ended flows hold nothing |
| `need_capacity` | 6 blocks, 2 ranges | **violated**: a report with too many ranges panics its own encoder |
| `runtime_stall` | inbox of 1, 3 frames | **violated**: actor and receiver wait for each other |

Several properties are conjunctions with named parts: `SlotLedger` (`SlotsBalance`,
`NeverRefused`, `CollectsFromQueues`), `LanesAgree`, `EntriesOwned`, `ReplaysSound`,
`RepairWindowSound` of `FecSender`, `FecRoundsSound`, `SessionReleased`, `FecSessionEnds`. A part can
be put in a cfg alone to see which one fails.

The two senders against arbitrary peers, outsiders included, have no run of their
own: what they promise there is proved for every instance (section 4).

The assumptions `SmallLayouts` (`MCServices`), `SmallPresets` and `SmallRoutes`
(`MCControlPlane`) are evaluated along with the runs. They check the operators that
have no state: the tiling of objects of up to ten bytes and the agreement of both
ends on it; that the presets up to twenty nodes are connected; that packets that
follow the entries of a route, whichever shortest path was chosen, end at its
destination; that group trees have ids of their own.

**Bounds.** Two blocks are the least that tell "some missing" from "all missing".
Rounds 0..2 have a first round, a successor, and the
saturated last id, which `NextRoundId` opens again as `saturating_add` does.
Two receivers are enough for one to hold up, outpace or contradict the other.
`MaxFaults <= MaxRound` keeps the live runs below
saturation: a new round takes a fault. `MaxNeedRanges` is 3 of a possible 4 at
7 blocks, so both sides of the capacity limit occur. Inboxes of one and two
slots stand for 1024: what matters is that more, or no more, frames arrive than
fit. FEC blocks of two symbols have a partial state; `MaxDeficit` reaches one
whole block, `U32Max` = 4 is the largest product of target and reports that can
occur, the border of what the proof asks (`BudgetFits`), and `MaxSymbol` leaves room for the repair that the faults can cause
(a sender at that id stops the exploration, not the code). The scheduler's
capacity of 2 is where "empty", "one waiting" and "full" differ and where WRR's
shared slots and separate queues disagree; three packets are one more than fits.
Two updates and the announcements of a server, which share the broadcast channel
of 2, are enough to fall behind; the second table uses the ids of the first for
other routes and has a route that is invalid at this node, and the group's routes
include one that belongs to no tree of it. A full packet channel changes nothing
in the model: the caller waits, or keeps or loses the packet.
`MaxRetries` is 2 for the code's 3: give up at once, and after a retry. The proofs
below remove these bounds for the safety of both protocols.

Two nodes have the first and the last to register, one edge that must be dialled
exactly once, a source and a destination, an owner and a member of a group.
`MaxOps` counts what comes from outside (a change of routes, a flow, a request, a
crash): two of them, once all are ready, give every pair of overlapping updates and
every update around a restart; one that comes earlier, during the startup it can
race, is the only one (`EarlyCost` = 2). The case of `control_plane_early` takes two early
ones, which that run allows without restarts. `control_plane_reconnect` starts from an
empty database and allows four, all of them after readiness (`EarlyCost` above `MaxOps`). From a database with a group only requests and crashes are
explored (`GroupEvents`), since routes and flows share no table with groups. Max mode needs a route of three nodes, for a
source, a relay and a destination. The TUN writer's stream starts three below the
end of the sequence space, its first packet may come twice, and the settings are
ordering within both tolerances, and writing through; a writer with fewer limits does
what this one does while no deadline passes, or fewer packets than its backlog wait. UDP datagrams are duplicated once,
which is enough for two workers to handle handshakes at the same time. A flow
handed out twice is the interesting case of `UserFlows`, so there are two runs.

Deadlock is not checked where sessions end or all traffic has been sent.
`BlocksOnlyForReports`, `ReadyUnlessCrashed`, `HeldOnlyForGaps`, `SettledWhenIdle` and
the liveness properties cover unintended stops.

**Fairness.** Tokio schedules a runnable task again, so every enabled step of the
send loop, and the handling of a frame that was not lost, is weakly fair; so are
the Ready grace and solicitation timers. `TimerFairness`, for the peer-report and
session-finish timers, is a hypothesis of the properties that depend on it. In FEC
mode a symbol the network layer refuses is offered again after `IDLE_WAIT`.
The scheduler's reader and writer are weakly fair, those who offer packets and send
control messages are not: a packet must not need another one to be served.
Loss and crashes have none. In the runtime, the actor, its tasks and watchers are
weakly fair; clients and the network are not. Control frames are fair per peer,
because they arrive in one queue in which no peer is overtaken for ever. The
control plane and the services state what must hold when nothing can move any
more, as invariants; these need no fairness.


## 4. Proofs

For every finite set of receivers, every number of blocks (and, in FEC mode, of symbols)
and every `MaxRound`:

- `PlainSessionProofs`, first the sender alone: type correctness, `RetransmitLedger`, `CompletedByQuorum`,
  `BlocksOnlyForReports` and `RoundWorkMonotone`. `RetransmitLedger` is not
  inductive alone: it needs that only quorum members, with valid reports, are on
  record and only while the round is open (`QuorumReports`), and where the loop
  stands when that is so (`LoopPosition`). `SenderInv` is their conjunction. That
  a round closes by comparing two *counts* is sound because the reporters are a
  subset of the finite quorum: equal cardinality then means equality.
  Then the session properties and the refinement of
  `LosslessTransfer`: the invariant `SessionInv` says what each frame on the
  network proves: a SourceDone is of an opened round (`NetTruth`), a Need is of an
  answered round, was the cached report of it, and misses at least what its
  receiver lacks now (`CtrlTruth`), a recorded report was sent (`RecordTruth`),
  and a receiver's caches agree with its announcements (`ReceiverTruth`). Two
  Needs of one round are then equal, which is why honest receivers never cause a
  protocol error. `SenderInv` is reused for the sender's steps.
- `FecSessionProofs`: first the FEC sender alone: `FecLedger`, `FecBlocksOnlyForReports`
  and that Completed needs the
  whole quorum. `FecSenderInv` says what `SenderInv` says of plain mode, with
  `FecTargets` in the place of the ledger: no deficit on record exceeds the target of
  its block, and a target that is not 0 is one of them. A maximum over a set is then
  used only once, at the end. Then the session: `FecRoundsSound` and the refinement of `LosslessTransfer`'s steps.
  A Need in FEC mode is a number of symbols, so `FecCtrlTruth` says that it asks, for
  every block its receiver has not decoded, for one symbol at least and for all that it
  lacks now. Symbols only add to what a receiver holds of an undecoded block, and a
  decoded one is never lost (`ResidualShrinks`); the decoder may fail at will. The
  steps of a session are steps of `FecSender` for its sender, whose invariant is reused.
  Last the window: `RepairWindowSound`. Target and repair sent are sums over the
  blocks, and what the proof needs of them is that one block more or one symbol more
  changes the sum by that much; the recursive function behind the sum is shown to exist, and
  its values found, from the least block at which that could fail. `WindowInv` says that
  `repair_window_symbols` is the window of the reports on record and that the repair sent
  of all blocks is within it. The theorems, for the sender among arbitrary peers and for
  a session, have the hypothesis `BudgetFits`: target times quorum fits u32, which
  section 5 explains.
- `ServicesProofs`: each part of `Services` on its own, as an instance, and then the
  composition: while a part runs, the behaviour is one of its module (`StatsRuns` and its
  like), so what the module promises holds of `Services` (`NoReportIsOrphaned`,
  `LinksDeliverWhatWasSent`, `UdpPeersLoseNothing`, `FinishedRunsHoldNothing`, ...).
  - Reports and layout: the scan, for every number of blocks, by its loop invariant
    `ScanProgress`, and the round trip through encoder and decoder; and for every
    object, block and symbol size, and every limit, the blocks tile the object without
    gap or overlap (`BlocksTileObject`), the symbols of a block hold it
    (`SymbolsSuffice`), and a receiver with the same limits accepts the manifest of a
    plan its sender accepted (`ReceiverAcceptsPlan`). The latter rest on two lemmas on
    products and on rounding up (`TimesMonotone`, `DivCeilBounds`).
  - Flow statistics: `NoOrphanReports` and `UserFlowSettles`. Along the pipeline from
    the tasks over the entry and the flush to the rows, whatever names a start is
    behind that start; a finish that a task has sent is in one of these places, or in the
    rows.
  - UDP: `KnownPeerLosesNothing`, for any finite set of workers, from the places a copy can
    be in: a queue that the table or a worker refers to has its reader, an unsent datagram
    has no copy, and no copy is in two places.
  - Flows: `FinishReleasesRun`. What a client has accepted bounds what its server
    can have been handed, and a run's state says which of channel, session and entry it holds.
  - Streams: `ReaderSeesWhatWasSent`. What was written, what is left of the
    current write and what the reader has taken in are parts of one byte sequence:
    the frames of the packets in order, cut anywhere. `TrafficOK` asks that packets
    have the lengths their frames say and that probe trains are not empty.
- `LosslessRuntimeProofs`: `SettledWhenIdle`, `EntriesOwned`, `ReplaysSound`, for all
  tasks, session ids and inbox sizes. The invariant `RuntimeInv` is about
  the queue: every message says something that stays true until the actor reads it
  (`MessagesStayTrue`), none of them is there twice (`SaidOnce`), and a party that
  waits is either named by a message in the queue or owed one by a task
  (`Awaited`); with an empty queue nobody can be waiting. `EntriesOwned` and
  the ownership part of `ReplaysSound` have the hypothesis `AbortedIdsAreFresh`: the
  id of a session that may be aborted is not used for another one. Without it they are false, which is the
  race of section 5; that a replay is *true* (`ReplaysAlwaysTrue`) needs no such
  hypothesis.
- `SchedulerProofs`: `SlotLedger` and `FlowOrder`, for all flows, weights, capacities
  and packet sizes. Order is a statement about the whole pipeline (`PipelineOrder`):
  channel, the reader's hand, queues, batch, delayed packets and those sent hold, in this order, ever
  older packets of a flow. The token bucket is the exception, and
  `OvertakingIsSmaller` says why it is a small one: within a pass over a batch tokens
  only fall, so a packet that passes after another was delayed is smaller than it.
  The ledger counts packets in queues by the cardinality of a set, which is sound
  because packets are distinct; that no push is refused follows from it.
- `ProcessorProofs`: `LookupsFollowTable`, `LanesAgree` and `LaneOrder`, for all lanes,
  flows, updates, capacities and assignments of flows to lanes. `TableOK` says that ids
  of unicast routes and of trees cannot be confused, that every id with next hops is
  listed, and that a remembered tree has the id it would be given again
  (`TreeIdsUnique`: group and tree determine the id and the reverse). A selection is
  then listed or pinned since the last installation (`SelectionsListed`), and a lane
  follows the published tables as far as it has read (`FollowsPublished`): exactly, if
  it skipped nothing; in its unicast routes, if it has read the last table, since
  `install_routes` replaces them all. `LanesInOrder` has the packets of a lane's channel
  younger than those it has sent. `UpdatesAssumption` is what the controller's
  messages satisfy: ids of unicast routes are serial numbers below
  the flag of trees, a group's trees are those of its source in the `groups` table, and packets
  that name a tree come from that source.
- `ControlPlaneProofs`: `WriterIsLive`, `EdgesWiredWhenReady` and `ReadyUnlessCrashed`, for
  all nodes, topologies, tables, requests and numbers of starts. Three invariants, each
  resting on the one before. `AdmissionInv` holds through crashes and restarts: an id
  has one holder, only the holder is sent anything or has a handler at work, and it
  keeps the id while its node is there. `WiringInv` and `ReadyInv` hold until the first
  crash. `WiringInv`: every node has one connection and asks first for its id
  (`FirstLife`); of two neighbours the one looked up second finds the other in the
  table, and is about to be told, was told, or has dialled (`EdgesTold`); routes and
  directory stay behind the AddNodes on the wire, unless `early` names them
  (`ConfigurationOrder`); a report, wherever it is between the node and the coordinator's
  count, is true (`ReadinessTrue`). `ReadyInv` is the converse, and what makes waiting
  end: what a node still needs was handled or is on the wire behind the message it
  takes for its answer (`Configured`), its own reports are in its inbox, in the channel
  or counted, and TopologyReady is sent when the last is (`Progress`). With
  everything read and nothing left to do, the only place left is "handled". A dial waits
  for a neighbour that has its own answer, so no two dials wait for each other.
- `ProcessorProofs` also has the TUN writer, the instance `TW` of `LocalWriter`:
  `NothingDropped` (`TunInv`: every data packet that arrived is in the heap, in the consumer's
  hands, in its batch or written, and the consumer's local variables name packets that
  are still where it saw them), `InOrderUnlessForced` (`OrderInv`: what was written and batched
  is the beginning of the flow and the expectation lies right behind it) and
  `HeldOnlyForGaps` (`RestInv`: while nobody has pushed since the consumer took the permit,
  the heap's first packet is the one it looked at, and a round that ends leaves only
  packets in front of the expectation, the flow active and a timer running). The hypothesis is
  `FlowFits`: a flow and one packet more stay within half the space of
  sequence numbers, where the wrapping comparison of the code is an order.
- `ControlTablesProofs`: what the nodes end up with, on top of `ControlPlaneProofs`.
  `FlowsStart`: until a crash, a flow in the table that was notified is on its way to each node
  it begins at (in the coordinator's batch, on the wire, or deferred until the node
  reads TopologyReady) or was started. `RoutesConverge`: what a node *will* hold once it has
  read all that is on its wire (`WillHold`) are the routes of the database, or they
  are still to be sent, by a notification not read yet, by the sync in progress or by the handler of
  the node's StartUp (`RoutesComing`); `overtaken` marks answers that were read from the
  database before a sync and sent after it. This invariant holds through crashes and restarts.

Assumptions are the named `ASSUME`s, which TLC evaluates with the runs: naturals, finiteness of the receivers,
a manifest that is not "no manifest", positive limits, the
shape of packets and updates, for the control plane finite sets of flows and link rates,
edges between known nodes, and what applications can request. `ServicesAssumption` and
`LocalWriterAssumption` say what the parts are run with; the theorems about one
part have their share of it as a hypothesis.

Only model-checked: liveness (fairness and `ENABLED` are outside the prover); what recursive
operators compute (routes, trees, presets: the theorems hold for whatever they return);
`RoundsCostFaults`, which counts the faults of a whole run; `DeliveredAsSent` and
`OneConnectionPerHop` of the connector; and `GroupRoutesConverge`. Where
an argument needs a least or a greatest element (the control tree of a group, the last
table a lane skipped, the block at which a sum could go wrong), it comes from the
well-foundedness of the naturals.

## 5. Not modelled, and limits

**Sessions.**

- A receiver in the `Active` state has no timeout: if its sender aborts it stays,
  with its session id. No step in the code ends it, so no property can say it
  ends; `SessionReleased` is about completed sessions.
- An inbox that overflows and later drains delays the frames of other sessions;
  the models do not measure delay. The permanent case is `runtime_stall`.
- A duplicate SourceDone that reaches the inbox of a receiver between the end of
  its loop and the removal of its entry is answered by nobody; the next one is
  answered by the replay. `LosslessRuntime` has the interval, no property forbids it.
- After an abort a session id is free at once. If a new session takes it before the
  old task's exit reaches the actor, `finish_session`, which goes by id, removes the
  new session's entry and marks its handle Aborted. The run `node_tasks` lets only a
  sender without a successor be aborted; with a receiver in `MayAbort`,
  `EntriesOwned` is violated.
- The FEC window multiplies target and number of reports with `saturating_mul`.
  `FullQuorumOpensBudget` presumes that target times quorum fits: beyond u32's
  limit a full quorum no longer unlocks its whole target.
- Derived timeouts and pacing rates are left out: a timer may fire at any moment.

**Node.**

- The map of user-space servers never forgets a flow: when its server has ended,
  a later connection with the same flow id is handed the dead channel. The same
  happens to a server whose first poll comes before the SYN: it ends at once.
- `Processor` is normal mode; max mode is in `Connector`. Rate limits and flow
  weights reach only the schedulers a lane knows at that moment, and a rate limit is
  applied once by each lane. A group's routes are installed for one source, as the
  controller sends them; next hops are keyed by group and tree alone.
- `enqueue` reads the queue length, then pushes, then decides by the earlier length
  whether to wake the writer. If the writer empties the queue and goes to sleep in
  between, a TCP data packet lies in the queue until another packet comes.
  `overtaken` marks exactly this case and `PacketsServed` exempts it; without the
  exemption TLC shows the packet waiting for ever. `TunWriter` has the same lost
  wake-up around `notify` (`writer.rs` 338-347, 451-463), and the same exemption.
- In the TUN writer a FIN moves the expected number past data that is still
  outstanding, and what is popped after a look at the head may be a retransmission
  that came in between. `InOrderUnlessForced` states what remains of the order. A FIN
  is a packet without data here; one that carries data moves the expected number by one
  more than its length (`writer.rs` 427-429).
- `Red` averages the queue length with a weight of 1 / 2^9 in integers, which is 0: the
  average stays 0 and the lower threshold hardly ever drops. `DropDecisions` has the
  possible outcomes, not their odds.
- A token bucket rate of 0 and a queue capacity of 0 make the code panic; the models
  assume positive values.
- `Connector`: a flow keeps the scheduler it was given first, whatever later routes
  say (the model installs one table). A relay that has no address yet for its next hop
  takes it for an external server; the model does so too.
- `StreamLink`: after an invalid frame length a reader continues behind it and takes
  the body for lengths; the model's packets all have valid lengths. On errors and at the end of a stream readers turn without an await; accept loops
  handle one handshake at a time; a QUIC server returns when a client dies between
  opening its stream and naming its node, and a QUIC client panics after `MAX_RETRY`.
- `UdpLink`: a worker whose `add_node` fails goes on without inserting the peer
  (`udp.rs` 134-140); that takes a node without processors, and is left out. The handshake is sent once and may be lost, and packets that find no peer
  are dropped; workers reorder datagrams. `KnownPeerLosesNothing` is about packets
  that find a peer, also one that is being replaced.
- `UserFlows`: `socket.abort()` right after the last `send` discards what has not
  been transmitted, and a RST is sent once. A flow that `AddFlows` brings twice is
  refused the second time and reported finished while the first still runs. Ports
  come from one range for all flows, and wrap, although a comment promises unique
  ones (`lossless_unicast.rs` 252).
- `FlowStats`: a flow that is handed out twice is one entry, as it is for a lossless
  flow; a TCP client has a port, and so a flow id, of its own each time (`client.rs` 53-70). A flush takes the pending reports of different flows in arbitrary
  order, entries that are Pending never expire, and a flow id used again before the
  flush shares an entry. No property forbids these.

**Control plane.**

- A node takes the first message after its StartUp for the answer. A broadcast that
  overtakes the answer is taken for it. A node that restarts before the controller
  has seen its connection close is rejected, and waits.
- A node is in `node_ws`, and reached by broadcasts, from the reservation of its id on.
  If both a change of routes and a new group's directory are broadcast before its
  AddNodes are handled, it has all it waits for and no neighbour to expect, and reports
  ready (`interface.rs` 624-634). TopologyReady then says that all nodes "have finished
  wiring" (`new_node.rs` 167) although an edge is undialled: run `control_plane_early`.
  `EdgesWiredWhenReady` exempts the edges of such a node (`Misled`), and is proved with
  no other exemption.
- Routes that a StartUp branch has read may be sent after newer ones of
  `sync_routes`; `sync_group_routes` and `handle_set_group_routes_update` overtake each
  other likewise. `overtaken` marks these, `RoutesConverge` and
  `GroupRoutesConverge` exempt them.
- `multicast-groups.md` 35 (`docs/content/docs/design`) promises a node that was away "a full snapshot during its next
  websocket handshake". `multicast_snapshot_needed` is evaluated once, when the
  controller starts (`main.rs` 121-135). If there was no group then, every later
  StartUp is answered with an empty directory and no group routes (537-557), also when
  groups exist by now: a node that connects again does not know the group until another is
  created, and has no routes of it until the group changes again. Run
  `control_plane_reconnect` shows it (`CatchesUpOnReconnect`). The same happens to a node whose first StartUp is
  answered after the group was created. `overtaken` marks these nodes with "directory" and `GroupRoutesConverge`
  exempts them; it is about all others: those that saw the group created, and all nodes
  of a controller that found a group in its database.
- A node that loses its last route entry gets no message, and a DELETE of routes has no
  trigger (`schema.rs` 226-231). The model changes routes, it does not delete them.
- TopologyReady is sent once: a node that restarts later defers its flows for ever.
  A flow inserted before the first dispatch is sent twice. The rate of a link that is
  not accepted yet is dropped. A dial of a crashed neighbour blocks the control loop.
- The fat-tree preset counts servers that it never builds, and a disconnected topology
  panics when routes are computed.

**Left out altogether.** The namespace manager and the Python bridge (calls to the
operating system, and to an interpreter), the Mettle codec (arithmetic on payload
bytes; `FecReceiver` models what its users rely on), metrics, command lines and
configuration files, certificates, tools, examples. Sockets, TUN devices, SQL and
RaptorQ appear as the behaviour the code relies on.

## 6. Plan

Done are the sessions, the runtime, the node's packet path, its links and the
control plane, and the proofs of what they promise, but for those named at the end of
section 4. Left, in this order:

1. **Proofs.** `GroupRoutesConverge`, along the lines of `RoutesConverge`: it needs
   that a node on no tree of a group, and not among its members, has no entries, which
   is a statement about sorted sequences. Then the connector: the bytes of a flow along
   its chain of streams, as for one stream in `StreamLink`.
2. **Larger instances** of the control plane: three nodes, so that a broadcast meets
   nodes in three states, and two groups.
3. **Smaller components.** Namespace allocation, the byte buffer of the Python
   bridge, Mettle's peeling as an operator, derived timeouts at the widths of the code.
