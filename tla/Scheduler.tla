------------------------------ MODULE Scheduler ------------------------------
(***************************************************************************)
(* The packet scheduler of one outgoing link (dataplane/src/node/          *)
(* scheduler): a bounded channel, the reader task that moves packets into  *)
(* the queues or drops them, and the writer task that sleeps while the     *)
(* queues are empty, collects a batch and sends it, possibly through a     *)
(* token bucket.  Reader and writer share the queues, a Notify and, under  *)
(* backpressure, a semaphore of free slots, and run on different threads:  *)
(* a step here is what happens between two accesses to that shared state.  *)
(***************************************************************************)
EXTENDS Integers, FiniteSets, Sequences, Functions

CONSTANTS
    Flows,
    Capacity,           \* queue_capacity
    ChannelCapacity,    \* channel_capacity
    Kinds,              \* packets by flow, data (TCP payload or not) and size
    BucketSizes,        \* bucket sizes of the rate limits that may be set
    Weights,            \* flow weights that may be set
    MaxPackets,         \* packets explored
    MaxControls,        \* control messages explored
    MaxRetries          \* MAX_RETRIES of TokenBucket::send

ASSUME CapacityAssumption == Capacity \in Nat \ {0} /\ ChannelCapacity \in Nat \ {0}
ASSUME SizesAssumption ==
    /\ Kinds \subseteq [flow : Flows, data : BOOLEAN, size : Nat \ {0}]
    /\ BucketSizes \subseteq Nat \ {0}
ASSUME WeightsAssumption == Weights \subseteq Nat
ASSUME BoundsAssumption ==
    MaxPackets \in Nat /\ MaxControls \in Nat /\ MaxRetries \in Nat \ {0}

VARIABLES
    config,         \* scheduler_type, channel_backpressure, scheduler_drop_strategy
    offered,        \* packets handed to SchedulerHandle::send so far
    channel,        \* reader_receiver
    reader,         \* where SchedulerReader::enqueue is
    packet,         \* the packet it handles
    seen_len,       \* its queue_len
    queue,          \* [queues -> packets]
    notified,       \* the permit queues_not_empty stores
    permits,        \* free permits of capacity_semaphore
    controls,       \* receiver of the writer
    asked,          \* control messages sent so far
    flow_weights,
    writer,         \* where SchedulerWriter::run is
    flow_ids,       \* WRR: the flows of this batch
    turn,           \* WRR: those that have not had their turn in this round
    rounds,         \* WRR: rounds left, this one included
    batch,
    bucket,         \* token_bucket, or NoBucket
    delayed,        \* packets_delayed
    retry_count,
    sent,           \* what went to the network interface
    overtaken       \* auxiliary: seen_len was stale when it mattered

readerVars == <<channel, reader, packet, seen_len>>
controlVars == <<controls, asked, flow_weights>>
collectVars == <<flow_ids, turn, rounds>>
sendVars == <<bucket, delayed, retry_count, sent>>
schedVars == <<config, offered, readerVars, queue, notified, permits, controlVars, writer,
               collectVars, batch, sendVars, overtaken>>

\* The drop strategy is not consulted under backpressure.
Configs ==
    {c \in [discipline : {"Fifo", "Wrr"}, backpressure : BOOLEAN, drop : {"TailDrop", "Red"}] :
        c.backpressure => c.drop = "TailDrop"}
Packet(n, k) == [id |-> n, flow |-> k.flow, data |-> k.data, size |-> k.size]
NoPacket == [id |-> 0]
NoBucket == [size |-> 0, tokens |-> 0]

\* FIFO has one queue for all flows, WRR one for each.
Shared == "all"
Queues == Flows \cup {Shared}
QueueOf(p) == IF config.discipline = "Fifo" THEN Shared ELSE p.flow
AllEmpty == \A q \in Queues : queue[q] = << >>
Queued == UNION {Range(queue[q]) : q \in Queues}
Weight(f) == IF flow_weights[f] > 1 THEN flow_weights[f] ELSE 1
Least(S) == CHOOSE n \in S : \A m \in S : n <= m

ReaderStates == {"Idle", "Acquire", "Measure", "Push", "Notify"}
WriterStates == {"Controls", "Check", "Wait", "Collect", "Turn", "Release", "Send", "Meter", "Delayed"}

SchedInit ==
    /\ config \in Configs
    /\ offered = 0 /\ asked = 0
    /\ channel = << >> /\ reader = "Idle" /\ packet = NoPacket /\ seen_len = 0
    /\ queue = [q \in Queues |-> << >>]
    /\ notified = FALSE
    /\ permits = Capacity
    /\ controls = << >>
    /\ flow_weights = [f \in Flows |-> 1]
    /\ writer = "Controls"
    /\ flow_ids = {} /\ turn = {} /\ rounds = 0
    /\ batch = << >>
    /\ bucket = NoBucket /\ delayed = << >> /\ retry_count = 0 /\ sent = << >>
    /\ overtaken = FALSE

-----------------------------------------------------------------------------
(* SchedulerHandle *)

\* Under backpressure the caller waits for room in the channel, otherwise the
\* packet is dropped.
Offer(k) ==
    /\ offered < MaxPackets
    /\ offered' = offered + 1
    /\ Len(channel) < ChannelCapacity \/ ~config.backpressure
    /\ IF Len(channel) < ChannelCapacity
       THEN channel' = Append(channel, Packet(offered', k))
       ELSE UNCHANGED channel
    /\ UNCHANGED <<config, reader, packet, seen_len, queue, notified, permits, controlVars,
                   writer, collectVars, batch, sendVars, overtaken>>

RateLimit(size) == [kind |-> "RateLimit", size |-> size]
SetFlowWeight(f, w) == [kind |-> "SetFlowWeight", flow |-> f, weight |-> w]
LinkProbePackets == [kind |-> "LinkProbePackets"]
ControlMessages ==
    {RateLimit(s) : s \in BucketSizes} \cup {LinkProbePackets}
    \cup {SetFlowWeight(f, w) : f \in Flows, w \in Weights}

SendControl(m) ==
    /\ asked < MaxControls
    /\ asked' = asked + 1
    /\ controls' = Append(controls, m)
    /\ UNCHANGED <<config, offered, readerVars, queue, notified, permits, flow_weights, writer,
                   collectVars, batch, sendVars, overtaken>>

-----------------------------------------------------------------------------
(* SchedulerReader::run and enqueue, one packet at a time *)

TakePacket ==
    /\ reader = "Idle"
    /\ channel # << >>
    /\ packet' = Head(channel)
    /\ channel' = Tail(channel)
    /\ reader' = IF config.backpressure THEN "Acquire" ELSE "Measure"
    /\ UNCHANGED <<config, offered, seen_len, queue, notified, permits, controlVars, writer,
                   collectVars, batch, sendVars, overtaken>>

AcquireSlot ==
    /\ reader = "Acquire"
    /\ permits > 0
    /\ permits' = permits - 1
    /\ reader' = "Measure"
    /\ UNCHANGED <<config, offered, channel, packet, seen_len, queue, notified, controlVars,
                   writer, collectVars, batch, sendVars, overtaken>>

Forget == reader' = "Idle" /\ packet' = NoPacket /\ seen_len' = 0

\* PacketDrop::should_drop: TailDrop drops what does not fit.  Red also draws
\* lots above its lower threshold; its average queue length stays 0, as
\* 1 / 2^9 is 0 in usize, so that the lot is fair only above the upper one.
DropDecisions(len) ==
    IF len + 1 > Capacity THEN {TRUE}
    ELSE IF config.drop = "Red" /\ len + 1 > (7 * Capacity) \div 10 THEN BOOLEAN
    ELSE {FALSE}

\* The length is read here and used by both steps that follow.
MeasureQueue ==
    LET len == Len(queue[QueueOf(packet)]) IN
    /\ reader = "Measure"
    /\ \E drop \in (IF config.backpressure THEN {FALSE} ELSE DropDecisions(len)) :
          IF drop THEN Forget
          ELSE reader' = "Push" /\ seen_len' = len /\ UNCHANGED packet
    /\ UNCHANGED <<config, offered, channel, queue, notified, permits, controlVars, writer,
                   collectVars, batch, sendVars, overtaken>>

\* Slip: the threshold alone decides, not the transition from an empty queue
WakesAtThreshold(p, len) == ~p.data \/ len + 1 > 2

\* The writer is notified at once unless the packet is TCP data that joins a
\* queue of one.
Wakes(p, len) == ~p.data \/ len = 0 \/ len + 1 > 2

\* queue.enqueue: a full queue refuses the packet and the slot is given back.
PushPacket ==
    LET q == QueueOf(packet) IN
    /\ reader = "Push"
    /\ IF Len(queue[q]) < Capacity
       THEN /\ queue' = [queue EXCEPT ![q] = Append(@, packet)]
            /\ IF Wakes(packet, seen_len)
               THEN reader' = "Notify" /\ UNCHANGED <<packet, seen_len>>
               ELSE Forget
            /\ overtaken' = (overtaken \/ (~Wakes(packet, seen_len) /\ seen_len > 0 /\ AllEmpty))
            /\ UNCHANGED permits
       ELSE /\ Forget
            /\ permits' = IF config.backpressure THEN permits + 1 ELSE permits
            /\ UNCHANGED <<queue, overtaken>>
    /\ UNCHANGED <<config, offered, channel, notified, controlVars, writer, collectVars,
                   batch, sendVars>>

NotifyWriter ==
    /\ reader = "Notify"
    /\ notified' = TRUE
    /\ Forget
    /\ UNCHANGED <<config, offered, channel, queue, permits, controlVars, writer, collectVars,
                   batch, sendVars, overtaken>>

-----------------------------------------------------------------------------
(* SchedulerWriter::run *)

\* One control message; probe packets bypass the queues.
ApplyControl ==
    /\ controls # << >>
    /\ controls' = Tail(controls)
    /\ LET m == Head(controls) IN
       /\ bucket' = IF m.kind = "RateLimit" THEN [size |-> m.size, tokens |-> m.size] ELSE bucket
       /\ flow_weights' = IF m.kind = "SetFlowWeight" /\ config.discipline = "Wrr"
                          THEN [flow_weights EXCEPT ![m.flow] = m.weight] ELSE flow_weights
    /\ UNCHANGED <<config, offered, asked, readerVars, queue, notified, permits, collectVars,
                   batch, delayed, retry_count, sent, overtaken>>

WriterMoves(from, to) ==
    /\ writer = from
    /\ writer' = to
    /\ UNCHANGED <<config, offered, readerVars, queue, permits, controlVars, collectVars,
                   batch, sendVars, overtaken>>

HandleControl == writer = "Controls" /\ ApplyControl /\ UNCHANGED writer
ControlsHandled == controls = << >> /\ WriterMoves("Controls", "Check") /\ UNCHANGED notified

CheckQueues ==
    WriterMoves("Check", IF AllEmpty THEN "Wait" ELSE "Collect") /\ UNCHANGED notified

WakeUp == notified /\ notified' = FALSE /\ WriterMoves("Wait", "Check")
WakeForControl == writer = "Wait" /\ ApplyControl /\ writer' = "Check"

\* Slip: the newest packet is popped
PopNewest ==
    /\ config.discipline = "Fifo"
    /\ writer = "Collect"
    /\ IF queue[Shared] = << >>
       THEN writer' = "Release" /\ UNCHANGED <<queue, batch>>
       ELSE /\ batch' = Append(batch, queue[Shared][Len(queue[Shared])])
            /\ queue' = [queue EXCEPT ![Shared] = SubSeq(@, 1, Len(@) - 1)]
            /\ UNCHANGED writer
    /\ UNCHANGED <<config, offered, readerVars, notified, permits, controlVars, collectVars,
                   sendVars, overtaken>>

\* FifoQueue::collect_packets pops until it finds the queue empty.
PopFifo ==
    /\ config.discipline = "Fifo"
    /\ writer = "Collect"
    /\ IF queue[Shared] = << >>
       THEN writer' = "Release" /\ UNCHANGED <<queue, batch>>
       ELSE /\ batch' = Append(batch, Head(queue[Shared]))
            /\ queue' = [queue EXCEPT ![Shared] = Tail(@)]
            /\ UNCHANGED writer
    /\ UNCHANGED <<config, offered, readerVars, notified, permits, controlVars, collectVars,
                   sendVars, overtaken>>

\* WrrQueue::collect_packets, up to the release of its locks: as many rounds as
\* the shortest queue allows, at least one.
CountRounds ==
    LET busy == {f \in Flows : queue[f] # << >>}
        allowed == {Len(queue[f]) \div Weight(f) : f \in busy}
    IN
    /\ config.discipline = "Wrr"
    /\ writer = "Collect"
    /\ busy # {}
    /\ flow_ids' = busy
    /\ turn' = busy
    /\ rounds' = IF Least(allowed) > 1 THEN Least(allowed) ELSE 1
    /\ writer' = "Turn"
    /\ UNCHANGED <<config, offered, readerVars, queue, notified, permits, controlVars, batch,
                   sendVars, overtaken>>

\* One flow's turn: up to its weight of packets, those enqueued meanwhile
\* included.  The order of the flows is a hash map's.
TakeTurn(f) ==
    LET n == IF Len(queue[f]) < Weight(f) THEN Len(queue[f]) ELSE Weight(f)
        last == turn = {f}
    IN
    /\ writer = "Turn"
    /\ f \in turn
    /\ batch' = batch \o SubSeq(queue[f], 1, n)
    /\ queue' = [queue EXCEPT ![f] = SubSeq(@, n + 1, Len(@))]
    /\ IF ~last THEN turn' = turn \ {f} /\ UNCHANGED <<rounds, flow_ids, writer>>
       ELSE IF rounds > 1 THEN turn' = flow_ids /\ rounds' = rounds - 1 /\ UNCHANGED <<flow_ids, writer>>
       ELSE turn' = {} /\ rounds' = 0 /\ flow_ids' = {} /\ writer' = "Release"
    /\ UNCHANGED <<config, offered, readerVars, notified, permits, controlVars, sendVars, overtaken>>

\* Slip: the slots of a batch are never given back
KeepSlots ==
    /\ writer = "Release"
    /\ writer' = "Send"
    /\ UNCHANGED <<config, offered, readerVars, queue, notified, permits, controlVars,
                   collectVars, batch, sendVars, overtaken>>

\* Slots are free again once the packets are dequeued, before they are sent.
ReleaseSlots ==
    /\ writer = "Release"
    /\ writer' = "Send"
    /\ permits' = IF config.backpressure THEN permits + Len(batch) ELSE permits
    /\ UNCHANGED <<config, offered, readerVars, queue, notified, controlVars, collectVars,
                   batch, sendVars, overtaken>>

\* TokenBucket::update_tokens: time has brought some tokens, up to the size.
Refills == {[bucket EXCEPT !.tokens = t] : t \in bucket.tokens .. bucket.size}

\* Without a token bucket the batch goes out as it is.
SendBatch ==
    /\ writer = "Send"
    /\ \/ /\ bucket = NoBucket
          /\ sent' = sent \o batch /\ batch' = << >>
          /\ writer' = "Controls"
          /\ UNCHANGED bucket
       \/ /\ bucket # NoBucket
          /\ bucket' \in Refills
          /\ writer' = "Meter"
          /\ UNCHANGED <<sent, batch>>
    /\ UNCHANGED <<config, offered, readerVars, queue, notified, permits, controlVars,
                   collectVars, delayed, retry_count, overtaken>>

\* The greedy pass of TokenBucket::send over the batch: what the tokens allow
\* is sent, the rest is put aside.
MeterPacket ==
    LET p == Head(batch) IN
    /\ writer = "Meter"
    /\ batch # << >>
    /\ batch' = Tail(batch)
    /\ \/ /\ bucket.tokens >= p.size
          /\ bucket' = [bucket EXCEPT !.tokens = @ - p.size]
          /\ sent' = Append(sent, p)
          /\ UNCHANGED delayed
       \/ /\ bucket.tokens < p.size
          /\ delayed' = Append(delayed, p)
          /\ UNCHANGED <<bucket, sent>>
    /\ UNCHANGED <<config, offered, readerVars, queue, notified, permits, controlVars, writer,
                   collectVars, retry_count, overtaken>>

BatchMetered == batch = << >> /\ WriterMoves("Meter", "Delayed") /\ UNCHANGED notified

\* The delayed packets one by one: one that exceeds the bucket is dropped, one
\* that fits is sent; otherwise the writer sleeps, at most MaxRetries times.
\* A sleep may fall short of the tokens it was computed for.
SendDelayed ==
    LET p == Head(delayed)
        done == delayed' = Tail(delayed) /\ retry_count' = 0
    IN
    /\ writer = "Delayed"
    /\ delayed # << >>
    /\ \/ /\ p.size > bucket.size
          /\ done
          /\ UNCHANGED <<bucket, sent>>
       \/ /\ p.size <= bucket.size
          /\ \E b \in Refills :
                \/ /\ b.tokens >= p.size
                   /\ bucket' = [b EXCEPT !.tokens = @ - p.size]
                   /\ sent' = Append(sent, p) /\ done
                \/ /\ b.tokens < p.size
                   /\ bucket' = b
                   /\ IF retry_count + 1 < MaxRetries
                      THEN retry_count' = retry_count + 1 /\ UNCHANGED delayed
                      ELSE done
                   /\ UNCHANGED sent
    /\ UNCHANGED <<config, offered, readerVars, queue, notified, permits, controlVars, writer,
                   collectVars, batch, overtaken>>

BatchDone == delayed = << >> /\ WriterMoves("Delayed", "Controls") /\ UNCHANGED notified

-----------------------------------------------------------------------------
Reader == TakePacket \/ AcquireSlot \/ MeasureQueue \/ PushPacket \/ NotifyWriter
Writer ==
    \/ HandleControl \/ ControlsHandled \/ CheckQueues \/ WakeUp \/ WakeForControl
    \/ PopFifo \/ CountRounds \/ (\E f \in Flows : TakeTurn(f))
    \/ ReleaseSlots \/ SendBatch \/ MeterPacket \/ BatchMetered \/ SendDelayed \/ BatchDone

SchedNext ==
    \/ \E k \in Kinds : Offer(k)
    \/ \E m \in ControlMessages : SendControl(m)
    \/ Reader
    \/ Writer

\* Both tasks are scheduled again whenever they can run.
SchedSpec ==
    SchedInit /\ [][SchedNext]_schedVars /\ WF_schedVars(Reader) /\ WF_schedVars(Writer)

-----------------------------------------------------------------------------
(* Properties *)

\* "Scheduler queues are empty when the consumer task runs" is never the case:
\* what the writer saw through is_empty is still there when WRR counts rounds.
CollectsFromQueues == writer = "Collect" /\ config.discipline = "Wrr" => ~AllEmpty

\* Backpressure tracks queue occupancy: every slot is free, held by the packet
\* the reader is placing, or by a packet that is queued or being collected.
SlotsBalance ==
    config.backpressure =>
        LET held == IF reader \in {"Measure", "Push"} THEN 1 ELSE 0
            collected == IF writer \in {"Collect", "Turn", "Release"} THEN Len(batch) ELSE 0
        IN permits + held + Cardinality(Queued) + collected = Capacity

\* A packet that was let through is never refused by its queue, although the
\* length was read earlier and, under backpressure, is not compared at all:
\* with WRR the slots are shared by queues that each have the full capacity.
NeverRefused == reader = "Push" => Len(queue[QueueOf(packet)]) < Capacity

\* Packets of one flow leave in the order they came; only a token bucket lets
\* one overtake another, and then the overtaking packet is smaller.
FlowOrder ==
    \A i, j \in DOMAIN sent :
        i < j /\ sent[i].flow = sent[j].flow /\ sent[i].id > sent[j].id
            => bucket # NoBucket /\ sent[i].size < sent[j].size

\* A queued packet is collected: WRR starves no flow, and no wake-up is lost,
\* unless TCP data was placed in emptied queues on the strength of a length
\* read before they were emptied (reader.rs reads queue_len, then enqueues).
PacketsServed == ~AllEmpty ~> (AllEmpty \/ overtaken)

\* The slots, the queues and what the writer collects add up in every
\* interleaving of reader and writer (enqueue, collect_packets, release).
SlotLedger == SlotsBalance /\ NeverRefused /\ CollectsFromQueues

-----------------------------------------------------------------------------
(* What makes the two invariants inductive.  SchedulerProofs has the         *)
(* argument.                                                                 *)

Packets == [id : Nat \ {0}, flow : Flows, data : BOOLEAN, size : Nat \ {0}]
Buckets == [size : Nat, tokens : Nat]

SchedTypeOK ==
    /\ config \in Configs
    /\ offered \in Nat /\ asked \in Nat /\ permits \in Nat
    /\ channel \in Seq(Packets)
    /\ reader \in ReaderStates
    /\ packet \in Packets \cup {NoPacket} /\ (reader # "Idle" => packet \in Packets)
    /\ seen_len \in Nat
    /\ queue \in [Queues -> Seq(Packets)]
    /\ notified \in BOOLEAN /\ overtaken \in BOOLEAN
    /\ controls \in Seq(ControlMessages)
    /\ flow_weights \in [Flows -> Nat]
    /\ writer \in WriterStates
    /\ flow_ids \subseteq Flows /\ turn \subseteq Flows
    /\ batch \in Seq(Packets) /\ delayed \in Seq(Packets) /\ sent \in Seq(Packets)
    /\ bucket \in Buckets
    /\ retry_count \in Nat

\* Packets of one flow stand in the order of their ids, within a sequence and
\* between one sequence and another that is behind it.
Ascending(s) ==
    \A i, j \in DOMAIN s : i < j /\ s[i].flow = s[j].flow => s[i].id < s[j].id
Precedes(s, t) ==
    \A i \in DOMAIN s, j \in DOMAIN t : s[i].flow = t[j].flow => s[i].id < t[j].id

UpTo(s, n) == \A i \in DOMAIN s : s[i].id <= n

\* The packet the reader has taken and not placed yet
InHand == IF reader \in {"Acquire", "Measure", "Push"} THEN <<packet>> ELSE << >>

\* Every queued packet is in the queue of its flow.
InOwnQueue == \A q \in Queues : \A i \in DOMAIN queue[q] : QueueOf(queue[q][i]) = q

\* From the channel to the batch packets of a flow never overtake each other.
PipelineOrder ==
    /\ UpTo(channel, offered) /\ UpTo(InHand, offered)
    /\ UpTo(batch, offered) /\ UpTo(delayed, offered) /\ UpTo(sent, offered)
    /\ Ascending(channel) /\ Ascending(batch) /\ Ascending(delayed)
    /\ Precedes(InHand, channel)
    /\ \A q \in Queues :
          /\ UpTo(queue[q], offered) /\ Ascending(queue[q])
          /\ Precedes(queue[q], InHand) /\ Precedes(queue[q], channel)
          /\ Precedes(batch, queue[q]) /\ Precedes(delayed, queue[q]) /\ Precedes(sent, queue[q])
    /\ Precedes(batch, InHand) /\ Precedes(batch, channel)
    /\ Precedes(delayed, InHand) /\ Precedes(delayed, channel) /\ Precedes(delayed, batch)
    /\ Precedes(sent, InHand) /\ Precedes(sent, channel) /\ Precedes(sent, batch)

\* What was sent before a delayed packet that is older is smaller: it passed
\* with fewer tokens than the delayed packet was refused.
OvertakingIsSmaller ==
    /\ \A i \in DOMAIN sent, j \in DOMAIN delayed :
          sent[i].flow = delayed[j].flow /\ sent[i].id >= delayed[j].id
              => sent[i].size < delayed[j].size
    /\ writer = "Meter" => \A j \in DOMAIN delayed : bucket.tokens < delayed[j].size

\* Packets are put aside only while a token bucket meters them, and a limit
\* that was set stays.
MeteredOnly ==
    /\ bucket # NoBucket => bucket.size > 0
    /\ writer \in {"Meter", "Delayed"} => bucket # NoBucket
    /\ writer \notin {"Meter", "Delayed"} => delayed = << >>
    /\ writer \notin {"Collect", "Turn", "Release", "Send", "Meter"} => batch = << >>

SchedInv ==
    /\ SchedTypeOK /\ InOwnQueue /\ PipelineOrder /\ OvertakingIsSmaller /\ MeteredOnly
    /\ FlowOrder /\ IsFiniteSet(Queued) /\ SlotLedger
=============================================================================
