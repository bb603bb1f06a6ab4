----------------------------- MODULE TunWriter -----------------------------
(***************************************************************************)
(* The concurrent writer of the local TUN interface                        *)
(* (dataplane/src/node/local/writer.rs and, with batches, writer_tso.rs):  *)
(* a producer takes the packets of the processors, a consumer puts the TCP *)
(* data of a flow back in order.  They share a heap, the set of active     *)
(* flows, the expected sequence number and the deadline of a gap, each     *)
(* under a lock of its own, and wake each other with a Notify.  One flow   *)
(* is modelled; every section under a lock is a step.                      *)
(***************************************************************************)
EXTENDS Integers, Sequences, FiniteSets

CONSTANTS
    Space,          \* size of the sequence space, 2^32 in the code
    Start,          \* sequence number of the SYN
    Sizes,          \* payloads of the flow's data packets, in stream order
    Settings,       \* the LocalConfig values to consider
    Copies,         \* packet -> bound on its arrivals
    BatchSize       \* IDEAL_BATCH_SIZE; 1 for the writer without batches

VARIABLES
    tolerances,     \* what reorder_tolerances makes of the configuration
    arrived,        \* packet -> times the processors have handed it over
    producer,       \* what the producer is doing, and with which packet
    heap,           \* data packet -> its copies in the flow's heap
    active,         \* the flow is in active_flows
    expected,       \* the flow's entry of expected_seq_map, or None
    deadline,       \* the flow's entry of gap_deadlines: "none", "armed" or "passed"
    timers,         \* sleeping timers: of this deadline (own) and of earlier ones (old)
    permit,         \* the permit of queue_not_empty
    consumer,       \* where the consumer is, and its local variables
    batch,          \* pending_packets
    written,        \* data written to the device, in order (history)
    forced,         \* a gap was given up, or the flow was first seen in its middle (history)
    overtaken       \* the flow was retired after a packet had been pushed (history)

vars == <<tolerances, arrived, producer, heap, active, expected, deadline, timers,
          permit, consumer, batch, written, forced, overtaken>>

-----------------------------------------------------------------------------
(* Packets and sequence numbers *)

Data == 1 .. Len(Sizes)
SYN == 0
FIN == Len(Sizes) + 1
Packets == SYN .. FIN
None == -1

Offset[p \in 1 .. FIN] == IF p = 1 THEN 1 ELSE Offset[p - 1] + Sizes[p - 1]
SeqNum(p) == (Start + (IF p = SYN THEN 0 ELSE Offset[p])) % Space
PayloadLen(p) == IF p \in Data THEN Sizes[p] ELSE 0

\* Slip: numbers are compared without regard to the wrap.
SeqLessUnwrapped(a, b) == a < b

\* a.wrapping_sub(b) as i32 < 0
SeqLess(a, b) == (a - b) % Space >= Space \div 2
Later(a, b) == IF SeqLess(a, b) THEN b ELSE a

Queued == {p \in Data : heap[p] > 0}
Smallest(p) == p \in Queued /\ \A q \in Queued : q # p => SeqLess(SeqNum(p), SeqNum(q))

\* (enforce, gap_timeout, backlog)
ReorderTolerances(c) ==
    [enforce |-> c.enforce_tcp_order,
     gap |-> c.enforce_tcp_order /\ c.delay_tolerance > 0,
     backlog |-> IF c.enforce_tcp_order THEN c.backlog_tolerance ELSE 0]

Waiting == [step |-> "wait", top |-> None, expected |-> None, held |-> None, progressed |-> FALSE]
Idle == [step |-> "recv", packet |-> None]

Init ==
    /\ tolerances \in {ReorderTolerances(c) : c \in Settings}
    /\ arrived = [p \in Packets |-> 0]
    /\ producer = Idle
    /\ heap = [p \in Data |-> 0]
    /\ active = FALSE
    /\ expected = None
    /\ deadline = "none"
    /\ timers = [own |-> 0, old |-> 0]
    /\ permit = FALSE
    /\ consumer = Waiting
    /\ batch = << >>
    /\ written = << >>
    /\ forced = FALSE
    /\ overtaken = FALSE

\* Slip: the timer is cancelled along with its deadline.
RemoveDeadlineAndTimer ==
    /\ deadline' = "none"
    /\ timers' = [own |-> 0, old |-> 0]

\* deadlines.remove: a timer that still sleeps has lost its deadline.
RemoveDeadline ==
    /\ deadline' = "none"
    /\ timers' = [own |-> 0, old |-> timers.old + timers.own]

-----------------------------------------------------------------------------
(* The producer *)

\* A SYN opens the flow: the locks are held together.
ReceiveSyn ==
    /\ tolerances.enforce
    /\ expected' = (SeqNum(SYN) + 1) % Space
    /\ active' = TRUE
    /\ RemoveDeadline
    /\ UNCHANGED <<producer, heap, written>>

\* A FIN or RST without payload moves the expectation past itself.
ReceiveFin ==
    /\ tolerances.enforce
    /\ LET next == (SeqNum(FIN) + 1) % Space
       IN expected' = IF expected = None THEN next ELSE Later(expected, next)
    /\ RemoveDeadline
    /\ UNCHANGED <<producer, heap, active, written>>

\* The packet goes to the device at once.
WriteThrough(p) ==
    /\ ~tolerances.enforce
    /\ written' = IF p \in Data THEN Append(written, p) ELSE written
    /\ UNCHANGED <<producer, heap, active, expected, deadline, timers>>

PushData(p) ==
    /\ tolerances.enforce
    /\ heap' = [heap EXCEPT ![p] = @ + 1]
    /\ producer' = [step |-> "activate", packet |-> p]
    /\ UNCHANGED <<active, expected, deadline, timers, written>>

Receive(p) ==
    /\ producer.step = "recv"
    /\ arrived[p] < Copies[p]
    /\ arrived' = [arrived EXCEPT ![p] = @ + 1]
    /\ \/ p = SYN /\ ReceiveSyn
       \/ p = FIN /\ ReceiveFin
       \/ p \in Data /\ PushData(p)
       \/ WriteThrough(p)
    /\ UNCHANGED <<tolerances, permit, consumer, batch, forced, overtaken>>

Activate ==
    /\ producer.step = "activate"
    /\ active' = TRUE
    /\ producer' = [producer EXCEPT !.step = "notify"]
    /\ UNCHANGED <<tolerances, arrived, heap, expected, deadline, timers, permit,
                   consumer, batch, written, forced, overtaken>>

NotifyOne ==
    /\ producer.step = "notify"
    /\ permit' = TRUE
    /\ producer' = Idle
    /\ UNCHANGED <<tolerances, arrived, heap, active, expected, deadline, timers,
                   consumer, batch, written, forced, overtaken>>

-----------------------------------------------------------------------------
(* The timer of a gap *)

DeadlinePasses ==
    /\ deadline = "armed"
    /\ deadline' = "passed"
    /\ UNCHANGED <<tolerances, arrived, producer, heap, active, expected, timers,
                   permit, consumer, batch, written, forced, overtaken>>

\* A timer sleeps at least until its own deadline.
TimerFires ==
    /\ \/ /\ timers.own > 0 /\ deadline = "passed"
          /\ timers' = [timers EXCEPT !.own = @ - 1]
       \/ /\ timers.old > 0
          /\ timers' = [timers EXCEPT !.old = @ - 1]
    /\ permit' = TRUE
    /\ UNCHANGED <<tolerances, arrived, producer, heap, active, expected, deadline,
                   consumer, batch, written, forced, overtaken>>

-----------------------------------------------------------------------------
(* The consumer *)

At(s) == consumer.step = s
Goto(s) == consumer' = [consumer EXCEPT !.step = s]
Progress(s) == consumer' = [consumer EXCEPT !.step = s, !.held = None, !.progressed = TRUE]

\* pending_packets.push, written when the batch is full.
Emit(p) ==
    LET b == Append(batch, p)
    IN IF Len(b) >= BatchSize
       THEN written' = written \o b /\ batch' = << >>
       ELSE batch' = b /\ UNCHANGED written

Notified ==
    /\ At("wait") /\ permit
    /\ permit' = FALSE
    /\ Goto("snapshot")
    /\ UNCHANGED <<tolerances, arrived, producer, heap, active, expected, deadline,
                   timers, batch, written, forced, overtaken>>

\* No active flow ends the round, and the round ends with a flush.
EndRound ==
    /\ consumer' = Waiting
    /\ written' = written \o batch
    /\ batch' = << >>

Snapshot ==
    /\ At("snapshot")
    /\ \/ ~active /\ EndRound
       \/ /\ active
          /\ consumer' = [consumer EXCEPT !.step = "peek", !.progressed = FALSE]
          /\ UNCHANGED <<batch, written>>
    /\ UNCHANGED <<tolerances, arrived, producer, heap, active, expected, deadline,
                   timers, permit, forced, overtaken>>

Peek ==
    /\ At("peek")
    /\ \/ Queued = {} /\ consumer' = [consumer EXCEPT !.step = "retire"]
       \/ \E p \in Data : Smallest(p) /\ consumer' = [consumer EXCEPT !.step = "expected", !.top = p]
    /\ UNCHANGED <<tolerances, arrived, producer, heap, active, expected, deadline,
                   timers, permit, batch, written, forced, overtaken>>

\* The flow leaves active_flows; the heap is not looked at again.
Retire(next) ==
    /\ active' = FALSE
    /\ RemoveDeadline
    /\ overtaken' = (overtaken \/ Queued # {})
    /\ Goto(next)
    /\ UNCHANGED <<tolerances, arrived, producer, heap, expected, permit, batch, written, forced>>

ReadExpected ==
    /\ At("expected")
    /\ expected' = IF expected = None THEN SeqNum(consumer.top) ELSE expected
    /\ forced' = (forced \/ expected = None)
    /\ consumer' = [consumer EXCEPT !.step = "stale", !.expected = expected']
    /\ UNCHANGED <<tolerances, arrived, producer, heap, active, deadline, timers,
                   permit, batch, written, overtaken>>

\* Slip: data from before the expectation is taken for a duplicate.
WriteStaleDropped ==
    /\ At("stale")
    /\ \E p \in Data :
        /\ Smallest(p)
        /\ SeqLess(SeqNum(p), consumer.expected)
        /\ heap' = [heap EXCEPT ![p] = @ - 1]
    /\ Progress("peek")
    /\ UNCHANGED <<tolerances, arrived, producer, active, expected, deadline, timers,
                   permit, batch, written, forced, overtaken>>

\* Data from before the expectation is written at once.
WriteStale ==
    /\ At("stale")
    /\ \E p \in Data :
        /\ Smallest(p)
        /\ SeqLess(SeqNum(p), consumer.expected)
        /\ heap' = [heap EXCEPT ![p] = @ - 1]
        /\ Emit(p)
    /\ Progress("peek")
    /\ UNCHANGED <<tolerances, arrived, producer, active, expected, deadline, timers,
                   permit, forced, overtaken>>

\* Otherwise the peeked packet is due, or it is not the expected one.
Judge ==
    /\ At("stale")
    /\ \A p \in Data : Smallest(p) => ~SeqLess(SeqNum(p), consumer.expected)
    /\ Goto(IF SeqNum(consumer.top) = consumer.expected THEN "pop" ELSE "backlog")
    /\ UNCHANGED <<tolerances, arrived, producer, heap, active, expected, deadline,
                   timers, permit, batch, written, forced, overtaken>>

QueueLength == LET Sum[p \in 0 .. Len(Sizes)] == IF p = 0 THEN 0 ELSE heap[p] + Sum[p - 1]
               IN Sum[Len(Sizes)]

CheckBacklog ==
    /\ At("backlog")
    /\ Goto(IF tolerances.backlog > 0 /\ QueueLength >= tolerances.backlog
            THEN "overflow" ELSE "old")
    /\ UNCHANGED <<tolerances, arrived, producer, heap, active, expected, deadline,
                   timers, permit, batch, written, forced, overtaken>>

\* The expectation moves up to the peeked packet, never back.
GiveUpGap ==
    /\ expected' = IF expected = None THEN SeqNum(consumer.top)
                   ELSE Later(expected, SeqNum(consumer.top))
    /\ forced' = TRUE

ForceBacklog ==
    /\ At("overflow")
    /\ RemoveDeadline
    /\ GiveUpGap
    /\ Progress("old")
    /\ UNCHANGED <<tolerances, arrived, producer, heap, active, permit, batch, written, overtaken>>

\* The pop takes what is on top now, which the producer may have changed.
PopDue ==
    /\ At("pop")
    /\ \E p \in Data :
        /\ Smallest(p)
        /\ heap' = [heap EXCEPT ![p] = @ - 1]
        /\ consumer' = [consumer EXCEPT !.step = "next", !.held = p]
    /\ UNCHANGED <<tolerances, arrived, producer, active, expected, deadline, timers,
                   permit, batch, written, forced, overtaken>>

\* exp_now and next_expected, read under one lock ...
ReadNext ==
    /\ At("next")
    /\ consumer' = [consumer EXCEPT !.step = "advance",
                                    !.expected = (expected + PayloadLen(consumer.held)) % Space]
    /\ UNCHANGED <<tolerances, arrived, producer, heap, active, expected, deadline,
                   timers, permit, batch, written, forced, overtaken>>

\* ... and stored under another; then the packet is written.
WriteDue ==
    /\ At("advance")
    /\ expected' = Later(expected, consumer.expected)
    /\ Emit(consumer.held)
    /\ RemoveDeadline
    /\ Progress("empty")
    /\ UNCHANGED <<tolerances, arrived, producer, heap, active, permit, forced, overtaken>>

CheckEmpty ==
    /\ At("empty")
    /\ Goto(IF Queued = {} THEN "deactivate" ELSE "peek")
    /\ UNCHANGED <<tolerances, arrived, producer, heap, active, expected, deadline,
                   timers, permit, batch, written, forced, overtaken>>

\* A peeked packet older than the expectation is popped and not written.
DiscardOld ==
    /\ At("old")
    /\ IF SeqLess(SeqNum(consumer.top), consumer.expected)
       THEN /\ \E p \in Data : Smallest(p) /\ heap' = [heap EXCEPT ![p] = @ - 1]
            /\ Progress("peek")
       ELSE UNCHANGED heap /\ Goto("gap")
    /\ UNCHANGED <<tolerances, arrived, producer, active, expected, deadline, timers,
                   permit, batch, written, forced, overtaken>>

\* A gap waits for its deadline, and the first look at it arms the timer.
ConsultDeadline ==
    /\ At("gap")
    /\ \/ /\ deadline = "passed"
          /\ RemoveDeadline
          /\ Goto("expire")
       \/ /\ deadline = "armed"
          /\ UNCHANGED <<deadline, timers>>
          /\ Goto("done")
       \/ /\ deadline = "none"
          /\ deadline' = IF tolerances.gap THEN "armed" ELSE "none"
          /\ timers' = [timers EXCEPT !.own = IF tolerances.gap THEN 1 ELSE 0]
          /\ Goto("done")
    /\ UNCHANGED <<tolerances, arrived, producer, heap, active, expected, permit,
                   batch, written, forced, overtaken>>

ExpireGap ==
    /\ At("expire")
    /\ GiveUpGap
    /\ Progress("peek")
    /\ UNCHANGED <<tolerances, arrived, producer, heap, active, deadline, timers,
                   permit, batch, written, overtaken>>

\* Another round after progress; otherwise back to the Notify.
FlowDone ==
    /\ At("done")
    /\ \/ consumer.progressed /\ Goto("snapshot") /\ UNCHANGED <<batch, written>>
       \/ ~consumer.progressed /\ EndRound
    /\ UNCHANGED <<tolerances, arrived, producer, heap, active, expected, deadline,
                   timers, permit, forced, overtaken>>

Consume ==
    \/ Notified \/ Snapshot \/ Peek \/ ReadExpected \/ WriteStale \/ Judge
    \/ At("retire") /\ Retire("done")
    \/ CheckBacklog \/ ForceBacklog \/ PopDue \/ ReadNext \/ WriteDue \/ CheckEmpty
    \/ At("deactivate") /\ Retire("peek")
    \/ DiscardOld \/ ConsultDeadline \/ ExpireGap \/ FlowDone

Next ==
    \/ \E p \in Packets : Receive(p)
    \/ Activate \/ NotifyOne
    \/ DeadlinePasses \/ TimerFires
    \/ Consume

Spec == Init /\ [][Next]_vars

-----------------------------------------------------------------------------
(* Properties *)

Occurrences(p, s) == Cardinality({i \in 1 .. Len(s) : s[i] = p})

\* No data packet that reaches the writer is lost or written twice: each
\* arrival is in the heap, in the consumer's hands, in its batch or written.
\* In particular DiscardOld never finds an old packet.
NothingDropped ==
    \A p \in Data :
        arrived[p] = heap[p] + (IF consumer.held = p THEN 1 ELSE 0)
                     + Occurrences(p, batch) + Occurrences(p, written)

Resent == \E p \in Packets : arrived[p] > 1

\* A flow that opens with its SYN, whose gaps all close in time, that sends
\* nothing twice and is not finished yet is written in the order of its
\* sequence numbers and without a hole, over the wrap of the sequence space.
InOrderUnlessForced ==
    tolerances.enforce /\ ~forced /\ ~Resent /\ arrived[FIN] = 0 /\ arrived[SYN] = 1
        => \A i \in 1 .. Len(written \o batch) : (written \o batch)[i] = i

AtRest == producer.step = "recv" /\ At("wait") /\ ~permit

\* A packet stays in the heap only for a gap: when both tasks are at rest it
\* lies behind the expectation, or a timer that will wake the consumer is
\* running.  The exception is a push that overtook the consumer between its
\* last look at the empty heap and the removal from active_flows.
HeldOnlyForGaps ==
    AtRest /\ Queued # {} =>
        \/ overtaken
        \/ /\ active
           /\ tolerances.gap => timers.own + timers.old > 0
           /\ \/ arrived[FIN] > 0
              \/ \A p \in Queued : SeqLess(expected, SeqNum(p))
=============================================================================
