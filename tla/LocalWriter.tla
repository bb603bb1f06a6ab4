---------------------------- MODULE LocalWriter ----------------------------
(***************************************************************************)
(* The writer of the local TUN interface, TunWriter, as a part of a        *)
(* composition: its constants and variables, what they are assumed to be,  *)
(* and what the writer promises.                                           *)
(***************************************************************************)
EXTENDS Integers, Sequences

CONSTANTS
    Space, Start, Sizes, Settings, Copies, BatchSize

VARIABLES
    tolerances, arrived, producer, heap, active, expected, deadline, timers, permit,
    consumer, batch, written, forced, overtaken

TW == INSTANCE TunWriter

tunVars == <<tolerances, arrived, producer, heap, active, expected, deadline, timers, permit,
             consumer, batch, written, forced, overtaken>>

\* The payloads, and room for them: the flow and a packet more stay within half
\* of the sequence space, where SeqLess can compare its numbers.
Half == Space \div 2
FlowFits ==
    /\ Space \in Nat \ {0} /\ Start \in Nat
    /\ Sizes \in Seq(Nat \ {0})
    /\ TW!Offset[TW!FIN] + 1 <= Half
    /\ \A p \in TW!Data : TW!Offset[TW!FIN] + 1 + Sizes[p] <= Half

ASSUME LocalWriterAssumption == FlowFits

-----------------------------------------------------------------------------
(* Properties *)

\* No packet that reaches the TUN writer is lost or written twice (writer.rs).
NothingDropped == TW!NothingDropped

\* The TUN writer keeps a stream whose gaps close in time in the order of its
\* sequence numbers, over their wrap (SeqLess, write_in_order).
InOrderUnlessForced == TW!InOrderUnlessForced

\* A packet stays with the TUN writer only for a gap, and with a timer that
\* will end the wait (the deadlines and the timers of the consumer).
HeldOnlyForGaps == TW!HeldOnlyForGaps
=============================================================================
