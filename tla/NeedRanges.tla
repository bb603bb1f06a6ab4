----------------------------- MODULE NeedRanges -----------------------------
(***************************************************************************)
(* How a plain Need report travels: the scan of ReceiverShared::plain_need *)
(* that turns the stored blocks into missing ranges (one step per turn of  *)
(* its while loop), the encoder's validation, the wire form, and the       *)
(* decoder and sender that turn the ranges back into blocks.               *)
(*                                                                         *)
(* The session modules exchange sets of missing blocks; this module is the *)
(* justification: a set has exactly one accepted encoding, so comparing    *)
(* reports is comparing sets.                                              *)
(***************************************************************************)
EXTENDS Integers, Sequences

CONSTANTS
    TotalBlocks,        \* manifest.total_blocks
    MaxNeedRanges       \* MAX_NEED_RANGES, 255 in the code

ASSUME TotalBlocksAssumption == TotalBlocks \in Nat
ASSUME MaxNeedRangesAssumption == MaxNeedRanges \in Nat

Blocks == 0 .. (TotalBlocks - 1)
MissingBlockRange == [start : 0 .. TotalBlocks, end : 0 .. TotalBlocks]

VARIABLES
    stage,          \* "scan", "encode", "panicked", "wire", "admitted", "rejected"
    stored,         \* the receiver's complete_blocks
    next_missing,
    ranges,         \* the report under construction
    body,           \* the ranges on the wire, << >> for a Complete report
    asked           \* the blocks the sender reads out of the report

rangeVars == <<stage, stored, next_missing, ranges, body, asked>>

RangesTypeOK ==
    /\ stage \in {"scan", "encode", "panicked", "wire", "admitted", "rejected"}
    /\ stored \subseteq Blocks
    /\ next_missing \in 0 .. TotalBlocks
    /\ ranges \in Seq(MissingBlockRange)
    /\ body \in Seq(MissingBlockRange)
    /\ asked \subseteq Blocks

-----------------------------------------------------------------------------
(* Operators *)

\* missing_blocks: the blocks a sequence of half-open ranges denotes
MissingBlocks(rs) == UNION {rs[i].start .. (rs[i].end - 1) : i \in DOMAIN rs}

\* NeedReport::validate without the capacity test: ranges not empty, sorted
\* and merged
SortedMerged(rs) ==
    /\ \A i \in DOMAIN rs : rs[i].start < rs[i].end
    /\ \A i, j \in DOMAIN rs : i < j => rs[i].end < rs[j].start

Validates(rs) == Len(rs) <= MaxNeedRanges /\ SortedMerged(rs)

\* validate_against_total_blocks
InPlan(rs) == \A i \in DOMAIN rs : rs[i].end <= TotalBlocks

\* Slip: the last stored block, not the next one, ends the range
IsLastRangeEnd(start, e) ==
    /\ e \in stored \cup {TotalBlocks}
    /\ e > start
    /\ \A b \in stored : b <= e

\* complete_blocks.range((Excluded(start), Unbounded)).next(), or total_blocks
IsRangeEnd(start, e) ==
    /\ e \in stored \cup {TotalBlocks}
    /\ e > start
    /\ \A b \in stored : b > start => e <= b

-----------------------------------------------------------------------------
RangesInit ==
    /\ stage = "scan"
    /\ stored \in SUBSET Blocks
    /\ next_missing = 0
    /\ ranges = << >>
    /\ body = << >>
    /\ asked = {}

\* complete_blocks.len() == total_blocks: the report is Complete at once.
ReportComplete ==
    /\ stage = "scan"
    /\ stored = Blocks
    /\ stage' = "encode"
    /\ UNCHANGED <<stored, next_missing, ranges, body, asked>>

Scanning == stage = "scan" /\ stored # Blocks

SkipStored ==
    /\ Scanning
    /\ next_missing < TotalBlocks
    /\ next_missing \in stored
    /\ next_missing' = next_missing + 1
    /\ UNCHANGED <<stage, stored, ranges, body, asked>>

PushRange ==
    /\ Scanning
    /\ next_missing < TotalBlocks
    /\ next_missing \notin stored
    /\ \E e \in 1 .. TotalBlocks :
          /\ IsRangeEnd(next_missing, e)
          /\ ranges' = Append(ranges, [start |-> next_missing, end |-> e])
          /\ next_missing' = e
    /\ UNCHANGED <<stage, stored, body, asked>>

EndScan ==
    /\ Scanning
    /\ next_missing >= TotalBlocks
    /\ stage' = "encode"
    /\ UNCHANGED <<stored, next_missing, ranges, body, asked>>

\* encode_control_into: control.validate().expect(..), then the wire form
EncodeNeed ==
    /\ stage = "encode"
    /\ IF Validates(ranges)
       THEN stage' = "wire" /\ body' = ranges
       ELSE stage' = "panicked" /\ UNCHANGED body
    /\ UNCHANGED <<stored, next_missing, ranges, asked>>

\* decode_control, the manifest check of handle_control, then missing_blocks
AdmitNeed ==
    /\ stage = "wire"
    /\ IF Validates(body) /\ InPlan(body)
       THEN stage' = "admitted" /\ asked' = MissingBlocks(body)
       ELSE stage' = "rejected" /\ UNCHANGED asked
    /\ UNCHANGED <<stored, next_missing, ranges, body>>

RangesNext ==
    \/ ReportComplete \/ SkipStored \/ PushRange \/ EndScan
    \/ EncodeNeed \/ AdmitNeed

RangesSpec == RangesInit /\ [][RangesNext]_rangeVars

-----------------------------------------------------------------------------
(* Properties *)

\* The report is exact and in canonical form: after the scan the ranges
\* denote the blocks that are not stored, no more and no less, are never empty
\* and leave a stored block between any two of them.
ScanIsExact ==
    stage = "encode" =>
        /\ MissingBlocks(ranges) = Blocks \ stored
        /\ SortedMerged(ranges)
        /\ InPlan(ranges)

\* The sender reads exactly the receiver's missing blocks, and never rejects a
\* report an honest receiver could encode.
RoundTrip ==
    /\ stage = "admitted" => asked = Blocks \ stored
    /\ stage # "rejected"

\* encode_control_into expects every control it is given to validate ("lossless
\* control must validate before encoding"): the receiver never panics there.
EveryReportEncodes == stage # "panicked"

-----------------------------------------------------------------------------
(* The loop invariant of the scan, and what the later stages keep of it. *)

\* The ranges so far denote the missing blocks below next_missing, and a range
\* that reaches next_missing ends at a stored block or at the end of the plan.
ScanProgress ==
    /\ SortedMerged(ranges)
    /\ InPlan(ranges)
    /\ \A i \in DOMAIN ranges :
          \/ ranges[i].end < next_missing
          \/ ranges[i].end = next_missing /\ next_missing \in stored \cup {TotalBlocks}
    /\ MissingBlocks(ranges) = (0 .. (next_missing - 1)) \ stored

ScanInv ==
    /\ RangesTypeOK
    /\ ScanProgress
    /\ stage # "scan" => MissingBlocks(ranges) = Blocks \ stored
    /\ stage \in {"wire", "admitted"} => body = ranges /\ Validates(body)
    /\ RoundTrip
=============================================================================
