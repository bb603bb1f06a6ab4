--------------------------- MODULE SessionReports ---------------------------
(***************************************************************************)
(* Values the plain-mode sender and receivers of one lossless session      *)
(* exchange (messages/src/lossless_session).  A Need report is reduced to  *)
(* its kind and the set of block ids its canonical, sorted and merged      *)
(* ranges denote; NeedRanges checks that conversion on its own.            *)
(***************************************************************************)
EXTENDS Integers

CONSTANTS
    Receivers,      \* node ids configured as receivers of the session
    TotalBlocks,    \* manifest.total_blocks
    MaxRound        \* the largest round id: u32::MAX in the code

ASSUME TotalBlocksAssumption == TotalBlocks \in Nat
ASSUME MaxRoundAssumption == MaxRound \in Nat

Blocks == 0 .. (TotalBlocks - 1)
Rounds == 0 .. MaxRound

\* u32::saturating_add(1) on round ids
NextRoundId(r) == IF r < MaxRound THEN r + 1 ELSE r

\* No round id yet (Option::None)
NoRound == -1

NoReport == [kind |-> "None", missing |-> {}]
Complete == [kind |-> "Complete", missing |-> {}]
Plain(S) == [kind |-> "Plain", missing |-> S]

\* What decode_control can return: an empty Plain or Fec body is encoded as
\* Complete and its noncanonical forms are rejected at decode time.  Block id
\* TotalBlocks stands for every id outside the plan.
WireReports ==
    {Complete} \cup [kind : {"Plain", "Fec"},
                     missing : (SUBSET (0 .. TotalBlocks)) \ {{}}]

\* LosslessSessionManifest::validate_need_report for a plain manifest
ValidNeed(report) ==
    \/ report = Complete
    \/ /\ report.kind = "Plain"
       /\ report.missing \subseteq Blocks

\* What ReceiverShared::plain_need reports when `have` are the stored blocks
PlainNeed(have) == IF Blocks \subseteq have THEN Complete ELSE Plain(Blocks \ have)
=============================================================================
