-------------------------- MODULE PlainSessionProofs --------------------------
(***************************************************************************)
(* Proofs about PlainSender against arbitrary peers and about PlainSession *)
(* over a network that may lose, duplicate and reorder everything: for     *)
(* every set of receivers, every number of blocks and every largest round  *)
(* id.                                                                     *)
(***************************************************************************)
EXTENDS PlainSession, FiniteSetTheorems, TLAPS

USE TotalBlocksAssumption, MaxRoundAssumption, ReceiversAssumption

-----------------------------------------------------------------------------
(* Facts about reports and rounds *)

\* saturating_add keeps a round id in range.
LEMMA NextRoundIdType == \A r \in Rounds : NextRoundId(r) \in Rounds
BY DEF Rounds, NextRoundId

\* A report the manifest admits is Complete, or misses some planned blocks.
LEMMA AdmittedReports ==
    ASSUME NEW report \in WireReports, ValidNeed(report)
    PROVE  /\ report # NoReport
           /\ report.missing \subseteq Blocks
           /\ report.kind # "Fec"
           /\ report.kind = "Complete" => report = Complete
           /\ report.kind # "Complete" => report.kind = "Plain" /\ report.missing # {}
           /\ report.kind # "Plain" => report.missing = {}
<1>1. CASE report = Complete
  BY <1>1 DEF Complete, NoReport
<1>2. CASE report \in [kind : {"Plain", "Fec"}, missing : (SUBSET (0 .. TotalBlocks)) \ {{}}]
  <2>1. report.kind \in {"Plain", "Fec"} /\ report.missing # {}
    BY <1>2
  <2>2. report # Complete /\ report # NoReport
    BY <2>1 DEF Complete, NoReport
  <2>3. report.kind = "Plain" /\ report.missing \subseteq Blocks
    BY <2>2 DEF ValidNeed
  <2> QED
    BY <2>1, <2>2, <2>3
<1> QED
  BY <1>1, <1>2 DEF WireReports

\* round_can_close compares counts; since only quorum members are recorded,
\* equal counts mean that the whole quorum has reported.
LEMMA CountsDecide ==
    ASSUME SenderTypeOK, QuorumReports,
           Cardinality(Reported) = Cardinality(active)
    PROVE  Reported = active
<1>1. IsFiniteSet(active)
  BY FS_Subset DEF SenderTypeOK
<1>2. Reported \in SUBSET active
  BY DEF QuorumReports, Reported
<1> QED
  BY <1>1, <1>2, FS_Subset

-----------------------------------------------------------------------------
(* The invariant holds initially *)

LEMMA InitInv == SenderInit => SenderInv
<1> SUFFICES ASSUME SenderInit PROVE SenderInv
  OBVIOUS
<1> USE DEF SenderInit, SenderStartsIn
<1>1. SenderTypeOK
  <2>1. source_cursor \in 0 .. TotalBlocks /\ 0 \in Rounds
    BY DEF Rounds
  <2>2. round_reports \in [Peers -> WireReports \cup {NoReport}]
    OBVIOUS
  <2>3. phase \in Phases /\ abort_reason \in AbortReasons /\ active \subseteq Receivers
    BY DEF Phases, AbortReasons
  <2> QED
    BY <2>1, <2>2, <2>3 DEF SenderTypeOK
<1>2. RetransmitLedger
  BY DEF RetransmitLedger, NoReport
<1>3. QuorumReports /\ LoopPosition /\ CompletedByQuorum
  BY DEF QuorumReports, LoopPosition, CompletedByQuorum
<1> QED
  BY <1>1, <1>2, <1>3 DEF SenderInv

-----------------------------------------------------------------------------
(* Every step keeps the types *)

LEMMA TypeStep == SenderInv /\ [SenderNext]_senderVars => SenderTypeOK'
<1> SUFFICES ASSUME SenderInv, [SenderNext]_senderVars PROVE SenderTypeOK'
  OBVIOUS
<1> USE DEF SenderInv, SenderTypeOK, Phases, AbortReasons
<1> USE DEF senderVars, handshakeVars, burstVars, workVars
<1>1. CASE UNCHANGED senderVars
  BY <1>1
<1>2. CASE BeginNegotiation \/ RetryManifest \/ FreezeQuorum
  BY <1>2 DEF BeginNegotiation, RetryManifest, FreezeQuorum
<1>3. ASSUME NEW p \in Peers, HandleReady(p)
      PROVE  SenderTypeOK'
  BY <1>3 DEF HandleReady
<1>4. ASSUME NEW p \in Peers, NEW r \in Rounds, NEW report \in WireReports,
             HandleNeed(p, r, report)
      PROVE  SenderTypeOK'
  <2>1. CASE DropsNeed(p, r, report)
    BY <1>4, <2>1 DEF HandleNeed
  <2>2. CASE ~DropsNeed(p, r, report) /\ RepeatNeed(p, report)
    BY <2>2 DEF RepeatNeed
  <2>3. CASE ~DropsNeed(p, r, report) /\ RecordNeed(p, report)
    <3>1. ValidNeed(report)
      BY <2>3 DEF DropsNeed
    <3>2. report.missing \subseteq Blocks
      BY <3>1, AdmittedReports
    <3> QED
      BY <2>3, <3>2, NextRoundIdType DEF RecordNeed
  <2> QED
    BY <1>4, <2>1, <2>2, <2>3 DEF HandleNeed
<1>5. CASE AbortOnProtocolError \/ PeerReportTimeout \/ ControlClosed
  BY <1>5 DEF AbortOnProtocolError, PeerReportTimeout, ControlClosed, Abort
<1>6. ASSUME NEW b \in Blocks, SendSourceBlock(b)
      PROVE  SenderTypeOK'
  BY <1>6 DEF SendSourceBlock, SourceExhausted, Blocks
<1>7. ASSUME NEW b \in Blocks, SendRetransmitBlock(b)
      PROVE  SenderTypeOK'
  BY <1>7 DEF SendRetransmitBlock
<1>8. CASE OpenFeedbackRound \/ CompleteRound \/ Solicit
  BY <1>8 DEF OpenFeedbackRound, CompleteRound, Solicit
<1>9. CASE AdvanceRound
  BY <1>9, NextRoundIdType DEF AdvanceRound
<1> QED
  BY <1>1, <1>2, <1>3, <1>4, <1>5, <1>6, <1>7, <1>8, <1>9 DEF SenderNext, SendLoop

-----------------------------------------------------------------------------
(* Every step keeps the retransmission ledger balanced *)

LEMMA LedgerStep == SenderInv /\ [SenderNext]_senderVars => RetransmitLedger'
<1> SUFFICES ASSUME SenderInv, [SenderNext]_senderVars PROVE RetransmitLedger'
  OBVIOUS
<1> USE DEF SenderInv, RetransmitLedger
<1>1. CASE UNCHANGED workVars
  BY <1>1 DEF workVars
<1>2. ASSUME NEW p \in Peers, NEW r \in Rounds, NEW report \in WireReports,
             ~DropsNeed(p, r, report), RecordNeed(p, report)
      PROVE  RetransmitLedger'
  <2> DEFINE fresh == report.missing \ required_blocks
  <2>1. /\ report.kind # "Plain" => report.missing = {}
        /\ round_reports[p].missing = {}
        /\ round_reports \in [Peers -> WireReports \cup {NoReport}]
    BY <1>2, AdmittedReports DEF DropsNeed, RecordNeed, NoReport, SenderTypeOK
  <2>2. /\ round_reports' = [round_reports EXCEPT ![p] = report]
        /\ required_blocks' = required_blocks \cup fresh
        /\ emitted_blocks' = emitted_blocks
        /\ queued_retransmit_blocks' = queued_retransmit_blocks \cup (fresh \ emitted_blocks)
        /\ next_burst_nonempty' = (next_burst_nonempty \/ fresh # {})
    BY <1>2, <2>1 DEF RecordNeed
  <2>3. required_blocks' = UNION {round_reports'[q].missing : q \in Peers}
    <3>1. \A q \in Peers : round_reports'[q] = IF q = p THEN report ELSE round_reports[q]
      BY <2>1, <2>2
    <3>2. required_blocks' = required_blocks \cup report.missing
      BY <2>2
    <3>3. ASSUME NEW x \in required_blocks'
          PROVE  \E q \in Peers : x \in round_reports'[q].missing
      <4>1. CASE x \in report.missing
        BY <3>1, <4>1
      <4>2. CASE x \in required_blocks
        <5>1. PICK q \in Peers : x \in round_reports[q].missing
          BY <4>2
        <5>2. q # p
          BY <2>1, <5>1
        <5> QED
          BY <3>1, <5>1, <5>2
      <4> QED
        BY <3>2, <3>3, <4>1, <4>2
    <3>4. ASSUME NEW q \in Peers, NEW x \in round_reports'[q].missing
          PROVE  x \in required_blocks'
      <4>1. CASE q = p
        BY <3>1, <3>2, <3>4, <4>1
      <4>2. CASE q # p
        <5>1. x \in round_reports[q].missing
          BY <3>1, <3>4, <4>2
        <5> QED
          BY <3>2, <5>1
      <4> QED
        BY <4>1, <4>2
    <3> QED
      BY <3>3, <3>4
  <2>4. /\ required_blocks' = (emitted_blocks \cup queued_retransmit_blocks)'
        /\ (emitted_blocks \cap queued_retransmit_blocks = {})'
    BY <2>2
  <2>5. (next_burst_nonempty <=> (required_blocks # {}))'
    BY <2>2 DEF SenderTypeOK
  <2> QED
    BY <2>3, <2>4, <2>5
<1>3. ASSUME NEW b \in Blocks, SendRetransmitBlock(b)
      PROVE  RetransmitLedger'
  BY <1>3 DEF SendRetransmitBlock
<1>4. CASE AdvanceRound
  <2>1. \A q \in Peers : round_reports'[q].missing = {}
    BY <1>4 DEF AdvanceRound, NoReport
  <2> QED
    BY <1>4, <2>1 DEF AdvanceRound
<1>5. ASSUME NEW p \in Peers, NEW r \in Rounds, NEW report \in WireReports,
             HandleNeed(p, r, report)
      PROVE  RetransmitLedger'
  BY <1>1, <1>2, <1>5 DEF HandleNeed, RepeatNeed, senderVars, workVars
<1> QED
  BY <1>1, <1>3, <1>4, <1>5 DEF SenderNext, SendLoop, senderVars, BeginNegotiation,
     RetryManifest, FreezeQuorum, HandleReady, AbortOnProtocolError, PeerReportTimeout,
     ControlClosed, SendSourceBlock, OpenFeedbackRound, CompleteRound, Solicit

-----------------------------------------------------------------------------
(* Every step keeps the record of reports and the loop's position *)

LEMMA ReportsStep == SenderInv /\ [SenderNext]_senderVars => QuorumReports'
<1> SUFFICES ASSUME SenderInv, [SenderNext]_senderVars PROVE QuorumReports'
  OBVIOUS
<1> USE DEF SenderInv, QuorumReports
<1>1. CASE UNCHANGED <<round_reports, active, feedback_round_open>>
  BY <1>1
<1>2. ASSUME NEW p \in Peers, HandleReady(p)
      PROVE  QuorumReports'
  BY <1>2 DEF HandleReady, burstVars, workVars
<1>3. ASSUME NEW p \in Peers, NEW r \in Rounds, NEW report \in WireReports,
             HandleNeed(p, r, report)
      PROVE  QuorumReports'
  <2>1. CASE DropsNeed(p, r, report) \/ RepeatNeed(p, report)
    BY <1>1, <1>3, <2>1
       DEF HandleNeed, RepeatNeed, RecordNeed, senderVars, handshakeVars, burstVars, workVars
  <2>2. CASE ~DropsNeed(p, r, report) /\ RecordNeed(p, report)
    BY <2>2 DEF DropsNeed, RecordNeed, SenderTypeOK, handshakeVars
  <2> QED
    BY <1>3, <2>1, <2>2 DEF HandleNeed
<1>4. CASE AdvanceRound
  BY <1>4 DEF AdvanceRound
<1>5. CASE OpenFeedbackRound
  BY <1>5 DEF OpenFeedbackRound, workVars
<1> QED
  BY <1>1, <1>2, <1>3, <1>4, <1>5 DEF SenderNext, SendLoop, senderVars, handshakeVars,
     burstVars, workVars, BeginNegotiation, RetryManifest, FreezeQuorum,
     AbortOnProtocolError, PeerReportTimeout, ControlClosed, SendSourceBlock,
     SendRetransmitBlock, CompleteRound, Solicit

\* In particular the wait_for_quorum_feedback call always finds the timer that
\* OpenFeedbackRound started.
LEMMA PositionStep == SenderInv /\ [SenderNext]_senderVars => LoopPosition'
<1> SUFFICES ASSUME SenderInv, [SenderNext]_senderVars PROVE LoopPosition'
  OBVIOUS
<1> USE DEF SenderInv, LoopPosition, SenderTypeOK, Phases, senderVars, handshakeVars, burstVars
<1>1. CASE UNCHANGED senderVars
  BY <1>1
<1>2. CASE BeginNegotiation \/ RetryManifest \/ FreezeQuorum
  BY <1>2 DEF BeginNegotiation, RetryManifest, FreezeQuorum
<1>3. ASSUME NEW p \in Peers, HandleReady(p)
      PROVE  LoopPosition'
  BY <1>3 DEF HandleReady
<1>4. ASSUME NEW p \in Peers, NEW r \in Rounds, NEW report \in WireReports,
             HandleNeed(p, r, report)
      PROVE  LoopPosition'
  BY <1>4 DEF HandleNeed, RepeatNeed, RecordNeed
<1>5. CASE AbortOnProtocolError \/ PeerReportTimeout \/ ControlClosed
  BY <1>5 DEF AbortOnProtocolError, PeerReportTimeout, ControlClosed, Abort, Waiting,
     NothingToSend, Sending
<1>6. ASSUME NEW b \in Blocks, SendSourceBlock(b) \/ SendRetransmitBlock(b)
      PROVE  LoopPosition'
  BY <1>6 DEF SendSourceBlock, SendRetransmitBlock, Sending, SourceExhausted
<1>7. CASE OpenFeedbackRound
  <2>1. source_cursor = TotalBlocks /\ phase = "Sending"
    BY <1>7 DEF OpenFeedbackRound, NothingToSend, Sending, SourceExhausted
  <2>2. CASE active = {}
    BY <1>7, <2>1, <2>2 DEF OpenFeedbackRound
  <2>3. CASE active # {}
    BY <1>7, <2>1, <2>3 DEF OpenFeedbackRound
  <2> QED
    BY <2>2, <2>3
<1>8. CASE CompleteRound \/ AdvanceRound \/ Solicit
  BY <1>8 DEF CompleteRound, AdvanceRound, Solicit, NothingToSend, Sending
<1> QED
  BY <1>1, <1>2, <1>3, <1>4, <1>5, <1>6, <1>7, <1>8 DEF SenderNext, SendLoop

LEMMA CompletedStep == SenderInv /\ [SenderNext]_senderVars => CompletedByQuorum'
<1> SUFFICES ASSUME SenderInv, [SenderNext]_senderVars, phase' = "Completed"
             PROVE  /\ source_cursor' = TotalBlocks
                    /\ \A p \in active' : round_reports'[p] = Complete
  BY DEF CompletedByQuorum
<1> USE DEF SenderInv, senderVars, handshakeVars, burstVars, workVars
<1>1. CASE phase = "Completed"
  <2>1. UNCHANGED senderVars
    BY <1>1 DEF SenderNext, SendLoop, BeginNegotiation, RetryManifest, FreezeQuorum,
       HandleReady, HandleNeed, AbortOnProtocolError, PeerReportTimeout, ControlClosed,
       SendSourceBlock, SendRetransmitBlock, OpenFeedbackRound, CompleteRound,
       AdvanceRound, Solicit, Waiting, NothingToSend, Sending
  <2> QED
    BY <1>1, <2>1 DEF CompletedByQuorum
<1>2. CASE phase # "Completed" /\ OpenFeedbackRound
  BY <1>2 DEF OpenFeedbackRound, NothingToSend, SourceExhausted, SenderTypeOK
<1>3. CASE phase # "Completed" /\ CompleteRound
  <2>1. Reported = active
    BY <1>3, CountsDecide DEF CompleteRound, RoundCanClose
  <2>2. source_cursor = TotalBlocks
    BY <1>3 DEF CompleteRound, NothingToSend, SourceExhausted, SenderTypeOK
  <2>3. ASSUME NEW p \in active
        PROVE  round_reports[p] = Complete
    <3>1. p \in Peers /\ round_reports[p] # NoReport /\ round_reports[p].kind = "Complete"
      BY <1>3, <2>1 DEF CompleteRound, AllComplete, Reported
    <3>2. ValidNeed(round_reports[p]) /\ round_reports[p] \in WireReports
      BY <3>1 DEF QuorumReports, SenderTypeOK
    <3> QED
      BY <3>1, <3>2, AdmittedReports
  <2> QED
    BY <1>3, <2>2, <2>3 DEF CompleteRound
<1>4. ASSUME phase # "Completed", ~OpenFeedbackRound, ~CompleteRound
      PROVE  phase' # "Completed"
  BY <1>4 DEF SenderNext, SendLoop, BeginNegotiation, RetryManifest, FreezeQuorum,
     HandleReady, HandleNeed, RepeatNeed, RecordNeed, AbortOnProtocolError,
     PeerReportTimeout, ControlClosed, Abort, SendSourceBlock, SendRetransmitBlock,
     AdvanceRound, Solicit
<1> QED
  BY <1>1, <1>2, <1>3, <1>4

-----------------------------------------------------------------------------
(* The theorems *)

LEMMA SenderInvStep == SenderInv /\ [SenderNext]_senderVars => SenderInv'
BY TypeStep, LedgerStep, ReportsStep, PositionStep, CompletedStep DEF SenderInv

\* The invariant is inductive.
THEOREM SenderInductive == SenderSpec => []SenderInv
BY InitInv, SenderInvStep, PTL DEF SenderSpec

\* Type correctness of the sender's state (sender/plain.rs, sender/state.rs).
THEOREM SenderTypeCorrect == SenderSpec => []SenderTypeOK
BY SenderInductive, PTL DEF SenderInv

\* The retransmission ledger adds up in every reachable state, for every
\* quorum and every environment.
THEOREM LedgerAlwaysBalances == SenderSpec => []RetransmitLedger
BY SenderInductive, PTL DEF SenderInv

\* Completed is returned only on the word of the whole frozen quorum.
THEOREM CompletionNeedsQuorum == SenderSpec => []CompletedByQuorum
BY SenderInductive, PTL DEF SenderInv

\* A sender never blocks in wait_for_quorum_feedback without a report
\* outstanding and a timeout running.
THEOREM NeverBlocksForNothing == SenderSpec => []BlocksOnlyForReports
<1>1. SenderInv => BlocksOnlyForReports
  <2> SUFFICES ASSUME SenderInv, Waiting,
                      \A p \in active : round_reports[p] # NoReport
               PROVE  FALSE
    BY DEF BlocksOnlyForReports, SenderInv, LoopPosition, Waiting, NothingToSend, Sending
  <2> USE DEF SenderInv
  <2>1. Reported = active
    BY DEF Reported, QuorumReports, SenderTypeOK
  <2>2. RoundCanClose
    BY <2>1 DEF RoundCanClose, Waiting, NothingToSend, RetransmitLedger
  <2>3. ~AllComplete /\ ~next_burst_nonempty
    BY <2>2 DEF Waiting
  <2>4. PICK p \in Reported : round_reports[p].kind # "Complete"
    BY <2>3 DEF AllComplete
  <2>5. p \in Peers /\ ValidNeed(round_reports[p]) /\ round_reports[p] \in WireReports
    BY <2>4 DEF Reported, QuorumReports, SenderTypeOK
  <2>6. round_reports[p].missing # {}
    BY <2>4, <2>5, AdmittedReports
  <2>7. required_blocks # {}
    BY <2>5, <2>6 DEF RetransmitLedger
  <2> QED
    BY <2>3, <2>7 DEF RetransmitLedger
<1> QED
  BY SenderInductive, <1>1, PTL

\* The work of an open round only grows, and the quorum it is measured
\* against stays put.
THEOREM RoundWorkNeverForgotten == SenderSpec => RoundWorkMonotone
<1>1. SenderInv /\ [SenderNext]_senderVars => [WorkKept]_senderVars
  <2> SUFFICES ASSUME SenderInv, SenderNext, feedback_round_open, feedback_round_open'
               PROVE  WorkKept
    BY DEF WorkKept, senderVars, handshakeVars, burstVars, workVars
  <2> USE DEF SenderInv, LoopPosition, WorkKept, senderVars, handshakeVars, burstVars, workVars
  <2>1. CASE BeginNegotiation \/ RetryManifest \/ FreezeQuorum
    BY <2>1 DEF BeginNegotiation, RetryManifest, FreezeQuorum
  <2>2. ASSUME NEW p \in Peers, HandleReady(p)
        PROVE  WorkKept
    BY <2>2 DEF HandleReady
  <2>3. ASSUME NEW p \in Peers, NEW r \in Rounds, NEW report \in WireReports,
               HandleNeed(p, r, report)
        PROVE  WorkKept
    BY <2>3 DEF HandleNeed, RepeatNeed, RecordNeed, SenderTypeOK
  <2>4. ASSUME NEW b \in Blocks, SendSourceBlock(b) \/ SendRetransmitBlock(b)
        PROVE  WorkKept
    BY <2>4 DEF SendSourceBlock, SendRetransmitBlock
  <2>5. CASE AbortOnProtocolError \/ PeerReportTimeout \/ ControlClosed
    BY <2>5 DEF AbortOnProtocolError, PeerReportTimeout, ControlClosed
  <2>6. CASE OpenFeedbackRound \/ CompleteRound \/ AdvanceRound \/ Solicit
    BY <2>6 DEF OpenFeedbackRound, CompleteRound, AdvanceRound, Solicit
  <2> QED
    BY <2>1, <2>2, <2>3, <2>4, <2>5, <2>6 DEF SenderNext, SendLoop
<1> QED
  BY SenderInductive, <1>1, PTL DEF SenderSpec, RoundWorkMonotone

USE ManifestAssumption

-----------------------------------------------------------------------------
(* Frames are told apart by their contents *)

LEMMA NeedsDiffer ==
    \A p, q, r, s, a, b : Need(p, r, a) = Need(q, s, b) <=> p = q /\ r = s /\ a = b
BY DEF Need

LEMMA NeedIsNotReady == \A p, q, r, a : Need(p, r, a) # Ready(q)
BY DEF Need, Ready

LEMMA FramesDiffer ==
    /\ \A b, c : Data(b) = Data(c) <=> b = c
    /\ \A r, s : SourceDone(r) = SourceDone(s) <=> r = s
    /\ \A b, r : Data(b) # SourceDone(r)
    /\ \A b : Data(b) # ManifestFrame
    /\ \A r : SourceDone(r) # ManifestFrame
BY DEF Data, SourceDone, ManifestFrame

LEMMA ControlCases ==
    ASSUME NEW m \in Controls
    PROVE  \/ \E p \in Receivers : m = Ready(p) /\ m.type = "Ready" /\ m.peer = p
           \/ \E p \in Receivers, r \in Rounds, report \in WireReports :
                 /\ m = Need(p, r, report)
                 /\ m.type # "Ready"
                 /\ m.peer = p /\ m.round = r /\ m.report = report
BY DEF Controls, Ready, Need

\* plain_need reports what is missing, in a form the manifest admits.
LEMMA PlainNeedFacts ==
    ASSUME NEW have \in SUBSET Blocks
    PROVE  /\ PlainNeed(have) \in WireReports
           /\ ValidNeed(PlainNeed(have))
           /\ PlainNeed(have).missing = Blocks \ have
           /\ PlainNeed(have) = Complete => have = Blocks
<1>1. CASE Blocks \subseteq have
  BY <1>1 DEF PlainNeed, WireReports, ValidNeed, Complete
<1>2. CASE ~(Blocks \subseteq have)
  <2>1. Blocks \ have \in SUBSET (0 .. TotalBlocks) /\ Blocks \ have # {}
    BY <1>2 DEF Blocks
  <2> QED
    BY <1>2, <2>1 DEF PlainNeed, WireReports, ValidNeed, Plain, Complete
<1> QED
  BY <1>1, <1>2

-----------------------------------------------------------------------------
(* A step of the session is a step or a stutter of the sender *)

LEMMA SessionStepsSender ==
    SessionTypeOK /\ [SessionNext]_sessionVars => [SenderNext]_senderVars
<1> SUFFICES ASSUME SessionTypeOK, SessionNext PROVE [SenderNext]_senderVars
  BY DEF sessionVars
<1>1. CASE Handshake
  BY <1>1 DEF Handshake, SenderNext
<1>2. CASE SendBlock
  BY <1>2 DEF SendBlock, SenderNext, SendLoop
<1>3. CASE AnnounceRound
  BY <1>3 DEF AnnounceRound, SenderNext, SendLoop
<1>4. CASE CloseRound \/ SenderAborts
  BY <1>4 DEF CloseRound, SenderAborts, SenderNext, SendLoop
<1>5. ASSUME NEW m \in ctrl, DeliverControl(m)
      PROVE  SenderNext
  <2>1. m \in Controls
    BY DEF SessionTypeOK
  <2>2. CASE \E p \in Receivers : m = Ready(p) /\ m.type = "Ready" /\ m.peer = p
    <3>1. PICK p \in Receivers : m.type = "Ready" /\ m.peer = p
      BY <2>2
    <3>2. p \in Peers /\ HandleReady(p)
      BY <1>5, <3>1 DEF DeliverControl
    <3> QED
      BY <3>2 DEF SenderNext
  <2>3. CASE \E p \in Receivers, r \in Rounds, report \in WireReports :
                 /\ m = Need(p, r, report)
                 /\ m.type # "Ready"
                 /\ m.peer = p /\ m.round = r /\ m.report = report
    <3>1. PICK p \in Receivers, r \in Rounds, report \in WireReports :
               m.type # "Ready" /\ m.peer = p /\ m.round = r /\ m.report = report
      BY <2>3
    <3>2. p \in Peers /\ HandleNeed(p, r, report)
      BY <1>5, <3>1 DEF DeliverControl
    <3> QED
      BY <3>2 DEF SenderNext
  <2> QED
    BY <2>1, <2>2, <2>3, ControlCases
<1>6. ASSUME NEW p \in Receivers,
             DeliverManifest(p) \/ DeliverData(p) \/ DeliverSourceDone(p) \/ ReceiverEnds(p)
      PROVE  UNCHANGED senderVars
  BY <1>6 DEF DeliverManifest, DeliverData, DeliverSourceDone, ReceiverEnds, Answer
<1> QED
  BY <1>1, <1>2, <1>3, <1>4, <1>5, <1>6 DEF SessionNext

-----------------------------------------------------------------------------
(* The invariant holds initially *)

LEMMA SessionInitInv == SessionInit => SessionInv
<1> SUFFICES ASSUME SessionInit PROVE SessionInv
  OBVIOUS
<1> USE DEF SessionInit, ReceiverInit, ReceiverStartsWith
<1>1. SenderInv
  BY InitInv
<1>2. SessionTypeOK
  BY <1>1 DEF SessionTypeOK, SenderInv, ReceiverTypeOK
<1>3. NetTruth /\ CtrlTruth /\ OneNeedPerRound
  BY DEF NetTruth, CtrlTruth, OneNeedPerRound
<1>4. ReceiverTruth
  BY DEF ReceiverTruth, AnnouncedTruth
<1>5. RecordTruth /\ NoSpuriousProtocolError
  <2>1. \A p \in Peers : round_reports[p] = NoReport
    BY DEF SenderInit, SenderStartsIn
  <2>2. \A p \in Receivers : p \in Peers
    OBVIOUS
  <2> QED
    BY <2>1, <2>2 DEF RecordTruth, NoSpuriousProtocolError, SenderInit, SenderStartsIn
<1> QED
  BY <1>1, <1>2, <1>3, <1>4, <1>5 DEF SessionInv

-----------------------------------------------------------------------------
(* What one step may do to the pieces of state the invariant relates *)

\* The sender only moves forward: the gate does not close again, and a round
\* that was open stays open or is left behind (or is the saturated last one).
LEMMA SenderMovesForward ==
    ASSUME SenderInv, [SenderNext]_senderVars
    PROVE  /\ phase \notin {"WaitTopology", "Negotiating"}
                => phase' \notin {"WaitTopology", "Negotiating"}
           /\ \A r \in Rounds :
                 r <= feedback_open_round_id
                 /\ (r = feedback_open_round_id => feedback_round_open \/ r = MaxRound)
                 => r <= feedback_open_round_id'
                    /\ (r = feedback_open_round_id' => feedback_round_open' \/ r = MaxRound)
<1> USE DEF senderVars, handshakeVars, burstVars
<1>1. phase \notin {"WaitTopology", "Negotiating"}
          => phase' \notin {"WaitTopology", "Negotiating"}
  BY DEF SenderNext, SendLoop, BeginNegotiation, RetryManifest, FreezeQuorum, HandleReady,
     HandleNeed, RepeatNeed, RecordNeed, AbortOnProtocolError, PeerReportTimeout,
     ControlClosed, Abort, SendSourceBlock, SendRetransmitBlock, OpenFeedbackRound,
     CompleteRound, AdvanceRound, Solicit
<1>2. \/ AdvanceRound
      \/ /\ feedback_open_round_id' = feedback_open_round_id
         /\ feedback_round_open => feedback_round_open'
  BY DEF SenderNext, SendLoop, BeginNegotiation, RetryManifest, FreezeQuorum, HandleReady,
     HandleNeed, RepeatNeed, RecordNeed, AbortOnProtocolError, PeerReportTimeout,
     ControlClosed, SendSourceBlock, SendRetransmitBlock, OpenFeedbackRound,
     CompleteRound, Solicit
<1>3. CASE AdvanceRound
  <2>1. /\ feedback_open_round_id \in 0 .. MaxRound
        /\ feedback_open_round_id' = IF feedback_open_round_id < MaxRound
                                      THEN feedback_open_round_id + 1
                                      ELSE feedback_open_round_id
    BY <1>3 DEF AdvanceRound, NextRoundId, SenderInv, SenderTypeOK, Rounds
  <2> QED
    BY <1>1, <2>1 DEF Rounds
<1> QED
  BY <1>1, <1>2, <1>3

\* A step of the sender's own loop, which leaves the receivers alone.
OwnStep == Handshake \/ SendBlock \/ AnnounceRound \/ CloseRound \/ SenderAborts

\* A step of receiver p, which leaves the sender and its frames alone.
ReceiverStep(p) ==
    DeliverManifest(p) \/ DeliverData(p) \/ DeliverSourceDone(p) \/ ReceiverEnds(p)

LEMMA OwnStepFacts ==
    ASSUME SessionInv, OwnStep
    PROVE  /\ UNCHANGED <<receiverVars, ctrl>>
           /\ \A b \in Blocks : Data(b) \in net' =>
                 Data(b) \in net \/ phase = "Sending"
           /\ \A r \in Rounds : SourceDone(r) \in net' =>
                 \/ SourceDone(r) \in net
                 \/ r = feedback_open_round_id' /\ feedback_round_open'
           /\ net' \subseteq Frames
<1> USE FramesDiffer
<1>0. net \subseteq Frames /\ feedback_open_round_id \in Rounds
  BY DEF SessionInv, SessionTypeOK, SenderTypeOK
<1>1. CASE Handshake
  BY <1>0, <1>1 DEF Handshake, Emit, Frames
<1>2. CASE SendBlock
  <2>1. PICK b \in Blocks : (SendSourceBlock(b) \/ SendRetransmitBlock(b)) /\ Emit({Data(b)})
    BY <1>2 DEF SendBlock
  <2>2. phase = "Sending"
    BY <2>1 DEF SendSourceBlock, SendRetransmitBlock, Sending
  <2> QED
    BY <1>0, <2>1, <2>2 DEF Emit, Frames
<1>3. CASE AnnounceRound
  <2>1. /\ feedback_open_round_id' = feedback_open_round_id
        /\ feedback_round_open'
        /\ Emit({SourceDone(feedback_open_round_id)})
    BY <1>3 DEF AnnounceRound, OpenFeedbackRound, Solicit, Waiting, senderVars, burstVars
  <2> QED
    BY <1>0, <2>1 DEF Emit, Frames
<1>4. CASE CloseRound \/ SenderAborts
  BY <1>0, <1>4 DEF CloseRound, SenderAborts, Emit
<1> QED
  BY <1>1, <1>2, <1>3, <1>4 DEF OwnStep

\* A receiver step that announces nothing new: no Need appears that was not
\* sent before, and what the receiver has announced stays.
QuietStep(p) ==
    /\ \A q \in Receivers, r \in Rounds, a \in WireReports :
          Need(q, r, a) \in ctrl' <=> Need(q, r, a) \in ctrl
    /\ UNCHANGED <<complete_reported, last_source_done_round_id, last_round_need>>
    /\ \A q \in Receivers :
          /\ complete_blocks[q] \subseteq complete_blocks'[q]
          /\ lifecycle'[q] = "PassiveComplete" => complete_reported[q]
          /\ lifecycle[q] = "SessionFinished" => lifecycle'[q] = "SessionFinished"
          /\ \/ replay_round'[q] = replay_round[q]
             \/ /\ complete_reported[q]
                /\ replay_round'[q] = last_source_done_round_id[q]
                /\ lifecycle'[q] = "SessionFinished"

\* A receiver step that answers a new round.
AnswerRound(p, r) ==
    /\ SourceDone(r) \in net
    /\ last_source_done_round_id[p] < r
    /\ HandleSourceDone(p, r)
    /\ NeedAnswer(p, r) = PlainNeed(complete_blocks[p])
    /\ ctrl' = ctrl \cup {Need(p, r, PlainNeed(complete_blocks[p]))}

LEMMA ReceiverStepFacts ==
    ASSUME SessionInv, NEW p \in Receivers, ReceiverStep(p)
    PROVE  /\ UNCHANGED <<senderVars, net>>
           /\ ctrl \subseteq ctrl'
           /\ ReceiverTypeOK'
           /\ ctrl' \subseteq Controls
           /\ QuietStep(p) \/ \E r \in Rounds : AnswerRound(p, r)
<1> USE NeedIsNotReady, NeedsDiffer
<1>0. /\ ReceiverTypeOK
      /\ ctrl \subseteq Controls
      /\ ReceiverTruth
  BY DEF SessionInv, SessionTypeOK
<1>1. CASE DeliverManifest(p)
  <2>1. InstallManifest(p) /\ Answer({Ready(p)})
    BY <1>1 DEF DeliverManifest
  <2>2. ReceiverTypeOK'
    BY <1>0, <2>1 DEF InstallManifest, ReceiverTypeOK
  <2>3. QuietStep(p)
    BY <1>0, <2>1 DEF InstallManifest, Answer, QuietStep, ReceiverTruth, AnnouncedTruth
  <2> QED
    BY <1>0, <2>1, <2>2, <2>3 DEF Answer, Controls
<1>2. CASE DeliverData(p)
  <2>1. PICK b \in Blocks : HandleBlockData(p, b) /\ Answer({})
    BY <1>2 DEF DeliverData
  <2>2. ReceiverTypeOK'
    BY <1>0, <2>1 DEF HandleBlockData, ReceiverTypeOK
  <2>3. \A q \in Receivers : complete_blocks[q] \subseteq complete_blocks'[q]
    BY <1>0, <2>1 DEF HandleBlockData, ReceiverTypeOK
  <2>4. QuietStep(p)
    BY <1>0, <2>1, <2>3 DEF HandleBlockData, Answer, QuietStep, ReceiverTruth, AnnouncedTruth
  <2> QED
    BY <1>0, <2>1, <2>2, <2>4 DEF Answer
<1>3. ASSUME NEW r \in Rounds, SourceDone(r) \in net,
             HandleSourceDone(p, r), Answer({Need(p, r, NeedAnswer(p, r))})
      PROVE  /\ ReceiverTypeOK' /\ ctrl' \subseteq Controls
             /\ QuietStep(p) \/ AnswerRound(p, r)
  <2>1. last_source_done_round_id[p] \in -1 .. MaxRound /\ r \in 0 .. MaxRound
        /\ last_source_done_round_id[p] <= r
    BY <1>0, <1>3 DEF ReceiverTypeOK, HandleSourceDone, AnswersSourceDone, Rounds, NoRound
  <2>2. NeedAnswer(p, r) \in WireReports
    <3>1. CASE r = last_source_done_round_id[p]
      BY <1>0, <2>1, <3>1 DEF NeedAnswer, ReceiverTruth, AnnouncedTruth, NoRound
    <3>2. CASE r # last_source_done_round_id[p]
      BY <1>0, <3>2, PlainNeedFacts DEF NeedAnswer, ReceiverTypeOK
    <3> QED
      BY <3>1, <3>2
  <2>3. ReceiverTypeOK'
    BY <1>0, <1>3, <2>2 DEF HandleSourceDone, ReceiverTypeOK
  <2>4. ctrl' \subseteq Controls
    BY <1>0, <1>3, <2>2 DEF Answer, Controls
  <2>5. CASE r = last_source_done_round_id[p]
    <3>1. /\ NeedAnswer(p, r) = last_round_need[p]
          /\ Need(p, r, last_round_need[p]) \in ctrl
          /\ complete_reported[p] <=> last_round_need[p] = Complete
      BY <1>0, <2>1, <2>5 DEF NeedAnswer, ReceiverTruth, AnnouncedTruth, NoRound
    <3>2. ctrl' = ctrl
      BY <1>3, <3>1 DEF Answer
    <3>3. complete_reported' = complete_reported
      BY <1>0, <1>3, <3>1 DEF HandleSourceDone, ReceiverTypeOK
    <3>4. last_source_done_round_id' = last_source_done_round_id
          /\ last_round_need' = last_round_need
      BY <1>0, <1>3, <2>5, <3>1 DEF HandleSourceDone, ReceiverTypeOK
    <3>5. \A q \in Receivers :
             /\ lifecycle'[q] = "PassiveComplete" => complete_reported[q]
             /\ lifecycle[q] = "SessionFinished" => lifecycle'[q] = "SessionFinished"
      BY <1>0, <1>3, <3>1
         DEF HandleSourceDone, AnswersSourceDone, Live, ReceiverTypeOK, ReceiverTruth, AnnouncedTruth
    <3> QED
      BY <1>3, <2>3, <2>4, <3>2, <3>3, <3>4, <3>5 DEF HandleSourceDone, QuietStep
  <2>6. CASE r # last_source_done_round_id[p]
    <3>1. last_source_done_round_id[p] < r
      BY <2>1, <2>6
    <3> QED
      BY <1>3, <2>3, <2>4, <2>6, <3>1 DEF AnswerRound, NeedAnswer, Answer
  <2> QED
    BY <2>5, <2>6
<1>4. ASSUME NEW r \in Rounds, ReplaysSourceDone(p, r), UNCHANGED receiverVars,
             Answer({Need(p, r, Complete)})
      PROVE  ReceiverTypeOK' /\ ctrl' \subseteq Controls /\ QuietStep(p)
  <2>1. Need(p, r, Complete) \in ctrl
    BY <1>0, <1>4 DEF ReplaysSourceDone, ReceiverTruth, AnnouncedTruth, Rounds, NoRound
  <2>2. ctrl' = ctrl
    BY <1>4, <2>1 DEF Answer
  <2> QED
    BY <1>0, <1>4, <2>2 DEF QuietStep, receiverVars, ReceiverTypeOK, ReceiverTruth, AnnouncedTruth
<1>5. ASSUME NEW r \in Rounds, IgnoreSourceDone(p, r), Answer({})
      PROVE  ReceiverTypeOK' /\ ctrl' \subseteq Controls /\ QuietStep(p)
  BY <1>0, <1>5
     DEF IgnoreSourceDone, Answer, QuietStep, receiverVars, ReceiverTypeOK, ReceiverTruth, AnnouncedTruth
<1>6. CASE DeliverSourceDone(p)
  BY <1>3, <1>4, <1>5, <1>6 DEF DeliverSourceDone, Answer
<1>7. CASE FinishSession(p) /\ Answer({})
  <2>1. complete_reported[p]
    BY <1>0, <1>7 DEF FinishSession, ReceiverTruth, AnnouncedTruth
  <2>2. ReceiverTypeOK'
    BY <1>0, <1>7 DEF FinishSession, ReceiverTypeOK
  <2>3. QuietStep(p)
    BY <1>0, <1>7, <2>1 DEF FinishSession, Answer, QuietStep, ReceiverTypeOK, ReceiverTruth, AnnouncedTruth
  <2> QED
    BY <1>0, <1>7, <2>2, <2>3 DEF Answer
<1>8. CASE AbortReceiver(p) /\ Answer({})
  <2>1. ReceiverTypeOK'
    BY <1>0, <1>8 DEF AbortReceiver, ReceiverTypeOK
  <2>2. QuietStep(p)
    BY <1>0, <1>8 DEF AbortReceiver, Answer, QuietStep, ReceiverTypeOK, ReceiverTruth, AnnouncedTruth
  <2> QED
    BY <1>0, <1>8, <2>1, <2>2 DEF Answer
<1> QED
  BY <1>1, <1>2, <1>6, <1>7, <1>8 DEF ReceiverStep, ReceiverEnds

\* Every step is one of three kinds.
LEMMA StepKinds ==
    ASSUME SessionInv, SessionNext
    PROVE  \/ OwnStep
           \/ \E p \in Receivers, r \in Rounds, report \in WireReports :
                 /\ Need(p, r, report) \in ctrl
                 /\ HandleNeed(p, r, report)
                 /\ UNCHANGED <<receiverVars, net, ctrl>>
           \/ \E p \in Receivers : HandleReady(p) /\ UNCHANGED <<receiverVars, net, ctrl>>
           \/ \E p \in Receivers : ReceiverStep(p)
<1>1. ASSUME NEW m \in ctrl, DeliverControl(m)
      PROVE  \/ \E p \in Receivers, r \in Rounds, report \in WireReports :
                    /\ Need(p, r, report) \in ctrl
                    /\ HandleNeed(p, r, report)
                    /\ UNCHANGED <<receiverVars, net, ctrl>>
             \/ \E p \in Receivers : HandleReady(p) /\ UNCHANGED <<receiverVars, net, ctrl>>
  <2>1. m \in Controls
    BY DEF SessionInv, SessionTypeOK
  <2> QED
    BY <1>1, <2>1, ControlCases DEF DeliverControl
<1> QED
  BY <1>1 DEF SessionNext, OwnStep, ReceiverStep

-----------------------------------------------------------------------------
(* Every step keeps the invariant *)

\* A receiver that answers a new round.
LEMMA AnswerRoundStep ==
    ASSUME SessionInv, NEW p \in Receivers, NEW r \in Rounds, AnswerRound(p, r),
           ReceiverTypeOK', UNCHANGED <<senderVars, net>>
    PROVE  CtrlTruth' /\ OneNeedPerRound' /\ ReceiverTruth'
<1> DEFINE new == PlainNeed(complete_blocks[p])
<1> USE NeedsDiffer
<1>0. ReceiverTypeOK /\ CtrlTruth /\ OneNeedPerRound /\ ReceiverTruth /\ NetTruth
  BY DEF SessionInv, SessionTypeOK
<1>1. /\ new \in WireReports /\ ValidNeed(new)
      /\ new.missing = Blocks \ complete_blocks[p]
  BY <1>0, PlainNeedFacts DEF ReceiverTypeOK
<1>2. /\ last_source_done_round_id' = [last_source_done_round_id EXCEPT ![p] = r]
      /\ last_round_need' = [last_round_need EXCEPT ![p] = new]
      /\ complete_reported' = [complete_reported EXCEPT ![p] = (new = Complete)]
      /\ lifecycle' = [lifecycle EXCEPT ![p] = IF new = Complete
                                               THEN "PassiveComplete" ELSE @]
      /\ complete_blocks' = complete_blocks
      /\ replay_round' = replay_round
      /\ ctrl' = ctrl \cup {Need(p, r, new)}
      /\ lifecycle[p] # "SessionFinished"
  BY DEF AnswerRound, HandleSourceDone, AnswersSourceDone, Live
<1>3. \A q \in Receivers :
         /\ last_source_done_round_id'[q] = IF q = p THEN r ELSE last_source_done_round_id[q]
         /\ last_round_need'[q] = IF q = p THEN new ELSE last_round_need[q]
         /\ complete_reported'[q] = IF q = p THEN (new = Complete) ELSE complete_reported[q]
         /\ lifecycle'[q] = IF q = p /\ new = Complete THEN "PassiveComplete" ELSE lifecycle[q]
  BY <1>0, <1>2 DEF ReceiverTypeOK
<1>4. \A q \in Receivers : last_source_done_round_id[q] \in -1 .. MaxRound
  BY <1>0 DEF ReceiverTypeOK, Rounds, NoRound
<1>5. last_source_done_round_id[p] < r /\ r \in 0 .. MaxRound
  BY DEF AnswerRound, Rounds
<1>6. \A s \in Rounds, a \in WireReports : Need(p, s, a) \in ctrl =>
         s < r /\ Blocks \ complete_blocks[p] \subseteq a.missing
  BY <1>0, <1>4, <1>5 DEF CtrlTruth, Rounds
<1>7. CtrlTruth'
  <2> SUFFICES ASSUME NEW q \in Receivers, NEW s \in Rounds, NEW a \in WireReports,
                      Need(q, s, a) \in ctrl'
               PROVE  /\ ValidNeed(a)
                      /\ s <= last_source_done_round_id'[q]
                      /\ s = last_source_done_round_id'[q] => a = last_round_need'[q]
                      /\ Blocks \ complete_blocks'[q] \subseteq a.missing
    BY DEF CtrlTruth
  <2>1. CASE Need(q, s, a) = Need(p, r, new)
    BY <1>1, <1>2, <1>3, <1>5, <2>1 DEF Rounds
  <2>2. CASE Need(q, s, a) \in ctrl /\ q = p
    BY <1>0, <1>2, <1>3, <1>5, <1>6, <2>2 DEF CtrlTruth, Rounds
  <2>3. CASE Need(q, s, a) \in ctrl /\ q # p
    BY <1>0, <1>2, <1>3, <2>3 DEF CtrlTruth
  <2> QED
    BY <1>2, <2>1, <2>2, <2>3
<1>8. OneNeedPerRound'
  <2> SUFFICES ASSUME NEW q \in Receivers,
                      NEW s \in Rounds, NEW a \in WireReports, Need(q, s, a) \in ctrl',
                      NEW t \in Rounds, NEW b \in WireReports, Need(q, t, b) \in ctrl'
               PROVE  /\ s = t => a = b
                      /\ s < t => b.missing \subseteq a.missing
    BY DEF OneNeedPerRound
  <2>1. CASE Need(q, s, a) \in ctrl /\ Need(q, t, b) \in ctrl
    BY <1>0, <2>1 DEF OneNeedPerRound
  <2>2. CASE Need(q, s, a) \in ctrl /\ Need(q, t, b) = Need(p, r, new)
    BY <1>1, <1>5, <1>6, <2>2 DEF Rounds
  <2>3. CASE Need(q, s, a) = Need(p, r, new) /\ Need(q, t, b) \in ctrl
    <3>1. t < s
      BY <1>6, <2>3
    <3> QED
      BY <3>1, <2>3, <1>5 DEF Rounds
  <2>4. CASE Need(q, s, a) = Need(p, r, new) /\ Need(q, t, b) = Need(p, r, new)
    <3>1. s = t /\ a = b /\ s \in 0 .. MaxRound
      BY <2>4 DEF Rounds
    <3> QED
      BY <3>1
  <2> QED
    BY <1>2, <2>1, <2>2, <2>3, <2>4
<1>9. ReceiverTruth'
  <2>1. r <= feedback_open_round_id
        /\ (r = feedback_open_round_id => feedback_round_open \/ feedback_open_round_id = MaxRound)
    BY <1>0 DEF NetTruth, AnswerRound
  <2>2. UNCHANGED <<feedback_open_round_id, feedback_round_open>>
    BY DEF senderVars, burstVars
  <2>3. replay_round[p] = NoRound
    BY <1>0, <1>2 DEF ReceiverTruth, AnnouncedTruth
  <2>4. r # NoRound
    BY <1>5 DEF NoRound
  <2> SUFFICES ASSUME NEW q \in Receivers PROVE AnnouncedTruth(q)'
    BY DEF ReceiverTruth
  <2>5. CASE q = p
    <3>1. lifecycle'[q] = "PassiveComplete" => complete_reported'[q]
      <4>1. lifecycle[p] = "PassiveComplete" => new = Complete
        BY <1>0, <1>1, <1>6, <1>4 DEF ReceiverTruth, AnnouncedTruth, CtrlTruth, Rounds, NoRound, PlainNeed, Complete, ReceiverTypeOK
      <4> QED
        BY <1>3, <2>5, <4>1
    <3>2. /\ last_source_done_round_id'[q] = r
          /\ last_round_need'[q] = new
          /\ complete_reported'[q] = (new = Complete)
          /\ replay_round'[q] = NoRound
      BY <1>2, <1>3, <2>3, <2>5
    <3>3. Need(q, r, new) \in ctrl'
      BY <1>2, <2>5
    <3> QED
      BY <1>1, <2>1, <2>2, <2>4, <3>1, <3>2, <3>3 DEF AnnouncedTruth
  <2>6. CASE q # p
    BY <1>0, <1>2, <1>3, <2>2, <2>6 DEF ReceiverTruth, AnnouncedTruth
  <2> QED
    BY <2>5, <2>6
<1> QED
  BY <1>7, <1>8, <1>9

\* A receiver step that announces nothing new.
LEMMA QuietStepKeeps ==
    ASSUME SessionInv, NEW p \in Receivers, QuietStep(p), ReceiverTypeOK',
           UNCHANGED <<senderVars, net>>, ctrl \subseteq ctrl'
    PROVE  CtrlTruth' /\ OneNeedPerRound' /\ ReceiverTruth'
<1>0. CtrlTruth /\ OneNeedPerRound /\ ReceiverTruth
  BY DEF SessionInv
<1>1. CtrlTruth'
  BY <1>0 DEF CtrlTruth, QuietStep
<1>2. OneNeedPerRound'
  BY <1>0 DEF OneNeedPerRound, QuietStep
<1>3. ReceiverTruth'
  <2>1. UNCHANGED <<feedback_open_round_id, feedback_round_open>>
    BY DEF senderVars, burstVars
  <2> QED
    BY <1>0, <2>1 DEF ReceiverTruth, AnnouncedTruth, QuietStep
<1> QED
  BY <1>1, <1>2, <1>3

\* A sender step over unchanged receivers keeps what they have announced.
LEMMA SenderStepKeeps ==
    ASSUME SessionInv, [SenderNext]_senderVars, UNCHANGED <<receiverVars, ctrl>>
    PROVE  CtrlTruth' /\ OneNeedPerRound' /\ ReceiverTruth' /\ ReceiverTypeOK'
<1>0. /\ CtrlTruth /\ OneNeedPerRound /\ ReceiverTruth /\ ReceiverTypeOK
      /\ SenderInv /\ SenderTypeOK
  BY DEF SessionInv, SessionTypeOK
<1>1. CtrlTruth' /\ OneNeedPerRound' /\ ReceiverTypeOK'
  BY <1>0 DEF CtrlTruth, OneNeedPerRound, ReceiverTypeOK, receiverVars
<1>2. ReceiverTruth'
  <2> SUFFICES ASSUME NEW p \in Receivers PROVE AnnouncedTruth(p)'
    BY DEF ReceiverTruth
  <2>1. last_source_done_round_id[p] \in Rounds \cup {NoRound}
    BY <1>0 DEF ReceiverTypeOK
  <2>2. last_source_done_round_id[p] # NoRound =>
          /\ last_source_done_round_id[p] <= feedback_open_round_id'
          /\ last_source_done_round_id[p] = feedback_open_round_id'
                => feedback_round_open' \/ feedback_open_round_id' = MaxRound
    BY <1>0, <2>1, SenderMovesForward DEF ReceiverTruth, AnnouncedTruth
  <2> QED
    BY <1>0, <2>2 DEF ReceiverTruth, AnnouncedTruth, receiverVars
<1> QED
  BY <1>1, <1>2

LEMMA NetTruthStep ==
    ASSUME SessionInv, [SessionNext]_sessionVars, [SenderNext]_senderVars
    PROVE  NetTruth' /\ net' \subseteq Frames
<1>0. NetTruth /\ net \subseteq Frames /\ SenderInv /\ SenderInv'
  BY SenderInvStep DEF SessionInv, SessionTypeOK
<1>1. CASE UNCHANGED net
  BY <1>0, <1>1, SenderMovesForward DEF NetTruth
<1>2. CASE OwnStep
  <2>1. \A b \in Blocks : Data(b) \in net' => phase' \notin {"WaitTopology", "Negotiating"}
    BY <1>0, <1>2, OwnStepFacts, SenderMovesForward DEF NetTruth
  <2>2. \A r \in Rounds : SourceDone(r) \in net' =>
           /\ r <= feedback_open_round_id'
           /\ r = feedback_open_round_id' => feedback_round_open' \/ r = MaxRound
    <3> SUFFICES ASSUME NEW r \in Rounds, SourceDone(r) \in net'
                 PROVE  /\ r <= feedback_open_round_id'
                        /\ r = feedback_open_round_id' => feedback_round_open' \/ r = MaxRound
      OBVIOUS
    <3>1. CASE SourceDone(r) \in net
      BY <1>0, <3>1, SenderMovesForward DEF NetTruth
    <3>2. CASE r = feedback_open_round_id' /\ feedback_round_open'
      BY <3>2 DEF Rounds
    <3> QED
      BY <1>2, <3>1, <3>2, OwnStepFacts
  <2> QED
    BY <1>2, <2>1, <2>2, OwnStepFacts DEF NetTruth
<1>3. CASE ~OwnStep
  <2>1. UNCHANGED net
    BY <1>3, StepKinds, ReceiverStepFacts DEF sessionVars
  <2> QED
    BY <1>1, <2>1
<1> QED
  BY <1>2, <1>3

\* What the sender records is what was sent, and it finds no conflict in it.
LEMMA RecordStep ==
    ASSUME SessionInv, [SessionNext]_sessionVars, [SenderNext]_senderVars
    PROVE  RecordTruth' /\ NoSpuriousProtocolError'
<1>0. /\ RecordTruth /\ NoSpuriousProtocolError /\ CtrlTruth /\ OneNeedPerRound
      /\ SenderTypeOK
  BY DEF SessionInv, SessionTypeOK
<1>1. CASE UNCHANGED senderVars /\ ctrl \subseteq ctrl'
  BY <1>0, <1>1 DEF RecordTruth, NoSpuriousProtocolError, senderVars, burstVars, workVars
<1>2. ASSUME NEW p \in Receivers, NEW r \in Rounds, NEW report \in WireReports,
             Need(p, r, report) \in ctrl, HandleNeed(p, r, report), UNCHANGED ctrl
      PROVE  RecordTruth' /\ NoSpuriousProtocolError'
  <2>1. CASE DropsNeed(p, r, report)
    BY <1>1, <1>2, <2>1 DEF HandleNeed
  <2>2. CASE ~DropsNeed(p, r, report) /\ RepeatNeed(p, report)
    <3>1. /\ r = feedback_open_round_id
          /\ Need(p, r, round_reports[p]) \in ctrl
          /\ round_reports[p] \in WireReports
      BY <1>0, <2>2 DEF DropsNeed, RepeatNeed, RecordTruth, SenderTypeOK
    <3>2. round_reports[p] = report
      BY <1>0, <1>2, <3>1 DEF OneNeedPerRound
    <3> QED
      BY <1>0, <1>2, <2>2, <3>2
         DEF RepeatNeed, RecordTruth, NoSpuriousProtocolError, burstVars, workVars
  <2>3. CASE ~DropsNeed(p, r, report) /\ RecordNeed(p, report)
    <3>1. r = feedback_open_round_id /\ report.kind # "Fec"
      BY <2>3, AdmittedReports DEF DropsNeed
    <3>2. \A q \in Receivers : round_reports'[q] = IF q = p THEN report ELSE round_reports[q]
      BY <1>0, <2>3 DEF RecordNeed, SenderTypeOK
    <3>3. feedback_open_round_id' = feedback_open_round_id /\ protocol_error' = FALSE
      BY <1>0, <2>3, <3>1 DEF RecordNeed, NoSpuriousProtocolError, SenderTypeOK
    <3> QED
      BY <1>0, <1>2, <3>1, <3>2, <3>3 DEF RecordTruth, NoSpuriousProtocolError
  <2> QED
    BY <1>2, <2>1, <2>2, <2>3 DEF HandleNeed
<1>3. CASE UNCHANGED ctrl /\ (OwnStep \/ \E p \in Receivers : HandleReady(p))
  <2>1. UNCHANGED ctrl
        /\ \/ UNCHANGED senderVars
           \/ /\ protocol_error' = protocol_error
              /\ \/ \A p \in Peers : round_reports'[p] = NoReport
                 \/ /\ round_reports' = round_reports
                    /\ feedback_open_round_id' = feedback_open_round_id
    BY <1>3 DEF OwnStep, Handshake, SendBlock, AnnounceRound, CloseRound, SenderAborts,
       BeginNegotiation, RetryManifest, FreezeQuorum, HandleReady,
       AbortOnProtocolError, PeerReportTimeout, ControlClosed, SendSourceBlock,
       SendRetransmitBlock, OpenFeedbackRound, CompleteRound, AdvanceRound, Solicit,
       senderVars, handshakeVars, burstVars, workVars
  <2> QED
    BY <1>0, <1>1, <2>1 DEF RecordTruth, NoSpuriousProtocolError
<1>4. CASE \E p \in Receivers : ReceiverStep(p)
  BY <1>1, <1>4, ReceiverStepFacts
<1>5. CASE UNCHANGED sessionVars
  BY <1>1, <1>5 DEF sessionVars
<1> QED
  BY <1>2, <1>3, <1>4, <1>5, StepKinds, OwnStepFacts

LEMMA SessionInvStep == SessionInv /\ [SessionNext]_sessionVars => SessionInv'
<1> SUFFICES ASSUME SessionInv, [SessionNext]_sessionVars PROVE SessionInv'
  OBVIOUS
<1>1. [SenderNext]_senderVars
  BY SessionStepsSender DEF SessionInv
<1>2. SenderInv' /\ SenderTypeOK'
  BY <1>1, SenderInvStep DEF SessionInv, SenderInv
<1>3. NetTruth' /\ net' \subseteq Frames
  BY <1>1, NetTruthStep
<1>4. RecordTruth' /\ NoSpuriousProtocolError'
  BY <1>1, RecordStep
<1>5. CtrlTruth' /\ OneNeedPerRound' /\ ReceiverTruth' /\ ReceiverTypeOK' /\ ctrl' \subseteq Controls
  <2>1. CASE UNCHANGED <<receiverVars, ctrl>>
    BY <1>1, <2>1, SenderStepKeeps DEF SessionInv, SessionTypeOK
  <2>2. CASE \E p \in Receivers : ReceiverStep(p)
    BY <2>2, ReceiverStepFacts, QuietStepKeeps, AnswerRoundStep
  <2> QED
    BY <2>1, <2>2, StepKinds, OwnStepFacts DEF sessionVars
<1> QED
  BY <1>2, <1>3, <1>4, <1>5 DEF SessionInv, SessionTypeOK

-----------------------------------------------------------------------------
(* The theorems *)

\* The invariant is inductive.
THEOREM SessionInductive == SessionSpec => []SessionInv
BY SessionInitInv, SessionInvStep, PTL DEF SessionSpec

\* Type correctness of sender, receivers and network.
THEOREM SessionTypeCorrect == SessionSpec => []SessionTypeOK
BY SessionInductive, PTL DEF SessionInv

\* A Need of receiver p in flight is a certificate: whatever it does not miss,
\* the receiver holds.
LEMMA ReportedMeansStored ==
    ASSUME SessionInv, NEW p \in Receivers, NEW r \in Rounds, Need(p, r, Complete) \in ctrl
    PROVE  complete_blocks[p] = Blocks
<1>1. Blocks \ complete_blocks[p] \subseteq {}
  BY DEF SessionInv, CtrlTruth, WireReports, Complete
<1>2. complete_blocks[p] \subseteq Blocks
  BY DEF SessionInv, SessionTypeOK, ReceiverTypeOK
<1> QED
  BY <1>1, <1>2

\* End-to-end correctness: a session that reports Completed has delivered
\* every block to every member of the frozen quorum, although frames are lost,
\* duplicated and reordered and receivers leave.
THEOREM CompletionIsDelivery == SessionSpec => []CompletedMeansDelivered
<1>1. SessionInv => CompletedMeansDelivered
  <2> SUFFICES ASSUME SessionInv, phase = "Completed", NEW p \in active
               PROVE  complete_blocks[p] = Blocks
    BY DEF CompletedMeansDelivered
  <2>1. p \in Receivers /\ feedback_open_round_id \in Rounds
    BY DEF SessionInv, SessionTypeOK, SenderTypeOK
  <2>2. round_reports[p] = Complete
    BY DEF SessionInv, SenderInv, CompletedByQuorum
  <2>3. Need(p, feedback_open_round_id, Complete) \in ctrl
    BY <2>1, <2>2 DEF SessionInv, RecordTruth, Complete, NoReport
  <2> QED
    BY <2>1, <2>3, ReportedMeansStored
<1> QED
  BY SessionInductive, <1>1, PTL

\* Honest receivers never trip the sender's conflict detection.
THEOREM NoConflictFromHonestReceivers == SessionSpec => []NoSpuriousProtocolError
BY SessionInductive, PTL DEF SessionInv

\* Each receiver answers a round with one report, and its later reports only
\* shrink.
THEOREM ReportsAreConsistent == SessionSpec => []OneNeedPerRound
BY SessionInductive, PTL DEF SessionInv

\* The work of the open round covers what its reporters still lack.
THEOREM ResidualIsCovered == SessionSpec => []ReportsCoverResidual
<1>1. SessionInv => ReportsCoverResidual
  <2> SUFFICES ASSUME SessionInv, NEW p \in active, round_reports[p] # NoReport
               PROVE  Blocks \ complete_blocks[p] \subseteq required_blocks
    BY DEF ReportsCoverResidual
  <2>1. /\ p \in Receivers /\ p \in Peers
        /\ feedback_open_round_id \in Rounds
        /\ round_reports[p] \in WireReports
    BY DEF SessionInv, SessionTypeOK, SenderTypeOK
  <2>2. Need(p, feedback_open_round_id, round_reports[p]) \in ctrl
    BY <2>1 DEF SessionInv, RecordTruth
  <2>3. Blocks \ complete_blocks[p] \subseteq round_reports[p].missing
    BY <2>1, <2>2 DEF SessionInv, CtrlTruth
  <2>4. round_reports[p].missing \subseteq required_blocks
    BY <2>1 DEF SessionInv, SenderInv, RetransmitLedger
  <2> QED
    BY <2>3, <2>4
<1> QED
  BY SessionInductive, <1>1, PTL

\* No receiver answers a round before the sender opens it.
THEOREM ReceiversStayInStep == SessionSpec => []RoundsInStep
<1>1. SessionInv => RoundsInStep
  <2> SUFFICES ASSUME SessionInv, NEW p \in Receivers
               PROVE  /\ last_source_done_round_id[p] <= feedback_open_round_id
                      /\ last_source_done_round_id[p] = feedback_open_round_id
                            => feedback_round_open \/ feedback_open_round_id = MaxRound
    BY DEF RoundsInStep
  <2>1. feedback_open_round_id \in 0 .. MaxRound
    BY DEF SessionInv, SessionTypeOK, SenderTypeOK, Rounds
  <2>2. CASE last_source_done_round_id[p] = NoRound
    BY <2>1, <2>2 DEF NoRound
  <2>3. CASE last_source_done_round_id[p] # NoRound
    BY <2>3 DEF SessionInv, ReceiverTruth, AnnouncedTruth
  <2> QED
    BY <2>2, <2>3
<1> QED
  BY SessionInductive, <1>1, PTL

\* A receiver that says it is complete is, also when the runtime says it for
\* a receiver that has gone.
THEOREM CompleteReportsAreTrue == SessionSpec => []CompleteIsTrue
<1>1. SessionInv => CompleteIsTrue
  <2> SUFFICES ASSUME SessionInv, NEW p \in Receivers
               PROVE  /\ complete_reported[p] => complete_blocks[p] = Blocks
                      /\ replay_round[p] # NoRound => complete_blocks[p] = Blocks
                      /\ lifecycle[p] = "PassiveComplete" => complete_reported[p]
    BY DEF CompleteIsTrue
  <2>1. AnnouncedTruth(p)
    BY DEF SessionInv, ReceiverTruth
  <2>2. last_source_done_round_id[p] \in Rounds \cup {NoRound}
    BY DEF SessionInv, SessionTypeOK, ReceiverTypeOK
  <2>3. complete_reported[p] => complete_blocks[p] = Blocks
    BY <2>1, <2>2, ReportedMeansStored DEF AnnouncedTruth
  <2> QED
    BY <2>1, <2>3 DEF AnnouncedTruth
<1> QED
  BY SessionInductive, <1>1, PTL

-----------------------------------------------------------------------------
(* The protocol implements the abstract transfer *)

\* Every behaviour of the session, seen as outcome, membership and stored
\* blocks, is a behaviour of LosslessTransfer.
THEOREM SessionImplementsTransfer == SessionSpec => TransferSpec
<1> USE DEF Transfer!transferVars
<1>1. SessionInit => Transfer!TransferInit
  BY DEF SessionInit, SenderInit, SenderStartsIn, ReceiverInit, ReceiverStartsWith,
     Transfer!TransferInit
<1>2. SessionInv /\ SessionInv' /\ [SessionNext]_sessionVars
          => [Transfer!TransferNext]_Transfer!transferVars
  <2> SUFFICES ASSUME SessionInv, SessionInv', [SessionNext]_sessionVars
               PROVE  [Transfer!TransferNext]_Transfer!transferVars
    OBVIOUS
  <2> USE DEF handshakeVars
  <2>1. CASE UNCHANGED <<phase, active, complete_blocks>>
    BY <2>1
  <2>2. CASE UNCHANGED receiverVars /\ (BeginNegotiation \/ FreezeQuorum)
    BY <2>2 DEF BeginNegotiation, FreezeQuorum, receiverVars, Transfer!TransferNext,
       Transfer!CloseMembership
  <2>3. ASSUME NEW p \in Receivers, HandleReady(p), UNCHANGED receiverVars
        PROVE  [Transfer!TransferNext]_Transfer!transferVars
    BY <2>3 DEF HandleReady, receiverVars, Transfer!TransferNext, Transfer!Join
  <2>4. CASE UNCHANGED receiverVars /\ (AbortOnProtocolError \/ PeerReportTimeout \/ ControlClosed)
    BY <2>4 DEF AbortOnProtocolError, PeerReportTimeout, ControlClosed, Abort, Waiting,
       NothingToSend, Sending, receiverVars, Transfer!TransferNext, Transfer!GiveUp
  <2>5. CASE UNCHANGED receiverVars /\ (OpenFeedbackRound \/ CompleteRound)
    <3>1. \A p \in active' : phase' = "Completed" => complete_blocks'[p] = Blocks
      <4>1. \A p \in active' : phase' = "Completed" =>
               /\ p \in Receivers
               /\ feedback_open_round_id' \in Rounds
               /\ Need(p, feedback_open_round_id', Complete) \in ctrl'
        BY DEF SessionInv, SessionTypeOK, SenderTypeOK, SenderInv, CompletedByQuorum,
           RecordTruth, Complete, NoReport
      <4>2. \A p \in Receivers : \A r \in Rounds :
               Need(p, r, Complete) \in ctrl' => Blocks \ complete_blocks'[p] \subseteq {}
        BY DEF SessionInv, CtrlTruth, WireReports, Complete
      <4>3. \A p \in Receivers : complete_blocks'[p] \subseteq Blocks
        BY DEF SessionInv, SessionTypeOK, ReceiverTypeOK
      <4> QED
        BY <4>1, <4>2, <4>3
    <3>2. phase = "Sending" /\ active' = active /\ phase' \in {"Sending", "Completed"}
      BY <2>5 DEF OpenFeedbackRound, CompleteRound, NothingToSend, Sending
    <3> QED
      BY <2>5, <3>1, <3>2 DEF receiverVars, Transfer!TransferNext, Transfer!Finish
  <2>6. ASSUME NEW p \in Receivers, NEW b \in Blocks, Data(b) \in net,
               HandleBlockData(p, b), UNCHANGED senderVars
        PROVE  [Transfer!TransferNext]_Transfer!transferVars
    <3>1. phase \notin {"WaitTopology", "Negotiating"}
      BY <2>6 DEF SessionInv, NetTruth
    <3>2. \/ complete_blocks' = complete_blocks
          \/ complete_blocks' = [complete_blocks EXCEPT ![p] = @ \cup {b}]
      BY <2>6 DEF HandleBlockData, SessionInv, SessionTypeOK, ReceiverTypeOK
    <3> QED
      BY <2>6, <3>1, <3>2 DEF senderVars, Transfer!TransferNext, Transfer!Store
  <2> USE DEF senderVars, receiverVars
  <2>7. CASE OwnStep
    BY <2>1, <2>2, <2>4, <2>5, <2>7 DEF OwnStep, Handshake, SendBlock, AnnounceRound,
       CloseRound, SenderAborts, Emit, RetryManifest, SendSourceBlock, SendRetransmitBlock,
       Solicit, AdvanceRound
  <2>8. ASSUME NEW p \in Receivers, NEW r \in Rounds, NEW report \in WireReports,
               HandleNeed(p, r, report), UNCHANGED <<receiverVars, net, ctrl>>
        PROVE  [Transfer!TransferNext]_Transfer!transferVars
    BY <2>1, <2>8 DEF HandleNeed, RepeatNeed, RecordNeed
  <2>9. ASSUME NEW p \in Receivers, ReceiverStep(p)
        PROVE  [Transfer!TransferNext]_Transfer!transferVars
    <3>1. CASE DeliverData(p)
      BY <2>6, <3>1 DEF DeliverData, Answer
    <3>2. CASE ~DeliverData(p)
      BY <2>1, <2>9, <3>2 DEF ReceiverStep, DeliverManifest, DeliverSourceDone, ReceiverEnds,
         Answer, InstallManifest, HandleSourceDone, IgnoreSourceDone, FinishSession,
         AbortReceiver
    <3> QED
      BY <3>1, <3>2
  <2> QED
    BY <2>1, <2>3, <2>7, <2>8, <2>9, StepKinds DEF sessionVars
<1> QED
  BY SessionInductive, <1>1, <1>2, PTL DEF SessionSpec, TransferSpec, Transfer!TransferSpec
=============================================================================
