-------------------------- MODULE FecSessionProofs --------------------------
(***************************************************************************)
(* Proofs about FecSender, for every set of receivers and peers, every     *)
(* number of blocks and symbols and every largest round id, against peers  *)
(* that may report anything; then about FecSession, over a network that    *)
(* may lose, repeat and reorder every frame.                               *)
(***************************************************************************)
EXTENDS FecSession, FiniteSetTheorems, WellFoundedInduction, NaturalsInduction, TLAPS

USE TotalBlocksAssumption, MaxRoundAssumption, SymbolsAssumption, PeersAssumption

-----------------------------------------------------------------------------
(* Reports *)

\* Every block has a deficit in every report, and the kind tells the special
\* reports apart.
LEMMA ReportFacts ==
    ASSUME NEW report \in FecWireReports \cup {FecNone}
    PROVE  /\ report.deficit \in [ListedIds -> 0 .. MaxDeficit]
           /\ report.kind = "None" <=> report = FecNone
           /\ report.kind = "Complete" <=> report = FecComplete
           /\ \A b \in Blocks : b \in ListedIds
<1>1. NoDeficit \in [ListedIds -> 0 .. MaxDeficit]
  BY DEF NoDeficit
<1>2. CASE report = FecNone
  BY <1>1, <1>2 DEF FecNone, FecComplete, Blocks, ListedIds
<1>3. CASE report = FecComplete
  BY <1>1, <1>3 DEF FecNone, FecComplete, Blocks, ListedIds
<1>4. CASE report = [kind |-> "Plain", deficit |-> NoDeficit]
  BY <1>1, <1>4 DEF FecNone, FecComplete, Blocks, ListedIds
<1>5. CASE \E d \in [ListedIds -> 0 .. MaxDeficit] : report = FecNeed(d)
  BY <1>5 DEF FecNeed, FecNone, FecComplete, Blocks, ListedIds
<1> QED
  BY <1>2, <1>3, <1>4, <1>5 DEF FecWireReports

LEMMA NoneAsksForNothing ==
    /\ FecNone \in FecWireReports \cup {FecNone}
    /\ \A b \in Blocks : FecNone.deficit[b] = 0
    /\ FecNone # FecComplete
BY DEF FecNone, FecComplete, NoDeficit, Blocks, ListedIds

\* The reporters are members of a finite quorum: as many reports as members
\* are reports of all members (FecSender::run compares the two lengths).
LEMMA ReportersAreQuorum ==
    ASSUME active \subseteq Receivers,
           NEW reports \in [Peers -> FecWireReports \cup {FecNone}],
           \A p \in Peers : reports[p] # FecNone => p \in active
    PROVE  AllReported(reports) <=> \A p \in active : reports[p] # FecNone
<1>1. IsFiniteSet(active)
  BY FS_Subset
<1>2. \A p \in Peers : reports[p].kind # "None" <=> reports[p] # FecNone
  BY ReportFacts
<1>3. ReportedIn(reports) \subseteq active
  BY <1>2 DEF ReportedIn
<1>4. AllReported(reports) <=> ReportedIn(reports) = active
  BY <1>1, <1>3, FS_Subset DEF AllReported
<1> QED
  BY <1>2, <1>3, <1>4 DEF ReportedIn

\* The larger of two numbers
LEMMA MaxOfTwo ==
    ASSUME NEW a \in Int, NEW b \in Int
    PROVE  Max({a, b}) = IF a >= b THEN a ELSE b
<1>1. \E x \in {a, b} : \A y \in {a, b} : x >= y
  OBVIOUS
<1>2. Max({a, b}) \in {a, b} /\ \A y \in {a, b} : Max({a, b}) >= y
  BY <1>1 DEF Max
<1> QED
  BY <1>2

-----------------------------------------------------------------------------
(* The invariant holds initially *)

LEMMA FecInitInv == FecSenderInit => FecSenderInv
<1> SUFFICES ASSUME FecSenderInit PROVE FecSenderInv
  OBVIOUS
<1> USE DEF FecSenderInit, ZeroSymbols
<1>1. FecTypes
  <2>1. 0 \in Rounds /\ 0 \in 0 .. SymbolsPerBlock /\ 0 \in 0 .. MaxDeficit
        /\ SymbolsPerBlock \in SymbolsPerBlock .. MaxSymbol
    BY DEF Rounds
  <2>2. round_reports \in [Peers -> FecWireReports \cup {FecNone}]
    OBVIOUS
  <2>3. /\ next_source_symbol \in [Blocks -> 0 .. SymbolsPerBlock]
        /\ next_fountain_symbol \in [Blocks -> SymbolsPerBlock .. MaxSymbol]
        /\ required_extra_symbols \in [Blocks -> 0 .. MaxDeficit]
        /\ emitted_extra_symbols \in [Blocks -> 0 .. MaxDeficit]
    BY <2>1
  <2> QED
    BY <2>1, <2>2, <2>3 DEF FecTypes
<1>2. FecQuorumReports /\ FecTargets /\ FecLoopPosition
  BY NoneAsksForNothing DEF FecQuorumReports, FecTargets, FecLoopPosition
<1> QED
  BY <1>1, <1>2 DEF FecSenderInv

-----------------------------------------------------------------------------
(* Steps *)

\* finish_report_round keeps the invariant if the reports and the target it is
\* called with satisfy it.
LEMMA FinishKeepsInv ==
    ASSUME FecSenderInv,
           NEW reports \in [Peers -> FecWireReports \cup {FecNone}],
           NEW required \in [Blocks -> 0 .. MaxDeficit],
           \A p \in Peers : reports[p] # FecNone => p \in active /\ ValidFecNeed(reports[p]),
           \A b \in Blocks :
              /\ \A p \in Peers : reports[p].deficit[b] <= required[b]
              /\ required[b] = 0 \/ \E p \in Peers : reports[p].deficit[b] = required[b]
              /\ emitted_extra_symbols[b] <= required[b],
           round_phase = "WaitingForReports",
           phase = "Sending", ~round_complete,
           AllReported(reports),
           FinishReportRound(reports, required),
           UNCHANGED <<phase, active, symbolVars, protocol_error>>
    PROVE  FecSenderInv'
<1> USE DEF FecSenderInv, roundVars, symbolVars
<1>1. CASE FecAllComplete(reports)
  <2>1. /\ round_complete' = TRUE /\ round_reports' = reports
        /\ required_extra_symbols' = required
        /\ UNCHANGED <<round_phase, round_source_done_sent, current_round_id, wait_started,
                       emitted_extra_symbols, phase, active, protocol_error,
                       next_source_symbol, next_fountain_symbol>>
    BY <1>1 DEF FinishReportRound
  <2>2. \A p \in active : reports[p] = FecComplete
    <3>1. \A p \in active : p \in Peers /\ reports[p] # FecNone
      BY ReportersAreQuorum DEF FecTypes
    <3> QED
      BY <1>1, <3>1, ReportFacts DEF FecAllComplete, ReportedIn
  <2>3. FecTypes'
    BY <2>1 DEF FecTypes
  <2>4. FecQuorumReports' /\ FecTargets'
    BY <2>1 DEF FecQuorumReports, FecTargets
  <2>5. FecLoopPosition'
    BY <2>1, <2>2 DEF FecLoopPosition, FecTypes
  <2> QED
    BY <2>3, <2>4, <2>5
<1>2. CASE ~FecAllComplete(reports)
  <2>1. /\ round_phase' = "SendingData" /\ round_source_done_sent' = FALSE
        /\ current_round_id' = NextRoundId(current_round_id)
        /\ wait_started' = FALSE
        /\ round_reports' = [p \in Peers |-> FecNone]
        /\ required_extra_symbols' = ZeroSymbols
        /\ emitted_extra_symbols' = ZeroSymbols
        /\ UNCHANGED <<phase, active, protocol_error, next_source_symbol,
                       next_fountain_symbol, round_complete>>
    BY <1>2 DEF FinishReportRound
  <2>3. FecTypes'
    <3>1. NextRoundId(current_round_id) \in Rounds
      BY DEF FecTypes, NextRoundId, Rounds
    <3>2. ZeroSymbols \in [Blocks -> 0 .. MaxDeficit]
      BY DEF ZeroSymbols
    <3> QED
      BY <2>1, <3>1, <3>2 DEF FecTypes
  <2>4. FecQuorumReports' /\ FecTargets'
    BY <2>1, NoneAsksForNothing DEF FecQuorumReports, FecTargets, ZeroSymbols, FecTypes
  <2>5. FecLoopPosition'
    BY <2>1 DEF FecLoopPosition, FecTypes, ZeroSymbols
  <2> QED
    BY <2>3, <2>4, <2>5
<1> QED
  BY <1>1, <1>2

\* A step of the loop that sends a symbol
LEMMA SymbolKeepsInv ==
    ASSUME FecSenderInv, NEW b \in Blocks, SendSourceSymbol(b) \/ SendExtraSymbol(b)
    PROVE  FecSenderInv'
<1> USE DEF FecSenderInv, roundVars, repairVars
<1>1. CASE SendSourceSymbol(b)
  <2>1. next_source_symbol[b] \in 0 .. SymbolsPerBlock /\ next_source_symbol[b] < SymbolsPerBlock
    BY <1>1 DEF SendSourceSymbol, NextSource, SourceWork, FecTypes
  <2>2. next_source_symbol' \in [Blocks -> 0 .. SymbolsPerBlock]
    BY <1>1, <2>1 DEF SendSourceSymbol, FecTypes
  <2>3. /\ round_phase = "SendingData" /\ round_source_done_sent' = FALSE /\ ~round_complete
        /\ UNCHANGED <<phase, active, round_phase, current_round_id, wait_started, round_complete,
                       round_reports, required_extra_symbols, emitted_extra_symbols,
                       next_fountain_symbol, protocol_error>>
    BY <1>1 DEF SendSourceSymbol, NextSource, Looping
  <2>4. FecTypes'
    BY <2>2, <2>3 DEF FecTypes
  <2>5. FecQuorumReports' /\ FecTargets'
    BY <2>3 DEF FecQuorumReports, FecTargets
  <2>6. FecLoopPosition'
    BY <2>3 DEF FecLoopPosition
  <2> QED
    BY <2>4, <2>5, <2>6
<1>2. CASE SendExtraSymbol(b)
  <2>1. /\ emitted_extra_symbols' = [emitted_extra_symbols EXCEPT ![b] = @ + 1]
        /\ next_fountain_symbol' = [next_fountain_symbol EXCEPT ![b] = @ + 1]
        /\ next_fountain_symbol[b] < MaxSymbol
        /\ emitted_extra_symbols[b] < required_extra_symbols[b]
        /\ UNCHANGED <<phase, active, round_phase, round_source_done_sent, current_round_id,
                       wait_started, round_complete, round_reports, required_extra_symbols,
                       next_source_symbol, protocol_error>>
    BY <1>2 DEF SendExtraSymbol, NextExtra, ExtraWork
  <2>2. /\ emitted_extra_symbols \in [Blocks -> 0 .. MaxDeficit]
        /\ required_extra_symbols \in [Blocks -> 0 .. MaxDeficit]
        /\ next_fountain_symbol \in [Blocks -> SymbolsPerBlock .. MaxSymbol]
    BY DEF FecTypes
  <2>3. emitted_extra_symbols' \in [Blocks -> 0 .. MaxDeficit]
    BY <2>1, <2>2
  <2>4. next_fountain_symbol' \in [Blocks -> SymbolsPerBlock .. MaxSymbol]
    BY <2>1, <2>2
  <2>5. FecTypes'
    BY <2>1, <2>3, <2>4 DEF FecTypes
  <2>6. \A c \in Blocks : emitted_extra_symbols'[c] <= required_extra_symbols[c]
    BY <2>1, <2>2 DEF FecTargets
  <2>7. FecQuorumReports' /\ FecTargets'
    BY <2>1, <2>6 DEF FecQuorumReports, FecTargets
  <2>8. FecLoopPosition'
    BY <2>1 DEF FecLoopPosition
  <2> QED
    BY <2>5, <2>7, <2>8
<1> QED
  BY <1>1, <1>2

LEMMA BeginKeepsInv ==
    ASSUME FecSenderInv, BeginReportRound
    PROVE  FecSenderInv'
<1> USE DEF FecSenderInv, symbolVars
<1>1. /\ ~round_complete /\ ~round_source_done_sent /\ phase = "Sending"
      /\ round_source_done_sent' = TRUE /\ round_phase' = "WaitingForReports"
      /\ round_complete' = (active = {}) /\ wait_started' = (active # {})
      /\ round_reports' = [p \in Peers |-> FecNone]
      /\ UNCHANGED <<phase, active, current_round_id, required_extra_symbols,
                     emitted_extra_symbols, next_source_symbol, next_fountain_symbol,
                     protocol_error>>
  BY DEF BeginReportRound, NoSymbolToSend, Looping
<1>2. round_phase = "SendingData"
  BY <1>1 DEF FecLoopPosition, FecTypes
<1>3. \A b \in Blocks : required_extra_symbols[b] = 0
  BY <1>2 DEF FecLoopPosition
<1>4. round_reports' \in [Peers -> FecWireReports \cup {FecNone}]
  BY <1>1
<1>5. FecTypes'
  BY <1>1, <1>4 DEF FecTypes
<1>6. FecQuorumReports' /\ FecTargets'
  BY <1>1, <1>3, NoneAsksForNothing DEF FecQuorumReports, FecTargets
<1>7. FecLoopPosition'
  BY <1>1 DEF FecLoopPosition
<1> QED
  BY <1>5, <1>6, <1>7

LEMMA EndKeepsInv ==
    ASSUME FecSenderInv, EndReportRound
    PROVE  FecSenderInv'
<1> USE DEF FecSenderInv
<1>1. /\ phase = "Sending" /\ ~round_complete /\ round_source_done_sent
      /\ AllReported(round_reports)
      /\ FinishReportRound(round_reports, required_extra_symbols)
      /\ UNCHANGED <<phase, active, symbolVars, protocol_error>>
  BY DEF EndReportRound, NoSymbolToSend, Looping
<1>2. round_phase = "WaitingForReports"
  BY <1>1 DEF FecLoopPosition
<1> QED
  BY <1>1, <1>2, FinishKeepsInv DEF FecTypes, FecQuorumReports, FecTargets

\* A report that the sender takes into account
LEMMA NeedKeepsInv ==
    ASSUME FecSenderInv, NEW p \in Peers, NEW r \in Rounds, NEW report \in FecWireReports,
           phase = "Sending", ~DropsFecNeed(p, r, report), RecordFecNeed(p, report)
    PROVE  FecSenderInv'
<1> USE DEF FecSenderInv
<1> DEFINE reports == [round_reports EXCEPT ![p] = report]
<1> DEFINE required == MergeDeficits(required_extra_symbols, report)
<1>1. /\ p \in active /\ ValidFecNeed(report) /\ round_phase = "WaitingForReports"
      /\ round_reports[p] = FecNone
  BY DEF DropsFecNeed, RecordFecNeed, FecTypes
<1>2. ~round_complete
  BY <1>1, NoneAsksForNothing DEF FecLoopPosition
<1>3. reports \in [Peers -> FecWireReports \cup {FecNone}]
  BY DEF FecTypes
<1>4. \A q \in Peers : reports[q] # FecNone => q \in active /\ ValidFecNeed(reports[q])
  BY <1>1 DEF FecQuorumReports, FecTypes
<1>5. /\ required_extra_symbols \in [Blocks -> 0 .. MaxDeficit]
      /\ emitted_extra_symbols \in [Blocks -> 0 .. MaxDeficit]
      /\ \A b \in Blocks : b \in ListedIds /\ report.deficit[b] \in 0 .. MaxDeficit
  BY ReportFacts DEF FecTypes
<1>6. \A b \in Blocks :
         required[b] = IF required_extra_symbols[b] >= report.deficit[b]
                       THEN required_extra_symbols[b] ELSE report.deficit[b]
  BY <1>5, MaxOfTwo DEF MergeDeficits
<1>7. required \in [Blocks -> 0 .. MaxDeficit]
  <2>1. required = [b \in Blocks |-> required[b]]
    BY DEF MergeDeficits
  <2>2. \A b \in Blocks : required[b] \in 0 .. MaxDeficit
    BY <1>5, <1>6
  <2> QED
    BY <2>1, <2>2
<1>8. \A b \in Blocks :
         /\ \A q \in Peers : reports[q].deficit[b] <= required[b]
         /\ required[b] = 0 \/ \E q \in Peers : reports[q].deficit[b] = required[b]
         /\ emitted_extra_symbols[b] <= required[b]
  <2> SUFFICES ASSUME NEW b \in Blocks
               PROVE  /\ \A q \in Peers : reports[q].deficit[b] <= required[b]
                      /\ required[b] = 0 \/ \E q \in Peers : reports[q].deficit[b] = required[b]
                      /\ emitted_extra_symbols[b] <= required[b]
    OBVIOUS
  <2> HIDE DEF required
  <2>1. /\ reports[p] = report
        /\ \A q \in Peers : q # p => reports[q] = round_reports[q]
    BY DEF FecTypes
  <2> HIDE DEF reports
  <2>2. /\ required_extra_symbols[b] \in Nat /\ report.deficit[b] \in Nat
        /\ emitted_extra_symbols[b] \in Nat
        /\ \A q \in Peers : round_reports[q].deficit[b] \in Nat
    BY <1>5, ReportFacts DEF FecTypes
  <2>3. \A q \in Peers : reports[q].deficit[b] <= required[b]
    BY <1>6, <2>1, <2>2 DEF FecTargets
  <2>4. emitted_extra_symbols[b] <= required[b]
    BY <1>6, <2>2 DEF FecTargets
  <2>5. CASE required_extra_symbols[b] >= report.deficit[b]
    <3>1. required[b] = required_extra_symbols[b]
      BY <1>6, <2>5
    <3>2. ASSUME NEW q \in Peers, round_reports[q].deficit[b] = required_extra_symbols[b]
          PROVE  required[b] = 0 \/ \E s \in Peers : reports[s].deficit[b] = required[b]
      <4>1. CASE q = p
        BY <1>1, <3>1, <3>2, <4>1, NoneAsksForNothing
      <4>2. CASE q # p
        BY <2>1, <3>1, <3>2, <4>2
      <4> QED
        BY <4>1, <4>2
    <3> QED
      BY <2>3, <2>4, <3>1, <3>2 DEF FecTargets
  <2>6. CASE ~(required_extra_symbols[b] >= report.deficit[b])
    BY <1>6, <2>1, <2>3, <2>4, <2>6
  <2> QED
    BY <2>5, <2>6
<1> HIDE DEF reports, required
<1>9. UNCHANGED <<phase, active, symbolVars, protocol_error>>
  BY DEF RecordFecNeed
<1>10. CASE AllReported(reports) /\ ~Pending(required, emitted_extra_symbols)
  <2>1. FinishReportRound(reports, required)
    BY <1>10 DEF RecordFecNeed, reports, required
  <2> QED
    BY <1>1, <1>2, <1>3, <1>4, <1>7, <1>8, <1>9, <1>10, <2>1, FinishKeepsInv
<1>11. CASE ~(AllReported(reports) /\ ~Pending(required, emitted_extra_symbols))
  <2>1. /\ round_reports' = reports /\ required_extra_symbols' = required
        /\ UNCHANGED <<round_phase, round_source_done_sent, current_round_id, wait_started,
                       round_complete, emitted_extra_symbols>>
    BY <1>11 DEF RecordFecNeed, reports, required, roundVars
  <2>2. UNCHANGED <<phase, active, next_source_symbol, next_fountain_symbol, protocol_error>>
    BY <1>9 DEF symbolVars
  <2>3. FecTypes'
    BY <1>3, <1>7, <2>1, <2>2 DEF FecTypes
  <2>4. FecQuorumReports' /\ FecTargets'
    BY <1>4, <1>8, <2>1, <2>2 DEF FecQuorumReports, FecTargets
  <2>5. FecLoopPosition'
    BY <1>1, <1>2, <2>1, <2>2 DEF FecLoopPosition
  <2> QED
    BY <2>3, <2>4, <2>5
<1> QED
  BY <1>10, <1>11

LEMMA FecSenderStep == FecSenderInv /\ [FecSenderNext]_fecSenderVars => FecSenderInv'
<1> SUFFICES ASSUME FecSenderInv, [FecSenderNext]_fecSenderVars PROVE FecSenderInv'
  OBVIOUS
<1>1. CASE UNCHANGED fecSenderVars
  BY <1>1 DEF fecSenderVars, roundVars, repairVars, symbolVars, FecSenderInv, FecTypes,
     FecQuorumReports, FecTargets, FecLoopPosition
<1>2. CASE SendSymbol
  BY <1>2, SymbolKeepsInv DEF SendSymbol
<1>3. CASE BeginReportRound
  BY <1>3, BeginKeepsInv
<1>4. CASE EndReportRound
  BY <1>4, EndKeepsInv
<1>5. CASE FecSolicit
  BY <1>1, <1>5 DEF FecSolicit
<1>6. CASE FecReportTimeout \/ FecControlClosed \/ FecAbortOnProtocolError \/ FinishTransfer
  <2>1. /\ phase' = "Aborted" \/ (phase' = "Completed" /\ round_complete)
        /\ UNCHANGED <<active, roundVars, round_complete, repairVars, symbolVars, protocol_error>>
    BY <1>6 DEF FecReportTimeout, FecControlClosed, FecAbortOnProtocolError, FinishTransfer, Leave
  <2> QED
    BY <2>1 DEF roundVars, repairVars, symbolVars, FecSenderInv, FecTypes, FecQuorumReports,
       FecTargets, FecLoopPosition
<1>7. ASSUME NEW p \in Peers, NEW r \in Rounds, NEW report \in FecWireReports,
             HandleFecNeed(p, r, report)
      PROVE  FecSenderInv'
  <2>1. CASE DropsFecNeed(p, r, report)
    BY <1>1, <1>7, <2>1 DEF HandleFecNeed
  <2>2. CASE RepeatFecNeed(p, report)
    BY <2>2 DEF RepeatFecNeed, roundVars, repairVars, symbolVars, FecSenderInv, FecTypes,
       FecQuorumReports, FecTargets, FecLoopPosition
  <2>3. CASE ~DropsFecNeed(p, r, report) /\ RecordFecNeed(p, report)
    BY <1>7, <2>3, NeedKeepsInv DEF HandleFecNeed
  <2> QED
    BY <1>7, <2>1, <2>2, <2>3 DEF HandleFecNeed
<1> QED
  BY <1>1, <1>2, <1>3, <1>4, <1>5, <1>6, <1>7 DEF FecSenderNext

-----------------------------------------------------------------------------
(* Theorems *)

\* The invariant is inductive (sender/fec.rs, the loop of run and on_need).
THEOREM FecSenderInductive == FecSenderSpec => []FecSenderInv
BY FecInitInv, FecSenderStep, PTL DEF FecSenderSpec

\* The target of every block is the largest deficit on record, and the repair
\* sent for it stays within the target, for every quorum and every
\* environment (on_need, next_extra_symbol).
THEOREM FecLedgerBalances == FecSenderSpec => []FecLedger
<1>1. FecSenderInv => FecLedger
  <2> SUFFICES ASSUME FecSenderInv, NEW b \in Blocks
               PROVE  /\ required_extra_symbols[b]
                              = Max({0} \cup {round_reports[p].deficit[b] : p \in Peers})
                      /\ emitted_extra_symbols[b] <= required_extra_symbols[b]
    BY DEF FecLedger
  <2> DEFINE S == {0} \cup {round_reports[p].deficit[b] : p \in Peers}
  <2>1. required_extra_symbols[b] \in Nat
    BY DEF FecSenderInv, FecTypes
  <2>2. \A p \in Peers : round_reports[p].deficit[b] \in Nat
    BY ReportFacts DEF FecSenderInv, FecTypes
  <2>3. required_extra_symbols[b] \in S
    BY DEF FecSenderInv, FecTargets
  <2>4. \A y \in S : y \in Nat /\ required_extra_symbols[b] >= y
    BY <2>1, <2>2 DEF FecSenderInv, FecTargets
  <2> HIDE DEF S
  <2>5. Max(S) \in S /\ \A y \in S : Max(S) >= y
    BY <2>3, <2>4 DEF Max
  <2>6. required_extra_symbols[b] = Max(S)
    BY <2>1, <2>3, <2>4, <2>5
  <2> QED
    BY <2>6 DEF S, FecSenderInv, FecTargets
<1> QED
  BY <1>1, FecSenderInductive, PTL

LEMMA WaitsOnlyForReports == FecSenderInv => FecBlocksOnlyForReports
<1> SUFFICES ASSUME FecSenderInv, FecWaiting
             PROVE  wait_started /\ \E p \in active : round_reports[p] = FecNone
  BY DEF FecBlocksOnlyForReports
<1>1. round_source_done_sent /\ ~round_complete /\ ~AllReported(round_reports)
  BY DEF FecWaiting, NoSymbolToSend, Looping
<1>2. wait_started
  BY <1>1 DEF FecSenderInv, FecLoopPosition
<1>3. \E p \in active : round_reports[p] = FecNone
  BY <1>1, ReportersAreQuorum DEF FecSenderInv, FecTypes, FecQuorumReports
<1> QED
  BY <1>2, <1>3

\* The FEC sender waits only while a member of its quorum owes a report and
\* the timeout runs (wait_for_quorum_feedback).
THEOREM FecNeverBlocksForNothing == FecSenderSpec => []FecBlocksOnlyForReports
BY WaitsOnlyForReports, FecSenderInductive, PTL

\* Completed is returned only on the word of the whole frozen quorum
\* (finish_report_round).
THEOREM FecCompletionNeedsQuorum ==
    FecSenderSpec => [](phase = "Completed" => \A p \in active : round_reports[p] = FecComplete)
<1>1. FecSenderInv => (phase = "Completed" => \A p \in active : round_reports[p] = FecComplete)
  BY DEF FecSenderInv, FecLoopPosition
<1> QED
  BY <1>1, FecSenderInductive, PTL


-----------------------------------------------------------------------------
(* Sums over the blocks *)

\* Every set of natural numbers that is not empty has a least one.
LEMMA LeastNumber ==
    ASSUME NEW T, T \subseteq Nat, T # {}
    PROVE  \E x \in T : \A y \in T : x <= y
<1> DEFINE R == OpToRel(<, Nat)
<1>1. IsWellFoundedOn(R, Nat)
  BY NatLessThanWellFounded
<1>2. R = {ss \in Nat \X Nat : ss[1] < ss[2]}
  BY DEF OpToRel
<1> HIDE DEF R
<1>3. PICK x \in T : \A y \in T : ~(<<y, x>> \in R)
  BY <1>1, WFMin
<1>4. \A y \in T : ~(y < x)
  BY <1>2, <1>3
<1> QED
  BY <1>4

\* g adds up the values of f over the sets of blocks below n.
AddsUpTo(g, f, n) ==
    /\ g \in [SUBSET (0 .. (n - 1)) -> Nat] /\ g[{}] = 0
    /\ \A S \in SUBSET (0 .. (n - 1)) : \A x \in 0 .. (n - 1) : x \notin S => g[S \cup {x}] = g[S] + f[x]

LEMMA AddsOneMore ==
    ASSUME NEW n \in 0 .. (TotalBlocks - 1), NEW f \in [Blocks -> Nat], NEW g, AddsUpTo(g, f, n)
    PROVE  \E h : AddsUpTo(h, f, n + 1)
<1>1. PICK l, w : l = n /\ w = f[n]
  OBVIOUS
<1>2. n \in Nat /\ n \in Blocks /\ w \in Nat /\ (n + 1) - 1 = n
  BY <1>1 DEF Blocks
<1>3. /\ g \in [SUBSET (0 .. (n - 1)) -> Nat] /\ g[{}] = 0
      /\ \A S \in SUBSET (0 .. (n - 1)) : \A x \in 0 .. (n - 1) : x \notin S => g[S \cup {x}] = g[S] + f[x]
  BY DEF AddsUpTo
<1>4. 0 .. n = (0 .. (n - 1)) \cup {n} /\ n \notin 0 .. (n - 1) /\ 0 .. (n - 1) \subseteq Blocks
  BY <1>2 DEF Blocks
<1>5. PICK h : h = [S \in SUBSET (0 .. n) |-> IF n \in S THEN g[S \ {n}] + w ELSE g[S]]
  OBVIOUS
<1>6. \A S \in SUBSET (0 .. (n - 1)) : h[S] = g[S] /\ h[S \cup {n}] = g[S] + w
  <2>1. ASSUME NEW S \in SUBSET (0 .. (n - 1)) PROVE h[S] = g[S] /\ h[S \cup {n}] = g[S] + w
    <3>1. S \in SUBSET (0 .. n) /\ S \cup {n} \in SUBSET (0 .. n) /\ n \notin S /\ n \in S \cup {n}
          /\ (S \cup {n}) \ {n} = S
      BY <1>4
    <3> QED
      BY <1>5, <3>1, Zenon
  <2> QED
    BY <2>1
<1>7. \A S \in SUBSET (0 .. n) :
         S \ {n} \in SUBSET (0 .. (n - 1)) /\ (n \notin S => S \in SUBSET (0 .. (n - 1)))
  BY <1>4
<1>8. h \in [SUBSET (0 .. n) -> Nat]
  <2>1. ASSUME NEW S \in SUBSET (0 .. n) PROVE (IF n \in S THEN g[S \ {n}] + w ELSE g[S]) \in Nat
    <3>1. g[S \ {n}] \in Nat /\ (n \notin S => g[S] \in Nat)
      BY <1>3, <1>7
    <3> QED
      BY <1>2, <3>1
  <2> QED
    BY <1>5, <2>1
<1>9. h[{}] = 0
  <2>1. {} \in SUBSET (0 .. (n - 1))
    OBVIOUS
  <2> QED
    BY <1>3, <1>6, <2>1
<1>10. ASSUME NEW S \in SUBSET (0 .. n), NEW x \in 0 .. n, x \notin S
       PROVE  h[S \cup {x}] = h[S] + f[x]
  <2>1. CASE x = n
    <3>1. S \in SUBSET (0 .. (n - 1))
      BY <1>7, <1>10, <2>1
    <3>2. h[S] = g[S] /\ h[S \cup {n}] = g[S] + w
      BY <1>6, <3>1
    <3> QED
      BY <1>1, <2>1, <3>2
  <2>2. CASE x # n
    <3>1. x \in 0 .. (n - 1)
      BY <1>4, <2>2
    <3>2. CASE n \notin S
      <4>1. S \in SUBSET (0 .. (n - 1)) /\ S \cup {x} \in SUBSET (0 .. (n - 1))
        BY <1>7, <3>1, <3>2
      <4>2. h[S] = g[S] /\ h[S \cup {x}] = g[S \cup {x}]
        BY <1>6, <4>1
      <4>3. g[S \cup {x}] = g[S] + f[x]
        BY <1>3, <1>10, <3>1, <4>1
      <4> QED
        BY <4>2, <4>3
    <3>3. CASE n \in S
      <4>1. PICK R : R = S \ {n}
        OBVIOUS
      <4>2. R \in SUBSET (0 .. (n - 1)) /\ R \cup {x} \in SUBSET (0 .. (n - 1)) /\ x \notin R
        BY <1>7, <1>10, <3>1, <4>1
      <4>3. S = R \cup {n} /\ S \cup {x} = (R \cup {x}) \cup {n}
        BY <3>3, <4>1
      <4>4. h[S] = g[R] + w
        BY <1>6, <4>2, <4>3
      <4>5. h[S \cup {x}] = g[R \cup {x}] + w
        <5>1. PICK Q : Q = R \cup {x}
          OBVIOUS
        <5>2. h[Q \cup {n}] = g[Q] + w
          BY <1>6, <4>2, <5>1
        <5> QED
          BY <4>3, <5>1, <5>2
      <4>6. g[R \cup {x}] = g[R] + f[x]
        BY <1>3, <3>1, <4>2
      <4>7. g[R] \in Nat /\ f[x] \in Nat
        BY <1>3, <1>4, <3>1, <4>2
      <4> QED
        BY <1>2, <4>4, <4>5, <4>6, <4>7
    <3> QED
      BY <3>2, <3>3
  <2> QED
    BY <2>1, <2>2
<1>11. AddsUpTo(h, f, n + 1)
  BY <1>2, <1>8, <1>9, <1>10 DEF AddsUpTo
<1> QED
  BY <1>11

\* Every function on the blocks can be added up.
LEMMA AddsExists ==
    ASSUME NEW f \in [Blocks -> Nat]
    PROVE  \E g : AddsUpTo(g, f, TotalBlocks)
<1> DEFINE Bad == {n \in 0 .. TotalBlocks : ~\E g : AddsUpTo(g, f, n)}
<1>1. SUFFICES ASSUME Bad # {} PROVE FALSE
  OBVIOUS
<1>2. PICK n \in Bad : \A m \in Bad : n <= m
  <2>1. Bad \subseteq Nat
    OBVIOUS
  <2> HIDE DEF Bad
  <2> QED
    BY <1>1, <2>1, LeastNumber
<1>3. n # 0
  <2>1. PICK g : g = [S \in SUBSET (0 .. (0 - 1)) |-> 0]
    OBVIOUS
  <2>2. 0 .. (0 - 1) = {}
    OBVIOUS
  <2>3. AddsUpTo(g, f, 0)
    BY <2>1, <2>2 DEF AddsUpTo
  <2> QED
    BY <2>3
<1>4. PICK m : m = n - 1
  OBVIOUS
<1>5. m \in 0 .. (TotalBlocks - 1) /\ m \in 0 .. TotalBlocks /\ n = m + 1 /\ ~(n <= m)
  BY <1>3, <1>4
<1>6. PICK g : AddsUpTo(g, f, m)
  BY <1>2, <1>5
<1>7. \E h : AddsUpTo(h, f, m + 1)
  BY <1>5, <1>6, AddsOneMore
<1> QED
  BY <1>2, <1>5, <1>7

\* What two functions that take some member off a set at a time agree on.
Adds(g, f) == AddsUpTo(g, f, TotalBlocks)

LEMMA BlocksFinite ==
    /\ IsFiniteSet(Blocks) /\ \A S \in SUBSET Blocks : IsFiniteSet(S) /\ Cardinality(S) \in Nat
<1>1. TotalBlocks - 1 \in Int
  OBVIOUS
<1>2. IsFiniteSet(Blocks)
  BY <1>1, FS_Interval DEF Blocks
<1> QED
  BY <1>2, FS_Subset, FS_CardinalityType

\* Among sets of blocks there is one of the fewest, and a member less is fewer.
LEMMA SmallestSet ==
    ASSUME NEW Bad \in SUBSET (SUBSET Blocks), Bad # {}
    PROVE  \E S \in Bad : \A R \in Bad : Cardinality(S) <= Cardinality(R)
<1> DEFINE Sizes == {Cardinality(S) : S \in Bad}
<1>1. Sizes \subseteq Nat /\ Sizes # {}
  BY BlocksFinite
<1>2. PICK m \in Sizes : \A y \in Sizes : m <= y
  <2> HIDE DEF Sizes
  <2> QED
    BY <1>1, LeastNumber
<1> QED
  BY <1>2

LEMMA SmallerWithout ==
    ASSUME NEW S \in SUBSET Blocks, NEW x \in S
    PROVE  Cardinality(S \ {x}) < Cardinality(S) /\ Cardinality(S \ {x}) = Cardinality(S) - 1
<1>1. IsFiniteSet(S) /\ Cardinality(S) \in Nat
  BY BlocksFinite
<1>2. Cardinality(S \ {x}) = Cardinality(S) - 1
  BY <1>1, FS_RemoveElement
<1> QED
  BY <1>1, <1>2

TakesOff(g, f) ==
    /\ g \in [SUBSET Blocks -> Nat] /\ g[{}] = 0
    /\ \A S \in SUBSET Blocks : \A x \in S : g[S] = f[x] + g[S \ {x}] /\ S \ {x} \in SUBSET Blocks

LEMMA AddsFacts ==
    ASSUME NEW f \in [Blocks -> Nat], NEW g, Adds(g, f)
    PROVE  TakesOff(g, f)
<1>1. /\ g \in [SUBSET Blocks -> Nat] /\ g[{}] = 0
      /\ \A S \in SUBSET Blocks : \A x \in Blocks : x \notin S => g[S \cup {x}] = g[S] + f[x]
  BY DEF Adds, AddsUpTo, Blocks
<1>2. ASSUME NEW S \in SUBSET Blocks, NEW x \in S PROVE g[S] = f[x] + g[S \ {x}]
  <2>1. PICK R : R = S \ {x}
    OBVIOUS
  <2>2. R \in SUBSET Blocks /\ x \in Blocks /\ x \notin R /\ R \cup {x} = S
    BY <2>1
  <2>3. g[R \cup {x}] = g[R] + f[x] /\ g[R] \in Nat /\ f[x] \in Nat
    BY <1>1, <2>2
  <2>4. g[S] = g[R] + f[x]
    BY <2>2, <2>3, Zenon
  <2>5. \A n, m \in Nat : n + m = m + n
    OBVIOUS
  <2>6. g[R] + f[x] = f[x] + g[R]
    BY <2>3, <2>5, Zenon
  <2> QED
    BY <2>1, <2>4, <2>6, Zenon
<1> QED
  BY <1>1, <1>2 DEF TakesOff

\* SumFunction is that sum.
LEMMA SumIsAdds ==
    ASSUME NEW f \in [Blocks -> Nat], NEW g, Adds(g, f)
    PROVE  SumFunction(f) = g[Blocks]
<1> DEFINE Some(S) == CHOOSE x \in S : TRUE
           Follows(F) == F = [S \in SUBSET Blocks |->
                                IF S = {} THEN 0 ELSE f[CHOOSE x \in S : TRUE] + F[S \ {CHOOSE x \in S : TRUE}]]
           F == CHOOSE F : Follows(F)
           k == [S \in SUBSET Blocks |-> g[S]]
<1>0. DOMAIN f = Blocks
  OBVIOUS
<1>1. SumFunction(f) = F[Blocks]
  BY <1>0, Zenon DEF SumFunction, SumFunctionOnSet, FoldFunctionOnSet, MapThenFoldSet
<1>2. \A S \in SUBSET Blocks : S # {} => Some(S) \in S
  OBVIOUS
<1>3. /\ g[{}] = 0
      /\ \A S \in SUBSET Blocks : S # {} => g[S] = f[Some(S)] + g[S \ {Some(S)}] /\ S \ {Some(S)} \in SUBSET Blocks
  <2>1. TakesOff(g, f)
    BY AddsFacts
  <2> HIDE DEF Some
  <2> QED
    BY <1>2, <2>1 DEF TakesOff
<1>4. Follows(k)
  <2>1. ASSUME NEW S \in SUBSET Blocks
        PROVE  k[S] = IF S = {} THEN 0 ELSE f[CHOOSE x \in S : TRUE] + k[S \ {CHOOSE x \in S : TRUE}]
    <3>1. k[S] = g[S] /\ \A R \in SUBSET Blocks : k[R] = g[R]
      OBVIOUS
    <3> HIDE DEF k
    <3>2. CASE S = {}
      BY <1>3, <3>1, <3>2, Zenon
    <3>3. CASE S # {}
      <4>1. S \ {Some(S)} \in SUBSET Blocks
        OBVIOUS
      <4>2. k[S] = f[Some(S)] + k[S \ {Some(S)}]
        <5> HIDE DEF Some
        <5> QED
          BY <1>3, <3>1, <3>3, <4>1, Zenon
      <4> QED
        BY <3>3, <4>2, Zenon
    <3> QED
      BY <3>2, <3>3
  <2>2. k = [S \in SUBSET Blocks |-> k[S]]
    OBVIOUS
  <2> HIDE DEF k
  <2> QED
    BY <2>1, <2>2, Zenon
<1>5. Follows(F)
  BY <1>4, Zenon
<1>6. F[{}] = 0 /\ \A S \in SUBSET Blocks : S # {} => F[S] = f[Some(S)] + F[S \ {Some(S)}]
  <2> HIDE DEF F
  <2>1. \A S \in SUBSET Blocks :
           F[S] = IF S = {} THEN 0 ELSE f[CHOOSE x \in S : TRUE] + F[S \ {CHOOSE x \in S : TRUE}]
    BY <1>5, Zenon
  <2>2. {} \in SUBSET Blocks
    OBVIOUS
  <2>3. F[{}] = 0
    BY <2>1, <2>2, Zenon
  <2>4. \A S \in SUBSET Blocks : S # {} => F[S] = f[Some(S)] + F[S \ {Some(S)}]
    BY <2>1, Zenon
  <2> QED
    BY <2>3, <2>4
<1> HIDE DEF F, Some, k
<1>7. \A S \in SUBSET Blocks : F[S] = g[S]
  <2> DEFINE Bad == {S \in SUBSET Blocks : F[S] # g[S]}
  <2>1. SUFFICES ASSUME Bad # {} PROVE FALSE
    OBVIOUS
  <2>2. PICK S \in Bad : \A R \in Bad : Cardinality(S) <= Cardinality(R)
    <3>1. Bad \subseteq SUBSET Blocks
      OBVIOUS
    <3> HIDE DEF Bad
    <3> QED
      BY <2>1, <3>1, SmallestSet
  <2>3. S \in SUBSET Blocks /\ F[S] # g[S] /\ S # {}
    BY <1>3, <1>6, <2>2
  <2>4. PICK x, R : x = Some(S) /\ R = S \ {x}
    OBVIOUS
  <2>5. x \in S /\ R \in SUBSET Blocks
    BY <1>2, <2>3, <2>4
  <2>6. F[S] = f[x] + F[R] /\ g[S] = f[x] + g[R]
    BY <1>3, <1>6, <2>3, <2>4, Zenon
  <2>7. R \in Bad
    BY <2>3, <2>5, <2>6
  <2>8. Cardinality(R) < Cardinality(S)
    BY <2>3, <2>4, <2>5, SmallerWithout
  <2>9. Cardinality(S) <= Cardinality(R)
    BY <2>2, <2>7
  <2>10. Cardinality(S) \in Nat /\ Cardinality(R) \in Nat
    BY <2>3, <2>5, BlocksFinite
  <2> QED
    BY <2>8, <2>9, <2>10
<1> QED
  BY <1>1, <1>7

\* What a step does to a sum: one more symbol, larger terms, terms that are bounded.
LEMMA SumType ==
    ASSUME NEW f \in [Blocks -> Nat] PROVE SumFunction(f) \in Nat
<1>1. PICK g : Adds(g, f)
  BY AddsExists DEF Adds
<1>2. g \in [SUBSET Blocks -> Nat] /\ Blocks \in SUBSET Blocks
  BY <1>1 DEF Adds, AddsUpTo, Blocks
<1> QED
  BY <1>1, <1>2, SumIsAdds

LEMMA SumGrows ==
    ASSUME NEW e \in [Blocks -> Nat], NEW f \in [Blocks -> Nat], \A b \in Blocks : e[b] <= f[b]
    PROVE  SumFunction(e) <= SumFunction(f)
<1>1. PICK g : Adds(g, e)
  BY AddsExists DEF Adds
<1>2. PICK h : Adds(h, f)
  BY AddsExists DEF Adds
<1>3. /\ g \in [SUBSET Blocks -> Nat] /\ g[{}] = 0
      /\ \A S \in SUBSET Blocks : \A x \in S : g[S] = e[x] + g[S \ {x}] /\ S \ {x} \in SUBSET Blocks
  <2>1. TakesOff(g, e)
    BY <1>1, AddsFacts
  <2> QED
    BY <2>1 DEF TakesOff
<1>4. /\ h \in [SUBSET Blocks -> Nat] /\ h[{}] = 0
      /\ \A S \in SUBSET Blocks : \A x \in S : h[S] = f[x] + h[S \ {x}] /\ S \ {x} \in SUBSET Blocks
  <2>1. TakesOff(h, f)
    BY <1>2, AddsFacts
  <2> QED
    BY <2>1 DEF TakesOff
<1>5. \A S \in SUBSET Blocks : g[S] <= h[S]
  <2> DEFINE Bad == {S \in SUBSET Blocks : ~(g[S] <= h[S])}
  <2>1. SUFFICES ASSUME Bad # {} PROVE FALSE
    OBVIOUS
  <2>2. PICK S \in Bad : \A R \in Bad : Cardinality(S) <= Cardinality(R)
    <3>1. Bad \subseteq SUBSET Blocks
      OBVIOUS
    <3> HIDE DEF Bad
    <3> QED
      BY <2>1, <3>1, SmallestSet
  <2>3. S \in SUBSET Blocks /\ ~(g[S] <= h[S])
    BY <2>2
  <2>4. S # {}
    <3>1. g[{}] <= h[{}]
      BY <1>3, <1>4
    <3> QED
      BY <2>3, <3>1
  <2>5. PICK x \in S : TRUE
    BY <2>4
  <2>6. PICK R : R = S \ {x}
    OBVIOUS
  <2>7. R \in SUBSET Blocks /\ g[S] = e[x] + g[R] /\ h[S] = f[x] + h[R] /\ x \in Blocks
    BY <1>3, <1>4, <2>3, <2>6
  <2>8. g[R] \in Nat /\ h[R] \in Nat /\ e[x] \in Nat /\ f[x] \in Nat /\ e[x] <= f[x]
    BY <1>3, <1>4, <2>7
  <2>9. ~(g[R] <= h[R])
    BY <2>3, <2>7, <2>8
  <2>10. R \in Bad
    BY <2>7, <2>9
  <2>11. Cardinality(R) < Cardinality(S)
    BY <2>3, <2>6, SmallerWithout
  <2>12. Cardinality(S) <= Cardinality(R)
    BY <2>2, <2>10
  <2>13. Cardinality(S) \in Nat /\ Cardinality(R) \in Nat
    BY <2>3, <2>7, BlocksFinite
  <2> QED
    BY <2>11, <2>12, <2>13
<1>6. SumFunction(e) = g[Blocks] /\ SumFunction(f) = h[Blocks]
  BY <1>1, <1>2, SumIsAdds
<1> QED
  BY <1>5, <1>6

LEMMA SumOfOneMore ==
    ASSUME NEW f \in [Blocks -> Nat], NEW h \in [Blocks -> Nat], NEW b \in Blocks, h[b] = f[b] + 1,
           \A c \in Blocks : c # b => h[c] = f[c]
    PROVE  SumFunction(h) = SumFunction(f) + 1
<1>1. PICK g : Adds(g, f)
  BY AddsExists DEF Adds
<1>2. /\ g \in [SUBSET Blocks -> Nat] /\ g[{}] = 0
      /\ \A S \in SUBSET Blocks : \A x \in Blocks : x \notin S => g[S \cup {x}] = g[S] + f[x]
  BY <1>1 DEF Adds, AddsUpTo, Blocks
<1>3. PICK k : k = [S \in SUBSET Blocks |-> g[S] + (IF b \in S THEN 1 ELSE 0)]
  OBVIOUS
<1>4. \A S \in SUBSET Blocks : k[S] = g[S] + (IF b \in S THEN 1 ELSE 0) /\ g[S] \in Nat
  BY <1>2, <1>3
<1>5. k \in [SUBSET Blocks -> Nat]
  BY <1>2, <1>3
<1>6. ASSUME NEW S \in SUBSET Blocks, NEW x \in Blocks, x \notin S
      PROVE  k[S \cup {x}] = k[S] + h[x]
  <2>1. PICK T, i, j, n : T = S \cup {x} /\ i = g[S] /\ j = f[x] /\ n = g[T]
    OBVIOUS
  <2>2. T \in SUBSET Blocks /\ i \in Nat /\ j \in Nat /\ n = i + j
    BY <1>2, <1>6, <2>1
  <2>3. CASE x = b
    <3>1. b \in T /\ b \notin S
      BY <1>6, <2>1, <2>3
    <3>2. k[T] = n + 1 /\ k[S] = i + 0
      BY <1>4, <2>1, <2>2, <3>1
    <3>3. h[x] = j + 1
      BY <2>1, <2>3
    <3> QED
      BY <2>1, <2>2, <3>2, <3>3
  <2>4. CASE x # b
    <3>1. b \in T <=> b \in S
      BY <2>1, <2>4
    <3>2. h[x] = j
      BY <2>1, <2>4
    <3>3. CASE b \in S
      <4>1. k[T] = n + 1 /\ k[S] = i + 1
        BY <1>4, <2>1, <2>2, <3>1, <3>3
      <4> QED
        BY <2>1, <2>2, <3>2, <4>1
    <3>4. CASE b \notin S
      <4>1. k[T] = n + 0 /\ k[S] = i + 0
        BY <1>4, <2>1, <2>2, <3>1, <3>4
      <4> QED
        BY <2>1, <2>2, <3>2, <4>1
    <3> QED
      BY <3>3, <3>4
  <2> QED
    BY <2>3, <2>4
<1>7. Adds(k, h)
  <2>1. k[{}] = 0
    BY <1>1, <1>4 DEF Adds, AddsUpTo
  <2>2. Blocks = 0 .. (TotalBlocks - 1)
    BY DEF Blocks
  <2> QED
    BY <1>5, <1>6, <2>1, <2>2 DEF Adds, AddsUpTo
<1>8. SumFunction(f) = g[Blocks] /\ SumFunction(h) = k[Blocks]
  BY <1>1, <1>7, SumIsAdds
<1>9. k[Blocks] = g[Blocks] + 1
  BY <1>4
<1> QED
  BY <1>8, <1>9

LEMMA SumBounded ==
    ASSUME NEW f \in [Blocks -> Nat], NEW m \in Nat, \A b \in Blocks : f[b] <= m
    PROVE  SumFunction(f) <= TotalBlocks * m
<1>1. PICK g : Adds(g, f)
  BY AddsExists DEF Adds
<1>2. /\ g \in [SUBSET Blocks -> Nat] /\ g[{}] = 0
      /\ \A S \in SUBSET Blocks : \A x \in S : g[S] = f[x] + g[S \ {x}] /\ S \ {x} \in SUBSET Blocks
  <2>1. TakesOff(g, f)
    BY <1>1, AddsFacts
  <2> QED
    BY <2>1 DEF TakesOff
<1>3. \A S \in SUBSET Blocks : g[S] <= Cardinality(S) * m
  <2> DEFINE Bad == {S \in SUBSET Blocks : ~(g[S] <= Cardinality(S) * m)}
  <2>1. SUFFICES ASSUME Bad # {} PROVE FALSE
    OBVIOUS
  <2>2. PICK S \in Bad : \A R \in Bad : Cardinality(S) <= Cardinality(R)
    <3>1. Bad \subseteq SUBSET Blocks
      OBVIOUS
    <3> HIDE DEF Bad
    <3> QED
      BY <2>1, <3>1, SmallestSet
  <2>3. S \in SUBSET Blocks /\ ~(g[S] <= Cardinality(S) * m)
    BY <2>2
  <2>4. S # {}
    <3>1. Cardinality({}) = 0 /\ 0 * m = 0
      BY FS_EmptySet
    <3>2. g[{}] <= Cardinality({}) * m
      BY <1>2, <3>1
    <3> QED
      BY <2>3, <3>2
  <2>5. PICK x \in S : TRUE
    BY <2>4
  <2>6. PICK R, c, d : R = S \ {x} /\ c = Cardinality(S) /\ d = Cardinality(R)
    OBVIOUS
  <2>7. R \in SUBSET Blocks /\ g[S] = f[x] + g[R] /\ x \in Blocks
    BY <1>2, <2>3, <2>6
  <2>8. c \in Nat /\ d \in Nat /\ d = c - 1 /\ ~(c <= d)
    BY <2>3, <2>6, <2>7, BlocksFinite, SmallerWithout
  <2>9. R \notin Bad
    BY <2>2, <2>6, <2>8
  <2>10. g[R] <= d * m /\ g[R] \in Nat /\ f[x] \in Nat /\ f[x] <= m
    BY <1>2, <2>6, <2>7, <2>9
  <2>11. c * m = d * m + m
    <3>1. c = d + 1
      BY <2>8
    <3>2. \A i \in Nat : (i + 1) * m = i * m + m
      BY SMT
    <3> QED
      BY <2>8, <3>1, <3>2
  <2>12. d * m \in Nat
    BY <2>8
  <2>13. g[S] <= c * m
    BY <2>7, <2>10, <2>11, <2>12
  <2> QED
    BY <2>3, <2>6, <2>13
<1>4. SumFunction(f) = g[Blocks] /\ Cardinality(Blocks) = TotalBlocks
  <2>1. Cardinality(0 .. (TotalBlocks - 1)) = TotalBlocks
    <3>1. 0 \in Int /\ TotalBlocks - 1 \in Int
      OBVIOUS
    <3>2. Cardinality(0 .. (TotalBlocks - 1)) = IF 0 > TotalBlocks - 1 THEN 0 ELSE (TotalBlocks - 1) - 0 + 1
      BY <3>1, FS_Interval
    <3> QED
      BY <3>2
  <2> QED
    BY <1>1, <2>1, SumIsAdds DEF Blocks
<1> QED
  BY <1>3, <1>4

-----------------------------------------------------------------------------
(* The repair window *)

LEMMA TimesMonotone ==
    ASSUME NEW a \in Int, NEW b \in Int, NEW n \in Nat, n > 0, a < b
    PROVE  (a + 1) * n <= b * n
<1>1. \A k \in Nat : k * n >= 0
  BY SMT
<1>2. b - (a + 1) \in Nat
  OBVIOUS
<1>3. (b - (a + 1)) * n >= 0
  BY <1>1, <1>2
<1> QED
  BY <1>3, SMT

\* What u64::div_ceil computes: the least multiple of n that is not below a.
LEMMA DivCeilBounds ==
    ASSUME NEW a \in Nat, NEW n \in Nat, n > 0
    PROVE  /\ DivCeil(a, n) \in Nat
           /\ DivCeil(a, n) * n >= a
           /\ (DivCeil(a, n) - 1) * n < a
<1> DEFINE m == a + n - 1
           q == m \div n
<1>1. m \in Nat
  OBVIOUS
<1>2. q \in Nat /\ m % n \in 0 .. n - 1 /\ m = q * n + (m % n)
  BY <1>1, SMT
<1> HIDE DEF q
<1>3. q * n >= a
  BY <1>2
<1>4. (q - 1) * n = q * n - n
  BY <1>2, SMT
<1>5. (q - 1) * n < a
  BY <1>2, <1>4
<1> QED
  BY <1>2, <1>3, <1>5 DEF DivCeil, q

\* The source symbols of a block hold all of it, and one byte less in each would
\* not: for every block size and symbol count SymbolGeometry::new accepts.
LEMMA MinOfTwo ==
    ASSUME NEW a \in Int, NEW b \in Int
    PROVE  Min({a, b}) = IF a <= b THEN a ELSE b
<1>1. \E x \in {a, b} : \A y \in {a, b} : x <= y
  OBVIOUS
<1>2. Min({a, b}) \in {a, b} /\ \A y \in {a, b} : Min({a, b}) <= y
  BY <1>1 DEF Min
<1> QED
  BY <1>2

LEMMA MaxWithOne ==
    ASSUME NEW q \in Nat PROVE Max({1, q}) = (IF 1 >= q THEN 1 ELSE q) /\ Max({1, q}) \in Nat
<1>1. Max({1, q}) = IF 1 >= q THEN 1 ELSE q
  BY MaxOfTwo
<1> QED
  BY <1>1

\* A larger share opens a window at least as large, the full share all of it.
LEMMA DivCeilMonotone ==
    ASSUME NEW a \in Nat, NEW b \in Nat, a <= b, NEW n \in Nat, n > 0
    PROVE  DivCeil(a, n) <= DivCeil(b, n)
<1>1. PICK x, y : x = DivCeil(a, n) /\ y = DivCeil(b, n)
  OBVIOUS
<1>2. x \in Nat /\ y \in Nat /\ (x - 1) * n < a /\ y * n >= b
  BY <1>1, DivCeilBounds
<1>3. CASE y < x
  <2>1. PICK i, j : i = y - 1 /\ j = x - 1
    OBVIOUS
  <2>2. i \in Int /\ j \in Int /\ i < j /\ i + 1 = y
    BY <1>2, <1>3, <2>1
  <2>3. (i + 1) * n <= j * n
    BY <2>2, TimesMonotone
  <2>4. y * n <= j * n /\ j * n < a /\ y * n \in Int /\ j * n \in Int
    BY <1>2, <2>1, <2>2, <2>3
  <2> QED
    BY <1>2, <2>4
<1> QED
  BY <1>1, <1>2, <1>3

LEMMA DivCeilExact ==
    ASSUME NEW t \in Nat, NEW n \in Nat, n > 0
    PROVE  DivCeil(t * n, n) = t
<1>1. PICK a, c : a = t * n /\ c = DivCeil(a, n)
  OBVIOUS
<1>2. a \in Nat
  BY <1>1
<1>3. c \in Nat /\ c * n >= a /\ (c - 1) * n < a
  BY <1>1, <1>2, DivCeilBounds
<1>4. CASE c < t
  <2>1. (c + 1) * n <= t * n
    BY <1>3, <1>4, TimesMonotone
  <2>2. (c + 1) * n = c * n + n
    BY <1>3
  <2>3. c * n \in Int
    BY <1>3
  <2> QED
    BY <1>1, <1>3, <2>1, <2>2, <2>3
<1>5. CASE c > t
  <2>1. PICK i, j : i = t - 1 /\ j = c - 1
    OBVIOUS
  <2>2. i \in Int /\ j \in Int /\ i < j /\ i + 1 = t
    BY <1>3, <1>5, <2>1
  <2>3. (i + 1) * n <= j * n
    BY <2>2, TimesMonotone
  <2>4. t * n <= j * n /\ j * n < a /\ j * n \in Int
    BY <1>3, <2>1, <2>2, <2>3
  <2> QED
    BY <1>1, <1>2, <2>4
<1> QED
  BY <1>1, <1>3, <1>4, <1>5

LEMMA ProductMonotone ==
    ASSUME NEW a \in Nat, NEW b \in Nat, NEW c \in Nat, NEW d \in Nat, a <= b, c <= d
    PROVE  a * c <= b * d /\ a * c \in Nat /\ b * d \in Nat
<1>1. \A x, y \in Nat : x * y \in Nat
  BY SMT
<1>2. PICK i, j : i = b - a /\ j = d - c
  OBVIOUS
<1>3. i \in Nat /\ j \in Nat /\ b = a + i /\ d = c + j
  BY <1>2
<1>4. b * d = a * c + (a * j + i * c + i * j)
  <2>1. (a + i) * (c + j) = a * c + (a * j + i * c + i * j)
    BY <1>3, SMT
  <2> QED
    BY <1>3, <2>1
<1>5. a * c \in Nat /\ a * j \in Nat /\ i * c \in Nat /\ i * j \in Nat
  BY <1>1, <1>3
<1> QED
  BY <1>1, <1>4, <1>5

\* repair_window, for `total` symbols, `count` reports and `n` members
WindowFor(total, count, n) ==
    IF total = 0 \/ count = 0 \/ n = 0 THEN 0
    ELSE Min({total, Max({1, DivCeil(Min({total * count, U32Max}), n)})})

LEMMA WindowBounds ==
    ASSUME NEW t \in Nat, NEW c \in Nat, NEW n \in Nat
    PROVE  WindowFor(t, c, n) \in Nat /\ WindowFor(t, c, n) <= t
<1>1. CASE t = 0 \/ c = 0 \/ n = 0
  BY <1>1 DEF WindowFor
<1>2. CASE ~(t = 0 \/ c = 0 \/ n = 0)
  <2>1. PICK p, m, q, x : /\ p = t * c /\ m = Min({p, U32Max}) /\ q = DivCeil(m, n)
                          /\ x = Max({1, q})
    OBVIOUS
  <2>2. p \in Nat /\ U32Max \in Nat
    BY <2>1, U32MaxAssumption
  <2>3. m \in Nat
    BY <2>1, <2>2, MinOfTwo
  <2>4. q \in Nat
    BY <1>2, <2>1, <2>3, DivCeilBounds
  <2>5. x \in Nat
    <3>1. Max({1, q}) \in Nat
      BY <2>4, MaxWithOne
    <3> QED
      BY <2>1, <3>1
  <2>6. Min({t, x}) = IF t <= x THEN t ELSE x
    BY <2>5, MinOfTwo
  <2>7. WindowFor(t, c, n) = Min({t, x})
    BY <1>2, <2>1 DEF WindowFor
  <2> QED
    BY <2>5, <2>6, <2>7
<1> QED
  BY <1>1, <1>2

LEMMA WindowWidens ==
    ASSUME NEW s \in Nat, NEW t \in Nat, NEW c \in Nat, NEW d \in Nat, NEW n \in Nat, s <= t, c <= d
    PROVE  WindowFor(s, c, n) <= WindowFor(t, d, n)
<1>1. CASE s = 0 \/ c = 0 \/ n = 0
  <2>1. WindowFor(s, c, n) = 0 /\ WindowFor(t, d, n) \in Nat
    BY <1>1, WindowBounds DEF WindowFor
  <2> QED
    BY <2>1
<1>2. CASE ~(s = 0 \/ c = 0 \/ n = 0)
  <2>0. ~(t = 0 \/ d = 0 \/ n = 0) /\ n > 0
    BY <1>2
  <2>1. PICK p1, p2, m1, m2, q1, q2, x1, x2 :
           /\ p1 = s * c /\ m1 = Min({p1, U32Max}) /\ q1 = DivCeil(m1, n) /\ x1 = Max({1, q1})
           /\ p2 = t * d /\ m2 = Min({p2, U32Max}) /\ q2 = DivCeil(m2, n) /\ x2 = Max({1, q2})
    OBVIOUS
  <2>2. p1 \in Nat /\ p2 \in Nat /\ p1 <= p2 /\ U32Max \in Nat
    BY <2>1, ProductMonotone, U32MaxAssumption
  <2>3. m1 \in Nat /\ m2 \in Nat /\ m1 <= m2
    <3>1. m1 = (IF p1 <= U32Max THEN p1 ELSE U32Max) /\ m2 = (IF p2 <= U32Max THEN p2 ELSE U32Max)
      BY <2>1, <2>2, MinOfTwo
    <3> QED
      BY <2>2, <3>1
  <2>4. q1 \in Nat /\ q2 \in Nat /\ q1 <= q2
    BY <2>0, <2>1, <2>3, DivCeilBounds, DivCeilMonotone
  <2>5. x1 \in Nat /\ x2 \in Nat /\ x1 <= x2
    <3>1. /\ Max({1, q1}) = (IF 1 >= q1 THEN 1 ELSE q1) /\ Max({1, q1}) \in Nat
          /\ Max({1, q2}) = (IF 1 >= q2 THEN 1 ELSE q2) /\ Max({1, q2}) \in Nat
      BY <2>4, MaxWithOne
    <3> QED
      BY <2>1, <2>4, <3>1
  <2>6. Min({s, x1}) = (IF s <= x1 THEN s ELSE x1) /\ Min({t, x2}) = (IF t <= x2 THEN t ELSE x2)
    BY <2>5, MinOfTwo
  <2>7. WindowFor(s, c, n) = Min({s, x1}) /\ WindowFor(t, d, n) = Min({t, x2})
    BY <1>2, <2>0, <2>1 DEF WindowFor
  <2> QED
    BY <2>5, <2>6, <2>7
<1> QED
  BY <1>1, <1>2

LEMMA WindowFull ==
    ASSUME NEW t \in Nat, NEW n \in Nat, t * n <= U32Max, n = 0 => t = 0
    PROVE  WindowFor(t, n, n) = t
<1>1. CASE t = 0
  BY <1>1 DEF WindowFor
<1>2. CASE t # 0
  <2>0. n > 0 /\ n # 0 /\ t >= 1
    BY <1>2
  <2>1. PICK p : p = t * n
    OBVIOUS
  <2>2. p \in Nat /\ p <= U32Max /\ U32Max \in Nat
    BY <2>1, U32MaxAssumption
  <2>3. Min({p, U32Max}) = p
    BY <2>2, MinOfTwo
  <2>4. DivCeil(p, n) = t
    BY <2>0, <2>1, DivCeilExact
  <2>5. Max({1, t}) = t
    <3>1. Max({1, t}) = IF 1 >= t THEN 1 ELSE t
      BY MaxWithOne
    <3> QED
      BY <2>0, <3>1
  <2>6. Min({t, t}) = t
    <3>1. Min({t, t}) = IF t <= t THEN t ELSE t
      BY MinOfTwo
    <3> QED
      BY <3>1
  <2>7. WindowFor(t, n, n) = Min({t, Max({1, DivCeil(Min({p, U32Max}), n)})})
    BY <1>2, <2>0, <2>1 DEF WindowFor
  <2> QED
    BY <2>3, <2>4, <2>5, <2>6, <2>7
<1> QED
  BY <1>1, <1>2

LEMMA WindowIs ==
    ASSUME active \subseteq Receivers, NEW required, NEW reports
    PROVE  RepairWindow(required, reports)
              = WindowFor(SumFunction(required), Cardinality(ReportedIn(reports)), Cardinality(active))
<1>1. active = {} <=> Cardinality(active) = 0
  BY FS_Subset, FS_EmptySet
<1> QED
  BY <1>1, Zenon DEF RepairWindow, WindowFor

\* The window is the one of the reports on record, and holds what was sent.
WindowInv ==
    /\ repair_window_symbols = WindowFor(SumFunction(required_extra_symbols),
                                         Cardinality(ReportedIn(round_reports)), Cardinality(active))
    /\ SumFunction(emitted_extra_symbols) <= repair_window_symbols

\* The values a step starts from
LEMMA LedgerTypes ==
    ASSUME FecSenderInv
    PROVE  /\ active \subseteq Receivers /\ Cardinality(active) \in Nat /\ IsFiniteSet(active)
           /\ required_extra_symbols \in [Blocks -> Nat] /\ emitted_extra_symbols \in [Blocks -> Nat]
           /\ SumFunction(required_extra_symbols) \in Nat /\ SumFunction(emitted_extra_symbols) \in Nat
           /\ ReportedIn(round_reports) \subseteq active
           /\ Cardinality(ReportedIn(round_reports)) \in Nat
           /\ \A b \in Blocks : emitted_extra_symbols[b] <= required_extra_symbols[b]
<1>1. /\ active \subseteq Receivers /\ required_extra_symbols \in [Blocks -> Nat]
      /\ emitted_extra_symbols \in [Blocks -> Nat]
      /\ round_reports \in [Peers -> FecWireReports \cup {FecNone}]
  BY DEF FecSenderInv, FecTypes
<1>2. Cardinality(active) \in Nat /\ IsFiniteSet(active)
  BY <1>1, FS_Subset, FS_CardinalityType
<1>3. ReportedIn(round_reports) \subseteq active
  <2>1. \A p \in Peers : round_reports[p].kind # "None" => round_reports[p] # FecNone
    BY <1>1, ReportFacts
  <2> QED
    BY <2>1 DEF ReportedIn, FecSenderInv, FecQuorumReports
<1>4. Cardinality(ReportedIn(round_reports)) \in Nat
  BY <1>2, <1>3, FS_Subset, FS_CardinalityType
<1>5. \A b \in Blocks : emitted_extra_symbols[b] <= required_extra_symbols[b]
  BY DEF FecSenderInv, FecTargets
<1> QED
  BY <1>1, <1>2, <1>3, <1>4, <1>5, SumType

LEMMA ZeroSum ==
    ASSUME NEW f \in [Blocks -> Nat], \A b \in Blocks : f[b] = 0 PROVE SumFunction(f) = 0
<1>1. SumFunction(f) \in Nat
  BY SumType
<1>2. SumFunction(f) <= TotalBlocks * 0
  <2>1. \A b \in Blocks : f[b] <= 0
    OBVIOUS
  <2> QED
    BY <2>1, SumBounded
<1>3. TotalBlocks * 0 = 0
  OBVIOUS
<1> QED
  BY <1>1, <1>2, <1>3

LEMMA WindowInit == FecSenderInit => WindowInv
<1> SUFFICES ASSUME FecSenderInit PROVE WindowInv
  OBVIOUS
<1>1. /\ required_extra_symbols = [b \in Blocks |-> 0] /\ emitted_extra_symbols = [b \in Blocks |-> 0]
      /\ repair_window_symbols = 0
  BY DEF FecSenderInit, ZeroSymbols
<1>2. SumFunction(required_extra_symbols) = 0 /\ SumFunction(emitted_extra_symbols) = 0
  BY <1>1, ZeroSum
<1> QED
  BY <1>1, <1>2 DEF WindowInv, WindowFor

\* finish_report_round keeps the window with a target and reports that only grew.
LEMMA FinishKeepsWindow ==
    ASSUME FecSenderInv, WindowInv, NEW reports, NEW required \in [Blocks -> Nat],
           \A b \in Blocks : required_extra_symbols[b] <= required[b],
           Cardinality(ReportedIn(reports)) \in Nat,
           Cardinality(ReportedIn(round_reports)) <= Cardinality(ReportedIn(reports)),
           FinishReportRound(reports, required), UNCHANGED active
    PROVE  WindowInv'
<1>1. /\ active \subseteq Receivers /\ Cardinality(active) \in Nat
      /\ required_extra_symbols \in [Blocks -> Nat] /\ emitted_extra_symbols \in [Blocks -> Nat]
      /\ SumFunction(required_extra_symbols) \in Nat /\ SumFunction(emitted_extra_symbols) \in Nat
      /\ Cardinality(ReportedIn(round_reports)) \in Nat
  BY LedgerTypes
<1>2. CASE FecAllComplete(reports)
  <2>1. /\ round_reports' = reports /\ required_extra_symbols' = required
        /\ repair_window_symbols' = RepairWindow(required, reports)
        /\ emitted_extra_symbols' = emitted_extra_symbols
    BY <1>2 DEF FinishReportRound
  <2>2. PICK s, t, c, d, n : /\ s = SumFunction(required_extra_symbols) /\ t = SumFunction(required)
                             /\ c = Cardinality(ReportedIn(round_reports))
                             /\ d = Cardinality(ReportedIn(reports)) /\ n = Cardinality(active)
    OBVIOUS
  <2>3. s \in Nat /\ t \in Nat /\ c \in Nat /\ d \in Nat /\ n \in Nat /\ s <= t /\ c <= d
    BY <1>1, <2>2, SumType, SumGrows
  <2>4. WindowFor(s, c, n) <= WindowFor(t, d, n) /\ WindowFor(s, c, n) \in Nat /\ WindowFor(t, d, n) \in Nat
    BY <2>3, WindowWidens, WindowBounds
  <2>5. repair_window_symbols = WindowFor(s, c, n) /\ repair_window_symbols' = WindowFor(t, d, n)
    BY <1>1, <2>1, <2>2, WindowIs DEF WindowInv
  <2>6. SumFunction(emitted_extra_symbols') <= repair_window_symbols'
    BY <1>1, <2>1, <2>4, <2>5 DEF WindowInv
  <2> QED
    BY <2>1, <2>2, <2>5, <2>6 DEF WindowInv
<1>3. CASE ~FecAllComplete(reports)
  <2>1. /\ required_extra_symbols' = [b \in Blocks |-> 0] /\ emitted_extra_symbols' = [b \in Blocks |-> 0]
        /\ repair_window_symbols' = 0
    BY <1>3 DEF FinishReportRound, ZeroSymbols
  <2>2. SumFunction(required_extra_symbols') = 0 /\ SumFunction(emitted_extra_symbols') = 0
    BY <2>1, ZeroSum
  <2> QED
    BY <2>1, <2>2 DEF WindowInv, WindowFor
<1> QED
  BY <1>2, <1>3

LEMMA RecordKeepsWindow ==
    ASSUME FecSenderInv, WindowInv, NEW p \in Peers, NEW report \in FecWireReports,
           p \in active, RecordFecNeed(p, report)
    PROVE  WindowInv'
<1> DEFINE reports == [round_reports EXCEPT ![p] = report]
           required == MergeDeficits(required_extra_symbols, report)
<1>1. round_reports[p] = FecNone /\ active' = active
      /\ IF AllReported(reports) /\ ~Pending(required, emitted_extra_symbols)
         THEN FinishReportRound(reports, required)
         ELSE /\ round_reports' = reports /\ required_extra_symbols' = required
              /\ repair_window_symbols' = RepairWindow(required, reports)
              /\ emitted_extra_symbols' = emitted_extra_symbols
  BY DEF RecordFecNeed
<1>2. /\ active \subseteq Receivers /\ Cardinality(active) \in Nat /\ IsFiniteSet(active)
      /\ required_extra_symbols \in [Blocks -> Nat] /\ emitted_extra_symbols \in [Blocks -> Nat]
      /\ SumFunction(required_extra_symbols) \in Nat /\ SumFunction(emitted_extra_symbols) \in Nat
      /\ ReportedIn(round_reports) \subseteq active /\ Cardinality(ReportedIn(round_reports)) \in Nat
      /\ round_reports \in [Peers -> FecWireReports \cup {FecNone}]
  BY LedgerTypes DEF FecSenderInv, FecTypes
<1>3. required \in [Blocks -> Nat] /\ \A b \in Blocks : required_extra_symbols[b] <= required[b]
  <2>1. \A b \in Blocks : b \in ListedIds /\ report.deficit[b] \in Nat /\ required_extra_symbols[b] \in Nat
    BY <1>2, ReportFacts
  <2>2. \A b \in Blocks : required[b] = IF required_extra_symbols[b] >= report.deficit[b]
                                        THEN required_extra_symbols[b] ELSE report.deficit[b]
    BY <2>1, MaxOfTwo DEF MergeDeficits
  <2>3. required = [b \in Blocks |-> required[b]]
    BY DEF MergeDeficits
  <2> HIDE DEF required
  <2>4. \A b \in Blocks : required[b] \in Nat /\ required_extra_symbols[b] <= required[b]
    BY <2>1, <2>2
  <2> QED
    BY <2>3, <2>4
<1>4. /\ ReportedIn(round_reports) \subseteq ReportedIn(reports) /\ ReportedIn(reports) \subseteq active
  <2>1. \A q \in Peers : q # p => reports[q] = round_reports[q]
    BY <1>2
  <2>2. round_reports[p].kind = "None"
    BY <1>1, ReportFacts
  <2> HIDE DEF reports
  <2> QED
    BY <1>2, <2>1, <2>2 DEF ReportedIn
<1> HIDE DEF reports, required
<1>5. /\ Cardinality(ReportedIn(reports)) \in Nat
      /\ Cardinality(ReportedIn(round_reports)) <= Cardinality(ReportedIn(reports))
  <2>1. IsFiniteSet(ReportedIn(reports))
    BY <1>2, <1>4, FS_Subset
  <2> QED
    BY <1>4, <2>1, FS_Subset, FS_CardinalityType
<1>6. CASE AllReported(reports) /\ ~Pending(required, emitted_extra_symbols)
  BY <1>1, <1>3, <1>5, <1>6, FinishKeepsWindow
<1>7. CASE ~(AllReported(reports) /\ ~Pending(required, emitted_extra_symbols))
  <2>1. /\ round_reports' = reports /\ required_extra_symbols' = required
        /\ repair_window_symbols' = RepairWindow(required, reports)
        /\ emitted_extra_symbols' = emitted_extra_symbols
    BY <1>1, <1>7
  <2>2. PICK s, t, c, d, n : /\ s = SumFunction(required_extra_symbols) /\ t = SumFunction(required)
                             /\ c = Cardinality(ReportedIn(round_reports))
                             /\ d = Cardinality(ReportedIn(reports)) /\ n = Cardinality(active)
    OBVIOUS
  <2>3. s \in Nat /\ t \in Nat /\ c \in Nat /\ d \in Nat /\ n \in Nat /\ s <= t /\ c <= d
    BY <1>2, <1>3, <1>5, <2>2, SumType, SumGrows
  <2>4. WindowFor(s, c, n) <= WindowFor(t, d, n) /\ WindowFor(s, c, n) \in Nat /\ WindowFor(t, d, n) \in Nat
    BY <2>3, WindowWidens, WindowBounds
  <2>5. repair_window_symbols = WindowFor(s, c, n) /\ repair_window_symbols' = WindowFor(t, d, n)
    BY <1>2, <2>1, <2>2, WindowIs DEF WindowInv
  <2>6. SumFunction(emitted_extra_symbols') <= repair_window_symbols'
    BY <1>2, <2>1, <2>4, <2>5 DEF WindowInv
  <2> QED
    BY <1>1, <2>1, <2>2, <2>5, <2>6 DEF WindowInv
<1> QED
  BY <1>6, <1>7

LEMMA WindowStep ==
    ASSUME FecSenderInv, WindowInv, [FecSenderNext]_fecSenderVars
    PROVE  WindowInv'
<1>0. /\ active \subseteq Receivers /\ Cardinality(active) \in Nat
      /\ required_extra_symbols \in [Blocks -> Nat] /\ emitted_extra_symbols \in [Blocks -> Nat]
      /\ SumFunction(required_extra_symbols) \in Nat /\ SumFunction(emitted_extra_symbols) \in Nat
      /\ Cardinality(ReportedIn(round_reports)) \in Nat
  BY LedgerTypes
<1>1. ASSUME UNCHANGED <<active, repairVars>> PROVE WindowInv'
  BY <1>1 DEF repairVars, WindowInv
<1>2. CASE UNCHANGED fecSenderVars
  BY <1>1, <1>2 DEF fecSenderVars
<1>3. ASSUME NEW b \in Blocks, SendSourceSymbol(b) PROVE WindowInv'
  BY <1>1, <1>3 DEF SendSourceSymbol
<1>4. ASSUME NEW b \in Blocks, SendExtraSymbol(b) PROVE WindowInv'
  <2>1. /\ emitted_extra_symbols' = [emitted_extra_symbols EXCEPT ![b] = @ + 1]
        /\ SumFunction(emitted_extra_symbols) < repair_window_symbols
        /\ UNCHANGED <<active, round_reports, required_extra_symbols, repair_window_symbols>>
    BY <1>4 DEF SendExtraSymbol, NextExtra, WindowOpen
  <2>2. PICK h : h = [emitted_extra_symbols EXCEPT ![b] = @ + 1]
    OBVIOUS
  <2>3. /\ h \in [Blocks -> Nat] /\ h[b] = emitted_extra_symbols[b] + 1
        /\ \A c \in Blocks : c # b => h[c] = emitted_extra_symbols[c]
    BY <1>0, <2>2
  <2>4. SumFunction(h) = SumFunction(emitted_extra_symbols) + 1
    BY <1>0, <2>3, SumOfOneMore
  <2>5. repair_window_symbols \in Nat
    BY <1>0, WindowBounds DEF WindowInv
  <2>6. SumFunction(h) <= repair_window_symbols
    BY <1>0, <2>1, <2>4, <2>5
  <2> QED
    BY <2>1, <2>2, <2>6 DEF WindowInv
<1>5. CASE BeginReportRound
  <2>1. UNCHANGED <<active, required_extra_symbols, emitted_extra_symbols, repair_window_symbols>>
        /\ ~round_source_done_sent
    BY <1>5 DEF BeginReportRound
  <2>2. round_phase = "SendingData"
    BY <2>1 DEF FecSenderInv, FecLoopPosition, FecTypes
  <2>3. SumFunction(required_extra_symbols) = 0
    <3>1. \A b \in Blocks : required_extra_symbols[b] = 0
      BY <2>2 DEF FecSenderInv, FecLoopPosition
    <3> QED
      BY <1>0, <3>1, ZeroSum
  <2> QED
    BY <2>1, <2>3 DEF WindowInv, WindowFor
<1>6. CASE EndReportRound
  <2>1. FinishReportRound(round_reports, required_extra_symbols) /\ active' = active
    BY <1>6 DEF EndReportRound
  <2>2. \A b \in Blocks : required_extra_symbols[b] <= required_extra_symbols[b]
    BY <1>0
  <2>3. Cardinality(ReportedIn(round_reports)) <= Cardinality(ReportedIn(round_reports))
    BY <1>0
  <2> QED
    BY <1>0, <2>1, <2>2, <2>3, FinishKeepsWindow
<1>7. CASE FecSolicit
  BY <1>2, <1>7 DEF FecSolicit
<1>8. CASE FecReportTimeout \/ FecControlClosed \/ FecAbortOnProtocolError \/ FinishTransfer
  BY <1>1, <1>8 DEF FecReportTimeout, FecControlClosed, FecAbortOnProtocolError, FinishTransfer, Leave
<1>9. ASSUME NEW p \in Peers, NEW r \in Rounds, NEW report \in FecWireReports, HandleFecNeed(p, r, report)
      PROVE  WindowInv'
  <2>1. CASE DropsFecNeed(p, r, report)
    BY <1>2, <1>9, <2>1 DEF HandleFecNeed
  <2>2. CASE RepeatFecNeed(p, report)
    BY <1>1, <2>2 DEF RepeatFecNeed
  <2>3. CASE ~DropsFecNeed(p, r, report) /\ RecordFecNeed(p, report)
    <3>1. p \in active
      BY <2>3 DEF DropsFecNeed
    <3> QED
      BY <2>3, <3>1, RecordKeepsWindow
  <2> QED
    BY <1>9, <2>1, <2>2, <2>3 DEF HandleFecNeed
<1> QED
  BY <1>2, <1>3, <1>4, <1>5, <1>6, <1>7, <1>8, <1>9 DEF FecSenderNext, SendSymbol

\* As many repair symbols as the largest round can ask for, times the quorum, are
\* below u32::MAX.
BudgetFits == TotalBlocks * MaxDeficit * Cardinality(Receivers) <= U32Max

LEMMA FullQuorumWindow ==
    ASSUME BudgetFits, FecSenderInv, WindowInv PROVE FullQuorumOpensBudget
<1> SUFFICES ASSUME round_phase = "WaitingForReports", AllReported(round_reports)
             PROVE  repair_window_symbols = SumFunction(required_extra_symbols)
  BY DEF FullQuorumOpensBudget
<1>1. PICK t, n, m, k : /\ t = SumFunction(required_extra_symbols) /\ n = Cardinality(active)
                        /\ m = TotalBlocks * MaxDeficit /\ k = Cardinality(Receivers)
  OBVIOUS
<1>2. /\ active \subseteq Receivers /\ n \in Nat /\ t \in Nat
      /\ required_extra_symbols \in [Blocks -> Nat]
  BY <1>1, LedgerTypes
<1>3. Cardinality(ReportedIn(round_reports)) = n
  BY <1>1 DEF AllReported
<1>4. t <= m /\ m \in Nat
  <2>1. \A b \in Blocks : required_extra_symbols[b] <= MaxDeficit
    BY DEF FecSenderInv, FecTypes
  <2>2. MaxDeficit \in Nat /\ TotalBlocks \in Nat
    OBVIOUS
  <2>3. SumFunction(required_extra_symbols) <= TotalBlocks * MaxDeficit
    BY <1>2, <2>1, <2>2, SumBounded
  <2>4. \A x, y \in Nat : x * y \in Nat
    BY SMT
  <2> QED
    BY <1>1, <2>2, <2>3, <2>4
<1>5. n <= k /\ k \in Nat
  BY <1>1, <1>2, FS_Subset, FS_CardinalityType
<1>6. t * n <= U32Max
  <2>1. t * n <= m * k /\ t * n \in Nat /\ m * k \in Nat
    BY <1>2, <1>4, <1>5, ProductMonotone
  <2>2. m * k <= U32Max /\ U32Max \in Nat
    BY <1>1, U32MaxAssumption DEF BudgetFits
  <2> QED
    BY <2>1, <2>2
<1>7. n = 0 => t = 0
  <2>1. SUFFICES ASSUME n = 0 PROVE t = 0
    OBVIOUS
  <2>2. active = {}
    BY <1>1, <1>2, <2>1, FS_Subset, FS_EmptySet
  <2>3. \A p \in Peers : round_reports[p] = FecNone
    BY <2>2 DEF FecSenderInv, FecQuorumReports
  <2>4. \A b \in Blocks : required_extra_symbols[b] = 0
    BY <2>3, NoneAsksForNothing DEF FecSenderInv, FecTargets
  <2> QED
    BY <1>1, <1>2, <2>4, ZeroSum
<1>8. WindowFor(t, n, n) = t
  BY <1>2, <1>6, <1>7, WindowFull
<1> QED
  BY <1>1, <1>3, <1>8 DEF WindowInv

LEMMA WindowSound ==
    ASSUME BudgetFits, FecSenderInv, WindowInv
    PROVE  RepairWithinWindow /\ FullQuorumOpensBudget
<1>1. repair_window_symbols <= SumFunction(required_extra_symbols)
  BY LedgerTypes, WindowBounds DEF WindowInv
<1>2. RepairWithinWindow
  BY <1>1 DEF RepairWithinWindow, WindowInv
<1> QED
  BY <1>2, FullQuorumWindow

\* The repair window bounds speculation by the reports on record, the full quorum
\* opens the whole budget, and the sender never waits for nobody, for every quorum
\* and every environment, as long as the budget fits a u32 (repair_window,
\* next_extra_symbol, finish_report_round).
THEOREM RepairWindowsAreSound ==
    ASSUME BudgetFits
    PROVE  FecSenderSpec => []RepairWindowSound
<1>1. FecSenderInit => FecSenderInv /\ WindowInv
  BY FecInitInv, WindowInit
<1>2. (FecSenderInv /\ WindowInv) /\ [FecSenderNext]_fecSenderVars => (FecSenderInv /\ WindowInv)'
  BY FecSenderStep, WindowStep
<1>3. FecSenderInv /\ WindowInv => RepairWithinWindow /\ FullQuorumOpensBudget
  BY WindowSound
<1>4. RepairWithinWindow /\ FullQuorumOpensBudget /\ FecBlocksOnlyForReports => RepairWindowSound
  BY DEF RepairWindowSound
<1> QED
  BY <1>1, <1>2, <1>3, <1>4, FecNeverBlocksForNothing, PTL DEF FecSenderSpec

-----------------------------------------------------------------------------
(* What a receiver holds and reports *)

\* The symbols held of a block are finitely many.
LEMMA HeldIsFinite ==
    ASSUME NEW S \in SUBSET SymbolIds
    PROVE  IsFiniteSet(S) /\ Cardinality(S) \in Nat
<1>1. IsFiniteSet(SymbolIds)
  BY FS_Interval DEF SymbolIds
<1>2. IsFiniteSet(S)
  BY <1>1, FS_Subset
<1> QED
  BY <1>2, FS_CardinalityType

\* A fresh report is valid and asks for enough; it is Complete only when every
\* block is decoded (FecReceiver::need_report).
LEMMA FreshReport ==
    ASSUME FecReceiverTypeOK, NEW p \in Receivers
    PROVE  /\ FecNeedReport(p) \in FecWireReports
           /\ ValidFecNeed(FecNeedReport(p))
           /\ AsksForResidual(p, FecNeedReport(p))
           /\ FecNeedReport(p) = FecComplete <=> Blocks \subseteq complete_blocks[p]
<1>1. CASE Blocks \subseteq complete_blocks[p]
  BY <1>1 DEF FecNeedReport, FecWireReports, ValidFecNeed, AsksForResidual
<1>2. CASE ~(Blocks \subseteq complete_blocks[p])
  <2> DEFINE d == [b \in ListedIds |-> IF b \in Blocks \ complete_blocks[p]
                                       THEN BlockDeficit(p, b) ELSE 0]
  <2>1. FecNeedReport(p) = FecNeed(d)
    BY <1>2 DEF FecNeedReport
  <2>2. \A b \in Blocks : Cardinality(symbols[p][b]) \in Nat
    BY HeldIsFinite DEF FecReceiverTypeOK
  <2>3. \A b \in Blocks :
           /\ BlockDeficit(p, b) \in 1 .. SymbolsPerBlock
           /\ BlockDeficit(p, b) + Cardinality(symbols[p][b]) >= SymbolsPerBlock
    BY <2>2 DEF BlockDeficit
  <2>4. d \in [ListedIds -> 0 .. MaxDeficit]
    BY <2>3
  <2>5. \A b \in Blocks : b \in ListedIds
    BY DEF Blocks, ListedIds
  <2>6. PICK c \in Blocks : c \notin complete_blocks[p]
    BY <1>2
  <2>7. d[c] >= 1 /\ NoDeficit[c] = 0
    BY <2>3, <2>5, <2>6 DEF NoDeficit
  <2>8. d # NoDeficit
    BY <2>7
  <2>9. TotalBlocks \in ListedIds /\ TotalBlocks \notin Blocks
    BY DEF ListedIds, Blocks
  <2>10. d[TotalBlocks] = 0
    BY <2>9
  <2>11. \A b \in Blocks \ complete_blocks[p] : d[b] = BlockDeficit(p, b)
    BY <2>5
  <2> HIDE DEF d
  <2>12. /\ FecNeed(d).kind = "Fec" /\ FecNeed(d).deficit = d
         /\ FecNeed(d) # FecComplete
    BY DEF FecNeed, FecComplete
  <2>13. FecNeed(d) \in FecWireReports
    BY <2>4, <2>8 DEF FecWireReports
  <2>14. ValidFecNeed(FecNeed(d))
    BY <2>10, <2>12 DEF ValidFecNeed
  <2>15. AsksForResidual(p, FecNeed(d))
    BY <2>3, <2>11, <2>12 DEF AsksForResidual
  <2> QED
    BY <1>2, <2>1, <2>12, <2>13, <2>14, <2>15
<1> QED
  BY <1>1, <1>2

\* Complete asks for nothing: its receiver lacks nothing.
LEMMA CompleteIsTrue ==
    ASSUME NEW p \in Receivers, AsksForResidual(p, FecComplete)
    PROVE  Blocks \subseteq complete_blocks[p]
<1>1. \A b \in Blocks : FecComplete.deficit[b] = 0
  BY DEF FecComplete, NoDeficit, Blocks, ListedIds
<1> QED
  BY <1>1 DEF AsksForResidual

\* Symbols only add to what a receiver holds of a block it has not decoded, so
\* a report that asked for enough still does.
LEMMA ResidualShrinks ==
    ASSUME FecReceiverTypeOK, NEW p \in Receivers, NEW b \in Blocks, NEW s \in SymbolIds,
           NEW decoded \in BOOLEAN, HandleBlockSymbol(p, b, s, decoded),
           NEW q \in Receivers, NEW report \in FecWireReports, AsksForResidual(q, report)
    PROVE  AsksForResidual(q, report)'
<1> SUFFICES ASSUME NEW c \in Blocks, c \notin complete_blocks'[q]
             PROVE  /\ report.deficit[c] >= 1
                    /\ report.deficit[c] + Cardinality(symbols'[q][c]) >= SymbolsPerBlock
  BY DEF AsksForResidual
<1>1. /\ complete_blocks' = [complete_blocks EXCEPT ![p] = IF decoded THEN @ \cup {b} ELSE @]
      /\ symbols' = [symbols EXCEPT ![p][b] = IF decoded THEN {} ELSE symbols[p][b] \cup {s}]
  BY DEF HandleBlockSymbol
<1>2. /\ complete_blocks \in [Receivers -> SUBSET Blocks]
      /\ symbols \in [Receivers -> [Blocks -> SUBSET SymbolIds]]
  BY DEF FecReceiverTypeOK
<1>3. c \notin complete_blocks[q] /\ ~(decoded /\ q = p /\ c = b)
  BY <1>1, <1>2
<1>4. symbols'[q][c] \in SUBSET SymbolIds /\ symbols[q][c] \subseteq symbols'[q][c]
  BY <1>1, <1>2, <1>3
<1>5. /\ Cardinality(symbols[q][c]) \in Nat /\ Cardinality(symbols'[q][c]) \in Nat
      /\ Cardinality(symbols[q][c]) <= Cardinality(symbols'[q][c])
  BY <1>2, <1>4, HeldIsFinite, FS_Subset
<1>6. report.deficit[c] \in Nat
  BY ReportFacts
<1>7. /\ report.deficit[c] >= 1
      /\ report.deficit[c] + Cardinality(symbols[q][c]) >= SymbolsPerBlock
  BY <1>3 DEF AsksForResidual
<1> QED
  BY <1>5, <1>6, <1>7

-----------------------------------------------------------------------------
(* Initially *)

LEMMA FecSessionInitInv == FecSessionInit => FecSessionInv
<1> SUFFICES ASSUME FecSessionInit PROVE FecSessionInv
  OBVIOUS
<1>1. FecSenderInv /\ ~protocol_error /\ \A p \in Peers : round_reports[p] = FecNone
  BY FecInitInv DEF FecSessionInit, FecSenderInit
<1>2. PICK ready \in SUBSET Receivers : FecReceiverStartsWith(ready)
  BY DEF FecSessionInit
<1>3. FecReceiverTypeOK
  BY <1>2 DEF FecReceiverStartsWith, FecReceiverTypeOK
<1>4. FecReceiverTruth
  BY <1>2 DEF FecReceiverStartsWith, FecReceiverTruth
<1>5. announced = {} /\ ctrl = {}
  BY DEF FecSessionInit
<1> QED
  BY <1>1, <1>3, <1>4, <1>5 DEF FecSessionInv, FecCtrlTruth, FecOneNeedPerRound, FecRecordTruth,
     FecNoSpuriousProtocolError

-----------------------------------------------------------------------------
(* Steps of the sender *)

\* A frame on the network is what its fields say.
LEMMA FrameFields ==
    ASSUME ctrl \subseteq FecNeedFrames, NEW m \in ctrl
    PROVE  /\ m.peer \in Receivers /\ m.peer \in Peers /\ m.round \in Rounds
           /\ m.report \in FecWireReports
           /\ m = FecNeedFrame(m.peer, m.round, m.report)
BY DEF FecNeedFrames, FecNeedFrame

\* To its sender, a session is one of the environments of FecSender.
LEMMA SessionStepIsSenderStep ==
    ASSUME FecSessionInv, [FecSessionNext]_fecSessionVars
    PROVE  [FecSenderNext]_fecSenderVars
<1>1. CASE UNCHANGED fecSessionVars
  BY <1>1 DEF fecSessionVars
<1>2. CASE AnnounceFecRound \/ FecSenderWorks \/ FecSenderAborts
  BY <1>2 DEF AnnounceFecRound, FecSenderWorks, FecSenderAborts, FecSenderNext
<1>3. ASSUME NEW m \in ctrl, DeliverFecNeed(m)
      PROVE  FecSenderNext
  BY <1>3, FrameFields DEF DeliverFecNeed, FecSenderNext, FecSessionInv
<1>4. ASSUME NEW p \in Receivers,
             DeliverSymbol(p) \/ DeliverFecSourceDone(p) \/ FecReceiverChanges(p)
      PROVE  UNCHANGED fecSenderVars
  BY <1>4 DEF DeliverSymbol, DeliverFecSourceDone, FecReceiverChanges, ReceiverStep
<1> QED
  BY <1>1, <1>2, <1>3, <1>4 DEF FecSessionNext

\* The parts of the invariant that speak of the receivers and the network alone
NetworkTruth ==
    /\ FecReceiverTypeOK
    /\ ctrl \subseteq FecNeedFrames
    /\ FecCtrlTruth
    /\ FecOneNeedPerRound
    /\ FecReceiverTruth

LEMMA NetworkUntouched ==
    ASSUME NetworkTruth, UNCHANGED <<fecReceiverVars, ctrl>>
    PROVE  NetworkTruth'
BY DEF NetworkTruth, fecReceiverVars, FecReceiverTypeOK, FecCtrlTruth, FecOneNeedPerRound,
   FecReceiverTruth, AsksForResidual

\* A closed round has no report on record, an open one the reports it had.
LEMMA FinishKeepsRecord ==
    ASSUME NEW reports \in [Peers -> FecWireReports \cup {FecNone}],
           NEW required,
           \A p \in Receivers : reports[p] # FecNone =>
               FecNeedFrame(p, current_round_id, reports[p]) \in ctrl,
           FinishReportRound(reports, required), ctrl' = ctrl
    PROVE  FecRecordTruth'
<1>1. CASE FecAllComplete(reports)
  BY <1>1 DEF FinishReportRound, FecRecordTruth, roundVars, FecNeedFrame
<1>2. CASE ~FecAllComplete(reports)
  <2>1. round_reports' = [p \in Peers |-> FecNone]
    BY <1>2 DEF FinishReportRound
  <2> QED
    BY <2>1 DEF FecRecordTruth
<1> QED
  BY <1>1, <1>2

LEMMA OwnStepKeepsRecord ==
    ASSUME FecSessionInv, AnnounceFecRound \/ FecSenderWorks \/ FecSenderAborts
    PROVE  /\ FecRecordTruth' /\ FecNoSpuriousProtocolError'
           /\ announced' \subseteq Rounds
           /\ UNCHANGED <<fecReceiverVars, ctrl>>
<1> USE DEF SenderStep
<1>1. UNCHANGED <<fecReceiverVars, ctrl>> /\ protocol_error' = protocol_error
  BY DEF AnnounceFecRound, FecSenderWorks, FecSenderAborts, BeginReportRound, FecSolicit,
     SendSymbol, SendSourceSymbol, SendExtraSymbol, EndReportRound, FinishTransfer,
     FecReportTimeout, FecControlClosed, FecAbortOnProtocolError, Leave, fecSenderVars
<1>2. announced' \subseteq Rounds
  BY DEF AnnounceFecRound, FecSenderWorks, FecSenderAborts, FecSessionInv, FecSenderInv, FecTypes
<1>3. FecRecordTruth'
  <2>1. CASE BeginReportRound
    <3>1. round_reports' = [p \in Peers |-> FecNone]
      BY <2>1 DEF BeginReportRound
    <3> QED
      BY <3>1 DEF FecRecordTruth
  <2>2. CASE EndReportRound
    <3>1. FinishReportRound(round_reports, required_extra_symbols)
      BY <2>2 DEF EndReportRound
    <3> QED
      BY <1>1, <3>1, FinishKeepsRecord DEF FecSessionInv, FecSenderInv, FecTypes, FecRecordTruth
  <2>3. CASE ~BeginReportRound /\ ~EndReportRound
    <3>1. UNCHANGED <<round_reports, current_round_id>>
      BY <2>3 DEF AnnounceFecRound, FecSenderWorks, FecSenderAborts, FecSolicit,
         SendSymbol, SendSourceSymbol, SendExtraSymbol, FinishTransfer, FecReportTimeout,
         FecControlClosed, FecAbortOnProtocolError, Leave, fecSenderVars, roundVars, repairVars
    <3> QED
      BY <1>1, <3>1 DEF FecRecordTruth, FecSessionInv
  <2> QED
    BY <2>1, <2>2, <2>3
<1> QED
  BY <1>1, <1>2, <1>3 DEF FecNoSpuriousProtocolError, FecSessionInv

\* A report that arrives: it was sent for the open round, and if another one of
\* that peer is on record it is the same.
LEMMA DeliveryKeepsRecord ==
    ASSUME FecSessionInv, NEW m \in ctrl, DeliverFecNeed(m)
    PROVE  FecRecordTruth' /\ FecNoSpuriousProtocolError'
<1>1. /\ m.peer \in Receivers /\ m.peer \in Peers /\ m.round \in Rounds
      /\ m.report \in FecWireReports
      /\ m = FecNeedFrame(m.peer, m.round, m.report)
  BY FrameFields DEF FecSessionInv
<1>2. ctrl' = ctrl
  BY DEF DeliverFecNeed
<1>3. ~protocol_error
  BY DEF FecSessionInv, FecNoSpuriousProtocolError
<1>4. CASE DropsFecNeed(m.peer, m.round, m.report)
  <2>1. UNCHANGED <<round_reports, current_round_id, protocol_error>>
    BY <1>4 DEF DeliverFecNeed, HandleFecNeed, fecSenderVars, roundVars, repairVars
  <2> QED
    BY <1>2, <2>1 DEF FecSessionInv, FecRecordTruth, FecNoSpuriousProtocolError
<1>5. CASE ~DropsFecNeed(m.peer, m.round, m.report)
  <2>1. m.round = current_round_id
    BY <1>5 DEF DropsFecNeed
  <2>2. CASE RepeatFecNeed(m.peer, m.report)
    <3>1. FecNeedFrame(m.peer, current_round_id, round_reports[m.peer]) \in ctrl
      BY <1>1, <2>2 DEF RepeatFecNeed, FecSessionInv, FecRecordTruth
    <3>2. round_reports[m.peer] = m.report
      BY <1>1, <2>1, <3>1 DEF FecSessionInv, FecOneNeedPerRound, FecNeedFrame
    <3>3. /\ UNCHANGED <<round_reports, current_round_id>>
          /\ protocol_error' = (protocol_error \/ round_reports[m.peer] # m.report)
      BY <2>2 DEF RepeatFecNeed, roundVars, repairVars
    <3> QED
      BY <1>2, <1>3, <3>2, <3>3 DEF FecSessionInv, FecRecordTruth, FecNoSpuriousProtocolError
  <2>3. CASE RecordFecNeed(m.peer, m.report)
    <3> DEFINE reports == [round_reports EXCEPT ![m.peer] = m.report]
    <3> DEFINE required == MergeDeficits(required_extra_symbols, m.report)
    <3>1. reports \in [Peers -> FecWireReports \cup {FecNone}]
      BY <1>1 DEF FecSessionInv, FecSenderInv, FecTypes
    <3>2. \A p \in Receivers : reports[p] # FecNone =>
             FecNeedFrame(p, current_round_id, reports[p]) \in ctrl
      BY <1>1, <2>1 DEF FecSessionInv, FecSenderInv, FecTypes, FecRecordTruth
    <3>3. protocol_error' = protocol_error
      BY <2>3 DEF RecordFecNeed
    <3>4. \/ FinishReportRound(reports, required)
          \/ round_reports' = reports /\ current_round_id' = current_round_id
      BY <2>3 DEF RecordFecNeed, roundVars
    <3> HIDE DEF reports, required
    <3>5. FecRecordTruth'
      BY <1>2, <3>1, <3>2, <3>4, FinishKeepsRecord DEF FecRecordTruth
    <3> QED
      BY <1>3, <3>3, <3>5 DEF FecNoSpuriousProtocolError
  <2> QED
    BY <1>5, <2>2, <2>3 DEF DeliverFecNeed, HandleFecNeed
<1> QED
  BY <1>4, <1>5

-----------------------------------------------------------------------------
(* Steps of the receivers *)

\* Symbols that are on the network have ids in range.
LEMMA SentSymbolsInRange ==
    ASSUME FecSenderInv, NEW b \in Blocks
    PROVE  SentSymbols(b) \subseteq SymbolIds
<1>1. /\ next_source_symbol[b] \in 0 .. SymbolsPerBlock
      /\ next_fountain_symbol[b] \in SymbolsPerBlock .. MaxSymbol
  BY DEF FecSenderInv, FecTypes
<1> QED
  BY <1>1 DEF SentSymbols, SymbolIds

LEMMA SymbolKeepsNetwork ==
    ASSUME FecSenderInv, NetworkTruth, NEW p \in Receivers, DeliverSymbol(p)
    PROVE  NetworkTruth'
<1> USE DEF NetworkTruth
<1>1. PICK b \in Blocks : \E s \in SentSymbols(b), decoded \in BOOLEAN :
         HandleBlockSymbol(p, b, s, decoded) /\ ReceiverStep({})
  BY DEF DeliverSymbol
<1>2. PICK s \in SentSymbols(b), decoded \in BOOLEAN :
         HandleBlockSymbol(p, b, s, decoded) /\ ReceiverStep({})
  BY <1>1
<1>3. s \in SymbolIds
  BY <1>2, SentSymbolsInRange
<1>4. /\ ctrl' = ctrl
      /\ complete_blocks' = [complete_blocks EXCEPT ![p] = IF decoded THEN @ \cup {b} ELSE @]
      /\ symbols' = [symbols EXCEPT ![p][b] = IF decoded THEN {} ELSE symbols[p][b] \cup {s}]
      /\ UNCHANGED <<lifecycle, installed, last_source_done_round_id, last_round_need,
                     replay_round>>
  BY <1>2 DEF HandleBlockSymbol, ReceiverStep
<1>5. FecReceiverTypeOK'
  <2>1. symbols' \in [Receivers -> [Blocks -> SUBSET SymbolIds]]
    BY <1>3, <1>4 DEF FecReceiverTypeOK
  <2>2. complete_blocks' \in [Receivers -> SUBSET Blocks]
    BY <1>4 DEF FecReceiverTypeOK
  <2> QED
    BY <1>4, <2>1, <2>2 DEF FecReceiverTypeOK
<1>6. FecCtrlTruth'
  <2> SUFFICES ASSUME NEW m \in ctrl
               PROVE  /\ m.round <= last_source_done_round_id[m.peer]
                      /\ AsksForResidual(m.peer, m.report)'
    BY <1>4 DEF FecCtrlTruth, AsksForResidual
  <2>1. m.peer \in Receivers /\ m.report \in FecWireReports
    BY FrameFields
  <2>2. /\ m.round <= last_source_done_round_id[m.peer]
        /\ AsksForResidual(m.peer, m.report)
    BY DEF FecCtrlTruth
  <2>3. HandleBlockSymbol(p, b, s, decoded)
    BY <1>2
  <2>4. ASSUME NEW q \in Receivers, NEW report \in FecWireReports, AsksForResidual(q, report)
        PROVE  AsksForResidual(q, report)'
    BY <1>3, <2>3, <2>4, ResidualShrinks
  <2> QED
    BY <2>1, <2>2, <2>4
<1>7. FecOneNeedPerRound' /\ FecReceiverTruth'
  BY <1>4 DEF FecOneNeedPerRound, FecReceiverTruth, FecNeedFrame
<1> QED
  BY <1>4, <1>5, <1>6, <1>7

\* The end of a receiver, and the manifest
LEMMA ChangeKeepsNetwork ==
    ASSUME NetworkTruth, NEW p \in Receivers, FecReceiverChanges(p)
    PROVE  NetworkTruth'
<1> USE DEF NetworkTruth
<1>1. /\ UNCHANGED <<ctrl, symbols, complete_blocks, last_source_done_round_id, last_round_need>>
      /\ installed' \subseteq Receivers
      /\ \/ UNCHANGED <<lifecycle, replay_round>>
         \/ /\ lifecycle' = [lifecycle EXCEPT ![p] = "SessionFinished"]
            /\ \/ UNCHANGED replay_round
               \/ /\ lifecycle[p] = "PassiveComplete"
                  /\ replay_round' = [replay_round EXCEPT ![p] = last_source_done_round_id[p]]
  BY DEF FecReceiverChanges, InstallFecManifest, FinishFecSession, AbortFecReceiver,
     ReceiverStep, FecReceiverTypeOK
<1>2. FecReceiverTypeOK'
  BY <1>1 DEF FecReceiverTypeOK
<1>3. FecCtrlTruth' /\ FecOneNeedPerRound'
  BY <1>1 DEF FecCtrlTruth, FecOneNeedPerRound, AsksForResidual
<1>4. FecReceiverTruth'
  BY <1>1 DEF FecReceiverTruth, FecReceiverTypeOK, FecNeedFrame
<1> QED
  BY <1>1, <1>2, <1>3, <1>4

\* The replay, and the answer to a duplicate, repeat a frame of the network; the
\* answer to a new round is the first of that round.
LEMMA AnswerKeepsNetwork ==
    ASSUME NetworkTruth, announced \subseteq Rounds, NEW p \in Receivers, DeliverFecSourceDone(p)
    PROVE  NetworkTruth'
<1> USE DEF NetworkTruth
<1>1. PICK r \in announced :
         \/ HandleFecSourceDone(p, r) /\ ReceiverStep({FecNeedFrame(p, r, FecAnswer(p, r))})
         \/ /\ ReplaysFecSourceDone(p, r)
            /\ UNCHANGED fecReceiverVars
            /\ ReceiverStep({FecNeedFrame(p, r, FecComplete)})
  BY DEF DeliverFecSourceDone
<1>2. r \in Rounds /\ r \in Int /\ r # NoRound
  BY <1>1 DEF Rounds, NoRound
<1>3. CASE ReplaysFecSourceDone(p, r) /\ UNCHANGED fecReceiverVars
           /\ ReceiverStep({FecNeedFrame(p, r, FecComplete)})
  <2>1. FecNeedFrame(p, r, FecComplete) \in ctrl
    BY <1>2, <1>3 DEF ReplaysFecSourceDone, FecReceiverTruth
  <2>2. ctrl' = ctrl
    BY <1>3, <2>1 DEF ReceiverStep
  <2> QED
    BY <1>3, <2>2, NetworkUntouched
<1>4. CASE HandleFecSourceDone(p, r) /\ ReceiverStep({FecNeedFrame(p, r, FecAnswer(p, r))})
  <2> DEFINE answer == FecAnswer(p, r)
  <2>1. /\ r >= last_source_done_round_id[p]
        /\ last_source_done_round_id' = [last_source_done_round_id EXCEPT ![p] = r]
        /\ last_round_need' = [last_round_need EXCEPT ![p] = answer]
        /\ lifecycle' = [lifecycle EXCEPT ![p] =
                             IF answer = FecComplete THEN "PassiveComplete" ELSE @]
        /\ UNCHANGED <<installed, symbols, complete_blocks, replay_round>>
        /\ ctrl' = ctrl \cup {FecNeedFrame(p, r, answer)}
    BY <1>4 DEF HandleFecSourceDone, AnswersFecSourceDone, ReceiverStep
  <2>2. /\ last_source_done_round_id \in [Receivers -> Rounds \cup {NoRound}]
        /\ last_round_need \in [Receivers -> FecWireReports \cup {FecNone}]
        /\ lifecycle \in [Receivers -> {"Active", "PassiveComplete", "SessionFinished"}]
        /\ \A q \in Receivers : last_source_done_round_id[q] \in Int
    BY DEF FecReceiverTypeOK, Rounds, NoRound
  <2>3. ASSUME r = last_source_done_round_id[p]
        PROVE  FecNeedFrame(p, r, answer) \in ctrl
    BY <1>2, <2>3 DEF FecAnswer, FecReceiverTruth
  <2>4. ASSUME r # last_source_done_round_id[p]
        PROVE  answer = FecNeedReport(p)
    BY <2>4 DEF FecAnswer
  <2>5. /\ answer \in FecWireReports /\ ValidFecNeed(answer)
        /\ AsksForResidual(p, answer)
    <3>1. CASE r = last_source_done_round_id[p]
      <4>1. FecNeedFrame(p, r, answer) \in ctrl /\ FecNeedFrame(p, r, answer) \in FecNeedFrames
        BY <2>3, <3>1
      <4>2. /\ FecNeedFrame(p, r, answer).peer = p
            /\ FecNeedFrame(p, r, answer).report = answer
        BY DEF FecNeedFrame
      <4> QED
        BY <4>1, <4>2 DEF FecNeedFrames, FecCtrlTruth
    <3>2. CASE r # last_source_done_round_id[p]
      BY <2>4, <3>2, FreshReport
    <3> QED
      BY <3>1, <3>2
  <2>6. lifecycle[p] = "PassiveComplete" => answer = FecComplete
    <3> SUFFICES ASSUME lifecycle[p] = "PassiveComplete" PROVE answer = FecComplete
      OBVIOUS
    <3>1. /\ last_round_need[p] = FecComplete
          /\ FecNeedFrame(p, last_source_done_round_id[p], FecComplete) \in ctrl
      BY DEF FecReceiverTruth
    <3>2. AsksForResidual(p, FecComplete)
      BY <3>1 DEF FecCtrlTruth, FecNeedFrame
    <3>3. Blocks \subseteq complete_blocks[p]
      BY <3>2, CompleteIsTrue
    <3> QED
      BY <2>4, <3>1, <3>3, FreshReport DEF FecAnswer
  <2> HIDE DEF answer
  <2>7. FecReceiverTypeOK'
    BY <1>2, <2>1, <2>5 DEF FecReceiverTypeOK
  <2>8. ctrl' \subseteq FecNeedFrames
    BY <1>2, <2>1, <2>5 DEF FecNeedFrames, FecNeedFrame
  <2>9. FecCtrlTruth'
    <3>1. ASSUME NEW m \in ctrl
          PROVE  /\ m.round <= last_source_done_round_id'[m.peer]
                 /\ AsksForResidual(m.peer, m.report)
      <4>1. m.peer \in Receivers /\ m.round \in Int
        BY FrameFields DEF Rounds
      <4>2. m.round <= last_source_done_round_id[m.peer] /\ AsksForResidual(m.peer, m.report)
        BY DEF FecCtrlTruth
      <4> QED
        BY <1>2, <2>1, <2>2, <4>1, <4>2
    <3>2. /\ FecNeedFrame(p, r, answer).peer = p /\ FecNeedFrame(p, r, answer).round = r
          /\ FecNeedFrame(p, r, answer).report = answer
      BY DEF FecNeedFrame
    <3>3. last_source_done_round_id'[p] = r /\ r <= r
      BY <1>2, <2>1, <2>2
    <3>4. \A m \in ctrl' : /\ m.round <= last_source_done_round_id'[m.peer]
                           /\ AsksForResidual(m.peer, m.report)
      BY <2>1, <2>5, <3>1, <3>2, <3>3
    <3> QED
      BY <2>1, <3>4 DEF FecCtrlTruth, AsksForResidual
  <2>10. FecOneNeedPerRound'
    <3>1. CASE r = last_source_done_round_id[p]
      BY <2>1, <2>3, <3>1 DEF FecOneNeedPerRound
    <3>2. CASE r # last_source_done_round_id[p]
      <4>1. \A m \in ctrl : ~(m.peer = p /\ m.round = r)
        BY <1>2, <2>1, <2>2, <3>2 DEF FecCtrlTruth
      <4> QED
        BY <2>1, <4>1 DEF FecOneNeedPerRound, FecNeedFrame
    <3> QED
      BY <3>1, <3>2
  <2>11. FecReceiverTruth'
    BY <1>2, <2>1, <2>2, <2>6 DEF FecReceiverTruth, FecNeedFrame
  <2> QED
    BY <2>7, <2>8, <2>9, <2>10, <2>11
<1> QED
  BY <1>1, <1>3, <1>4

-----------------------------------------------------------------------------
(* Theorems *)

\* The parts of the invariant that a step of a receiver could only disturb by
\* taking frames off the network
LEMMA ReceiverKeepsRecord ==
    ASSUME FecSessionInv, NEW needs, ReceiverStep(needs)
    PROVE  FecRecordTruth' /\ FecNoSpuriousProtocolError' /\ announced' \subseteq Rounds
BY DEF ReceiverStep, FecSessionInv, FecRecordTruth, FecNoSpuriousProtocolError, fecSenderVars,
   roundVars, repairVars

LEMMA FecSessionStep == FecSessionInv /\ [FecSessionNext]_fecSessionVars => FecSessionInv'
<1> SUFFICES ASSUME FecSessionInv, [FecSessionNext]_fecSessionVars PROVE FecSessionInv'
  OBVIOUS
<1>1. FecSenderInv'
  BY SessionStepIsSenderStep, FecSenderStep DEF FecSessionInv
<1>2. NetworkTruth /\ FecSenderInv /\ announced \subseteq Rounds
  BY DEF FecSessionInv, NetworkTruth
<1>3. SUFFICES NetworkTruth' /\ FecRecordTruth' /\ FecNoSpuriousProtocolError'
               /\ announced' \subseteq Rounds
  BY <1>1 DEF FecSessionInv, NetworkTruth
<1>4. CASE UNCHANGED fecSessionVars
  <2>1. UNCHANGED <<fecReceiverVars, ctrl, announced, round_reports, current_round_id,
                    protocol_error>>
    BY <1>4 DEF fecSessionVars, fecSenderVars, roundVars, repairVars
  <2> QED
    BY <1>2, <2>1, NetworkUntouched DEF FecSessionInv, FecRecordTruth, FecNoSpuriousProtocolError
<1>5. CASE AnnounceFecRound \/ FecSenderWorks \/ FecSenderAborts
  BY <1>2, <1>5, OwnStepKeepsRecord, NetworkUntouched
<1>6. ASSUME NEW m \in ctrl, DeliverFecNeed(m)
      PROVE  NetworkTruth' /\ FecRecordTruth' /\ FecNoSpuriousProtocolError'
             /\ announced' \subseteq Rounds
  <2>1. UNCHANGED <<fecReceiverVars, ctrl, announced>>
    BY <1>6 DEF DeliverFecNeed
  <2> QED
    BY <1>2, <1>6, <2>1, DeliveryKeepsRecord, NetworkUntouched
<1>7. ASSUME NEW p \in Receivers,
             DeliverSymbol(p) \/ DeliverFecSourceDone(p) \/ FecReceiverChanges(p)
      PROVE  NetworkTruth' /\ FecRecordTruth' /\ FecNoSpuriousProtocolError'
             /\ announced' \subseteq Rounds
  <2>1. NetworkTruth'
    BY <1>2, <1>7, SymbolKeepsNetwork, AnswerKeepsNetwork, ChangeKeepsNetwork
  <2>2. \E needs : ReceiverStep(needs)
    BY <1>7 DEF DeliverSymbol, DeliverFecSourceDone, FecReceiverChanges
  <2> QED
    BY <2>1, <2>2, ReceiverKeepsRecord
<1> QED
  BY <1>4, <1>5, <1>6, <1>7 DEF FecSessionNext

\* The invariant is inductive.
THEOREM FecSessionInductive == FecSessionSpec => []FecSessionInv
BY FecSessionInitInv, FecSessionStep, PTL DEF FecSessionSpec

\* The sender of a session keeps to its repair window, which opens as its receivers
\* report, as long as the budget fits a u32 (repair_window, finish_report_round).
THEOREM SessionsKeepRepairWindows ==
    ASSUME BudgetFits
    PROVE  FecSessionSpec => []RepairWindowSound
<1>1. FecSessionInit => FecSessionInv /\ WindowInv
  BY FecSessionInitInv, WindowInit DEF FecSessionInit
<1>2. (FecSessionInv /\ WindowInv) /\ [FecSessionNext]_fecSessionVars => (FecSessionInv /\ WindowInv)'
  BY FecSessionStep, SessionStepIsSenderStep, WindowStep DEF FecSessionInv
<1>3. FecSessionInv /\ WindowInv => RepairWindowSound
  BY WindowSound, WaitsOnlyForReports DEF FecSessionInv, RepairWindowSound
<1> QED
  BY <1>1, <1>2, <1>3, PTL DEF FecSessionSpec

\* A report on record is one its receiver stands by.
LEMMA RecordsAsk ==
    ASSUME FecSessionInv, NEW p \in active, round_reports[p] # FecNone
    PROVE  p \in Receivers /\ AsksForResidual(p, round_reports[p])
<1>1. p \in Receivers
  BY DEF FecSessionInv, FecSenderInv, FecTypes
<1>2. FecNeedFrame(p, current_round_id, round_reports[p]) \in ctrl
  BY <1>1 DEF FecSessionInv, FecRecordTruth
<1>3. AsksForResidual(FecNeedFrame(p, current_round_id, round_reports[p]).peer,
                      FecNeedFrame(p, current_round_id, round_reports[p]).report)
  BY <1>2 DEF FecSessionInv, FecCtrlTruth
<1> QED
  BY <1>1, <1>3 DEF FecNeedFrame

\* A completed round leaves no member of the quorum without a block.
LEMMA CompleteRoundDelivers ==
    ASSUME FecSessionInv, round_complete, NEW p \in active
    PROVE  complete_blocks[p] = Blocks
<1>1. round_reports[p] = FecComplete
  BY DEF FecSessionInv, FecSenderInv, FecLoopPosition
<1>2. p \in Receivers /\ AsksForResidual(p, FecComplete)
  BY <1>1, RecordsAsk, NoneAsksForNothing
<1>3. complete_blocks[p] \subseteq Blocks
  BY <1>2 DEF FecSessionInv, FecReceiverTypeOK
<1> QED
  BY <1>2, <1>3, CompleteIsTrue

\* In every session the reports of a round agree, the merged target covers what
\* every reporter still lacks, and Completed means that the whole quorum has
\* decoded the object, whatever the network loses, repeats or reorders and
\* however often the decoder fails (on_need, fec_need, finish_report_round).
THEOREM FecRoundsAreSound == FecSessionSpec => []FecRoundsSound
<1>1. FecSessionInv => FecRoundsSound
  <2> SUFFICES ASSUME FecSessionInv PROVE FecRoundsSound
    OBVIOUS
  <2>1. FecNoSpuriousProtocolError
    BY DEF FecSessionInv
  <2>2. FecReportsCoverResidual
    <3> SUFFICES ASSUME NEW p \in active, round_reports[p] # FecNone,
                        NEW b \in Blocks, b \notin complete_blocks[p]
                 PROVE  /\ required_extra_symbols[b] >= 1
                        /\ required_extra_symbols[b] + Cardinality(symbols[p][b])
                               >= SymbolsPerBlock
      BY DEF FecReportsCoverResidual
    <3>1. p \in Receivers /\ p \in Peers /\ AsksForResidual(p, round_reports[p])
      BY RecordsAsk
    <3>2. /\ round_reports[p].deficit[b] >= 1
          /\ round_reports[p].deficit[b] + Cardinality(symbols[p][b]) >= SymbolsPerBlock
      BY <3>1 DEF AsksForResidual
    <3>3. round_reports[p].deficit[b] <= required_extra_symbols[b]
      BY <3>1 DEF FecSessionInv, FecSenderInv, FecTargets
    <3>4. /\ required_extra_symbols[b] \in Nat /\ round_reports[p].deficit[b] \in Nat
          /\ Cardinality(symbols[p][b]) \in Nat
      BY <3>1, ReportFacts, HeldIsFinite
         DEF FecSessionInv, FecSenderInv, FecTypes, FecReceiverTypeOK
    <3> QED
      BY <3>2, <3>3, <3>4
  <2>3. FecCompletedMeansDelivered
    BY CompleteRoundDelivers
       DEF FecCompletedMeansDelivered, FecSessionInv, FecSenderInv, FecLoopPosition
  <2> QED
    BY <2>1, <2>2, <2>3 DEF FecRoundsSound
<1> QED
  BY <1>1, FecSessionInductive, PTL

\* Every step of the FEC session, seen as outcome, membership and decoded
\* blocks, is a step of LosslessTransfer: blocks are never taken back, and the
\* session finishes only when its quorum holds the object.
THEOREM FecImplementsTransferSteps == FecSessionSpec => FecTransferSteps
<1>1. FecSessionInv /\ [FecSessionNext]_fecSessionVars
          => [Transfer!TransferNext]_<<phase, active, complete_blocks>>
  <2> SUFFICES ASSUME FecSessionInv, [FecSessionNext]_fecSessionVars
               PROVE  [Transfer!TransferNext]_<<phase, active, complete_blocks>>
    OBVIOUS
  <2>1. CASE UNCHANGED <<phase, active, complete_blocks>>
    BY <2>1
  <2>2. CASE FecSenderAborts
    <3>1. phase = "Sending" /\ phase' = "Aborted" /\ UNCHANGED <<active, complete_blocks>>
      BY <2>2 DEF FecSenderAborts, FecReportTimeout, FecControlClosed, FecAbortOnProtocolError,
         FecWaiting, NoSymbolToSend, NextSource, NextExtra, Looping, Leave, SenderStep,
         fecReceiverVars
    <3> QED
      BY <3>1 DEF Transfer!TransferNext, Transfer!GiveUp
  <2>3. CASE FinishTransfer /\ SenderStep({})
    <3>1. /\ phase = "Sending" /\ phase' = "Completed" /\ round_complete
          /\ UNCHANGED <<active, complete_blocks>>
      BY <2>3 DEF FinishTransfer, Leave, SenderStep, fecReceiverVars
    <3>2. \A p \in active : complete_blocks[p] = Blocks
      BY <3>1, CompleteRoundDelivers
    <3> QED
      BY <3>1, <3>2 DEF Transfer!TransferNext, Transfer!Finish
  <2>4. CASE ((SendSymbol \/ EndReportRound) /\ SenderStep({})) \/ AnnounceFecRound
    BY <2>1, <2>4 DEF SendSymbol, SendSourceSymbol, SendExtraSymbol, EndReportRound,
       AnnounceFecRound, BeginReportRound, FecSolicit, fecSenderVars, SenderStep,
       fecReceiverVars
  <2>5. ASSUME NEW m \in ctrl, DeliverFecNeed(m)
        PROVE  UNCHANGED <<phase, active, complete_blocks>>
    BY <2>5 DEF DeliverFecNeed, HandleFecNeed, RepeatFecNeed, RecordFecNeed, fecSenderVars,
       fecReceiverVars
  <2>6. ASSUME NEW p \in Receivers, DeliverFecSourceDone(p) \/ FecReceiverChanges(p)
        PROVE  UNCHANGED <<phase, active, complete_blocks>>
    BY <2>6 DEF DeliverFecSourceDone, FecReceiverChanges, HandleFecSourceDone,
       InstallFecManifest, FinishFecSession, AbortFecReceiver, ReceiverStep, fecSenderVars,
       fecReceiverVars
  <2>7. ASSUME NEW p \in Receivers, DeliverSymbol(p)
        PROVE  [Transfer!TransferNext]_<<phase, active, complete_blocks>>
    <3>1. PICK b \in Blocks : \E s \in SentSymbols(b), decoded \in BOOLEAN :
             HandleBlockSymbol(p, b, s, decoded) /\ ReceiverStep({})
      BY <2>7 DEF DeliverSymbol
    <3>2. /\ UNCHANGED <<phase, active>>
          /\ \/ complete_blocks' = complete_blocks
             \/ complete_blocks' = [complete_blocks EXCEPT ![p] = @ \cup {b}]
      <4>1. PICK s, decoded : HandleBlockSymbol(p, b, s, decoded) /\ ReceiverStep({})
        BY <3>1
      <4>2. UNCHANGED <<phase, active>>
        BY <4>1 DEF ReceiverStep, fecSenderVars
      <4>3. complete_blocks' = [complete_blocks EXCEPT ![p] = IF decoded THEN @ \cup {b} ELSE @]
        BY <4>1 DEF HandleBlockSymbol
      <4>4. complete_blocks \in [Receivers -> SUBSET Blocks]
        BY DEF FecSessionInv, FecReceiverTypeOK
      <4>5. CASE decoded
        BY <4>2, <4>3, <4>5
      <4>6. CASE ~decoded
        BY <4>2, <4>3, <4>4, <4>6
      <4> QED
        BY <4>5, <4>6
    <3> QED
      BY <3>2 DEF Transfer!TransferNext, Transfer!Store
  <2> QED
    BY <2>1, <2>2, <2>3, <2>4, <2>5, <2>6, <2>7
       DEF FecSessionNext, FecSenderWorks, fecSessionVars, fecSenderVars, fecReceiverVars
<1> QED
  BY <1>1, FecSessionInductive, PTL DEF FecSessionSpec, FecTransferSteps
=============================================================================
