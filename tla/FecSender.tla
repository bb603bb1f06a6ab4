------------------------------ MODULE FecSender ------------------------------
(***************************************************************************)
(* The send loop of one FEC-mode lossless session                          *)
(* (dataplane/src/node/session/sender/fec.rs), from the moment the         *)
(* handshake has frozen the quorum: source symbols, report rounds, and     *)
(* repair that starts with the first report under a speculative window.    *)
(*                                                                         *)
(* A symbol is its id within its block; the encoder, the payload and the   *)
(* choice of the tree it travels on are left out.  The module stands on    *)
(* its own against arbitrary peers; FecSession composes it with receivers. *)
(***************************************************************************)
EXTENDS FecReports, FiniteSets, FiniteSetsExt, Functions

CONSTANTS
    Peers,      \* every node id a control frame may carry as its peer id
    U32Max      \* where the u32 arithmetic of the repair window saturates

ASSUME PeersAssumption == Receivers \subseteq Peers /\ IsFiniteSet(Receivers)
ASSUME U32MaxAssumption == U32Max \in Nat

VARIABLES
    phase,                      \* "Sending", "Completed", "Aborted"
    active,                     \* the frozen active_quorum
    round_phase,                \* RoundPhase
    round_source_done_sent,
    current_round_id,
    round_complete,
    round_reports,              \* [Peers -> report], FecNone where absent
    next_source_symbol,         \* [Blocks -> symbol id], like the next three
    next_fountain_symbol,
    required_extra_symbols,
    emitted_extra_symbols,
    repair_window_symbols,
    protocol_error,
    wait_started                \* quorum_liveness.started_at is Some

roundVars == <<round_phase, round_source_done_sent, current_round_id, wait_started>>
repairVars == <<round_reports, required_extra_symbols, emitted_extra_symbols,
                repair_window_symbols>>
symbolVars == <<next_source_symbol, next_fountain_symbol>>
fecSenderVars == <<phase, active, roundVars, round_complete, repairVars, symbolVars,
                   protocol_error>>

FecTypes ==
    /\ phase \in {"Sending", "Completed", "Aborted"}
    /\ active \subseteq Receivers
    /\ round_phase \in {"SendingData", "WaitingForReports"}
    /\ round_source_done_sent \in BOOLEAN
    /\ round_complete \in BOOLEAN
    /\ wait_started \in BOOLEAN
    /\ protocol_error \in BOOLEAN
    /\ current_round_id \in Rounds
    /\ round_reports \in [Peers -> FecWireReports \cup {FecNone}]
    /\ next_source_symbol \in [Blocks -> 0 .. SymbolsPerBlock]
    /\ next_fountain_symbol \in [Blocks -> SymbolsPerBlock .. MaxSymbol]
    /\ required_extra_symbols \in [Blocks -> 0 .. MaxDeficit]
    /\ emitted_extra_symbols \in [Blocks -> 0 .. MaxDeficit]

FecSenderTypeOK == FecTypes /\ repair_window_symbols \in 0 .. U32Max

ZeroSymbols == [b \in Blocks |-> 0]

\* FecSender::new; the handshake may have frozen any part of the receivers.
FecSenderInit ==
    /\ phase = "Sending"
    /\ active \in SUBSET Receivers
    /\ round_phase = "SendingData"
    /\ round_source_done_sent = FALSE
    /\ current_round_id = 0
    /\ round_complete = FALSE
    /\ round_reports = [p \in Peers |-> FecNone]
    /\ next_source_symbol = ZeroSymbols
    /\ next_fountain_symbol = [b \in Blocks |-> SymbolsPerBlock]
    /\ required_extra_symbols = ZeroSymbols
    /\ emitted_extra_symbols = ZeroSymbols
    /\ repair_window_symbols = 0
    /\ protocol_error = FALSE
    /\ wait_started = FALSE

-----------------------------------------------------------------------------
(* The work of a round *)

Pending(required, emitted) == \E b \in Blocks : emitted[b] < required[b]
ReportedIn(reports) == {p \in Peers : reports[p].kind # "None"}

\* Slip: one report is enough
AllReportedEarly(reports) == ReportedIn(reports) # {}

AllReported(reports) == Cardinality(ReportedIn(reports)) = Cardinality(active)
FecAllComplete(reports) == \A p \in ReportedIn(reports) : reports[p].kind = "Complete"

\* Slip: the last report replaces the target
MergeLatest(required, report) == [b \in Blocks |-> report.deficit[b]]

MergeDeficits(required, report) ==
    [b \in Blocks |-> Max({required[b], report.deficit[b]})]

DivCeil(a, n) == (a + n - 1) \div n

\* Slip: the sender counts itself into the quorum
RepairWindowFloor(required, reports) ==
    LET total == SumFunction(required)
        count == Cardinality(ReportedIn(reports))
    IN  IF total = 0 \/ count = 0 \/ active = {} THEN 0
        ELSE (total * count) \div (Cardinality(active) + 1)

\* recalculate_repair_window: the share of the quorum that has reported opens
\* the same share of the merged target, at least one symbol
RepairWindow(required, reports) ==
    LET total == SumFunction(required)
        count == Cardinality(ReportedIn(reports))
    IN  IF total = 0 \/ count = 0 \/ active = {} THEN 0
        ELSE Min({total,
                  Max({1, DivCeil(Min({total * count, U32Max}), Cardinality(active))})})

\* finish_report_round without its early return on pending repair: the session
\* is complete, or the next round starts from nothing.
FinishReportRound(reports, required) ==
    IF FecAllComplete(reports)
    THEN /\ round_complete' = TRUE
         /\ round_reports' = reports
         /\ required_extra_symbols' = required
         /\ repair_window_symbols' = RepairWindow(required, reports)
         /\ UNCHANGED <<roundVars, emitted_extra_symbols>>
    ELSE /\ round_phase' = "SendingData"
         /\ round_source_done_sent' = FALSE
         /\ current_round_id' = NextRoundId(current_round_id)
         /\ wait_started' = FALSE
         /\ round_reports' = [p \in Peers |-> FecNone]
         /\ required_extra_symbols' = ZeroSymbols
         /\ emitted_extra_symbols' = ZeroSymbols
         /\ repair_window_symbols' = 0
         /\ UNCHANGED round_complete

-----------------------------------------------------------------------------
(* Feedback: handle_control on Need, then FecSender::on_need *)

DropsFecNeed(p, r, report) ==
    \/ p \notin active
    \/ ~ValidFecNeed(report)
    \/ round_phase # "WaitingForReports"
    \/ r # current_round_id

RepeatFecNeed(p, report) ==
    /\ round_reports[p] # FecNone
    /\ protocol_error' = (protocol_error \/ round_reports[p] # report)
    /\ UNCHANGED <<phase, active, roundVars, round_complete, repairVars, symbolVars>>

\* The first report of p: its deficits join the round's target by maximum, the
\* window widens, and the last report of a round without pending repair ends it.
RecordFecNeed(p, report) ==
    LET reports == [round_reports EXCEPT ![p] = report]
        required == MergeDeficits(required_extra_symbols, report)
    IN
    /\ round_reports[p] = FecNone
    /\ IF AllReported(reports) /\ ~Pending(required, emitted_extra_symbols)
       THEN FinishReportRound(reports, required)
       ELSE /\ round_reports' = reports
            /\ required_extra_symbols' = required
            /\ repair_window_symbols' = RepairWindow(required, reports)
            /\ UNCHANGED <<roundVars, round_complete, emitted_extra_symbols>>
    /\ UNCHANGED <<phase, active, symbolVars, protocol_error>>

HandleFecNeed(p, r, report) ==
    /\ phase = "Sending"
    /\ IF DropsFecNeed(p, r, report) THEN UNCHANGED fecSenderVars
       ELSE RepeatFecNeed(p, report) \/ RecordFecNeed(p, report)

-----------------------------------------------------------------------------
(* The send loop of FecSender::run, in the order its tests are made. *)

\* The loop goes on: not complete and, after drain_controls, no protocol error
Looping == phase = "Sending" /\ ~protocol_error /\ ~round_complete

SourceWork == {b \in Blocks : next_source_symbol[b] < SymbolsPerBlock}
NextSource(b) ==
    /\ Looping
    /\ round_phase = "SendingData"
    /\ b \in SourceWork
    /\ \A c \in SourceWork : b <= c

ExtraWork == {b \in Blocks : emitted_extra_symbols[b] < required_extra_symbols[b]}
WindowOpen == SumFunction(emitted_extra_symbols) < repair_window_symbols
NextExtra(b) ==
    /\ Looping
    /\ \A c \in Blocks : ~NextSource(c)
    /\ WindowOpen
    /\ b \in ExtraWork
    /\ \A c \in ExtraWork : b <= c

\* A symbol that some tree accepts; one that all trees refuse stays the next.
SendSourceSymbol(b) ==
    /\ NextSource(b)
    /\ next_source_symbol' = [next_source_symbol EXCEPT ![b] = @ + 1]
    /\ round_source_done_sent' = FALSE
    /\ UNCHANGED <<phase, active, round_phase, current_round_id, wait_started, round_complete,
                   repairVars, next_fountain_symbol, protocol_error>>

SendExtraSymbol(b) ==
    /\ NextExtra(b)
    /\ next_fountain_symbol[b] < MaxSymbol
    /\ emitted_extra_symbols' = [emitted_extra_symbols EXCEPT ![b] = @ + 1]
    /\ next_fountain_symbol' = [next_fountain_symbol EXCEPT ![b] = @ + 1]
    /\ UNCHANGED <<phase, active, roundVars, round_complete, round_reports,
                   required_extra_symbols, repair_window_symbols, next_source_symbol,
                   protocol_error>>

NoSymbolToSend == Looping /\ \A b \in Blocks : ~NextSource(b) /\ ~NextExtra(b)

\* begin_report_round: SourceDone(current_round_id) goes out.
BeginReportRound ==
    /\ NoSymbolToSend
    /\ ~round_source_done_sent
    /\ round_source_done_sent' = TRUE
    /\ round_phase' = "WaitingForReports"
    /\ round_complete' = (active = {})
    /\ wait_started' = (active # {})
    /\ round_reports' = [p \in Peers |-> FecNone]
    /\ UNCHANGED <<phase, active, current_round_id, required_extra_symbols,
                   emitted_extra_symbols, repair_window_symbols, symbolVars, protocol_error>>

\* finish_report_round of the loop; with pending repair it returns at once and
\* the loop comes back to it.
EndReportRound ==
    /\ NoSymbolToSend
    /\ round_source_done_sent
    /\ AllReported(round_reports)
    /\ ~Pending(required_extra_symbols, emitted_extra_symbols)
    /\ FinishReportRound(round_reports, required_extra_symbols)
    /\ UNCHANGED <<phase, active, symbolVars, protocol_error>>

\* wait_for_quorum_feedback
FecWaiting ==
    /\ NoSymbolToSend
    /\ round_source_done_sent
    /\ ~AllReported(round_reports)

FecSolicit ==
    /\ FecWaiting
    /\ wait_started
    /\ UNCHANGED fecSenderVars

Leave(outcome) ==
    /\ phase' = outcome
    /\ UNCHANGED <<active, roundVars, round_complete, repairVars, symbolVars, protocol_error>>

FecReportTimeout == FecWaiting /\ Leave("Aborted")

\* The inbox is closed while the loop waits for reports, or for a tree that
\* accepts the next symbol.
FecControlClosed ==
    /\ FecWaiting \/ \E b \in Blocks : NextSource(b) \/ NextExtra(b)
    /\ Leave("Aborted")

FecAbortOnProtocolError == phase = "Sending" /\ protocol_error /\ Leave("Aborted")
FinishTransfer == phase = "Sending" /\ round_complete /\ ~protocol_error /\ Leave("Completed")

SendSymbol == \E b \in Blocks : SendSourceSymbol(b) \/ SendExtraSymbol(b)

FecSenderNext ==
    \/ SendSymbol
    \/ BeginReportRound
    \/ EndReportRound
    \/ FecSolicit
    \/ FecReportTimeout
    \/ FecControlClosed
    \/ FecAbortOnProtocolError
    \/ FinishTransfer
    \/ \E p \in Peers, r \in Rounds, report \in FecWireReports : HandleFecNeed(p, r, report)

FecSenderSpec == FecSenderInit /\ [][FecSenderNext]_fecSenderVars

-----------------------------------------------------------------------------
(* Properties that hold whatever the peers send. *)

\* The repair target of each block is the largest deficit on record, and no more
\* symbols than that are sent for it (on_need, next_extra_symbol).
FecLedger ==
    \A b \in Blocks :
        /\ required_extra_symbols[b] = Max({0} \cup {round_reports[p].deficit[b] : p \in Peers})
        /\ emitted_extra_symbols[b] <= required_extra_symbols[b]

\* Speculation is bounded: at no time have more repair symbols left than the
\* window of the reports so far allows, nor more than the merged target.
RepairWithinWindow ==
    /\ SumFunction(emitted_extra_symbols) <= repair_window_symbols
    /\ repair_window_symbols <= SumFunction(required_extra_symbols)

\* "once every quorum peer has reported for the round, open the full remaining
\* merged repair budget" (plans/simple-lossless.md): otherwise the loop of run
\* turns for ever between next_extra_symbol and finish_report_round.
FullQuorumOpensBudget ==
    round_phase = "WaitingForReports" /\ AllReported(round_reports)
        => repair_window_symbols = SumFunction(required_extra_symbols)

\* The FEC sender blocks for reports only while a quorum member owes one, and
\* with its timeout running.
FecBlocksOnlyForReports ==
    FecWaiting => /\ wait_started
                  /\ \E p \in active : round_reports[p] = FecNone

\* What the repair window is for: it bounds speculation, and it never leaves the
\* loop of run with neither a symbol to send nor a report to wait for
\* (repair_window, next_extra_symbol, finish_report_round).
RepairWindowSound == RepairWithinWindow /\ FullQuorumOpensBudget /\ FecBlocksOnlyForReports

-----------------------------------------------------------------------------
(* The inductive invariant behind FecLedger and FecBlocksOnlyForReports *)

\* Only members of the quorum, with reports the manifest admits, are on record.
FecQuorumReports ==
    \A p \in Peers : round_reports[p] # FecNone =>
        p \in active /\ ValidFecNeed(round_reports[p])

\* The target of a block is the deficit of some report and none is larger.
FecTargets ==
    \A b \in Blocks :
        /\ \A p \in Peers : round_reports[p].deficit[b] <= required_extra_symbols[b]
        /\ \/ required_extra_symbols[b] = 0
           \/ \E p \in Peers : round_reports[p].deficit[b] = required_extra_symbols[b]
        /\ emitted_extra_symbols[b] <= required_extra_symbols[b]

\* Where the loop stands: no report and no target before SourceDone, a running
\* timeout after it, and a completed round has Complete of the whole quorum.
FecLoopPosition ==
    /\ round_phase = "SendingData" =>
          /\ \A p \in Peers : round_reports[p] = FecNone
          /\ \A b \in Blocks : required_extra_symbols[b] = 0
    /\ round_phase = "WaitingForReports" <=> round_source_done_sent
    /\ round_source_done_sent /\ ~round_complete => wait_started
    /\ round_complete => \A p \in active : round_reports[p] = FecComplete
    /\ phase = "Completed" => round_complete

FecSenderInv == FecTypes /\ FecQuorumReports /\ FecTargets /\ FecLoopPosition
=============================================================================
