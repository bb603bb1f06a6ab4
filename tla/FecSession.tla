----------------------------- MODULE FecSession -----------------------------
(***************************************************************************)
(* One FEC-mode session end to end, from the opened data gate: the sender, *)
(* its receivers and a network on which a frame, once sent, may arrive     *)
(* never, late, repeatedly and in any order.  The symbols on the network   *)
(* are those below the sender's cursors.                                   *)
(***************************************************************************)
EXTENDS FecSender, FecReceiver

VARIABLES
    announced,  \* rounds of the SourceDone frames sent
    ctrl        \* Need frames the receivers have sent back

fecSessionVars == <<fecSenderVars, fecReceiverVars, announced, ctrl>>

FecNeedFrames ==
    [peer : Receivers, round : Rounds, report : {f \in FecWireReports : ValidFecNeed(f)}]
FecNeedFrame(p, r, report) == [peer |-> p, round |-> r, report |-> report]

FecSessionTypeOK ==
    /\ FecSenderTypeOK
    /\ FecReceiverTypeOK
    /\ announced \subseteq Rounds
    /\ ctrl \subseteq FecNeedFrames

\* Every member of the quorum has sent Ready, after it installed the manifest;
\* a Ready of others may have been late.
FecSessionInit ==
    /\ FecSenderInit
    /\ \E ready \in SUBSET Receivers : active \subseteq ready /\ FecReceiverStartsWith(ready)
    /\ announced = {}
    /\ ctrl = {}

SentSymbols(b) ==
    (0 .. (next_source_symbol[b] - 1)) \cup (SymbolsPerBlock .. (next_fountain_symbol[b] - 1))

-----------------------------------------------------------------------------
SenderStep(rounds) ==
    /\ announced' = announced \cup rounds
    /\ UNCHANGED <<fecReceiverVars, ctrl>>

AnnounceFecRound == (BeginReportRound \/ FecSolicit) /\ SenderStep({current_round_id})
FecSenderWorks ==
    (SendSymbol \/ EndReportRound \/ FinishTransfer) /\ SenderStep({})
FecSenderAborts ==
    (FecReportTimeout \/ FecControlClosed \/ FecAbortOnProtocolError) /\ SenderStep({})

DeliverFecNeed(m) ==
    /\ m \in ctrl
    /\ HandleFecNeed(m.peer, m.round, m.report)
    /\ UNCHANGED <<fecReceiverVars, announced, ctrl>>

ReceiverStep(needs) ==
    /\ ctrl' = ctrl \cup needs
    /\ UNCHANGED <<fecSenderVars, announced>>

DeliverSymbol(p) ==
    \E b \in Blocks : \E s \in SentSymbols(b), decoded \in BOOLEAN :
        HandleBlockSymbol(p, b, s, decoded) /\ ReceiverStep({})

DeliverFecSourceDone(p) ==
    \E r \in announced :
        \/ HandleFecSourceDone(p, r) /\ ReceiverStep({FecNeedFrame(p, r, FecAnswer(p, r))})
        \/ /\ ReplaysFecSourceDone(p, r)
           /\ UNCHANGED fecReceiverVars
           /\ ReceiverStep({FecNeedFrame(p, r, FecComplete)})

FecReceiverChanges(p) ==
    (InstallFecManifest(p) \/ FinishFecSession(p) \/ AbortFecReceiver(p)) /\ ReceiverStep({})

FecSessionNext ==
    \/ AnnounceFecRound
    \/ FecSenderWorks
    \/ FecSenderAborts
    \/ \E m \in ctrl : DeliverFecNeed(m)
    \/ \E p \in Receivers :
          DeliverSymbol(p) \/ DeliverFecSourceDone(p) \/ FecReceiverChanges(p)

FecSessionSpec == FecSessionInit /\ [][FecSessionNext]_fecSessionVars

-----------------------------------------------------------------------------
(* Properties *)

\* Completed means that every member of the frozen quorum has decoded every
\* block, whatever was lost and whenever repair overtook reports.
FecCompletedMeansDelivered ==
    phase = "Completed" => \A p \in active : complete_blocks[p] = Blocks

\* Honest receivers never make the sender see two reports of one round, although
\* symbols keep arriving between duplicates of SourceDone.
FecNoSpuriousProtocolError == ~protocol_error

\* The merged target covers every reporter: for each block it has not decoded,
\* at least its present deficit, and never nothing.
FecReportsCoverResidual ==
    \A p \in active : round_reports[p] # FecNone =>
        \A b \in Blocks \ complete_blocks[p] :
            /\ required_extra_symbols[b] >= 1
            /\ required_extra_symbols[b] + Cardinality(symbols[p][b]) >= SymbolsPerBlock

\* The steps of the session are steps of the abstract transfer with membership
\* closed.
Transfer == INSTANCE LosslessTransfer WITH
    Members <- Receivers,
    Object <- Blocks,
    outcome <- IF phase = "Sending" THEN "Running" ELSE phase,
    closed <- TRUE,
    quorum <- active,
    have <- complete_blocks

FecTransferSteps == [][Transfer!TransferNext]_<<phase, active, complete_blocks>>

\* A round of the FEC session is sound: its reports agree, its target covers what
\* they lack, and the round that completes the session leaves nobody without a
\* block (on_need, fec_need, finish_report_round).
FecRoundsSound ==
    FecNoSpuriousProtocolError /\ FecReportsCoverResidual /\ FecCompletedMeansDelivered

-----------------------------------------------------------------------------
(* The inductive invariant behind FecRoundsSound *)

\* What a report of a receiver is worth: it asks for at least one symbol of
\* every block its receiver has not decoded, and for all it lacks now.
AsksForResidual(p, report) ==
    \A b \in Blocks \ complete_blocks[p] :
        /\ report.deficit[b] >= 1
        /\ report.deficit[b] + Cardinality(symbols[p][b]) >= SymbolsPerBlock

\* A Need on the network is of an answered round, and asks for enough.
FecCtrlTruth ==
    \A m \in ctrl :
        /\ m.round <= last_source_done_round_id[m.peer]
        /\ AsksForResidual(m.peer, m.report)

\* A receiver gives one report in each round.
FecOneNeedPerRound ==
    \A m, n \in ctrl : m.peer = n.peer /\ m.round = n.round => m.report = n.report

\* What a receiver, or the runtime in its place, would repeat is on the network.
FecReceiverTruth ==
    \A p \in Receivers :
        /\ last_source_done_round_id[p] # NoRound =>
              FecNeedFrame(p, last_source_done_round_id[p], last_round_need[p]) \in ctrl
        /\ lifecycle[p] = "PassiveComplete" =>
              last_round_need[p] = FecComplete /\ last_source_done_round_id[p] # NoRound
        /\ replay_round[p] # NoRound => FecNeedFrame(p, replay_round[p], FecComplete) \in ctrl

\* A report on record was sent for the open round.
FecRecordTruth ==
    \A p \in Receivers : round_reports[p] # FecNone =>
        FecNeedFrame(p, current_round_id, round_reports[p]) \in ctrl

FecSessionInv ==
    /\ FecSenderInv
    /\ FecReceiverTypeOK
    /\ announced \subseteq Rounds
    /\ ctrl \subseteq FecNeedFrames
    /\ FecCtrlTruth
    /\ FecOneNeedPerRound
    /\ FecReceiverTruth
    /\ FecRecordTruth
    /\ FecNoSpuriousProtocolError
=============================================================================
