---------------------------- MODULE PlainSession ----------------------------
(***************************************************************************)
(* One plain-mode session end to end: the sender, its receivers and the    *)
(* network between them.  The network is the set of frames ever sent: a    *)
(* receiver may be handed any of them at any time, in any order, again and *)
(* again, or never, which covers the loss (full processor channels),       *)
(* duplication and reordering (concurrent lanes, UDP links) of the data    *)
(* plane below.  PlainSessionLive has a network that really loses frames,  *)
(* for liveness.                                                           *)
(***************************************************************************)
EXTENDS PlainSender, PlainReceiver

VARIABLES
    net,        \* frames the sender has multicast
    ctrl        \* Ready and Need frames the receivers have sent back

sessionVars == <<senderVars, receiverVars, net, ctrl>>

ManifestFrame == [type |-> "Manifest", id |-> 0]
Data(b) == [type |-> "Data", id |-> b]
SourceDone(r) == [type |-> "SourceDone", id |-> r]
Frames == {ManifestFrame} \cup {Data(b) : b \in Blocks} \cup {SourceDone(r) : r \in Rounds}

Ready(p) == [type |-> "Ready", peer |-> p, round |-> NoRound, report |-> NoReport]
Need(p, r, report) == [type |-> "Need", peer |-> p, round |-> r, report |-> report]
Controls ==
    {Ready(p) : p \in Receivers}
    \cup {Need(p, r, report) : p \in Receivers, r \in Rounds, report \in WireReports}

SessionTypeOK ==
    /\ SenderTypeOK
    /\ ReceiverTypeOK
    /\ net \subseteq Frames
    /\ ctrl \subseteq Controls

SessionInit ==
    /\ SenderInit
    /\ ReceiverInit
    /\ net = {}
    /\ ctrl = {}

-----------------------------------------------------------------------------
(* Sender steps and what they put on the network *)

\* The frames a step of the send loop emits are the arguments of Emit.
Emit(frames) ==
    /\ net' = net \cup frames
    /\ UNCHANGED <<receiverVars, ctrl>>

Handshake ==
    \/ BeginNegotiation /\ Emit(IF Receivers = {} THEN {} ELSE {ManifestFrame})
    \/ RetryManifest /\ Emit({ManifestFrame})
    \/ FreezeQuorum /\ Emit({})

SendBlock ==
    \E b \in Blocks : (SendSourceBlock(b) \/ SendRetransmitBlock(b)) /\ Emit({Data(b)})

AnnounceRound ==
    (OpenFeedbackRound \/ Solicit) /\ Emit({SourceDone(feedback_open_round_id)})

CloseRound == (CompleteRound \/ AdvanceRound) /\ Emit({})

SenderAborts == (AbortOnProtocolError \/ PeerReportTimeout \/ ControlClosed) /\ Emit({})

DeliverControl(m) ==
    /\ m \in ctrl
    /\ IF m.type = "Ready" THEN HandleReady(m.peer)
       ELSE HandleNeed(m.peer, m.round, m.report)
    /\ UNCHANGED <<receiverVars, net, ctrl>>

-----------------------------------------------------------------------------
(* Receiver steps and what they answer *)

Answer(controls) ==
    /\ ctrl' = ctrl \cup controls
    /\ UNCHANGED <<senderVars, net>>

DeliverManifest(p) ==
    ManifestFrame \in net /\ InstallManifest(p) /\ Answer({Ready(p)})

DeliverData(p) ==
    \E b \in Blocks : Data(b) \in net /\ HandleBlockData(p, b) /\ Answer({})

\* SourceDone reaches the live receiver, or the runtime's replay when the
\* receiver is gone.
DeliverSourceDone(p) ==
    \E r \in Rounds :
        /\ SourceDone(r) \in net
        /\ \/ HandleSourceDone(p, r) /\ Answer({Need(p, r, NeedAnswer(p, r))})
           \/ IgnoreSourceDone(p, r) /\ Answer({})
           \/ /\ ReplaysSourceDone(p, r)
              /\ UNCHANGED receiverVars
              /\ Answer({Need(p, r, Complete)})

ReceiverEnds(p) == (FinishSession(p) \/ AbortReceiver(p)) /\ Answer({})

SessionNext ==
    \/ Handshake
    \/ SendBlock
    \/ AnnounceRound
    \/ CloseRound
    \/ SenderAborts
    \/ \E m \in ctrl : DeliverControl(m)
    \/ \E p \in Receivers :
          DeliverManifest(p) \/ DeliverData(p) \/ DeliverSourceDone(p) \/ ReceiverEnds(p)

SessionSpec == SessionInit /\ [][SessionNext]_sessionVars

-----------------------------------------------------------------------------
(* Properties *)

\* The session reports Completed only when every member of the frozen quorum
\* holds every block, whatever the network did and whenever receivers went.
CompletedMeansDelivered ==
    phase = "Completed" => \A p \in active : complete_blocks[p] = Blocks

\* Loss, duplication and reordering never make honest receivers look like
\* protocol violators: the sender never sees two different Needs of one
\* round from one peer, and never aborts for it.
NoSpuriousProtocolError == ~protocol_error

\* The recorded reports are residual snapshots: together with what was sent
\* again they cover every block a reporting receiver still lacks, so the
\* round that follows can finish the object.
ReportsCoverResidual ==
    \A p \in active :
        feedback_round_open /\ round_reports[p] # NoReport
            => Blocks \ complete_blocks[p] \subseteq required_blocks

\* A receiver never gets ahead of the sender: the rounds it has answered, live
\* or through the runtime's replay, are at most the sender's open round, and it
\* has answered that one only once the sender has opened it.
RoundsInStep ==
    \A p \in Receivers :
        /\ last_source_done_round_id[p] <= feedback_open_round_id
        /\ last_source_done_round_id[p] = feedback_open_round_id => feedback_round_open
                \/ feedback_open_round_id = MaxRound

\* The Needs of one receiver form one growing story: one distinct report per
\* round, and a later round never misses a block an earlier one had.
OneNeedPerRound ==
    \A p \in Receivers, r \in Rounds, a \in WireReports :
        Need(p, r, a) \in ctrl =>
            \A s \in Rounds, b \in WireReports :
                Need(p, s, b) \in ctrl =>
                    /\ r = s => a = b
                    /\ r < s => b.missing \subseteq a.missing

\* The protocol implements the abstract transfer.
Transfer == INSTANCE LosslessTransfer WITH
    Members <- Receivers,
    Object <- Blocks,
    outcome <- IF phase \in {"Completed", "Aborted"} THEN phase ELSE "Running",
    closed <- phase \notin {"WaitTopology", "Negotiating"},
    quorum <- active,
    have <- complete_blocks

TransferSpec == Transfer!TransferSpec

-----------------------------------------------------------------------------
(* The inductive invariant behind these properties. *)

\* Payload is on the network only once membership is closed, and SourceDone
\* only for rounds the sender has opened (the last round id is opened again
\* when the counter saturates).
NetTruth ==
    /\ \A b \in Blocks : Data(b) \in net => phase \notin {"WaitTopology", "Negotiating"}
    /\ \A r \in Rounds : SourceDone(r) \in net =>
          /\ r <= feedback_open_round_id
          /\ r = feedback_open_round_id => feedback_round_open \/ r = MaxRound

\* Every Need on the network is a valid report of a round its receiver has
\* answered, and misses at least what the receiver still lacks; the cached
\* report is the one that was sent for the last round.
CtrlTruth ==
    \A p \in Receivers, r \in Rounds, report \in WireReports :
        Need(p, r, report) \in ctrl =>
            /\ ValidNeed(report)
            /\ r <= last_source_done_round_id[p]
            /\ r = last_source_done_round_id[p] => report = last_round_need[p]
            /\ Blocks \ complete_blocks[p] \subseteq report.missing

\* What receiver p has announced is what it has cached and sent, for rounds the
\* sender has opened.
AnnouncedTruth(p) ==
    /\ last_source_done_round_id[p] # NoRound =>
          /\ last_round_need[p] \in WireReports
          /\ Need(p, last_source_done_round_id[p], last_round_need[p]) \in ctrl
          /\ last_source_done_round_id[p] <= feedback_open_round_id
          /\ last_source_done_round_id[p] = feedback_open_round_id
                => feedback_round_open \/ feedback_open_round_id = MaxRound
    /\ lifecycle[p] = "PassiveComplete" => complete_reported[p]
    /\ complete_reported[p] <=>
          last_source_done_round_id[p] # NoRound /\ last_round_need[p] = Complete
    /\ replay_round[p] # NoRound =>
          /\ replay_round[p] = last_source_done_round_id[p]
          /\ complete_reported[p]
          /\ lifecycle[p] = "SessionFinished"

ReceiverTruth == \A p \in Receivers : AnnouncedTruth(p)

\* What the sender has on record, its peer has sent for the open round.
RecordTruth ==
    \A p \in Receivers : round_reports[p] # NoReport =>
        Need(p, feedback_open_round_id, round_reports[p]) \in ctrl

SessionInv ==
    /\ SessionTypeOK
    /\ SenderInv
    /\ NetTruth
    /\ CtrlTruth
    /\ OneNeedPerRound
    /\ ReceiverTruth
    /\ RecordTruth
    /\ NoSpuriousProtocolError
=============================================================================
