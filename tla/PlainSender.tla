----------------------------- MODULE PlainSender -----------------------------
(***************************************************************************)
(* The sender of one plain-mode lossless session                           *)
(* (dataplane/src/node/session/sender/{mod,state,plain}.rs): the topology  *)
(* gate, the Manifest/Ready handshake that freezes the active quorum, the  *)
(* source burst, and the feedback rounds that drive retransmission.        *)
(*                                                                         *)
(* The module stands on its own against an arbitrary environment (Ready    *)
(* and Need frames from any peer, in any order, with any content the       *)
(* decoder lets through); PlainSession composes it with receivers.         *)
(***************************************************************************)
EXTENDS SessionReports, FiniteSets

CONSTANT Peers      \* every node id a control frame may carry as its peer id

ASSUME ReceiversAssumption == Receivers \subseteq Peers /\ IsFiniteSet(Receivers)

VARIABLES
    phase,                      \* where SessionSender::run stands
    abort_reason,               \* the reason logged with an abort
    active,                     \* active_quorum.active
    source_cursor,
    feedback_open_round_id,
    current_burst_id,
    feedback_round_open,
    round_reports,              \* [Peers -> report], NoReport where absent
    required_blocks,
    emitted_blocks,
    queued_retransmit_blocks,
    next_burst_nonempty,
    protocol_error,
    wait_started                \* quorum_liveness.started_at is Some

handshakeVars == <<phase, abort_reason, active>>
burstVars == <<source_cursor, feedback_open_round_id, current_burst_id,
               feedback_round_open>>
workVars == <<round_reports, required_blocks, emitted_blocks,
              queued_retransmit_blocks, next_burst_nonempty>>
senderVars == <<handshakeVars, burstVars, workVars, protocol_error, wait_started>>

Phases == {"WaitTopology", "Negotiating", "Sending", "Completed", "Aborted"}
AbortReasons == {"None", "PeerReportTimeout", "ProtocolError", "ControlClosed",
                 "WaitNotStarted"}

SenderTypeOK ==
    /\ phase \in Phases
    /\ abort_reason \in AbortReasons
    /\ active \subseteq Receivers
    /\ source_cursor \in 0 .. TotalBlocks
    /\ feedback_open_round_id \in Rounds
    /\ current_burst_id \in Rounds
    /\ feedback_round_open \in BOOLEAN
    /\ round_reports \in [Peers -> WireReports \cup {NoReport}]
    /\ required_blocks \subseteq Blocks
    /\ emitted_blocks \subseteq Blocks
    /\ queued_retransmit_blocks \subseteq Blocks
    /\ next_burst_nonempty \in BOOLEAN
    /\ protocol_error \in BOOLEAN
    /\ wait_started \in BOOLEAN

\* A sender that has sent no payload yet, in phase ph with quorum members
SenderStartsIn(ph, members) ==
    /\ phase = ph
    /\ abort_reason = "None"
    /\ active = members
    /\ source_cursor = 0
    /\ feedback_open_round_id = 0
    /\ current_burst_id = 0
    /\ feedback_round_open = FALSE
    /\ round_reports = [p \in Peers |-> NoReport]
    /\ required_blocks = {}
    /\ emitted_blocks = {}
    /\ queued_retransmit_blocks = {}
    /\ next_burst_nonempty = FALSE
    /\ protocol_error = FALSE
    /\ wait_started = FALSE

SenderInit == SenderStartsIn("WaitTopology", {})

Abort(reason) ==
    /\ phase' = "Aborted"
    /\ abort_reason' = reason

-----------------------------------------------------------------------------
(* Handshake *)

\* wait_topology_ready returns (gate already open, opened, or its watch
\* closed) and negotiate_ready starts: with no configured receiver the empty
\* quorum is frozen at once, otherwise the first Manifest goes out.
BeginNegotiation ==
    /\ phase = "WaitTopology"
    /\ phase' = IF Receivers = {} THEN "Sending" ELSE "Negotiating"
    /\ UNCHANGED <<abort_reason, active, burstVars, workVars, protocol_error, wait_started>>

\* The retry timer of negotiate_ready: only the Manifest is sent again.
RetryManifest ==
    /\ phase = "Negotiating"
    /\ active # Receivers
    /\ UNCHANGED senderVars

\* Every configured receiver is active, or ready_grace has elapsed: the loop
\* ends and the quorum freezes as it is.
FreezeQuorum ==
    /\ phase = "Negotiating"
    /\ phase' = "Sending"
    /\ UNCHANGED <<abort_reason, active, burstVars, workVars, protocol_error, wait_started>>

\* Slip: the freeze is not tested
HandleLateReady(p) ==
    /\ phase \in {"Negotiating", "Sending"}
    /\ active' = IF p \in Receivers THEN active \cup {p} ELSE active
    /\ UNCHANGED <<phase, abort_reason, burstVars, workVars, protocol_error, wait_started>>

\* handle_control on Ready: recorded only before the freeze and only from a
\* configured receiver.
HandleReady(p) ==
    /\ phase \in {"Negotiating", "Sending"}
    /\ active' = IF phase = "Negotiating" /\ p \in Receivers
                 THEN active \cup {p} ELSE active
    /\ UNCHANGED <<phase, abort_reason, burstVars, workVars, protocol_error, wait_started>>

-----------------------------------------------------------------------------
(* Feedback: handle_control on Need, then PlainSender::on_need *)

\* Dropped: not a quorum peer, invalid for the manifest, no feedback round
\* open, or a stale or future round.
DropsNeed(p, r, report) ==
    \/ p \notin active
    \/ ~ValidNeed(report)
    \/ ~feedback_round_open
    \/ r # feedback_open_round_id

\* A second report of this round from the same peer must equal the first.
RepeatNeed(p, report) ==
    /\ round_reports[p] # NoReport
    /\ protocol_error' = (protocol_error \/ round_reports[p] # report)
    /\ UNCHANGED <<handshakeVars, burstVars, workVars, wait_started>>

\* Slip: blocks already required, and perhaps sent again, are queued once more
RequeueNeed(p, report) ==
    /\ round_reports[p] = NoReport
    /\ round_reports' = [round_reports EXCEPT ![p] = report]
    /\ required_blocks' = required_blocks \cup report.missing
    /\ queued_retransmit_blocks' = queued_retransmit_blocks \cup report.missing
    /\ next_burst_nonempty' = (next_burst_nonempty \/ report.missing # {})
    /\ UNCHANGED <<handshakeVars, burstVars, emitted_blocks, protocol_error, wait_started>>

\* Slip: only the round's first report with missing blocks adds work
RecordFirstNeed(p, report) ==
    LET fresh == IF next_burst_nonempty THEN {} ELSE report.missing IN
    /\ round_reports[p] = NoReport
    /\ round_reports' = [round_reports EXCEPT ![p] = report]
    /\ required_blocks' = required_blocks \cup fresh
    /\ queued_retransmit_blocks' = queued_retransmit_blocks \cup fresh
    /\ next_burst_nonempty' = (next_burst_nonempty \/ fresh # {})
    /\ UNCHANGED <<handshakeVars, burstVars, emitted_blocks, protocol_error, wait_started>>

\* The first report: the blocks of a plain report join the round's required
\* work, and those not already sent again in this round are queued.
RecordNeed(p, report) ==
    LET fresh == IF report.kind = "Plain" THEN report.missing \ required_blocks ELSE {}
    IN
    /\ round_reports[p] = NoReport
    /\ round_reports' = [round_reports EXCEPT ![p] = report]
    /\ required_blocks' = required_blocks \cup fresh
    /\ queued_retransmit_blocks' =
           queued_retransmit_blocks \cup (fresh \ emitted_blocks)
    /\ next_burst_nonempty' = (next_burst_nonempty \/ fresh # {})
    /\ current_burst_id' = IF fresh # {} THEN NextRoundId(feedback_open_round_id)
                           ELSE current_burst_id
    /\ protocol_error' = (protocol_error \/ report.kind = "Fec")
    /\ UNCHANGED <<handshakeVars, source_cursor, feedback_open_round_id,
                   feedback_round_open, emitted_blocks, wait_started>>

HandleNeed(p, r, report) ==
    /\ phase \in {"Negotiating", "Sending"}
    /\ IF DropsNeed(p, r, report)
       THEN UNCHANGED senderVars
       ELSE RepeatNeed(p, report) \/ RecordNeed(p, report)

-----------------------------------------------------------------------------
(* The send loop of PlainSender::run, in the order its tests are made.  The *)
(* frames that reach the sender while it is busy are handled between steps. *)

Sending == phase = "Sending" /\ ~protocol_error
SourceExhausted == source_cursor >= TotalBlocks

AbortOnProtocolError ==
    /\ phase = "Sending"
    /\ protocol_error
    /\ Abort("ProtocolError")
    /\ UNCHANGED <<active, burstVars, workVars, protocol_error, wait_started>>

SendSourceBlock(b) ==
    /\ Sending
    /\ ~SourceExhausted
    /\ b = source_cursor
    /\ source_cursor' = source_cursor + 1
    /\ UNCHANGED <<handshakeVars, feedback_open_round_id, current_burst_id,
                   feedback_round_open, workVars, protocol_error, wait_started>>

\* queued_retransmit_blocks.pop_first(), send, then mark the block emitted
SendRetransmitBlock(b) ==
    /\ Sending
    /\ SourceExhausted
    /\ b \in queued_retransmit_blocks
    /\ \A c \in queued_retransmit_blocks : b <= c
    /\ queued_retransmit_blocks' = queued_retransmit_blocks \ {b}
    /\ emitted_blocks' = emitted_blocks \cup {b}
    /\ UNCHANGED <<handshakeVars, burstVars, round_reports, required_blocks,
                   next_burst_nonempty, protocol_error, wait_started>>

NothingToSend == Sending /\ SourceExhausted /\ queued_retransmit_blocks = {}

\* SourceDone(feedback_open_round_id) goes out and the round opens; an empty
\* quorum has nobody to wait for.
OpenFeedbackRound ==
    /\ NothingToSend
    /\ ~feedback_round_open
    /\ feedback_round_open' = TRUE
    /\ phase' = IF active = {} THEN "Completed" ELSE phase
    /\ wait_started' = (active # {})
    /\ UNCHANGED <<abort_reason, active, source_cursor, feedback_open_round_id,
                   current_burst_id, workVars, protocol_error>>

Reported == {p \in Peers : round_reports[p] # NoReport}

\* Slips: waits for the configured receivers; waits for nobody
RoundCanCloseConfigured ==
    Cardinality(Reported) = Cardinality(Receivers) /\ required_blocks \subseteq emitted_blocks
RoundCanCloseEarly == Reported # {} /\ required_blocks \subseteq emitted_blocks

\* PlainSender::round_can_close compares the two counts
RoundCanClose ==
    /\ Cardinality(Reported) = Cardinality(active)
    /\ required_blocks \subseteq emitted_blocks

AllComplete == \A p \in Reported : round_reports[p].kind = "Complete"

CompleteRound ==
    /\ NothingToSend
    /\ feedback_round_open
    /\ RoundCanClose
    /\ AllComplete
    /\ phase' = "Completed"
    /\ wait_started' = FALSE
    /\ UNCHANGED <<abort_reason, active, burstVars, workVars, protocol_error>>

AdvanceRound ==
    /\ NothingToSend
    /\ feedback_round_open
    /\ RoundCanClose
    /\ ~AllComplete
    /\ next_burst_nonempty
    /\ feedback_open_round_id' = NextRoundId(feedback_open_round_id)
    /\ current_burst_id' = NextRoundId(feedback_open_round_id)
    /\ feedback_round_open' = FALSE
    /\ round_reports' = [p \in Peers |-> NoReport]
    /\ required_blocks' = {}
    /\ emitted_blocks' = {}
    /\ queued_retransmit_blocks' = {}
    /\ next_burst_nonempty' = FALSE
    /\ wait_started' = FALSE
    /\ UNCHANGED <<handshakeVars, source_cursor, protocol_error>>

\* The loop reaches wait_for_quorum_feedback.
Waiting ==
    /\ NothingToSend
    /\ feedback_round_open
    /\ ~(RoundCanClose /\ (AllComplete \/ next_burst_nonempty))

\* next_solicitation_at passes before the timeout: SourceDone is sent again.
Solicit ==
    /\ Waiting
    /\ wait_started
    /\ UNCHANGED senderVars

\* Slip: the deadline is armed for the first round only
TimeoutInFirstRound ==
    /\ Waiting
    /\ feedback_open_round_id = 0
    /\ Abort("PeerReportTimeout")
    /\ UNCHANGED <<active, burstVars, workVars, protocol_error, wait_started>>

\* peer_report_timeout has elapsed since the round's first SourceDone; a wait
\* that was never started has no budget and ends at once (Closed).
PeerReportTimeout ==
    /\ Waiting
    /\ Abort(IF wait_started THEN "PeerReportTimeout" ELSE "WaitNotStarted")
    /\ UNCHANGED <<active, burstVars, workVars, protocol_error, wait_started>>

\* The runtime dropped the session's inbox while the sender was blocked on it.
ControlClosed ==
    /\ \/ phase = "Negotiating" /\ active # Receivers
       \/ Waiting /\ wait_started
    /\ Abort("ControlClosed")
    /\ UNCHANGED <<active, burstVars, workVars, protocol_error, wait_started>>

-----------------------------------------------------------------------------
SendLoop ==
    \/ AbortOnProtocolError
    \/ \E b \in Blocks : SendSourceBlock(b) \/ SendRetransmitBlock(b)
    \/ OpenFeedbackRound
    \/ CompleteRound
    \/ AdvanceRound

SenderNext ==
    \/ BeginNegotiation
    \/ RetryManifest
    \/ FreezeQuorum
    \/ SendLoop
    \/ Solicit
    \/ PeerReportTimeout
    \/ ControlClosed
    \/ \E p \in Peers :
          \/ HandleReady(p)
          \/ \E r \in Rounds, report \in WireReports : HandleNeed(p, r, report)

SenderSpec == SenderInit /\ [][SenderNext]_senderVars

-----------------------------------------------------------------------------
(* Properties that hold whatever the peers send. *)

\* The retransmission ledger of the open round adds up: the required blocks
\* are exactly the blocks the recorded reports miss, each of them is either
\* still queued or already sent again, and the round has a next burst exactly
\* when it has work (on_need, next_retransmit_block, advance_round).
RetransmitLedger ==
    /\ required_blocks = UNION {round_reports[p].missing : p \in Peers}
    /\ required_blocks = emitted_blocks \cup queued_retransmit_blocks
    /\ emitted_blocks \cap queued_retransmit_blocks = {}
    /\ next_burst_nonempty <=> (required_blocks # {})

\* The sender blocks in wait_for_quorum_feedback only while a member of the
\* frozen quorum owes its report, and always with a running timeout: a round
\* whose reports are all in either completes or advances.
BlocksOnlyForReports ==
    Waiting => /\ wait_started
               /\ \E p \in active : round_reports[p] = NoReport

\* PlainSender::run returns Completed only when the source burst is out and
\* every member of the frozen quorum reported Complete in the same, last
\* round, although round_can_close only compares counts.
CompletedByQuorum ==
    phase = "Completed" =>
        /\ source_cursor = TotalBlocks
        /\ \A p \in active : round_reports[p] = Complete

\* A step inside one feedback round forgets nothing.
WorkKept ==
    feedback_round_open /\ feedback_round_open' =>
        /\ feedback_open_round_id' = feedback_open_round_id
        /\ active' = active
        /\ required_blocks \subseteq required_blocks'
        /\ emitted_blocks \subseteq emitted_blocks'
        /\ \A p \in Peers : round_reports[p] # NoReport
                             => round_reports'[p] = round_reports[p]

\* While a feedback round stays open, its work only grows: no report, no
\* required block and no emitted block is forgotten, and the quorum the
\* round is measured against does not move.
RoundWorkMonotone == [][WorkKept]_senderVars

-----------------------------------------------------------------------------
(* The inductive invariant behind these properties. *)

\* Only quorum members are on record, with reports the manifest admits, and
\* only while the round is open.
QuorumReports ==
    \A p \in Peers : round_reports[p] # NoReport =>
        /\ feedback_round_open
        /\ p \in active
        /\ ValidNeed(round_reports[p])

\* Where the loop can be when a round is open, and what is true of it then.
LoopPosition ==
    /\ phase \in {"WaitTopology", "Negotiating"} => ~feedback_round_open /\ source_cursor = 0
    /\ feedback_round_open => source_cursor = TotalBlocks
    /\ phase = "Sending" /\ feedback_round_open => wait_started
    /\ abort_reason # "WaitNotStarted"

\* Every property above as one inductive invariant: an aborted or completed
\* sender keeps the ledger it stopped with.
SenderInv ==
    /\ SenderTypeOK
    /\ RetransmitLedger
    /\ QuorumReports
    /\ LoopPosition
    /\ CompletedByQuorum
=============================================================================
