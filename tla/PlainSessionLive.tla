--------------------------- MODULE PlainSessionLive ---------------------------
(***************************************************************************)
(* The plain-mode session over a network that delivers each frame once or  *)
(* loses it, for the questions "does it end" and "why".  What can go wrong *)
(* is charged to a budget of MaxFaults: a frame, either way, is lost;      *)
(* SourceDone overtakes payload sent before it (a concurrent processor     *)
(* lane); a receiver's session is aborted.                                 *)
(*                                                                         *)
(* The budget is what makes the questions meaningful: on a link that loses *)
(* everything for ever no sender can finish.  A round is followed by       *)
(* another only after a fault, so MaxRound >= MaxFaults keeps the round    *)
(* counter away from the value at which it saturates.                      *)
(***************************************************************************)
EXTENDS PlainSender, PlainReceiver

CONSTANT MaxFaults

ASSUME MaxFaultsAssumption == MaxFaults \in Nat /\ MaxFaults <= MaxRound

VARIABLES
    link,       \* [Receivers -> frames in flight to that receiver]
    back,       \* Ready and Need frames in flight to the sender
    faults      \* losses, overtakings and crashes so far

liveVars == <<senderVars, receiverVars, link, back, faults>>

ManifestFrame == [type |-> "Manifest", id |-> 0]
Data(b) == [type |-> "Data", id |-> b]
SourceDone(r) == [type |-> "SourceDone", id |-> r]
Ready(p) == [type |-> "Ready", peer |-> p, round |-> NoRound, report |-> NoReport]
Need(p, r, report) == [type |-> "Need", peer |-> p, round |-> r, report |-> report]

LiveInit ==
    /\ SenderInit
    /\ ReceiverInit
    /\ link = [p \in Receivers |-> {}]
    /\ back = {}
    /\ faults = 0

-----------------------------------------------------------------------------
Multicast(frames) ==
    /\ link' = [p \in Receivers |-> link[p] \cup frames]
    /\ UNCHANGED <<receiverVars, back, faults>>

Negotiate == BeginNegotiation /\ Multicast({ManifestFrame})
ResendManifest == RetryManifest /\ Multicast({ManifestFrame})
OpenGate == FreezeQuorum /\ Multicast({})
SendBlock ==
    \E b \in Blocks : (SendSourceBlock(b) \/ SendRetransmitBlock(b)) /\ Multicast({Data(b)})
AnnounceRound == OpenFeedbackRound /\ Multicast({SourceDone(feedback_open_round_id)})
SolicitAgain == Solicit /\ Multicast({SourceDone(feedback_open_round_id)})
CloseRound == (CompleteRound \/ AdvanceRound) /\ Multicast({})
TimeOut == PeerReportTimeout /\ Multicast({})

HearControl(m) ==
    /\ m \in back
    /\ back' = back \ {m}
    /\ IF m.type = "Ready" THEN HandleReady(m.peer)
       ELSE HandleNeed(m.peer, m.round, m.report)
    /\ UNCHANGED <<receiverVars, link, faults>>

-----------------------------------------------------------------------------
\* Receiver p takes frame f off its link and answers with `controls`.
Take(p, f, controls) ==
    /\ link' = [link EXCEPT ![p] = @ \ {f}]
    /\ back' = back \cup controls
    /\ UNCHANGED senderVars

DataInFlight(p) == \E f \in link[p] : f.type = "Data"

HearFrame(p, f) ==
    /\ f \in link[p]
    /\ \/ /\ f.type = "Manifest"
          /\ InstallManifest(p)
          /\ Take(p, f, {Ready(p)})
          /\ UNCHANGED faults
       \/ /\ f.type = "Data"
          /\ HandleBlockData(p, f.id)
          /\ Take(p, f, {})
          /\ UNCHANGED faults
       \/ /\ f.type = "SourceDone"
          /\ IF DataInFlight(p) THEN faults < MaxFaults /\ faults' = faults + 1
             ELSE UNCHANGED faults
          /\ \/ HandleSourceDone(p, f.id) /\ Take(p, f, {Need(p, f.id, NeedAnswer(p, f.id))})
             \/ IgnoreSourceDone(p, f.id) /\ Take(p, f, {})
       \/ /\ ~Live(p)
          /\ Take(p, f, IF f.type = "SourceDone" /\ ReplaysSourceDone(p, f.id)
                        THEN {Need(p, f.id, Complete)} ELSE {})
          /\ UNCHANGED <<receiverVars, faults>>

Finish(p) ==
    /\ FinishSession(p)
    /\ UNCHANGED <<senderVars, link, back, faults>>

\* The session is aborted on p's node, or the node goes down.
Crash(p) ==
    /\ faults < MaxFaults
    /\ faults' = faults + 1
    /\ AbortReceiver(p)
    /\ UNCHANGED <<senderVars, link, back>>

\* The frame is dropped: a full processor or scheduler queue, or the wire.
Lose ==
    /\ faults < MaxFaults
    /\ faults' = faults + 1
    /\ \/ \E p \in Receivers : \E f \in link[p] :
             link' = [link EXCEPT ![p] = @ \ {f}] /\ UNCHANGED back
       \/ \E m \in back : back' = back \ {m} /\ UNCHANGED link
    /\ UNCHANGED <<senderVars, receiverVars>>

Done == phase \in {"Completed", "Aborted"}

\* The session stays as it is once the sender is done and nothing is left in
\* flight or to time out.
LiveNext ==
    \/ Negotiate \/ ResendManifest \/ OpenGate
    \/ SendBlock \/ AnnounceRound \/ SolicitAgain \/ CloseRound \/ TimeOut
    \/ \E m \in back : HearControl(m)
    \/ \E p \in Receivers :
          \/ \E f \in link[p] : HearFrame(p, f)
          \/ Finish(p)
          \/ Crash(p)
    \/ Lose

-----------------------------------------------------------------------------
(* Fairness.  The sender task is always scheduled again (tokio), its Ready *)
(* grace and solicitation timers fire, and a frame that is not lost is     *)
(* handled.  Nothing obliges a frame to be lost or a receiver to crash.    *)

Frames == {ManifestFrame} \cup {Data(b) : b \in Blocks} \cup {SourceDone(r) : r \in Rounds}

TaskFairness ==
    /\ WF_liveVars(Negotiate)
    /\ WF_liveVars(ResendManifest)
    /\ WF_liveVars(OpenGate)
    /\ WF_liveVars(SendBlock)
    /\ WF_liveVars(AnnounceRound)
    /\ WF_liveVars(SolicitAgain)
    /\ WF_liveVars(CloseRound)
    /\ \A p \in Receivers : \A f \in Frames : WF_liveVars(HearFrame(p, f))
    /\ \A p \in Receivers : WF_liveVars(\E m \in back : m.peer = p /\ HearControl(m))

\* The peer_report_timeout and session_finish_timeout timers fire as well.
TimerFairness ==
    /\ WF_liveVars(TimeOut)
    /\ \A p \in Receivers : WF_liveVars(Finish(p))

LiveSpec == LiveInit /\ [][LiveNext]_liveVars /\ TaskFairness

-----------------------------------------------------------------------------
(* Properties *)

\* While every receiver stays up, the round protocol alone brings the sender
\* to an end: solicitation recovers lost SourceDone and Need frames, rounds
\* recover lost payload, and the sender need not rely on its timeout.
EndsWithoutTimeout == <>(Done \/ \E p \in Receivers : ~Live(p))

\* A silent quorum member cannot stall the session: with the peer report
\* timeout running, the sender ends even when receivers crash or leave.
SenderTerminates == TimerFairness => <>Done

\* After a completed session every quorum member leaves its passive state and
\* its session entry is released.
CompletedReleasesReceivers ==
    TimerFairness => (phase = "Completed" ~> \A p \in active : ~Live(p))

\* With the timers running everybody ends: the sender whatever becomes of the
\* others, and after a completed session every member of its quorum.
SessionReleased == SenderTerminates /\ CompletedReleasesReceivers
=============================================================================
