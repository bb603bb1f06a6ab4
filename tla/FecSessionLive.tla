--------------------------- MODULE FecSessionLive ---------------------------
(***************************************************************************)
(* The FEC-mode session over links that deliver frames in order unless a   *)
(* fault happens: a frame, either way, is lost; a frame overtakes the one  *)
(* before it; the RaptorQ decoder fails on enough symbols; a receiver's    *)
(* session is aborted.  Faults are bounded by MaxFaults, as no sender can  *)
(* finish on a link that loses everything for ever, and every round but    *)
(* the first takes one, so that MaxRound >= MaxFaults keeps the round      *)
(* counter below the value at which it saturates.                          *)
(***************************************************************************)
EXTENDS FecSender, FecReceiver, Sequences, SequencesExt

CONSTANT MaxFaults

ASSUME MaxFaultsAssumption == MaxFaults \in Nat /\ MaxFaults <= MaxRound

VARIABLES
    link,       \* [Receivers -> sequence of frames in flight to that receiver]
    back,       \* Need frames in flight to the sender
    faults

fecLiveVars == <<fecSenderVars, fecReceiverVars, link, back, faults>>

Symbol(b, s) == [type |-> "Symbol", block |-> b, id |-> s]
SourceDone(r) == [type |-> "SourceDone", block |-> 0, id |-> r]
FecNeedFrame(p, r, report) == [peer |-> p, round |-> r, report |-> report]

\* Every receiver has joined.
FecLiveInit ==
    /\ FecSenderInit
    /\ active = Receivers
    /\ FecReceiverStartsWith(Receivers)
    /\ link = [p \in Receivers |-> << >>]
    /\ back = {}
    /\ faults = 0

Fault == faults < MaxFaults /\ faults' = faults + 1

-----------------------------------------------------------------------------
\* A duplicate of a frame that is still in flight adds nothing to it.
Put(frame) ==
    /\ link' = [p \in Receivers |->
                   IF Contains(link[p], frame) THEN link[p] ELSE Append(link[p], frame)]
    /\ UNCHANGED <<fecReceiverVars, back, faults>>
Quiet == UNCHANGED <<fecReceiverVars, link, back, faults>>

EmitSource == \E b \in Blocks : SendSourceSymbol(b) /\ Put(Symbol(b, next_source_symbol[b]))
EmitExtra == \E b \in Blocks : SendExtraSymbol(b) /\ Put(Symbol(b, next_fountain_symbol[b]))
OpenRound == BeginReportRound /\ Put(SourceDone(current_round_id))
SolicitAgain == FecSolicit /\ Put(SourceDone(current_round_id))
EndRound == EndReportRound /\ Quiet
LeaveLoop == FinishTransfer /\ Quiet
TimeOut == FecReportTimeout /\ Quiet

HearNeed(m) ==
    /\ m \in back
    /\ back' = back \ {m}
    /\ IF phase = "Sending" THEN HandleFecNeed(m.peer, m.round, m.report)
       ELSE UNCHANGED fecSenderVars
    /\ UNCHANGED <<fecReceiverVars, link, faults>>

-----------------------------------------------------------------------------
DecoderFails(p, f, decoded) ==
    ~decoded /\ TRUE \in DecodeOutcomes(symbols[p][f.block] \cup {f.id})

\* Receiver p takes frame f; overtaking says whether it came out of order.
TakeSymbol(p, f, overtaking) ==
    /\ f.type = "Symbol"
    /\ \/ /\ IgnoresSymbol(p, f.block, f.id)
          /\ UNCHANGED fecReceiverVars
          /\ IF overtaking THEN Fault ELSE UNCHANGED faults
       \/ \E decoded \in BOOLEAN :
             /\ HandleBlockSymbol(p, f.block, f.id, decoded)
             /\ IF overtaking \/ DecoderFails(p, f, decoded) THEN Fault ELSE UNCHANGED faults
    /\ UNCHANGED back

TakeSourceDone(p, f, overtaking) ==
    /\ f.type = "SourceDone"
    /\ \/ /\ HandleFecSourceDone(p, f.id)
          /\ back' = back \cup {FecNeedFrame(p, f.id, FecAnswer(p, f.id))}
       \/ /\ ~AnswersFecSourceDone(p, f.id)
          /\ back' = IF ReplaysFecSourceDone(p, f.id)
                     THEN back \cup {FecNeedFrame(p, f.id, FecComplete)} ELSE back
          /\ UNCHANGED fecReceiverVars
    /\ IF overtaking THEN Fault ELSE UNCHANGED faults

HearAt(p, i) ==
    /\ i \in DOMAIN link[p]
    /\ link' = [link EXCEPT ![p] = RemoveAt(@, i)]
    /\ TakeSymbol(p, link[p][i], i > 1) \/ TakeSourceDone(p, link[p][i], i > 1)
    /\ UNCHANGED fecSenderVars

Hear(p) == HearAt(p, 1)
HearEarly(p) == HearAt(p, 2)

Finish(p) == FinishFecSession(p) /\ UNCHANGED <<fecSenderVars, link, back, faults>>
Crash(p) == AbortFecReceiver(p) /\ Fault /\ UNCHANGED <<fecSenderVars, link, back>>

Lose ==
    /\ Fault
    /\ \/ \E p \in Receivers : \E i \in DOMAIN link[p] :
             link' = [link EXCEPT ![p] = RemoveAt(@, i)] /\ UNCHANGED back
       \/ \E m \in back : back' = back \ {m} /\ UNCHANGED link
    /\ UNCHANGED <<fecSenderVars, fecReceiverVars>>

FecLiveNext ==
    \/ EmitSource \/ EmitExtra
    \/ OpenRound \/ SolicitAgain \/ EndRound \/ LeaveLoop \/ TimeOut
    \/ \E m \in back : HearNeed(m)
    \/ \E p \in Receivers : Hear(p) \/ HearEarly(p) \/ Finish(p) \/ Crash(p)
    \/ Lose

-----------------------------------------------------------------------------
(* Fairness: the sender task runs whenever it can (a refused symbol is     *)
(* offered again after IDLE_WAIT), its solicitation timer fires, and       *)
(* frames that are not lost are handled.                                   *)

FecTaskFairness ==
    /\ WF_fecLiveVars(EmitSource)
    /\ WF_fecLiveVars(EmitExtra)
    /\ WF_fecLiveVars(OpenRound)
    /\ WF_fecLiveVars(SolicitAgain)
    /\ WF_fecLiveVars(EndRound)
    /\ WF_fecLiveVars(LeaveLoop)
    /\ \A p \in Receivers : WF_fecLiveVars(Hear(p))
    /\ \A p \in Receivers : WF_fecLiveVars(\E m \in back : m.peer = p /\ HearNeed(m))

FecLiveSpec == FecLiveInit /\ [][FecLiveNext]_fecLiveVars /\ FecTaskFairness

-----------------------------------------------------------------------------
(* Properties *)

\* Repair and solicitation alone bring the session to its end while the
\* receivers stay up: no combination of lost reports, lost symbols, failed
\* decodings and reordering makes the sender depend on its timeout.
FecEndsWithoutTimeout ==
    <>(phase # "Sending" \/ \E p \in Receivers : lifecycle[p] = "SessionFinished")

\* With the timeout running the sender ends even when a quorum member is gone.
FecSenderTerminates == WF_fecLiveVars(TimeOut) => <>(phase # "Sending")

\* A new round takes a new fault: on a clean link one round is enough, however
\* early the first report starts the repair.
RoundsCostFaults == current_round_id <= faults

\* The FEC session ends: by itself while the receivers stay up, by the peer
\* report timeout otherwise (wait_for_report in run).
FecSessionEnds == FecEndsWithoutTimeout /\ FecSenderTerminates
=============================================================================
