---------------------------- MODULE PlainReceiver ----------------------------
(***************************************************************************)
(* The receivers of one plain-mode lossless session                        *)
(* (dataplane/src/node/session/receiver/{mod,plain}.rs) and, once such a   *)
(* receiver has exited, the replay the runtime answers with in its place   *)
(* (session/runtime.rs).  Every variable is indexed by the receiver's node *)
(* id; the operations of one receiver touch only its own entries.          *)
(*                                                                         *)
(* A manifest is a model value; SessionManifest is the plain manifest that *)
(* describes Blocks, any other value stands for a manifest that conflicts  *)
(* with it.                                                                *)
(***************************************************************************)
EXTENDS SessionReports

CONSTANTS SessionManifest, NoManifest

ASSUME ManifestAssumption == SessionManifest # NoManifest

VARIABLES
    lifecycle,                  \* "Active", "PassiveComplete", "SessionFinished"
    manifest,                   \* installed manifest or NoManifest
    complete_blocks,
    complete_reported,
    last_source_done_round_id,  \* NoRound before the first SourceDone
    last_round_need,            \* cached report, NoReport before the first
    replay_round                \* completed_receivers entry of the runtime, or NoRound

receiverVars == <<lifecycle, manifest, complete_blocks, complete_reported,
                  last_source_done_round_id, last_round_need, replay_round>>

ReceiverTypeOK ==
    /\ lifecycle \in [Receivers -> {"Active", "PassiveComplete", "SessionFinished"}]
    /\ manifest \in [Receivers -> {SessionManifest, NoManifest}]
    /\ complete_blocks \in [Receivers -> SUBSET Blocks]
    /\ complete_reported \in [Receivers -> BOOLEAN]
    /\ last_source_done_round_id \in [Receivers -> Rounds \cup {NoRound}]
    /\ last_round_need \in [Receivers -> WireReports \cup {NoReport}]
    /\ replay_round \in [Receivers -> Rounds \cup {NoRound}]

\* Receivers that hold manifest m and nothing else
ReceiverStartsWith(m) ==
    /\ lifecycle = [p \in Receivers |-> "Active"]
    /\ manifest = [p \in Receivers |-> m]
    /\ complete_blocks = [p \in Receivers |-> {}]
    /\ complete_reported = [p \in Receivers |-> FALSE]
    /\ last_source_done_round_id = [p \in Receivers |-> NoRound]
    /\ last_round_need = [p \in Receivers |-> NoReport]
    /\ replay_round = [p \in Receivers |-> NoRound]

ReceiverInit == ReceiverStartsWith(NoManifest)

Live(p) == lifecycle[p] # "SessionFinished"

-----------------------------------------------------------------------------
(* Operations of a live receiver *)

\* install_manifest: the first manifest is installed (and Ready sent), the
\* same one again only repeats Ready.  A manifest that conflicts with the
\* installed one is ignored, as is one whose sink buffer cannot be reserved;
\* both leave the receiver as it was, like a frame that never arrived.
InstallManifest(p) ==
    /\ Live(p)
    /\ manifest' = [manifest EXCEPT ![p] = SessionManifest]
    /\ UNCHANGED <<lifecycle, complete_blocks, complete_reported,
                   last_source_done_round_id, last_round_need, replay_round>>

\* PlainReceiver::handle_block_data_frame: ignored before the manifest,
\* outside the plan or when already stored.
HandleBlockData(p, b) ==
    /\ Live(p)
    /\ complete_blocks' =
           [complete_blocks EXCEPT ![p] =
               IF manifest[p] = SessionManifest /\ b \in Blocks THEN @ \cup {b} ELSE @]
    /\ UNCHANGED <<lifecycle, manifest, complete_reported,
                   last_source_done_round_id, last_round_need, replay_round>>

\* Slip: duplicates are not answered
AnswersNewSourceDone(p, r) ==
    Live(p) /\ manifest[p] = SessionManifest /\ r > last_source_done_round_id[p]

\* SourceDone is answered unless no manifest is installed or it is stale.
AnswersSourceDone(p, r) ==
    /\ Live(p)
    /\ manifest[p] = SessionManifest
    /\ r >= last_source_done_round_id[p]

\* Slip: a duplicate SourceDone gets a fresh snapshot
NeedAnswerFresh(p, r) == PlainNeed(complete_blocks[p])

\* The Need sent in answer: the cached one for a duplicate SourceDone, a
\* fresh snapshot for a new round.
NeedAnswer(p, r) ==
    IF r = last_source_done_round_id[p] THEN last_round_need[p]
    ELSE PlainNeed(complete_blocks[p])

\* PlainReceiver::handle_source_done followed by the lifecycle test at the
\* end of the receive loop (enter_passive_complete).
HandleSourceDone(p, r) ==
    LET report == NeedAnswer(p, r) IN
    /\ AnswersSourceDone(p, r)
    /\ last_source_done_round_id' = [last_source_done_round_id EXCEPT ![p] = r]
    /\ last_round_need' = [last_round_need EXCEPT ![p] = report]
    /\ complete_reported' = [complete_reported EXCEPT ![p] = (report = Complete)]
    /\ lifecycle' = [lifecycle EXCEPT ![p] = IF report = Complete
                                             THEN "PassiveComplete" ELSE @]
    /\ UNCHANGED <<manifest, complete_blocks, replay_round>>

IgnoreSourceDone(p, r) ==
    /\ Live(p)
    /\ ~AnswersSourceDone(p, r)
    /\ UNCHANGED receiverVars

\* session_finish_timeout passes without a frame: the receiver leaves its
\* loop and hands its last round to the runtime (register_completed_replay).
FinishSession(p) ==
    /\ lifecycle[p] = "PassiveComplete"
    /\ lifecycle' = [lifecycle EXCEPT ![p] = "SessionFinished"]
    /\ replay_round' = [replay_round EXCEPT ![p] =
                            IF complete_reported[p] THEN last_source_done_round_id[p]
                            ELSE @]
    /\ UNCHANGED <<manifest, complete_blocks, complete_reported,
                   last_source_done_round_id, last_round_need>>

\* The session is aborted on the receiver's node: the task ends and the
\* runtime keeps no replay for it.
AbortReceiver(p) ==
    /\ Live(p)
    /\ lifecycle' = [lifecycle EXCEPT ![p] = "SessionFinished"]
    /\ UNCHANGED <<manifest, complete_blocks, complete_reported,
                   last_source_done_round_id, last_round_need, replay_round>>

\* LosslessRuntime::replay_completed_receiver: only a duplicate of the cached
\* round is answered, with Complete.
ReplaysSourceDone(p, r) == ~Live(p) /\ replay_round[p] = r

-----------------------------------------------------------------------------
(* Properties *)

\* A receiver that announced completion, live or replayed by the runtime,
\* holds the whole object.
CompleteIsTrue ==
    \A p \in Receivers :
        /\ complete_reported[p] => complete_blocks[p] = Blocks
        /\ replay_round[p] # NoRound => complete_blocks[p] = Blocks
        /\ lifecycle[p] = "PassiveComplete" => complete_reported[p]
=============================================================================
