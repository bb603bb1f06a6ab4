----------------------------- MODULE FecReceiver -----------------------------
(***************************************************************************)
(* The receivers of one FEC-mode lossless session                          *)
(* (dataplane/src/node/session/receiver/{mod,fec}.rs), indexed by node id: *)
(* symbols are collected until a block decodes, and SourceDone is answered *)
(* with the symbols each undecoded block still lacks.  The receive loop    *)
(* around it is the one of PlainReceiver.                                  *)
(***************************************************************************)
EXTENDS FecReports, FiniteSets

VARIABLES
    lifecycle,                  \* "Active", "PassiveComplete", "SessionFinished"
    installed,                  \* receivers that hold the manifest
    symbols,                    \* [Receivers -> [Blocks -> set of symbol ids]]
    complete_blocks,
    last_source_done_round_id,
    last_round_need,
    replay_round                \* completed_receivers entry of the runtime

fecReceiverVars == <<lifecycle, installed, symbols, complete_blocks,
                     last_source_done_round_id, last_round_need, replay_round>>

FecReceiverTypeOK ==
    /\ lifecycle \in [Receivers -> {"Active", "PassiveComplete", "SessionFinished"}]
    /\ installed \subseteq Receivers
    /\ symbols \in [Receivers -> [Blocks -> SUBSET SymbolIds]]
    /\ complete_blocks \in [Receivers -> SUBSET Blocks]
    /\ last_source_done_round_id \in [Receivers -> Rounds \cup {NoRound}]
    /\ last_round_need \in [Receivers -> FecWireReports \cup {FecNone}]
    /\ replay_round \in [Receivers -> Rounds \cup {NoRound}]

\* Those of `ready` have installed the manifest.
FecReceiverStartsWith(ready) ==
    /\ lifecycle = [p \in Receivers |-> "Active"]
    /\ installed = ready
    /\ symbols = [p \in Receivers |-> [b \in Blocks |-> {}]]
    /\ complete_blocks = [p \in Receivers |-> {}]
    /\ last_source_done_round_id = [p \in Receivers |-> NoRound]
    /\ last_round_need = [p \in Receivers |-> FecNone]
    /\ replay_round = [p \in Receivers |-> NoRound]

Live(p) == lifecycle[p] # "SessionFinished"

InstallFecManifest(p) ==
    /\ Live(p)
    /\ installed' = installed \cup {p}
    /\ UNCHANGED <<lifecycle, symbols, complete_blocks, last_source_done_round_id,
                   last_round_need, replay_round>>

-----------------------------------------------------------------------------
(* Symbols *)

\* try_decode_fec_block on the symbols held of one block.  All source symbols
\* are the block itself; any other set of SymbolsPerBlock or more is given to
\* the RaptorQ decoder, which may fail.
DecodeOutcomes(held) ==
    IF Cardinality(held) < SymbolsPerBlock THEN {FALSE}
    ELSE IF 0 .. (SymbolsPerBlock - 1) \subseteq held THEN {TRUE} ELSE {TRUE, FALSE}

\* FecReceiver::handle_block_symbol_frame; the symbols of a decoded block are
\* dropped.  decoded is the outcome of the decoder.
HandleBlockSymbol(p, b, s, decoded) ==
    LET held == symbols[p][b] \cup {s} IN
    /\ Live(p)
    /\ p \in installed
    /\ b \notin complete_blocks[p]
    /\ s \notin symbols[p][b]
    /\ decoded \in DecodeOutcomes(held)
    /\ complete_blocks' = [complete_blocks EXCEPT ![p] = IF decoded THEN @ \cup {b} ELSE @]
    /\ symbols' = [symbols EXCEPT ![p][b] = IF decoded THEN {} ELSE held]
    /\ UNCHANGED <<lifecycle, installed, last_source_done_round_id, last_round_need,
                   replay_round>>

\* Before the manifest, for a decoded block, a symbol held already, or in a
\* session that is gone: nothing changes.
IgnoresSymbol(p, b, s) ==
    ~Live(p) \/ p \notin installed \/ b \in complete_blocks[p] \/ s \in symbols[p][b]

-----------------------------------------------------------------------------
(* Reports *)

BlockDeficit(p, b) ==
    LET present == Cardinality(symbols[p][b]) IN
    IF present >= SymbolsPerBlock THEN 1 ELSE SymbolsPerBlock - present

\* FecReceiver::need_report
FecNeedReport(p) ==
    IF Blocks \subseteq complete_blocks[p] THEN FecComplete
    ELSE FecNeed([b \in ListedIds |-> IF b \in Blocks \ complete_blocks[p]
                                      THEN BlockDeficit(p, b) ELSE 0])

\* Slip: duplicates are not answered
AnswersNewFecSourceDone(p, r) ==
    Live(p) /\ p \in installed /\ r > last_source_done_round_id[p]

AnswersFecSourceDone(p, r) ==
    /\ Live(p)
    /\ p \in installed
    /\ r >= last_source_done_round_id[p]

\* Slip: a duplicate SourceDone gets a fresh snapshot
FecAnswerFresh(p, r) == FecNeedReport(p)

\* The cached report for a duplicate SourceDone, a fresh one for a new round
FecAnswer(p, r) ==
    IF r = last_source_done_round_id[p] THEN last_round_need[p] ELSE FecNeedReport(p)

\* FecReceiver::handle_source_done, then the lifecycle test of the receive loop
HandleFecSourceDone(p, r) ==
    /\ AnswersFecSourceDone(p, r)
    /\ last_source_done_round_id' = [last_source_done_round_id EXCEPT ![p] = r]
    /\ last_round_need' = [last_round_need EXCEPT ![p] = FecAnswer(p, r)]
    /\ lifecycle' = [lifecycle EXCEPT ![p] =
                         IF FecAnswer(p, r) = FecComplete THEN "PassiveComplete" ELSE @]
    /\ UNCHANGED <<installed, symbols, complete_blocks, replay_round>>

\* session_finish_timeout passes; the runtime takes the last round over.
FinishFecSession(p) ==
    /\ lifecycle[p] = "PassiveComplete"
    /\ lifecycle' = [lifecycle EXCEPT ![p] = "SessionFinished"]
    /\ replay_round' = [replay_round EXCEPT ![p] = last_source_done_round_id[p]]
    /\ UNCHANGED <<installed, symbols, complete_blocks, last_source_done_round_id,
                   last_round_need>>

AbortFecReceiver(p) ==
    /\ Live(p)
    /\ lifecycle' = [lifecycle EXCEPT ![p] = "SessionFinished"]
    /\ UNCHANGED <<installed, symbols, complete_blocks, last_source_done_round_id,
                   last_round_need, replay_round>>

ReplaysFecSourceDone(p, r) == ~Live(p) /\ replay_round[p] = r
=============================================================================
