---------------------------- MODULE SessionPlan ----------------------------
(***************************************************************************)
(* How a lossless session is laid out before it starts                     *)
(* (dataplane/src/node/session/plan.rs, fec_policy.rs): the blocks of the  *)
(* object, the symbols of a block, and the checks of the sender's          *)
(* configuration.                                                          *)
(***************************************************************************)
EXTENDS Integers, Sequences

CONSTANTS
    U32Max,         \* largest block size on the wire
    MaxTreeIds      \* MAX_MANIFEST_TREE_IDS

ASSUME LimitsAssumption == U32Max \in Nat /\ MaxTreeIds \in Nat

\* u64::div_ceil
DivCeil(a, n) == (a + n - 1) \div n

\* BlockPlan::new for block_size >= 1
BlockPlan(total, size) ==
    [total_bytes |-> total, block_size |-> size,
     total_blocks |-> IF total = 0 THEN 0 ELSE DivCeil(total, size)]

LastBlockId(plan) == plan.total_blocks - 1
BlockOffset(plan, b) == b * plan.block_size

\* BlockPlan::block_len: the final block is trimmed.
BlockLen(plan, b) ==
    LET tail == plan.total_bytes % plan.block_size
    IN  IF b # LastBlockId(plan) \/ tail = 0 THEN plan.block_size ELSE tail

\* SymbolGeometry::new
SymbolSize(size, symbols) == DivCeil(size, symbols)

\* What the tree ids of a FEC session must be, at the sender and at the receiver
TreeIdsOK(ids) ==
    /\ ids # << >> /\ Len(ids) <= MaxTreeIds
    /\ \A i \in 1 .. Len(ids) - 1 : ids[i] < ids[i + 1]

\* validate_block_size, derive_sender_policy and derive_sender_tree_ids
PreflightOK(c) ==
    /\ c.block_size \in 1 .. U32Max
    /\ c.fec_enabled => c.symbols_per_block # 0 /\ TreeIdsOK(c.tree_ids)

\* The manifest start_sender builds after its checks
SenderManifest(c, total) ==
    [block_size |-> c.block_size, total_bytes |-> total,
     total_blocks |-> BlockPlan(total, c.block_size).total_blocks,
     fec |-> c.fec_enabled, symbols_per_block |-> c.symbols_per_block, tree_ids |-> c.tree_ids]

\* LosslessSessionManifest::total_blocks_for and validate, at the receiver
TotalBlocksFor(total, size) == IF total = 0 THEN 0 ELSE DivCeil(total, size)
ManifestValid(m) ==
    /\ m.block_size # 0
    /\ m.total_blocks = TotalBlocksFor(m.total_bytes, m.block_size)
    /\ m.fec => m.symbols_per_block # 0 /\ TreeIdsOK(m.tree_ids)

\* expected_block_payload_len: the length validate_block_data asks for
ExpectedBlockPayloadLen(m, b) ==
    LET rem == m.total_bytes % m.block_size
    IN  IF b + 1 = m.total_blocks /\ rem # 0 THEN rem ELSE m.block_size

-----------------------------------------------------------------------------
\* The blocks tile the object: each starts where the one before it ends, the
\* last one ends with the object, and none is empty or longer than a block
\* (block_span of every block_id contains_block admits).
PlanTiles(plan) ==
    /\ plan.total_bytes = 0 <=> plan.total_blocks = 0
    /\ \A b \in 0 .. plan.total_blocks - 1 :
        /\ BlockLen(plan, b) \in 1 .. plan.block_size
        /\ BlockOffset(plan, b) + BlockLen(plan, b) =
              IF b = LastBlockId(plan) THEN plan.total_bytes ELSE BlockOffset(plan, b + 1)

\* The source symbols hold a whole block, and fewer would not, unless a symbol
\* of it is only padding.
SymbolsHoldBlock(size, symbols) ==
    /\ symbols * SymbolSize(size, symbols) >= size
    /\ symbols * (SymbolSize(size, symbols) - 1) < size

\* The two ends agree: a session the sender's preflight lets start has a manifest
\* the receiver accepts, and every block it sends has the length the receiver
\* expects (plan.rs here, lossless_session/validation.rs there).
EndsAgree(c, total) ==
    LET m == SenderManifest(c, total) plan == BlockPlan(total, c.block_size) IN
    PreflightOK(c) =>
        /\ ManifestValid(m)
        /\ \A b \in 0 .. plan.total_blocks - 1 : BlockLen(plan, b) = ExpectedBlockPayloadLen(m, b)
=============================================================================
