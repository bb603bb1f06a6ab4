--------------------------- MODULE ServicesProofs ---------------------------
(***************************************************************************)
(* Proofs about the parts of Services, each first for itself and then, at  *)
(* the end, for their composition.  What a sender and a receiver compute   *)
(* apart and must agree on: the layout of an object in blocks and symbols  *)
(* (SessionPlan), and the report of the blocks that are missing            *)
(* (NeedRanges), for every object, block and symbol size, every set of     *)
(* stored blocks and every range capacity.  The services of a node, for    *)
(* all values of their constants: the flow accounting (FlowStats), the UDP *)
(* link (UdpLink), the flows a user starts (UserFlows), and the framing of *)
(* packets and probes on a TCP or QUIC link (StreamLink).                  *)
(***************************************************************************)
EXTENDS Services, FiniteSets, FiniteSetTheorems, SequenceTheorems,
        WellFoundedInduction, NaturalsInduction, TLAPS

-----------------------------------------------------------------------------
(* Sequences and numbers *)

\* A message by itself.
LEMMA SingleMessage ==
    ASSUME NEW S, NEW m \in S
    PROVE  <<m>> \in Seq(S) /\ Len(<<m>>) = 1 /\ <<m>>[1] = m
OBVIOUS

\* Every set of natural numbers that is not empty has a least one.
LEMMA LeastNatural ==
    ASSUME NEW T, T \subseteq Nat, T # {}
    PROVE  \E x \in T : \A y \in T : x <= y
<1> DEFINE R == OpToRel(<, Nat)
<1>1. IsWellFoundedOn(R, Nat)
  BY NatLessThanWellFounded
<1>2. R = {ss \in Nat \X Nat : ss[1] < ss[2]}
  BY DEF OpToRel
<1> HIDE DEF R
<1>3. PICK x \in T : \A y \in T : ~(<<y, x>> \in R)
  BY <1>1, WFMin
<1>4. \A y \in T : ~(y < x)
  BY <1>2, <1>3
<1> QED
  BY <1>4


-----------------------------------------------------------------------------
(* The layout *)

\* Multiplication by a positive number preserves the order.
LEMMA TimesMonotone ==
    ASSUME NEW a \in Int, NEW b \in Int, NEW n \in Nat, n > 0, a < b
    PROVE  (a + 1) * n <= b * n
<1>1. \A k \in Nat : k * n >= 0
  BY SMT
<1>2. b - (a + 1) \in Nat
  OBVIOUS
<1>3. (b - (a + 1)) * n >= 0
  BY <1>1, <1>2
<1> QED
  BY <1>3, SMT

\* What u64::div_ceil computes: the least multiple of n that is not below a.
LEMMA DivCeilBounds ==
    ASSUME NEW a \in Nat, NEW n \in Nat, n > 0
    PROVE  /\ DivCeil(a, n) \in Nat
           /\ DivCeil(a, n) * n >= a
           /\ (DivCeil(a, n) - 1) * n < a
<1> DEFINE m == a + n - 1
           q == m \div n
<1>1. m \in Nat
  OBVIOUS
<1>2. q \in Nat /\ m % n \in 0 .. n - 1 /\ m = q * n + (m % n)
  BY <1>1, SMT
<1> HIDE DEF q
<1>3. q * n >= a
  BY <1>2
<1>4. (q - 1) * n = q * n - n
  BY <1>2, SMT
<1>5. (q - 1) * n < a
  BY <1>2, <1>4
<1> QED
  BY <1>2, <1>3, <1>5 DEF DivCeil, q

\* The source symbols of a block hold all of it, and one byte less in each would
\* not: for every block size and symbol count SymbolGeometry::new accepts.
THEOREM SymbolsSuffice ==
    \A size \in Nat \ {0}, symbols \in Nat \ {0} : SymbolsHoldBlock(size, symbols)
<1> SUFFICES ASSUME NEW size \in Nat \ {0}, NEW symbols \in Nat \ {0}
             PROVE  SymbolsHoldBlock(size, symbols)
  OBVIOUS
<1> DEFINE s == DivCeil(size, symbols)
<1>1. s \in Nat /\ s * symbols >= size /\ (s - 1) * symbols < size
  BY DivCeilBounds
<1> HIDE DEF s
<1>2. symbols * s = s * symbols /\ symbols * (s - 1) = (s - 1) * symbols
  BY <1>1, SMT
<1> QED
  BY <1>1, <1>2 DEF SymbolsHoldBlock, SymbolSize, s

\* The blocks of a session tile its object: for every object and block size the
\* spans of BlockPlan follow each other without gap or overlap, and the trimmed
\* final block, never empty, ends with the object.
THEOREM BlocksTileObject ==
    \A total \in Nat, size \in Nat \ {0} : PlanTiles(BlockPlan(total, size))
<1> SUFFICES ASSUME NEW total \in Nat, NEW size \in Nat \ {0}
             PROVE  PlanTiles(BlockPlan(total, size))
  OBVIOUS
<1> DEFINE plan == BlockPlan(total, size)
           q == plan.total_blocks
           tail == total % size
           d == total \div size
<1>1. plan.total_bytes = total /\ plan.block_size = size
  BY DEF BlockPlan
<1>2. CASE total = 0
  <2>1. q = 0
    BY <1>2 DEF BlockPlan
  <2> QED
    BY <1>1, <1>2, <2>1 DEF PlanTiles
<1>3. CASE total # 0
  <2>1. q \in Nat /\ q * size >= total /\ (q - 1) * size < total
    BY <1>3, DivCeilBounds DEF BlockPlan
  <2>2. d \in Nat /\ tail \in 0 .. size - 1 /\ total = d * size + tail
    BY SMT
  <2> HIDE DEF q, tail, d
  <2>3. q > 0
    BY <1>3, <2>1
  <2>4. (d + 1) * size = d * size + size /\ (q - 1) * size = q * size - size
    BY <2>1, <2>2, SMT
  <2>5. q - 1 <= d
    <3> SUFFICES ASSUME d < q - 1 PROVE FALSE
      BY <2>1, <2>2
    <3>1. (d + 1) * size <= (q - 1) * size
      BY <2>1, <2>2, TimesMonotone
    <3> QED
      BY <2>1, <2>2, <2>4, <3>1
  <2>6. d <= q
    <3> SUFFICES ASSUME q < d PROVE FALSE
      BY <2>1, <2>2
    <3>1. (q + 1) * size <= d * size
      BY <2>1, <2>2, TimesMonotone
    <3>2. (q + 1) * size = q * size + size
      BY <2>1, SMT
    <3> QED
      BY <2>1, <2>2, <3>1, <3>2
  <2>7. (q - 1) * size + (IF tail = 0 THEN size ELSE tail) = total
    <3>1. CASE d = q
      BY <2>1, <2>2, <2>4, <3>1
    <3>2. CASE d = q - 1
      BY <1>3, <2>1, <2>2, <2>4, <3>2
    <3> QED
      BY <2>1, <2>2, <2>5, <2>6, <3>1, <3>2
  <2>8. SUFFICES ASSUME NEW b \in 0 .. q - 1
                 PROVE  /\ BlockLen(plan, b) \in 1 .. size
                        /\ BlockOffset(plan, b) + BlockLen(plan, b) =
                              IF b = q - 1 THEN total ELSE BlockOffset(plan, b + 1)
    BY <1>1, <1>3, <2>3 DEF PlanTiles, LastBlockId, q
  <2>9. BlockLen(plan, b) = IF b # q - 1 \/ tail = 0 THEN size ELSE tail
    BY <1>1 DEF BlockLen, LastBlockId, q, tail
  <2>10. BlockOffset(plan, b) = b * size /\ BlockOffset(plan, b + 1) = (b + 1) * size
    BY <1>1 DEF BlockOffset
  <2>11. (b + 1) * size = b * size + size /\ b * size \in Int
    BY <2>1, SMT
  <2>12. BlockLen(plan, b) \in 1 .. size
    BY <2>2, <2>9
  <2> QED
    BY <2>2, <2>7, <2>9, <2>10, <2>11, <2>12
<1> QED
  BY <1>2, <1>3

\* Whatever configuration the sender's preflight accepts, the receiver accepts
\* its manifest and the length of each of its blocks, for objects of every size.
THEOREM ReceiverAcceptsPlan ==
    ASSUME NEW c, c.fec_enabled \in BOOLEAN
    PROVE  \A total \in Nat : EndsAgree(c, total)
<1> SUFFICES ASSUME NEW total \in Nat, PreflightOK(c)
             PROVE  EndsAgree(c, total)
  BY DEF EndsAgree
<1> DEFINE m == SenderManifest(c, total)
           plan == BlockPlan(total, c.block_size)
<1>1. /\ m.block_size = c.block_size /\ m.total_bytes = total /\ m.fec = c.fec_enabled
      /\ m.total_blocks = plan.total_blocks /\ m.symbols_per_block = c.symbols_per_block
      /\ m.tree_ids = c.tree_ids
  BY DEF SenderManifest
<1>2. plan.block_size = c.block_size /\ plan.total_bytes = total
  BY DEF BlockPlan
<1>3. plan.total_blocks = TotalBlocksFor(total, c.block_size)
  BY DEF BlockPlan, TotalBlocksFor
<1>4. c.block_size \in Nat /\ c.block_size > 0
  BY LimitsAssumption DEF PreflightOK
<1>5. ManifestValid(m)
  BY <1>1, <1>3, <1>4 DEF ManifestValid, PreflightOK
<1>6. ASSUME NEW b \in 0 .. plan.total_blocks - 1
      PROVE  BlockLen(plan, b) = ExpectedBlockPayloadLen(m, b)
  <2>1. plan.total_blocks \in Int
    <3>1. CASE total = 0
      BY <3>1 DEF BlockPlan
    <3>2. CASE total # 0
      <4>1. DivCeil(total, c.block_size) \in Nat
        BY <1>4, DivCeilBounds
      <4> QED
        BY <3>2, <4>1 DEF BlockPlan
    <3> QED
      BY <3>1, <3>2
  <2>2. b # LastBlockId(plan) <=> b + 1 # plan.total_blocks
    BY <2>1 DEF LastBlockId
  <2> QED
    BY <1>1, <1>2, <2>2 DEF BlockLen, ExpectedBlockPayloadLen
<1> QED
  BY <1>5, <1>6 DEF EndsAgree

-----------------------------------------------------------------------------
(* The reports *)

USE TotalBlocksAssumption, MaxNeedRangesAssumption

\* Membership in the denotation of a sequence of ranges.
LEMMA MissingBlocksMember ==
    ASSUME NEW rs \in Seq(MissingBlockRange), NEW x
    PROVE  x \in MissingBlocks(rs)
              <=> \E i \in DOMAIN rs : x \in rs[i].start .. (rs[i].end - 1)
BY DEF MissingBlocks

\* Pushing a range adds its blocks.
LEMMA MissingBlocksAppend ==
    ASSUME NEW rs \in Seq(MissingBlockRange), NEW g \in MissingBlockRange
    PROVE  MissingBlocks(Append(rs, g)) = MissingBlocks(rs) \cup (g.start .. (g.end - 1))
<1> DEFINE gs == Append(rs, g)
<1>1. /\ gs \in Seq(MissingBlockRange)
      /\ DOMAIN gs = 1 .. (Len(rs) + 1) /\ DOMAIN rs = 1 .. Len(rs) /\ Len(rs) \in Nat
      /\ \A i \in DOMAIN rs : gs[i] = rs[i]
      /\ gs[Len(rs) + 1] = g
  OBVIOUS
<1>2. ASSUME NEW x \in MissingBlocks(gs)
      PROVE  x \in MissingBlocks(rs) \cup (g.start .. (g.end - 1))
  <2>1. PICK i \in DOMAIN gs : x \in gs[i].start .. (gs[i].end - 1)
    BY <1>1, <1>2, MissingBlocksMember
  <2>2. CASE i \in DOMAIN rs
    BY <1>1, <2>1, <2>2, MissingBlocksMember
  <2>3. CASE i = Len(rs) + 1
    BY <1>1, <2>1, <2>3
  <2> QED
    BY <1>1, <2>2, <2>3
<1>3. ASSUME NEW x \in MissingBlocks(rs)
      PROVE  x \in MissingBlocks(gs)
  <2>1. PICK i \in DOMAIN rs : x \in rs[i].start .. (rs[i].end - 1)
    BY <1>3, MissingBlocksMember
  <2>2. i \in DOMAIN gs /\ gs[i] = rs[i]
    BY <1>1
  <2> QED
    BY <1>1, <2>1, <2>2, MissingBlocksMember
<1>4. ASSUME NEW x \in g.start .. (g.end - 1)
      PROVE  x \in MissingBlocks(gs)
  <2>1. Len(rs) + 1 \in DOMAIN gs
    BY <1>1
  <2> QED
    BY <1>1, <1>4, <2>1, MissingBlocksMember
<1> QED
  BY <1>2, <1>3, <1>4

\* The fields of the ranges in a sequence.
LEMMA RangeEnds ==
    ASSUME NEW rs \in Seq(MissingBlockRange)
    PROVE  \A i \in DOMAIN rs : rs[i].end \in 0 .. TotalBlocks /\ rs[i].start \in 0 .. TotalBlocks
<1>1. \A i \in DOMAIN rs : rs[i] \in MissingBlockRange
  OBVIOUS
<1>2. \A g \in MissingBlockRange : g.end \in 0 .. TotalBlocks /\ g.start \in 0 .. TotalBlocks
  BY DEF MissingBlockRange
<1> QED
  BY <1>1, <1>2

LEMMA ScanInit == RangesInit => ScanInv
<1> SUFFICES ASSUME RangesInit PROVE ScanInv
  OBVIOUS
<1> USE DEF RangesInit
<1>1. RangesTypeOK
  BY DEF RangesTypeOK
<1>2. MissingBlocks(ranges) = {}
  BY DEF MissingBlocks
<1>3. ScanProgress
  BY <1>2 DEF ScanProgress, SortedMerged, InPlan
<1> QED
  BY <1>1, <1>3 DEF ScanInv, RoundTrip

\* One turn of the loop that pushes a range.
LEMMA PushStep ==
    ASSUME ScanInv, PushRange
    PROVE  RangesTypeOK' /\ ScanProgress'
<1>1. PICK e \in 1 .. TotalBlocks :
         /\ IsRangeEnd(next_missing, e)
         /\ ranges' = Append(ranges, [start |-> next_missing, end |-> e])
         /\ next_missing' = e
  BY DEF PushRange
<1> DEFINE g == [start |-> next_missing, end |-> e]
<1>2. /\ next_missing \in 0 .. TotalBlocks /\ next_missing < TotalBlocks
      /\ next_missing \notin stored /\ stored \subseteq Blocks
      /\ ranges \in Seq(MissingBlockRange)
      /\ UNCHANGED <<stage, stored, body, asked>>
  BY DEF PushRange, ScanInv, RangesTypeOK
<1>3. /\ e > next_missing /\ e \in stored \cup {TotalBlocks}
      /\ \A b \in stored : b > next_missing => e <= b
  BY <1>1 DEF IsRangeEnd
<1>4. g \in MissingBlockRange /\ g.start = next_missing /\ g.end = e
  BY <1>2 DEF MissingBlockRange
<1>5. RangesTypeOK'
  BY <1>1, <1>2, <1>4 DEF ScanInv, RangesTypeOK
<1>6. /\ ranges' \in Seq(MissingBlockRange)
      /\ DOMAIN ranges' = 1 .. (Len(ranges) + 1)
      /\ DOMAIN ranges = 1 .. Len(ranges) /\ Len(ranges) \in Nat
      /\ \A i \in DOMAIN ranges : ranges'[i] = ranges[i]
      /\ ranges'[Len(ranges) + 1] = g
  BY <1>1, <1>2, <1>4
<1>7. \A i \in DOMAIN ranges : ranges[i].end < next_missing /\ ranges[i].end \in 0 .. TotalBlocks
  BY <1>2, RangeEnds DEF ScanInv, ScanProgress
<1>8. SortedMerged(ranges')
  BY <1>1, <1>3, <1>4, <1>6, <1>7 DEF ScanInv, ScanProgress, SortedMerged
<1>9. InPlan(ranges')
  BY <1>4, <1>6 DEF ScanInv, ScanProgress, InPlan
<1>10. \A i \in DOMAIN ranges' :
          \/ ranges'[i].end < next_missing'
          \/ ranges'[i].end = next_missing' /\ next_missing' \in stored' \cup {TotalBlocks}
  BY <1>1, <1>2, <1>3, <1>4, <1>6, <1>7
<1>11. MissingBlocks(ranges') = (0 .. (next_missing' - 1)) \ stored'
  <2>1. MissingBlocks(ranges') = MissingBlocks(ranges) \cup (next_missing .. (e - 1))
    BY <1>1, <1>2, <1>4, MissingBlocksAppend
  <2>2. MissingBlocks(ranges) = (0 .. (next_missing - 1)) \ stored
    BY DEF ScanInv, ScanProgress
  <2>3. (next_missing .. (e - 1)) \cap stored = {}
    BY <1>2, <1>3 DEF Blocks
  <2>4. 0 .. (e - 1) = (0 .. (next_missing - 1)) \cup (next_missing .. (e - 1))
    BY <1>2, <1>3
  <2> QED
    BY <1>1, <1>2, <2>1, <2>2, <2>3, <2>4
<1> QED
  BY <1>5, <1>8, <1>9, <1>10, <1>11 DEF ScanProgress

LEMMA ScanStep == ScanInv /\ [RangesNext]_rangeVars => ScanInv'
<1> SUFFICES ASSUME ScanInv, [RangesNext]_rangeVars PROVE ScanInv'
  OBVIOUS
<1>0. /\ RangesTypeOK /\ ScanProgress
      /\ next_missing \in 0 .. TotalBlocks /\ stored \subseteq Blocks
  BY DEF ScanInv, RangesTypeOK
<1>1. CASE UNCHANGED rangeVars
  BY <1>1 DEF rangeVars, ScanInv, RangesTypeOK, ScanProgress, RoundTrip
<1>2. CASE ReportComplete
  <2>1. MissingBlocks(ranges) = Blocks \ stored
    BY <1>0, <1>2 DEF ReportComplete, ScanProgress, Blocks
  <2> QED
    BY <1>2, <2>1 DEF ReportComplete, ScanInv, RangesTypeOK, ScanProgress, RoundTrip
<1>3. CASE SkipStored
  <2>1. /\ next_missing' = next_missing + 1 /\ next_missing \in stored
        /\ next_missing < TotalBlocks
        /\ UNCHANGED <<stage, stored, ranges, body, asked>>
    BY <1>3 DEF SkipStored
  <2>2. (0 .. next_missing) \ stored = (0 .. (next_missing - 1)) \ stored
    BY <1>0, <2>1
  <2>3. \A i \in DOMAIN ranges : ranges[i].end < next_missing'
    BY <1>0, <2>1, RangeEnds DEF RangesTypeOK, ScanProgress
  <2>4. ScanProgress'
    BY <1>0, <2>1, <2>2, <2>3 DEF ScanProgress
  <2> QED
    BY <1>0, <2>1, <2>4, <1>3 DEF SkipStored, Scanning, ScanInv, RangesTypeOK, RoundTrip
<1>4. CASE PushRange
  BY <1>4, PushStep DEF PushRange, Scanning, ScanInv, RoundTrip
<1>5. CASE EndScan
  <2>1. MissingBlocks(ranges) = Blocks \ stored
    BY <1>0, <1>5 DEF EndScan, ScanProgress, Blocks
  <2> QED
    BY <1>5, <2>1 DEF EndScan, Scanning, ScanInv, RangesTypeOK, ScanProgress, RoundTrip
<1>6. CASE EncodeNeed
  BY <1>6 DEF EncodeNeed, ScanInv, RangesTypeOK, ScanProgress, RoundTrip
<1>7. CASE AdmitNeed
  <2>1. body = ranges /\ MissingBlocks(body) = Blocks \ stored
    BY <1>7 DEF AdmitNeed, ScanInv
  <2>2. Validates(body)
    BY <1>7 DEF AdmitNeed, ScanInv
  <2> QED
    BY <1>7, <2>1, <2>2 DEF AdmitNeed, ScanInv, RangesTypeOK, ScanProgress, RoundTrip
<1> QED
  BY <1>1, <1>2, <1>3, <1>4, <1>5, <1>6, <1>7 DEF RangesNext

THEOREM ScanInductive == RangesSpec => []ScanInv
BY ScanInit, ScanStep, PTL DEF RangesSpec

\* plain_need reports exactly the missing blocks, in canonical form.
THEOREM ScanAlwaysExact == RangesSpec => []ScanIsExact
<1>1. ScanInv => ScanIsExact
  BY DEF ScanInv, ScanProgress, ScanIsExact
<1> QED
  BY ScanInductive, <1>1, PTL

\* What the sender reads is what the receiver lacks; no report the receiver
\* manages to encode is rejected.
THEOREM ReportsRoundTrip == RangesSpec => []RoundTrip
BY ScanInductive, PTL DEF ScanInv

-----------------------------------------------------------------------------
(* Flow accounting: an application flow *)

AppEvent ==
    [type : {"AppFlowStart"}, time : Nat]
        \cup [type : {"RouteAssigned"}, time : Nat, route : RouteIds]
        \cup [type : {"FlowFinished"}, time : Nat, user : {FALSE}]

AppEntry ==
    [stage : {"app"}, start : Nat, finished : BOOLEAN, finish : Int,
     route : RouteIds \cup {FS!None}, send_start : BOOLEAN,
     updates : SUBSET (RouteIds \cup {FS!None}), send_finish : BOOLEAN]

PendingEntry == [stage : {"pending"}, route : RouteIds]

AppRecord ==
    [type : {"AppFlowStart"}, start : Nat]
        \cup [type : {"RouteAssigned"}, start : Nat, route : RouteIds \cup {FS!None}]
        \cup [type : {"FlowFinished"}, start : Nat, finish : Int, user : {FALSE}]

AppStatsOK ==
    /\ kind = "app" /\ now \in Nat
    /\ chan \in [FS!Tasks -> Seq(AppEvent)]
    /\ entry \in {FS!NoEntry} \cup PendingEntry \cup AppEntry
    /\ entry.stage = "app" => IsFiniteSet(entry.updates)
    /\ north \in Seq(AppRecord)

\* The start time has its row, or a start that makes it is among the first n
\* messages under way.
HasStart(start, n) ==
    \/ start \in DOMAIN rows
    \/ \E j \in 1 .. n : north[j].type = "AppFlowStart" /\ north[j].start = start

\* Every report under way follows a start with its start time, and an entry
\* that has sent its start has left it on the way or in its row.
OrphanInv ==
    AppStatsOK =>
       /\ \A i \in 1 .. Len(north) : HasStart(north[i].start, i)
       /\ entry.stage = "app" /\ ~entry.send_start => HasStart(entry.start, Len(north))

LEMMA EntryStage ==
    ASSUME entry \in {FS!NoEntry} \cup PendingEntry \cup AppEntry
    PROVE  /\ entry.stage \in {"none", "pending", "app"}
           /\ entry.stage = "none" => entry = FS!NoEntry
           /\ entry.stage = "pending" => entry \in PendingEntry
           /\ entry.stage = "app" => entry \in AppEntry
BY DEF FS!NoEntry, PendingEntry, AppEntry

LEMMA AppReportKept ==
    ASSUME AppStatsOK, OrphanInv,
           NEW t \in FS!Tasks, NEW msg \in AppEvent, NEW max, FS!Report(t, msg, max)
    PROVE  (AppStatsOK /\ OrphanInv)'
<1>1. chan' \in [FS!Tasks -> Seq(AppEvent)]
  <2>1. chan' = [chan EXCEPT ![t] = Append(@, msg)]
    BY DEF FS!Report
  <2>2. Append(chan[t], msg) \in Seq(AppEvent)
    BY DEF AppStatsOK
  <2> QED
    BY <2>1, <2>2 DEF AppStatsOK
<1>2. AppStatsOK'
  BY <1>1 DEF AppStatsOK, FS!Report
<1> QED
  BY <1>2 DEF OrphanInv, HasStart, FS!Report

\* What the reporter makes of one event.
AppHandled(e, msg) ==
    CASE msg.type = "AppFlowStart" -> FS!HandleAppFlowStart(e, msg)
      [] msg.type = "RouteAssigned" -> FS!HandleRouteAssigned(e, msg)
      [] msg.type = "FlowFinished" -> FS!HandleFlowFinished(e, msg)
      [] msg.type = "UserFlowStart" -> FS!HandleUserFlowStart(e, msg)

\* An event leaves the start of an entry that was sent as it is.
LEMMA AppEventHandled ==
    ASSUME AppStatsOK, NEW t \in FS!Tasks, FS!HandleMessage(t)
    PROVE  /\ entry' \in {FS!NoEntry} \cup PendingEntry \cup AppEntry
           /\ entry'.stage = "app" => IsFiniteSet(entry'.updates)
           /\ entry'.stage = "app" /\ ~entry'.send_start =>
                 entry.stage = "app" /\ ~entry.send_start /\ entry'.start = entry.start
<1> DEFINE msg == Head(chan[t])
<1>1. msg \in AppEvent /\ entry' = AppHandled(entry, msg)
  <2>1. chan[t] \in Seq(AppEvent) /\ chan[t] # << >>
    BY DEF AppStatsOK, FS!HandleMessage
  <2>2. msg \in AppEvent
    BY <2>1, HeadTailProperties
  <2>3. entry' = AppHandled(entry, msg)
    BY DEF FS!HandleMessage, AppHandled
  <2> QED
    BY <2>2, <2>3
<1>2. /\ entry.stage \in {"none", "pending", "app"}
      /\ entry.stage = "none" => entry = FS!NoEntry
      /\ entry.stage = "pending" => entry \in PendingEntry
      /\ entry.stage = "app" => entry \in AppEntry /\ IsFiniteSet(entry.updates)
  BY EntryStage DEF AppStatsOK
<1> HIDE DEF msg
<1>3. CASE msg.type = "AppFlowStart"
  <2>1. entry' = FS!HandleAppFlowStart(entry, msg)
    BY <1>1, <1>3 DEF AppHandled
  <2>2. msg.time \in Nat
    BY <1>1, <1>3 DEF AppEvent
  <2>3. CASE entry.stage = "app" /\ ~entry.finished
    BY <1>2, <2>1, <2>3 DEF FS!HandleAppFlowStart
  <2>4. CASE ~(entry.stage = "app" /\ ~entry.finished)
    <3> DEFINE route == IF entry.stage = "pending" THEN entry.route ELSE FS!None
    <3>1. route \in RouteIds \cup {FS!None}
      BY <1>2 DEF PendingEntry
    <3> HIDE DEF route
    <3>2. entry' = [stage |-> "app", start |-> msg.time, finished |-> FALSE, finish |-> FS!None,
                    route |-> route, send_start |-> TRUE, updates |-> {route} \ {FS!None},
                    send_finish |-> FALSE]
      BY <2>1, <2>4 DEF FS!HandleAppFlowStart, route
    <3>3. IsFiniteSet({route} \ {FS!None})
      BY FS_Singleton, FS_Difference
    <3>4. FS!None \in Int
      BY DEF FS!None
    <3> QED
      BY <2>2, <3>1, <3>2, <3>3, <3>4 DEF AppEntry
  <2> QED
    BY <2>3, <2>4
<1>4. CASE msg.type = "RouteAssigned"
  <2>1. entry' = FS!HandleRouteAssigned(entry, msg)
    BY <1>1, <1>4 DEF AppHandled
  <2>2. msg.route \in RouteIds /\ msg.time \in Nat
    BY <1>1, <1>4 DEF AppEvent
  <2>3. CASE entry.stage \in {"none", "pending"}
    <3>1. entry' = [stage |-> "pending", route |-> msg.route]
      BY <1>2, <2>1, <2>3 DEF FS!HandleRouteAssigned
    <3> QED
      BY <2>2, <3>1 DEF PendingEntry
  <2>4. CASE entry.stage = "app" /\ msg.time >= entry.start /\ entry.route # msg.route
    <3>1. entry' = [entry EXCEPT !.route = msg.route, !.updates = @ \cup {msg.route}]
      BY <2>1, <2>4 DEF FS!HandleRouteAssigned
    <3>2. entry \in AppEntry /\ IsFiniteSet(entry.updates \cup {msg.route})
      BY <1>2, <2>4, FS_AddElement
    <3>3. entry.updates \cup {msg.route} \in SUBSET (RouteIds \cup {FS!None})
      BY <2>2, <3>2 DEF AppEntry
    <3>4. /\ entry' \in AppEntry /\ entry'.updates = entry.updates \cup {msg.route}
          /\ entry'.send_start = entry.send_start /\ entry'.start = entry.start
      BY <2>2, <3>1, <3>2, <3>3 DEF AppEntry
    <3> QED
      BY <2>4, <3>2, <3>4
  <2>5. CASE entry.stage = "app" /\ ~(msg.time >= entry.start /\ entry.route # msg.route)
    BY <1>2, <2>1, <2>5 DEF FS!HandleRouteAssigned
  <2> QED
    BY <1>2, <2>3, <2>4, <2>5
<1>5. CASE msg.type = "FlowFinished"
  <2>1. entry' = FS!HandleFlowFinished(entry, msg)
    BY <1>1, <1>5 DEF AppHandled
  <2>2. msg.user = FALSE /\ msg.time \in Nat
    BY <1>1, <1>5 DEF AppEvent
  <2>3. CASE entry.stage = "app"
    <3>1. CASE msg.time < entry.start \/ entry.finished
      BY <1>2, <2>1, <2>3, <3>1 DEF FS!HandleFlowFinished
    <3>2. CASE ~(msg.time < entry.start \/ entry.finished)
      <4>1. entry' = [entry EXCEPT !.finished = TRUE, !.finish = msg.time, !.send_finish = TRUE]
        BY <2>1, <2>3, <3>2 DEF FS!HandleFlowFinished
      <4>2. entry \in AppEntry
        BY <1>2, <2>3
      <4>3. /\ entry' \in AppEntry /\ entry'.updates = entry.updates
            /\ entry'.send_start = entry.send_start /\ entry'.start = entry.start
        <5>1. PICK finish \in Int : finish = msg.time
          BY <2>2
        <5>2. entry' = [entry EXCEPT !.finished = TRUE, !.finish = finish, !.send_finish = TRUE]
          BY <4>1, <5>1
        <5> QED
          BY <4>2, <5>2 DEF AppEntry
      <4> QED
        BY <1>2, <2>3, <4>3
    <3> QED
      BY <3>1, <3>2
  <2>4. CASE entry.stage \in {"none", "pending"}
    <3>1. entry' = FS!NoEntry
      BY <1>2, <2>1, <2>2, <2>4 DEF FS!HandleFlowFinished
    <3> QED
      BY <3>1 DEF FS!NoEntry
  <2> QED
    BY <1>2, <2>3, <2>4
<1> QED
  BY <1>1, <1>3, <1>4, <1>5 DEF AppEvent

LEMMA AppEventKept ==
    ASSUME AppStatsOK, OrphanInv, NEW t \in FS!Tasks, FS!HandleMessage(t)
    PROVE  (AppStatsOK /\ OrphanInv)'
<1>1. chan' \in [FS!Tasks -> Seq(AppEvent)]
  <2>1. chan[t] \in Seq(AppEvent) /\ chan[t] # << >>
    BY DEF AppStatsOK, FS!HandleMessage
  <2>2. chan' = [chan EXCEPT ![t] = Tail(@)]
    BY DEF FS!HandleMessage
  <2>3. Tail(chan[t]) \in Seq(AppEvent)
    BY <2>1, HeadTailProperties
  <2> QED
    BY <2>2, <2>3 DEF AppStatsOK
<1>2. kind' = kind /\ now' = now /\ north' = north /\ rows' = rows
  BY DEF FS!HandleMessage
<1>3. AppStatsOK'
  BY <1>1, <1>2, AppEventHandled DEF AppStatsOK
<1> QED
  BY <1>2, <1>3, AppEventHandled DEF OrphanInv, HasStart

\* The reporter module counts as this one does.
LEMMA SameCardinality == \A S : FS!Cardinality(S) = Cardinality(S)
BY DEF FS!Cardinality, Cardinality

\* What a flush sends of an application flow: its start first, if it is due.
LEMMA AppFlushed ==
    ASSUME AppStatsOK, NEW order \in FS!Orders(entry)
    PROVE  LET flushed == FS!FlushMessages(entry, order) IN
           /\ flushed \in Seq(AppRecord)
           /\ entry.stage # "app" => flushed = << >>
           /\ entry.stage = "app" => \A i \in 1 .. Len(flushed) : flushed[i].start = entry.start
           /\ entry.stage = "app" /\ entry.send_start =>
                 Len(flushed) > 0 /\ flushed[1].type = "AppFlowStart"
<1> DEFINE start == FS!StartMessage(entry, "app", "AppFlowStart")
           user == FS!StartMessage(entry, "user", "UserFlowStart")
           routes == FS!RouteMessages(entry, order)
           finish == FS!FinishMessage(entry)
           flushed == FS!FlushMessages(entry, order)
<1>0. flushed = ((start \o user) \o routes) \o finish
  BY DEF FS!FlushMessages
<1>1. /\ entry.stage \in {"none", "pending", "app"}
      /\ entry.stage = "app" => entry \in AppEntry /\ IsFiniteSet(entry.updates)
  BY EntryStage DEF AppStatsOK
<1>2. user = << >>
  BY <1>1 DEF FS!StartMessage
<1>3. CASE entry.stage # "app"
  <2>1. order = << >>
    BY <1>3 DEF FS!Orders
  <2>2. routes = << >>
    BY <2>1 DEF FS!RouteMessages
  <2>3. start = << >> /\ finish = << >>
    BY <1>1, <1>3 DEF FS!StartMessage, FS!FinishMessage
  <2>4. << >> \in Seq(AppRecord)
    OBVIOUS
  <2> HIDE DEF start, user, routes, finish, flushed
  <2>5. flushed = << >>
    BY <1>0, <1>2, <2>2, <2>3, <2>4, ConcatEmptySeq
  <2> QED
    BY <1>3, <2>4, <2>5 DEF flushed
<1>4. CASE entry.stage = "app"
  <2>1. entry \in AppEntry /\ IsFiniteSet(entry.updates)
    BY <1>1, <1>4
  <2>2. start \in Seq(AppRecord) /\ \A i \in 1 .. Len(start) : start[i].start = entry.start
    <3>1. CASE entry.send_start
      <4>1. PICK m : m = [type |-> "AppFlowStart", start |-> entry.start]
        OBVIOUS
      <4>2. start = <<m>>
        BY <1>4, <3>1, <4>1 DEF FS!StartMessage
      <4>3. m \in AppRecord /\ m.start = entry.start
        BY <2>1, <4>1 DEF AppEntry, AppRecord
      <4>4. <<m>> \in Seq(AppRecord) /\ Len(<<m>>) = 1 /\ <<m>>[1] = m
        BY <4>3, SingleMessage
      <4> HIDE DEF start
      <4> QED
        BY <4>2, <4>3, <4>4
    <3>2. CASE ~entry.send_start
      BY <1>4, <3>2 DEF FS!StartMessage
    <3> QED
      BY <3>1, <3>2
  <2>3. entry.send_start => Len(start) = 1 /\ start[1].type = "AppFlowStart"
    BY <1>4 DEF FS!StartMessage
  <2>4. routes \in Seq(AppRecord) /\ \A i \in 1 .. Len(routes) : routes[i].start = entry.start
    <3>1. Cardinality(entry.updates) \in Nat
      BY <2>1, FS_CardinalityType
    <3>2. order \in [1 .. Cardinality(entry.updates) -> entry.updates]
      <4>1. order \in {f \in [1 .. Cardinality(entry.updates) -> entry.updates] :
                         \A i, j \in DOMAIN f : f[i] = f[j] => i = j}
        BY <1>4, SameCardinality, Zenon DEF FS!Orders
      <4> QED
        BY <4>1, Zenon
    <3>3. routes = [i \in 1 .. Cardinality(entry.updates) |->
                      [type |-> "RouteAssigned", start |-> entry.start, route |-> order[i]]]
      BY <3>2 DEF FS!RouteMessages
    <3>4. \A i \in 1 .. Cardinality(entry.updates) :
             [type |-> "RouteAssigned", start |-> entry.start, route |-> order[i]] \in AppRecord
      BY <2>1, <3>2 DEF AppEntry, AppRecord
    <3> QED
      BY <3>1, <3>3, <3>4
  <2>5. finish \in Seq(AppRecord) /\ \A i \in 1 .. Len(finish) : finish[i].start = entry.start
    <3>1. CASE entry.send_finish
      <4>1. finish = <<[type |-> "FlowFinished", start |-> entry.start, finish |-> entry.finish,
                        user |-> FALSE]>>
        BY <1>4, <3>1 DEF FS!FinishMessage
      <4>2. [type |-> "FlowFinished", start |-> entry.start, finish |-> entry.finish,
             user |-> FALSE] \in AppRecord
        BY <2>1 DEF AppEntry, AppRecord
      <4> QED
        BY <4>1, <4>2, SingleMessage
    <3>2. CASE ~entry.send_finish
      BY <1>4, <3>2 DEF FS!FinishMessage
    <3> QED
      BY <3>1, <3>2
  <2> HIDE DEF start, user, routes, finish, flushed
  <2>6. start \o user = start
    BY <1>2, <2>2, ConcatEmptySeq
  <2>7. DEFINE front == start \o routes
  <2>8. /\ front \in Seq(AppRecord) /\ Len(front) = Len(start) + Len(routes)
        /\ \A i \in 1 .. Len(start) + Len(routes) :
              front[i] = IF i <= Len(start) THEN start[i] ELSE routes[i - Len(start)]
    BY <2>2, <2>4, ConcatProperties
  <2>9. flushed = front \o finish
    BY <1>0, <2>6
  <2> HIDE DEF front
  <2>10. /\ flushed \in Seq(AppRecord) /\ Len(flushed) = Len(front) + Len(finish)
         /\ \A i \in 1 .. Len(front) + Len(finish) :
               flushed[i] = IF i <= Len(front) THEN front[i] ELSE finish[i - Len(front)]
    <3>1. front \in Seq(AppRecord) /\ finish \in Seq(AppRecord)
      BY <2>5, <2>8
    <3>2. /\ front \o finish \in Seq(AppRecord)
          /\ Len(front \o finish) = Len(front) + Len(finish)
          /\ \A i \in 1 .. Len(front) + Len(finish) :
                (front \o finish)[i] = IF i <= Len(front) THEN front[i] ELSE finish[i - Len(front)]
      BY <3>1, ConcatProperties
    <3> QED
      BY <2>9, <3>2
  <2>11. Len(start) \in Nat /\ Len(routes) \in Nat /\ Len(front) \in Nat /\ Len(finish) \in Nat
    BY <2>2, <2>4, <2>5, <2>8, LenProperties
  <2>12. \A i \in 1 .. Len(front) : front[i].start = entry.start
    <3> SUFFICES ASSUME NEW i \in 1 .. Len(front) PROVE front[i].start = entry.start
      OBVIOUS
    <3>1. CASE i <= Len(start)
      BY <2>2, <2>8, <2>11, <3>1
    <3>2. CASE i > Len(start)
      <4>1. i - Len(start) \in 1 .. Len(routes) /\ front[i] = routes[i - Len(start)]
        BY <2>8, <2>11, <3>2
      <4> QED
        BY <2>4, <4>1
    <3> QED
      BY <2>11, <3>1, <3>2
  <2>13. \A i \in 1 .. Len(flushed) : flushed[i].start = entry.start
    <3> SUFFICES ASSUME NEW i \in 1 .. Len(flushed) PROVE flushed[i].start = entry.start
      OBVIOUS
    <3>1. CASE i <= Len(front)
      BY <2>10, <2>11, <2>12, <3>1
    <3>2. CASE i > Len(front)
      <4>1. i - Len(front) \in 1 .. Len(finish) /\ flushed[i] = finish[i - Len(front)]
        BY <2>10, <2>11, <3>2
      <4> QED
        BY <2>5, <4>1
    <3> QED
      BY <2>11, <3>1, <3>2
  <2>14. entry.send_start => Len(flushed) > 0 /\ flushed[1].type = "AppFlowStart"
    <3> SUFFICES ASSUME entry.send_start
                 PROVE  Len(flushed) > 0 /\ flushed[1].type = "AppFlowStart"
      OBVIOUS
    <3>. Len(start) = 1
      BY <2>3, Zenon
    <3>0. 1 <= Len(start) /\ 1 <= Len(front)
      BY <2>8, <2>11
    <3>1. Len(flushed) > 0 /\ flushed[1] = front[1]
      BY <2>10, <2>11, <3>0
    <3>2. front[1] = start[1]
      BY <2>8, <2>11, <3>0
    <3> QED
      BY <2>3, <3>1, <3>2
  <2> QED
    BY <1>4, <2>10, <2>13, <2>14 DEF flushed
<1> QED
  BY <1>3, <1>4

\* What a flush leaves of an entry.
LEMMA AppAfterFlush ==
    ASSUME AppStatsOK
    PROVE  LET left == FS!AfterFlush(entry) IN
           /\ left \in {FS!NoEntry} \cup PendingEntry \cup AppEntry
           /\ left.stage = "app" => /\ IsFiniteSet(left.updates) /\ entry.stage = "app"
                                    /\ left.start = entry.start
<1>1. /\ entry.stage \in {"none", "pending", "app"}
      /\ entry.stage = "app" => entry \in AppEntry
  BY EntryStage DEF AppStatsOK
<1> DEFINE gone == entry.stage = "app" /\ entry.finished /\ now - entry.finish > TTL
<1>2. CASE gone
  <2>1. FS!AfterFlush(entry) = FS!NoEntry
    BY <1>2 DEF FS!AfterFlush
  <2> QED
    BY <2>1 DEF FS!NoEntry
<1>3. CASE entry.stage = "app" /\ ~gone
  <2>1. FS!AfterFlush(entry) =
           [entry EXCEPT !.send_start = FALSE, !.updates = {}, !.send_finish = FALSE]
    BY <1>3 DEF FS!AfterFlush
  <2>2. IsFiniteSet({})
    BY FS_EmptySet
  <2> QED
    BY <1>1, <1>3, <2>1, <2>2 DEF AppEntry
<1>4. CASE entry.stage # "app"
  <2>1. FS!AfterFlush(entry) = entry
    BY <1>1, <1>4 DEF FS!AfterFlush
  <2> QED
    BY <1>4, <2>1 DEF AppStatsOK
<1> QED
  BY <1>2, <1>3, <1>4

LEMMA AppFlushKept ==
    ASSUME AppStatsOK, OrphanInv, FS!Flush
    PROVE  (AppStatsOK /\ OrphanInv)'
<1>1. PICK order \in FS!Orders(entry) : north' = north \o FS!FlushMessages(entry, order)
  BY DEF FS!Flush
<1> DEFINE flushed == FS!FlushMessages(entry, order)
<1>2. /\ flushed \in Seq(AppRecord)
      /\ entry.stage # "app" => flushed = << >>
      /\ entry.stage = "app" => \A i \in 1 .. Len(flushed) : flushed[i].start = entry.start
      /\ entry.stage = "app" /\ entry.send_start =>
            Len(flushed) > 0 /\ flushed[1].type = "AppFlowStart"
  BY AppFlushed
<1>3. /\ entry' \in {FS!NoEntry} \cup PendingEntry \cup AppEntry
      /\ entry'.stage = "app" => /\ IsFiniteSet(entry'.updates) /\ entry.stage = "app"
                                 /\ entry'.start = entry.start
  BY AppAfterFlush DEF FS!Flush
<1>4. kind' = kind /\ now' = now /\ chan' = chan /\ rows' = rows
  BY DEF FS!Flush
<1> HIDE DEF flushed
<1>5. /\ north' \in Seq(AppRecord) /\ Len(north') = Len(north) + Len(flushed)
      /\ \A i \in 1 .. Len(north) + Len(flushed) :
            north'[i] = IF i <= Len(north) THEN north[i] ELSE flushed[i - Len(north)]
  BY <1>1, <1>2, ConcatProperties DEF AppStatsOK, flushed
<1>6. AppStatsOK'
  BY <1>3, <1>4, <1>5 DEF AppStatsOK
<1>7. Len(north) \in Nat /\ Len(flushed) \in Nat
  <2>1. north \in Seq(AppRecord)
    BY DEF AppStatsOK
  <2> QED
    BY <1>2, <2>1, LenProperties
<1>8. \A start, n : n \in 1 .. Len(north) /\ HasStart(start, n) => HasStart(start, n)'
  BY <1>4, <1>5, <1>7 DEF HasStart
<1>9. PICK start : start = entry.start
  OBVIOUS
<1>10. ASSUME entry.stage = "app", NEW i \in Len(north) + 1 .. Len(north')
       PROVE  HasStart(start, i)'
  <2>1. CASE entry.send_start
    <3>2. 1 \in 1 .. Len(flushed)
      BY <1>2, <1>7, <1>10, <2>1
    <3>1. Len(north) + 1 \in 1 .. i /\ north'[Len(north) + 1] = flushed[1]
      <4>1. PICK m, n, k : m = Len(north) /\ n = Len(flushed) /\ k = Len(north) + 1
        OBVIOUS
      <4>2. /\ m \in Nat /\ n \in Nat /\ k \in 1 .. m + n /\ k - m = 1 /\ ~(k <= m)
            /\ k \in 1 .. i
        BY <1>5, <1>7, <1>10, <3>2, <4>1
      <4>3. north'[k] = IF k <= m THEN north[k] ELSE flushed[k - m]
        BY <1>5, <4>1, <4>2, Zenon
      <4> QED
        BY <4>1, <4>2, <4>3
    <3>3. flushed[1].type = "AppFlowStart" /\ flushed[1].start = start
      BY <1>2, <1>9, <1>10, <2>1, <3>2
    <3> QED
      BY <3>1, <3>3 DEF HasStart
  <2>2. CASE ~entry.send_start
    <3>1. HasStart(start, Len(north))
      BY <1>9, <1>10, <2>2 DEF OrphanInv
    <3>2. \A j \in 1 .. Len(north) : j \in 1 .. i /\ north'[j] = north[j]
      BY <1>5, <1>7
    <3> QED
      BY <1>4, <3>1, <3>2 DEF HasStart
  <2> QED
    BY <2>1, <2>2
<1>11. (\A i \in 1 .. Len(north) : HasStart(north[i].start, i))'
  <2> SUFFICES ASSUME NEW i \in 1 .. Len(north')
               PROVE  HasStart(north[i].start, i)'
    OBVIOUS
  <2>1. PICK s : s = north'[i].start
    OBVIOUS
  <2>2. HasStart(s, i)'
    <3>1. CASE i <= Len(north)
      <4>1. i \in 1 .. Len(north) /\ s = north[i].start
        BY <1>5, <1>7, <2>1, <3>1
      <4>2. HasStart(s, i)
        BY <4>1 DEF OrphanInv
      <4> QED
        BY <1>8, <4>1, <4>2
    <3>2. CASE i > Len(north)
      <4>1. i - Len(north) \in 1 .. Len(flushed) /\ s = flushed[i - Len(north)].start
        BY <1>5, <1>7, <2>1, <3>2
      <4>2. entry.stage = "app" /\ s = start
        <5>1. entry.stage = "app"
          BY <1>2, <4>1
        <5> QED
          BY <1>2, <1>9, <4>1, <5>1
      <4> QED
        BY <1>7, <1>10, <3>2, <4>2
    <3> QED
      BY <1>7, <3>1, <3>2
  <2> QED
    BY <2>1, <2>2 DEF HasStart
<1>12. (entry.stage = "app" /\ ~entry.send_start => HasStart(entry.start, Len(north)))'
  <2> SUFFICES ASSUME entry'.stage = "app"
               PROVE  HasStart(entry.start, Len(north))'
    OBVIOUS
  <2>1. entry.stage = "app" /\ entry'.start = start
    BY <1>3, <1>9
  <2>2. HasStart(start, Len(north))'
    <3>1. CASE entry.send_start
      <4>1. Len(north') \in Len(north) + 1 .. Len(north')
        BY <1>2, <1>5, <1>7, <2>1, <3>1
      <4>2. PICK n : n = Len(north')
        OBVIOUS
      <4>3. HasStart(start, n)'
        BY <1>10, <2>1, <4>1, <4>2
      <4> QED
        BY <4>2, <4>3 DEF HasStart
    <3>2. CASE ~entry.send_start
      <4>1. HasStart(start, Len(north))
        BY <1>9, <2>1, <3>2 DEF OrphanInv
      <4>2. \A j \in 1 .. Len(north) : j \in 1 .. Len(north') /\ north'[j] = north[j]
        BY <1>5, <1>7
      <4> QED
        BY <1>4, <4>1, <4>2 DEF HasStart
    <3> QED
      BY <3>1, <3>2
  <2> QED
    BY <2>1, <2>2 DEF HasStart
<1> QED
  BY <1>6, <1>11, <1>12 DEF OrphanInv

\* What the controller takes is the first report; the others move up.
LEMMA AppReceived ==
    ASSUME AppStatsOK, NEW type, FS!Receive(type)
    PROVE  /\ Head(north) \in AppRecord /\ Head(north).type = type /\ Head(north) = north[1]
           /\ Len(north) > 0 /\ Len(north) \in Nat
           /\ AppStatsOK' /\ Len(north') = Len(north) - 1
           /\ \A i \in 1 .. Len(north') : north'[i] = north[i + 1]
           /\ entry' = entry
<1>1. north \in Seq(AppRecord) /\ north # << >> /\ Head(north).type = type /\ north' = Tail(north)
  BY DEF AppStatsOK, FS!Receive
<1>2. /\ Head(north) \in AppRecord /\ Tail(north) \in Seq(AppRecord)
      /\ Len(Tail(north)) = Len(north) - 1
      /\ \A i \in 1 .. Len(Tail(north)) : Tail(north)[i] = north[i + 1]
  BY <1>1, HeadTailProperties
<1>3. Len(north) > 0 /\ Len(north) \in Nat /\ Head(north) = north[1]
  BY <1>1, EmptySeq
<1>4. AppStatsOK'
  BY <1>1, <1>2 DEF AppStatsOK, FS!Receive
<1> QED
  BY <1>1, <1>2, <1>3, <1>4 DEF FS!Receive

LEMMA AppReceiveKept ==
    ASSUME AppStatsOK, OrphanInv, NEW type, FS!Receive(type),
           DOMAIN rows \subseteq DOMAIN rows',
           type = "AppFlowStart" => Head(north).start \in DOMAIN rows'
    PROVE  (AppStatsOK /\ OrphanInv)'
<1>1. \A start, n : n \in 0 .. Len(north) - 1 /\ HasStart(start, n + 1) => HasStart(start, n)'
  <2> SUFFICES ASSUME NEW start, NEW n \in 0 .. Len(north) - 1, HasStart(start, n + 1)
               PROVE  HasStart(start, n)'
    OBVIOUS
  <2>1. CASE start \in DOMAIN rows
    BY <2>1 DEF HasStart
  <2>2. CASE start \notin DOMAIN rows
    <3>1. PICK j \in 1 .. n + 1 : north[j].type = "AppFlowStart" /\ north[j].start = start
      BY <2>2 DEF HasStart
    <3>2. CASE j = 1
      BY <3>1, <3>2, AppReceived DEF HasStart
    <3>3. CASE j > 1
      <4>1. /\ Len(north) \in Nat /\ Len(north') = Len(north) - 1
            /\ \A i \in 1 .. Len(north') : north'[i] = north[i + 1]
        BY AppReceived
      <4>2. j - 1 \in 1 .. n /\ j - 1 \in 1 .. Len(north') /\ (j - 1) + 1 = j
        BY <3>3, <4>1
      <4>3. north'[j - 1] = north[j]
        BY <4>1, <4>2
      <4> QED
        BY <3>1, <4>2, <4>3 DEF HasStart
    <3> QED
      BY <3>2, <3>3
  <2> QED
    BY <2>1, <2>2
<1>2. AppStatsOK' /\ Len(north') = Len(north) - 1 /\ Len(north) > 0 /\ Len(north) \in Nat
  BY AppReceived
<1>3. (\A i \in 1 .. Len(north) : HasStart(north[i].start, i))'
  <2> SUFFICES ASSUME NEW i \in 1 .. Len(north')
               PROVE  HasStart(north[i].start, i)'
    OBVIOUS
  <2>1. PICK start : start = north'[i].start
    OBVIOUS
  <2>2. i + 1 \in 1 .. Len(north) /\ north'[i] = north[i + 1] /\ i \in 0 .. Len(north) - 1
    BY <1>2, AppReceived
  <2>3. HasStart(start, i + 1)
    BY <2>1, <2>2 DEF OrphanInv
  <2>4. HasStart(start, i)'
    BY <1>1, <2>2, <2>3
  <2> QED
    BY <2>1, <2>4 DEF HasStart
<1>4. (entry.stage = "app" /\ ~entry.send_start => HasStart(entry.start, Len(north)))'
  <2> SUFFICES ASSUME entry'.stage = "app" /\ ~entry'.send_start
               PROVE  HasStart(entry.start, Len(north))'
    OBVIOUS
  <2>1. PICK start, n : start = entry.start /\ n = Len(north) - 1
    OBVIOUS
  <2>2. entry' = entry
    BY AppReceived
  <2>3. HasStart(start, n + 1)
    BY <1>2, <2>1, <2>2 DEF OrphanInv
  <2>4. HasStart(start, n)'
    BY <1>1, <1>2, <2>1, <2>3
  <2> QED
    BY <1>2, <2>1, <2>2, <2>4 DEF HasStart
<1> QED
  BY <1>2, <1>3, <1>4 DEF OrphanInv

\* Every step of an application flow keeps both.
LEMMA AppStatsStep ==
    ASSUME AppStatsOK, OrphanInv, [FS!Next]_(FS!vars)
    PROVE  (AppStatsOK /\ OrphanInv)'
<1>1. CASE FS!ReportAppFlow
  <2>1. FS!Report("tun", [type |-> "AppFlowStart", time |-> now], MaxReports)
    BY <1>1 DEF FS!ReportAppFlow
  <2>2. "tun" \in FS!Tasks /\ [type |-> "AppFlowStart", time |-> now] \in AppEvent
    BY DEF FS!Tasks, AppStatsOK, AppEvent
  <2> QED
    BY <2>1, <2>2, AppReportKept
<1>2. CASE FS!ReportFinOrRst
  <2>1. FS!Report("tun", [type |-> "FlowFinished", time |-> now, user |-> FALSE], MaxReports)
    BY <1>2 DEF FS!ReportFinOrRst
  <2>2. "tun" \in FS!Tasks /\ [type |-> "FlowFinished", time |-> now, user |-> FALSE] \in AppEvent
    BY DEF FS!Tasks, AppStatsOK, AppEvent
  <2> QED
    BY <2>1, <2>2, AppReportKept
<1>3. CASE FS!Tick
  <2>1. AppStatsOK'
    BY <1>3 DEF FS!Tick, AppStatsOK
  <2> QED
    BY <1>3, <2>1 DEF FS!Tick, OrphanInv, HasStart
<1>4. CASE FS!Flush
  BY <1>4, AppFlushKept
<1>5. ASSUME NEW r \in RouteIds, FS!ReportRouteAssigned(r)
      PROVE  (AppStatsOK /\ OrphanInv)'
  <2>1. FS!Report("route", [type |-> "RouteAssigned", time |-> now, route |-> r], 2)
    BY <1>5 DEF FS!ReportRouteAssigned
  <2>2. "route" \in FS!Tasks /\ [type |-> "RouteAssigned", time |-> now, route |-> r] \in AppEvent
    BY DEF FS!Tasks, AppStatsOK, AppEvent
  <2> QED
    BY <2>1, <2>2, AppReportKept
<1>6. ASSUME NEW t \in Clients, FS!ReportUserFlow(t)
      PROVE  (AppStatsOK /\ OrphanInv)'
  BY <1>6 DEF FS!ReportUserFlow, AppStatsOK
<1>7. ASSUME NEW t \in FS!Tasks, FS!HandleMessage(t)
      PROVE  (AppStatsOK /\ OrphanInv)'
  BY <1>7, AppEventKept
<1>8. CASE FS!RecordAppFlowStart
  <2>1. DOMAIN rows' = DOMAIN rows \cup {Head(north).start}
    BY <1>8 DEF FS!RecordAppFlowStart
  <2>2. FS!Receive("AppFlowStart")
    BY <1>8 DEF FS!RecordAppFlowStart
  <2> QED
    BY <2>1, <2>2, AppReceiveKept
<1>9. CASE FS!RecordUserFlowStart
  <2>1. FS!Receive("UserFlowStart") /\ rows' = rows
    BY <1>9 DEF FS!RecordUserFlowStart
  <2> QED
    BY <2>1, AppReceiveKept
<1>10. CASE FS!RecordRouteAssigned
  <2>1. FS!Receive("RouteAssigned") /\ DOMAIN rows' = DOMAIN rows
    BY <1>10 DEF FS!RecordRouteAssigned
  <2> QED
    BY <2>1, AppReceiveKept
<1>11. CASE FS!RecordFlowFinished
  <2>1. FS!Receive("FlowFinished") /\ DOMAIN rows' = DOMAIN rows
    BY <1>11 DEF FS!RecordFlowFinished
  <2> QED
    BY <2>1, AppReceiveKept
<1>12. CASE UNCHANGED FS!vars
  <2>1. AppStatsOK'
    BY <1>12 DEF FS!vars, AppStatsOK
  <2> QED
    BY <1>12, <2>1 DEF FS!vars, OrphanInv, HasStart
<1> QED
  BY <1>1, <1>2, <1>3, <1>4, <1>5, <1>6, <1>7, <1>8, <1>9, <1>10, <1>11, <1>12
  DEF FS!Next

\* An end or a route assignment that a node reports of an application flow finds
\* the row of its start, whatever the routes, the timings and the order of the
\* events (FlowStore::flush, handle_connection).
THEOREM ReportsHaveRows == FS!Spec => []FS!NoOrphanReports
<1> DEFINE Inv == kind # "app" \/ (AppStatsOK /\ OrphanInv)
<1>1. FS!Init => Inv
  <2> SUFFICES ASSUME FS!Init, kind = "app" PROVE AppStatsOK /\ OrphanInv
    OBVIOUS
  <2>1. << >> \in Seq(AppRecord) /\ << >> \in Seq(AppEvent) /\ Len(<< >>) = 0
    OBVIOUS
  <2>2. chan \in [FS!Tasks -> Seq(AppEvent)] /\ north \in Seq(AppRecord) /\ Len(north) = 0
    BY <2>1 DEF FS!Init
  <2>3. entry = FS!NoEntry /\ entry.stage = "none"
    BY DEF FS!Init, FS!NoEntry
  <2>4. AppStatsOK
    BY <2>2, <2>3 DEF FS!Init, AppStatsOK
  <2> QED
    BY <2>2, <2>3, <2>4 DEF OrphanInv
<1>2. Inv /\ [FS!Next]_(FS!vars) => Inv'
  <2>1. [FS!Next]_(FS!vars) => kind' = kind
    BY DEF FS!Next, FS!vars, FS!ReportAppFlow, FS!Report, FS!ReportFinOrRst, FS!Tick, FS!Flush,
           FS!ReportRouteAssigned, FS!ReportUserFlow, FS!HandleMessage, FS!RecordAppFlowStart,
           FS!Receive, FS!RecordUserFlowStart, FS!RecordRouteAssigned, FS!RecordFlowFinished
  <2> QED
    BY <2>1, AppStatsStep
<1>3. Inv => FS!NoOrphanReports
  <2> SUFFICES ASSUME AppStatsOK, OrphanInv, north # << >>,
                      Head(north).type \in {"RouteAssigned", "FlowFinished"}
               PROVE  Head(north).start \in DOMAIN rows
    BY DEF FS!NoOrphanReports
  <2>1. Head(north) = north[1] /\ 1 \in 1 .. Len(north)
    BY EmptySeq, LenProperties DEF AppStatsOK
  <2>2. HasStart(north[1].start, 1)
    BY <2>1 DEF OrphanInv
  <2> QED
    BY <2>1, <2>2 DEF HasStart
<1> QED
  BY <1>1, <1>2, <1>3, PTL DEF FS!Spec

-----------------------------------------------------------------------------
(* Flow accounting: a user-space flow *)

UserEvent ==
    [type : {"UserFlowStart"}, time : Nat]
        \cup [type : {"RouteAssigned"}, time : Nat, route : RouteIds]
        \cup [type : {"FlowFinished"}, time : Nat, user : {TRUE}]

UserEntry ==
    [stage : {"user"}, start : Nat, finish : Int, finished : BOOLEAN, send_start : BOOLEAN]

UserRecord ==
    [type : {"UserFlowStart"}, start : Nat]
        \cup [type : {"FlowFinished"}, start : Nat, finish : Int, user : {TRUE}]

\* A client reports its start and then its end; of its k reports so far the
\* latest are left in its channel.
Left(k, s) ==
    \/ k = 0 /\ s = << >>
    \/ k = 1 /\ (s = << >> \/ (Len(s) = 1 /\ s[1].type = "UserFlowStart"))
    \/ /\ k = 2
       /\ \/ s = << >>
          \/ Len(s) = 1 /\ s[1].type = "FlowFinished"
          \/ Len(s) = 2 /\ s[1].type = "UserFlowStart" /\ s[2].type = "FlowFinished"

\* A client that has started has not told the reporter of its end.
OwesEnd(k, s) == k = 1 \/ \E i \in 1 .. Len(s) : s[i].type = "FlowFinished"

UserStatsOK ==
    /\ kind = "user" /\ now \in Nat
    /\ chan \in [FS!Tasks -> Seq(UserEvent)]
    /\ reports \in [FS!Tasks -> Nat]
    /\ chan["tun"] = << >>
    /\ \A i \in 1 .. Len(chan["route"]) : chan["route"][i].type = "RouteAssigned"
    /\ \A t \in Clients : Left(reports[t], chan[t])
    /\ entry \in {FS!NoEntry} \cup PendingEntry \cup UserEntry
    /\ north \in Seq(UserRecord)

\* The last that was said of the flow is its end, unless a client owes it.
SettleInv ==
    \/ \A t \in Clients : reports[t] = 0
    \/ \E t \in Clients : OwesEnd(reports[t], chan[t])
    \/ entry.stage = "user" /\ entry.finished
    \/ entry.stage # "user" /\ north # << >> /\ north[Len(north)].type = "FlowFinished"
    \/ entry.stage # "user" /\ north = << >> /\ flow_row.finished

LEMMA UserEntryStage ==
    ASSUME entry \in {FS!NoEntry} \cup PendingEntry \cup UserEntry
    PROVE  /\ entry.stage \in {"none", "pending", "user"}
           /\ entry.stage = "none" => entry = FS!NoEntry
           /\ entry.stage = "pending" => entry \in PendingEntry
           /\ entry.stage = "user" => entry \in UserEntry
BY DEF FS!NoEntry, PendingEntry, UserEntry

LEMMA LeftAppended ==
    ASSUME NEW k \in {0, 1}, NEW s \in Seq(UserEvent), NEW m \in UserEvent, Left(k, s),
           m.type = IF k = 0 THEN "UserFlowStart" ELSE "FlowFinished"
    PROVE  Left(k + 1, Append(s, m)) /\ OwesEnd(k + 1, Append(s, m))
<1> DEFINE r == Append(s, m)
<1>1. /\ Len(r) = Len(s) + 1 /\ \A i \in 1 .. Len(s) : r[i] = s[i]
      /\ r[Len(s) + 1] = m /\ Len(s) \in Nat
  BY AppendProperties, LenProperties
<1> HIDE DEF r
<1>2. s = << >> => Len(s) = 0
  OBVIOUS
<1>3. CASE k = 0
  BY <1>1, <1>2, <1>3 DEF Left, OwesEnd
<1>4. CASE k = 1 /\ s = << >>
  BY <1>1, <1>2, <1>4 DEF Left, OwesEnd
<1>5. CASE k = 1 /\ Len(s) = 1 /\ s[1].type = "UserFlowStart"
  <2>1. Len(r) = 2 /\ r[1] = s[1] /\ r[2] = m
    BY <1>1, <1>5
  <2>2. OwesEnd(2, r)
    BY <1>5, <2>1 DEF OwesEnd
  <2>3. Left(2, r)
    BY <1>5, <2>1 DEF Left
  <2>4. k + 1 = 2
    BY <1>5
  <2> QED
    BY <2>2, <2>3, <2>4 DEF r
<1>6. k = 0 \/ (k = 1 /\ s = << >>) \/ (k = 1 /\ Len(s) = 1 /\ s[1].type = "UserFlowStart")
  BY DEF Left
<1> QED
  BY <1>3, <1>4, <1>5, <1>6 DEF r

LEMMA LeftTaken ==
    ASSUME NEW k, NEW s \in Seq(UserEvent), s # << >>, Left(k, s)
    PROVE  /\ Left(k, Tail(s)) /\ Head(s).type \in {"UserFlowStart", "FlowFinished"}
           /\ Head(s).type = "UserFlowStart" => OwesEnd(k, Tail(s))
<1> DEFINE r == Tail(s)
<1>1. /\ Head(s) = s[1] /\ r \in Seq(UserEvent) /\ Len(s) \in Nat /\ Len(r) = Len(s) - 1
      /\ \A i \in 1 .. Len(r) : r[i] = s[i + 1]
  BY HeadTailProperties, LenProperties, EmptySeq
<1> HIDE DEF r
<1>2. Len(r) = 0 => r = << >>
  BY <1>1, EmptySeq
<1>3. CASE Len(s) = 1 /\ k \in {1, 2} /\ s[1].type = IF k = 1 THEN "UserFlowStart" ELSE "FlowFinished"
  <2>1. r = << >>
    BY <1>1, <1>2, <1>3
  <2>2. Left(k, r)
    BY <1>3, <2>1 DEF Left
  <2>3. CASE k = 1
    BY <1>1, <1>3, <2>2, <2>3 DEF OwesEnd, r
  <2>4. CASE k = 2
    BY <1>1, <1>3, <2>2, <2>4 DEF r
  <2> QED
    BY <1>3, <2>3, <2>4
<1>4. CASE k = 2 /\ Len(s) = 2 /\ s[1].type = "UserFlowStart" /\ s[2].type = "FlowFinished"
  <2>1. Len(r) = 1 /\ r[1] = s[2]
    BY <1>1, <1>4
  <2>2. OwesEnd(k, r)
    BY <1>4, <2>1 DEF OwesEnd
  <2> QED
    BY <1>1, <1>4, <2>1, <2>2 DEF Left, r
<1>5. \/ Len(s) = 1 /\ k \in {1, 2} /\ s[1].type = IF k = 1 THEN "UserFlowStart" ELSE "FlowFinished"
      \/ k = 2 /\ Len(s) = 2 /\ s[1].type = "UserFlowStart" /\ s[2].type = "FlowFinished"
  BY DEF Left
<1> QED
  BY <1>3, <1>4, <1>5 DEF r

LEMMA TaskNames == {"tun", "route"} \subseteq FS!Tasks /\ Clients \subseteq FS!Tasks
BY DEF FS!Tasks

LEMMA RouteReportKept ==
    ASSUME ClientNames, UserStatsOK, SettleInv, NEW r \in RouteIds, FS!ReportRouteAssigned(r)
    PROVE  (UserStatsOK /\ SettleInv)'
<1> DEFINE msg == [type |-> "RouteAssigned", time |-> now, route |-> r]
<1>1. /\ reports' = [reports EXCEPT !["route"] = @ + 1]
      /\ chan' = [chan EXCEPT !["route"] = Append(@, msg)]
      /\ kind' = kind /\ now' = now /\ entry' = entry /\ north' = north /\ flow_row' = flow_row
  BY DEF FS!ReportRouteAssigned, FS!Report
<1>2. msg \in UserEvent /\ msg.type = "RouteAssigned" /\ "route" \in FS!Tasks /\ "tun" \in FS!Tasks
  BY DEF UserStatsOK, UserEvent, FS!Tasks
<1> HIDE DEF msg
<1>3. chan["route"] \in Seq(UserEvent)
  BY <1>2 DEF UserStatsOK
<1>4. /\ Append(chan["route"], msg) \in Seq(UserEvent)
      /\ Len(Append(chan["route"], msg)) = Len(chan["route"]) + 1
      /\ \A i \in 1 .. Len(chan["route"]) : Append(chan["route"], msg)[i] = chan["route"][i]
      /\ Append(chan["route"], msg)[Len(chan["route"]) + 1] = msg
      /\ Len(chan["route"]) \in Nat
  BY <1>2, <1>3, AppendProperties, LenProperties
<1>5. chan' \in [FS!Tasks -> Seq(UserEvent)] /\ reports' \in [FS!Tasks -> Nat]
  BY <1>1, <1>2, <1>4 DEF UserStatsOK
<1>6. /\ chan'["route"] = Append(chan["route"], msg) /\ chan'["tun"] = chan["tun"]
      /\ \A t \in Clients : chan'[t] = chan[t] /\ reports'[t] = reports[t]
  BY <1>1, TaskNames DEF UserStatsOK, ClientNames
<1>7. \A i \in 1 .. Len(chan'["route"]) : chan'["route"][i].type = "RouteAssigned"
  BY <1>2, <1>4, <1>6 DEF UserStatsOK
<1>8. UserStatsOK'
  BY <1>1, <1>5, <1>6, <1>7 DEF UserStatsOK
<1> QED
  BY <1>1, <1>6, <1>8 DEF SettleInv

LEMMA ClientReportKept ==
    ASSUME ClientNames, UserStatsOK, SettleInv, NEW c \in Clients, FS!ReportUserFlow(c)
    PROVE  (UserStatsOK /\ SettleInv)'
<1> DEFINE msg == IF reports[c] = 0 THEN [type |-> "UserFlowStart", time |-> now]
                  ELSE [type |-> "FlowFinished", time |-> now, user |-> TRUE]
<1>1. /\ reports[c] < 2
      /\ reports' = [reports EXCEPT ![c] = @ + 1]
      /\ chan' = [chan EXCEPT ![c] = Append(@, msg)]
      /\ kind' = kind /\ now' = now /\ entry' = entry /\ north' = north /\ flow_row' = flow_row
  BY DEF FS!ReportUserFlow, FS!Report
<1>2. /\ msg \in UserEvent /\ c \in FS!Tasks
      /\ reports[c] = 0 => msg.type = "UserFlowStart"
      /\ reports[c] # 0 => msg.type = "FlowFinished"
  BY DEF UserStatsOK, UserEvent, FS!Tasks
<1> HIDE DEF msg
<1>3. chan[c] \in Seq(UserEvent) /\ Left(reports[c], chan[c]) /\ reports[c] \in {0, 1}
  BY <1>1, <1>2 DEF UserStatsOK, Left
<1>4. Append(chan[c], msg) \in Seq(UserEvent)
  BY <1>2, <1>3, AppendProperties
<1>5. chan' \in [FS!Tasks -> Seq(UserEvent)] /\ reports' \in [FS!Tasks -> Nat]
  BY <1>1, <1>2, <1>3, <1>4 DEF UserStatsOK
<1>6. /\ chan'["route"] = chan["route"] /\ chan'["tun"] = chan["tun"]
      /\ \A t \in Clients \ {c} : chan'[t] = chan[t] /\ reports'[t] = reports[t]
      /\ chan'[c] = Append(chan[c], msg) /\ reports'[c] = reports[c] + 1
  BY <1>1, TaskNames DEF UserStatsOK, ClientNames
<1>7. Left(reports[c] + 1, Append(chan[c], msg)) /\ OwesEnd(reports[c] + 1, Append(chan[c], msg))
  BY <1>2, <1>3, LeftAppended
<1>8. UserStatsOK'
  <2>1. \A t \in Clients : Left(reports'[t], chan'[t])
    BY <1>6, <1>7 DEF UserStatsOK
  <2> QED
    BY <1>1, <1>5, <1>6, <2>1 DEF UserStatsOK
<1> QED
  BY <1>6, <1>7, <1>8 DEF SettleInv

UserHandled(e, msg) ==
    CASE msg.type = "AppFlowStart" -> FS!HandleAppFlowStart(e, msg)
      [] msg.type = "RouteAssigned" -> FS!HandleRouteAssigned(e, msg)
      [] msg.type = "FlowFinished" -> FS!HandleFlowFinished(e, msg)
      [] msg.type = "UserFlowStart" -> FS!HandleUserFlowStart(e, msg)

LEMMA UserEventKept ==
    ASSUME ClientNames, UserStatsOK, SettleInv, NEW t \in FS!Tasks, FS!HandleMessage(t)
    PROVE  (UserStatsOK /\ SettleInv)'
<1> DEFINE msg == Head(chan[t])
<1>1. chan[t] \in Seq(UserEvent) /\ chan[t] # << >>
  BY DEF UserStatsOK, FS!HandleMessage
<1>2. /\ msg \in UserEvent /\ msg = chan[t][1] /\ Len(chan[t]) \in Nat /\ Len(chan[t]) > 0
      /\ Tail(chan[t]) \in Seq(UserEvent) /\ Len(Tail(chan[t])) = Len(chan[t]) - 1
      /\ \A i \in 1 .. Len(Tail(chan[t])) : Tail(chan[t])[i] = chan[t][i + 1]
  BY <1>1, HeadTailProperties, EmptySeq
<1>3. /\ entry' = UserHandled(entry, msg)
      /\ chan' = [chan EXCEPT ![t] = Tail(@)]
      /\ kind' = kind /\ now' = now /\ reports' = reports /\ north' = north /\ flow_row' = flow_row
  BY DEF FS!HandleMessage, UserHandled
<1> HIDE DEF msg
<1>4. chan' \in [FS!Tasks -> Seq(UserEvent)]
  BY <1>2, <1>3 DEF UserStatsOK
<1>5. chan'[t] = Tail(chan[t]) /\ \A u \in FS!Tasks \ {t} : chan'[u] = chan[u]
  BY <1>3 DEF UserStatsOK
<1>6. {"tun", "route"} \subseteq FS!Tasks /\ Clients \subseteq FS!Tasks /\ t # "tun"
  BY <1>1, TaskNames DEF UserStatsOK
<1>7. chan'["tun"] = << >>
  BY <1>5, <1>6 DEF UserStatsOK
<1>8. entry.stage \in {"none", "pending", "user"} /\ (entry.stage = "user" => entry \in UserEntry)
  BY UserEntryStage DEF UserStatsOK
<1>9. CASE t = "route"
  <2>1. msg.type = "RouteAssigned"
    <3>1. 1 \in 1 .. Len(chan["route"])
      BY <1>2, <1>9
    <3> QED
      BY <1>2, <1>9, <3>1 DEF UserStatsOK
  <2>2. msg.route \in RouteIds
    BY <1>2, <2>1 DEF UserEvent
  <2>3. entry' = FS!HandleRouteAssigned(entry, msg)
    BY <1>3, <2>1 DEF UserHandled
  <2>4. /\ entry.stage = "user" => entry' = entry
        /\ entry.stage # "user" => entry' \in PendingEntry /\ entry'.stage = "pending"
    <3>1. entry.stage = "user" => entry' = entry
      BY <2>3 DEF FS!HandleRouteAssigned
    <3>2. entry.stage # "user" => entry' = [stage |-> "pending", route |-> msg.route]
      BY <1>8, <2>3 DEF FS!HandleRouteAssigned
    <3> QED
      BY <2>2, <3>1, <3>2 DEF PendingEntry
  <2>5. \A i \in 1 .. Len(chan'["route"]) : chan'["route"][i].type = "RouteAssigned"
    <3> SUFFICES ASSUME NEW i \in 1 .. Len(chan'["route"])
                 PROVE  chan'["route"][i].type = "RouteAssigned"
      OBVIOUS
    <3>0. /\ chan'["route"] = Tail(chan["route"]) /\ Len(chan["route"]) \in Nat
          /\ Len(Tail(chan["route"])) = Len(chan["route"]) - 1
          /\ \A j \in 1 .. Len(Tail(chan["route"])) : Tail(chan["route"])[j] = chan["route"][j + 1]
      BY <1>2, <1>5, <1>9
    <3>1. i + 1 \in 1 .. Len(chan["route"]) /\ chan'["route"][i] = chan["route"][i + 1]
      BY <3>0
    <3> QED
      BY <3>1 DEF UserStatsOK
  <2>6. \A c \in Clients : chan'[c] = chan[c]
    BY <1>5, <1>6, <1>9 DEF ClientNames
  <2>7. UserStatsOK'
    BY <1>3, <1>4, <1>7, <2>4, <2>5, <2>6 DEF UserStatsOK
  <2> QED
    BY <1>3, <2>4, <2>6, <2>7 DEF SettleInv
<1>10. CASE t \in Clients
  <2>1. chan'["route"] = chan["route"] /\ \A c \in Clients \ {t} : chan'[c] = chan[c]
    BY <1>5, <1>6, <1>10 DEF ClientNames
  <2>2. /\ Left(reports[t], chan'[t]) /\ msg.type \in {"UserFlowStart", "FlowFinished"}
        /\ msg.type = "UserFlowStart" => OwesEnd(reports[t], chan'[t])
    BY <1>1, <1>5, <1>10, LeftTaken DEF UserStatsOK, msg
  <2>3. \A c \in Clients : Left(reports'[c], chan'[c])
    BY <1>3, <2>1, <2>2 DEF UserStatsOK
  <2>6. CASE msg.type = "UserFlowStart"
    <3>1. msg.time \in Nat
      BY <1>2, <2>6 DEF UserEvent
    <3>2. entry' \in UserEntry
      <4>1. entry' = FS!HandleUserFlowStart(entry, msg)
        BY <1>3, <2>6 DEF UserHandled
      <4> QED
        BY <3>1, <4>1 DEF FS!HandleUserFlowStart, UserEntry, FS!None
    <3>3. UserStatsOK'
      BY <1>3, <1>4, <1>7, <2>1, <2>3, <3>2 DEF UserStatsOK
    <3> QED
      BY <1>3, <1>10, <2>2, <2>6, <3>3 DEF SettleInv
  <2>7. CASE msg.type = "FlowFinished"
    <3>1. msg.time \in Nat /\ msg.user = TRUE
      BY <1>2, <2>7 DEF UserEvent
    <3>2. entry' \in UserEntry /\ entry'.finished = TRUE /\ entry'.stage = "user"
      <4>1. entry' = FS!HandleFlowFinished(entry, msg)
        BY <1>3, <2>7 DEF UserHandled
      <4>2. CASE entry.stage = "user"
        <5>1. entry' = FS!UserFinished(entry.start, msg.time, entry.send_start)
          BY <3>1, <4>1, <4>2 DEF FS!HandleFlowFinished
        <5>2. entry.start \in Nat /\ entry.send_start \in BOOLEAN
          BY <1>8, <4>2 DEF UserEntry
        <5> QED
          BY <3>1, <5>1, <5>2 DEF FS!UserFinished, UserEntry
      <4>3. CASE entry.stage # "user"
        <5>1. entry' = FS!UserFinished(msg.time, msg.time, FALSE)
          BY <1>8, <3>1, <4>1, <4>3 DEF FS!HandleFlowFinished
        <5> QED
          BY <3>1, <5>1 DEF FS!UserFinished, UserEntry
      <4> QED
        BY <4>2, <4>3
    <3>3. UserStatsOK'
      BY <1>3, <1>4, <1>7, <2>1, <2>3, <3>2 DEF UserStatsOK
    <3> QED
      BY <3>2, <3>3 DEF SettleInv
  <2> QED
    BY <2>2, <2>6, <2>7
<1> QED
  BY <1>6, <1>9, <1>10 DEF FS!Tasks

\* A flush sends the end of a flow last, and of nothing but a user-space flow.
LEMMA UserFlushKept ==
    ASSUME UserStatsOK, SettleInv, FS!Flush
    PROVE  (UserStatsOK /\ SettleInv)'
<1>1. PICK order \in FS!Orders(entry) : north' = north \o FS!FlushMessages(entry, order)
  BY DEF FS!Flush
<1>2. /\ entry.stage \in {"none", "pending", "user"}
      /\ entry.stage = "user" => entry \in UserEntry
  BY UserEntryStage DEF UserStatsOK
<1>3. /\ entry' = FS!AfterFlush(entry)
      /\ kind' = kind /\ now' = now /\ chan' = chan /\ reports' = reports /\ flow_row' = flow_row
  BY DEF FS!Flush
<1>4. north \in Seq(UserRecord) /\ << >> \in Seq(UserRecord)
  BY DEF UserStatsOK
<1> DEFINE first == FS!StartMessage(entry, "app", "AppFlowStart")
           start == FS!StartMessage(entry, "user", "UserFlowStart")
           routes == FS!RouteMessages(entry, order)
           finish == FS!FinishMessage(entry)
<1>5. north' = north \o (((first \o start) \o routes) \o finish)
  BY <1>1 DEF FS!FlushMessages
<1>6. first = << >> /\ routes = << >>
  <2>1. order = << >>
    BY <1>2 DEF FS!Orders
  <2> QED
    BY <1>2, <2>1 DEF FS!StartMessage, FS!RouteMessages
<1>7. start \in Seq(UserRecord)
  <2>1. CASE entry.stage = "user" /\ entry.send_start
    <3>1. PICK m : m = [type |-> "UserFlowStart", start |-> entry.start]
      OBVIOUS
    <3>2. m \in UserRecord
      BY <1>2, <2>1, <3>1 DEF UserEntry, UserRecord
    <3>3. start = <<m>>
      BY <2>1, <3>1 DEF FS!StartMessage
    <3> HIDE DEF start
    <3> QED
      BY <3>2, <3>3
  <2>2. CASE ~(entry.stage = "user" /\ entry.send_start)
    <3>1. start = << >>
      BY <2>2 DEF FS!StartMessage
    <3> HIDE DEF start
    <3> QED
      BY <3>1
  <2> QED
    BY <2>1, <2>2
<1>8. CASE entry.stage = "user" /\ entry.finished
  <2>1. PICK m : m = [type |-> "FlowFinished", start |-> entry.start, finish |-> entry.finish,
                      user |-> TRUE]
    OBVIOUS
  <2>2. m \in UserRecord /\ m.type = "FlowFinished"
    BY <1>2, <1>8, <2>1 DEF UserEntry, UserRecord
  <2>3. finish = <<m>>
    BY <1>8, <2>1 DEF FS!FinishMessage
  <2>4. <<m>> \in Seq(UserRecord) /\ Len(<<m>>) = 1 /\ <<m>>[1] = m
    BY <2>2, SingleMessage
  <2> HIDE DEF first, start, routes, finish
  <2>5. north' = north \o (start \o <<m>>)
    BY <1>5, <1>6, <1>7, <2>3, ConcatEmptySeq
  <2> DEFINE flushed == start \o <<m>>
  <2>6. flushed \in Seq(UserRecord) /\ Len(flushed) = Len(start) + 1 /\ flushed[Len(start) + 1] = m
        /\ Len(start) \in Nat
    BY <1>7, <2>4, ConcatProperties, LenProperties
  <2> HIDE DEF flushed
  <2>7. north' = north \o flushed
    BY <2>5 DEF flushed
  <2>8. /\ north' \in Seq(UserRecord) /\ Len(north') = Len(north) + Len(flushed)
        /\ north'[Len(north) + Len(flushed)] = flushed[Len(flushed)] /\ Len(north) \in Nat
    <3>1. /\ north \o flushed \in Seq(UserRecord) /\ Len(north \o flushed) = Len(north) + Len(flushed)
          /\ \A i \in 1 .. Len(north) + Len(flushed) :
                (north \o flushed)[i] = IF i <= Len(north) THEN north[i] ELSE flushed[i - Len(north)]
      BY <1>4, <2>6, ConcatProperties
    <3>2. Len(north) \in Nat /\ Len(flushed) \in Nat /\ Len(flushed) > 0
      BY <1>4, <2>6, LenProperties
    <3>3. (north \o flushed)[Len(north) + Len(flushed)] = flushed[Len(flushed)]
      BY <3>1, <3>2
    <3> QED
      BY <2>7, <3>1, <3>2, <3>3
  <2>9. north' # << >> /\ north'[Len(north')].type = "FlowFinished"
    BY <2>2, <2>6, <2>8
  <2>10. entry' = FS!NoEntry /\ entry'.stage # "user"
    BY <1>3, <1>8 DEF FS!AfterFlush, FS!NoEntry
  <2>11. UserStatsOK'
    BY <1>3, <2>8, <2>10 DEF UserStatsOK
  <2> QED
    BY <2>9, <2>10, <2>11 DEF SettleInv
<1>9. CASE entry.stage = "user" /\ ~entry.finished
  <2>1. finish = << >>
    BY <1>9 DEF FS!FinishMessage
  <2> HIDE DEF first, start, routes, finish
  <2>2. north' = north \o start
    BY <1>5, <1>6, <1>7, <2>1, ConcatEmptySeq
  <2>3. north' \in Seq(UserRecord)
    BY <1>4, <1>7, <2>2
  <2>4. entry' = [entry EXCEPT !.send_start = FALSE]
    BY <1>3, <1>9 DEF FS!AfterFlush
  <2>5. entry' \in UserEntry
    BY <1>2, <1>9, <2>4 DEF UserEntry
  <2>6. UserStatsOK'
    BY <1>3, <2>3, <2>5 DEF UserStatsOK
  <2> QED
    BY <1>3, <1>9, <2>6 DEF SettleInv
<1>10. CASE entry.stage # "user"
  <2>1. start = << >> /\ finish = << >>
    BY <1>2, <1>10 DEF FS!StartMessage, FS!FinishMessage
  <2> HIDE DEF first, start, routes, finish
  <2>2. north' = north
    BY <1>4, <1>5, <1>6, <2>1, ConcatEmptySeq
  <2>3. entry' = entry
    BY <1>2, <1>3, <1>10 DEF FS!AfterFlush
  <2>4. UserStatsOK'
    BY <1>3, <2>2, <2>3 DEF UserStatsOK
  <2> QED
    BY <1>3, <2>2, <2>3, <2>4 DEF SettleInv
<1> QED
  BY <1>8, <1>9, <1>10

LEMMA UserReceiveKept ==
    ASSUME UserStatsOK, SettleInv, NEW type, FS!Receive(type),
           flow_row'.finished = IF type = "UserFlowStart" THEN FALSE
                                ELSE IF type = "FlowFinished" THEN TRUE ELSE flow_row.finished
    PROVE  (UserStatsOK /\ SettleInv)'
<1>1. /\ north \in Seq(UserRecord) /\ north # << >> /\ Head(north).type = type
      /\ north' = Tail(north) /\ entry' = entry
      /\ kind' = kind /\ now' = now /\ chan' = chan /\ reports' = reports
  BY DEF UserStatsOK, FS!Receive
<1>2. /\ Head(north) = north[1] /\ Len(north) \in Nat /\ Len(north) > 0
      /\ north' \in Seq(UserRecord) /\ Len(north') = Len(north) - 1
      /\ \A i \in 1 .. Len(north') : north'[i] = north[i + 1]
  BY <1>1, HeadTailProperties, EmptySeq, LenProperties
<1>3. UserStatsOK'
  BY <1>1, <1>2 DEF UserStatsOK
<1>4. CASE entry.stage # "user" /\ north[Len(north)].type = "FlowFinished"
  <2>1. CASE Len(north) = 1
    <3>1. north' = << >> /\ type = "FlowFinished"
      BY <1>1, <1>2, <1>4, <2>1, EmptySeq
    <3> QED
      BY <1>1, <1>3, <1>4, <3>1 DEF SettleInv
  <2>2. CASE Len(north) > 1
    <3>1. north'[Len(north')] = north[Len(north)] /\ north' # << >>
      BY <1>2, <2>2
    <3> QED
      BY <1>1, <1>3, <1>4, <3>1 DEF SettleInv
  <2> QED
    BY <1>2, <2>1, <2>2
<1>5. CASE ~(entry.stage # "user" /\ north[Len(north)].type = "FlowFinished")
  BY <1>1, <1>3, <1>5 DEF SettleInv
<1> QED
  BY <1>4, <1>5

LEMMA UserStatsStep ==
    ASSUME ClientNames, UserStatsOK, SettleInv, [FS!Next]_(FS!vars)
    PROVE  (UserStatsOK /\ SettleInv)'
<1>1. CASE FS!ReportAppFlow \/ FS!ReportFinOrRst
  BY <1>1 DEF FS!ReportAppFlow, FS!ReportFinOrRst, UserStatsOK
<1>2. CASE FS!Tick
  <2>1. UserStatsOK'
    BY <1>2 DEF FS!Tick, UserStatsOK
  <2> QED
    BY <1>2, <2>1 DEF FS!Tick, SettleInv
<1>3. CASE FS!Flush
  BY <1>3, UserFlushKept
<1>4. ASSUME NEW r \in RouteIds, FS!ReportRouteAssigned(r)
      PROVE  (UserStatsOK /\ SettleInv)'
  BY <1>4, RouteReportKept
<1>5. ASSUME NEW t \in Clients, FS!ReportUserFlow(t)
      PROVE  (UserStatsOK /\ SettleInv)'
  BY <1>5, ClientReportKept
<1>6. ASSUME NEW t \in FS!Tasks, FS!HandleMessage(t)
      PROVE  (UserStatsOK /\ SettleInv)'
  BY <1>6, UserEventKept
<1>7. FS!Receive("AppFlowStart") \/ FS!Receive("RouteAssigned") => FALSE
  <2> SUFFICES ASSUME FS!Receive("AppFlowStart") \/ FS!Receive("RouteAssigned") PROVE FALSE
    OBVIOUS
  <2>1. north \in Seq(UserRecord) /\ north # << >>
    BY DEF FS!Receive, UserStatsOK
  <2>2. Head(north) \in UserRecord
    BY <2>1, HeadTailProperties
  <2> QED
    BY <2>2 DEF FS!Receive, UserRecord
<1>8. CASE FS!RecordAppFlowStart \/ FS!RecordRouteAssigned
  BY <1>7, <1>8 DEF FS!RecordAppFlowStart, FS!RecordRouteAssigned
<1>9. CASE FS!RecordUserFlowStart
  <2>1. FS!Receive("UserFlowStart") /\ flow_row'.finished = FALSE
    BY <1>9 DEF FS!RecordUserFlowStart
  <2> QED
    BY <2>1, UserReceiveKept
<1>10. CASE FS!RecordFlowFinished
  <2>1. FS!Receive("FlowFinished")
    BY <1>10 DEF FS!RecordFlowFinished
  <2>2. Head(north) \in UserRecord /\ Head(north).type = "FlowFinished"
    BY <2>1, HeadTailProperties DEF FS!Receive, UserStatsOK
  <2>3. Head(north).user = TRUE
    BY <2>2 DEF UserRecord
  <2>4. flow_row'.finished = TRUE
    BY <1>10, <2>3 DEF FS!RecordFlowFinished
  <2> QED
    BY <2>1, <2>4, UserReceiveKept
<1>11. CASE UNCHANGED FS!vars
  <2>1. UserStatsOK'
    BY <1>11 DEF FS!vars, UserStatsOK
  <2> QED
    BY <1>11, <2>1 DEF FS!vars, SettleInv
<1> QED
  BY <1>1, <1>2, <1>3, <1>4, <1>5, <1>6, <1>8, <1>9, <1>10, <1>11 DEF FS!Next

\* No client reports an application flow.
ClientsQuiet ==
    kind = "app" /\ reports \in [FS!Tasks -> Nat] /\ \A t \in Clients : reports[t] = 0

LEMMA ClientsQuietStep ==
    ASSUME ClientNames, ClientsQuiet, [FS!Next]_(FS!vars)
    PROVE  ClientsQuiet'
<1>1. ASSUME NEW t \in {"tun", "route"}, NEW msg, NEW max, FS!Report(t, msg, max)
      PROVE  ClientsQuiet'
  <2>1. kind' = kind /\ reports' = [reports EXCEPT ![t] = @ + 1]
    BY <1>1 DEF FS!Report
  <2> QED
    BY <1>1, <2>1, TaskNames DEF ClientsQuiet, ClientNames
<1>2. CASE FS!ReportAppFlow \/ FS!ReportFinOrRst
  BY <1>1, <1>2 DEF FS!ReportAppFlow, FS!ReportFinOrRst
<1>3. ASSUME NEW r \in RouteIds, FS!ReportRouteAssigned(r) PROVE ClientsQuiet'
  BY <1>1, <1>3 DEF FS!ReportRouteAssigned
<1>4. ASSUME NEW t \in Clients, FS!ReportUserFlow(t) PROVE ClientsQuiet'
  BY <1>4 DEF FS!ReportUserFlow, ClientsQuiet
<1>5. CASE kind' = kind /\ reports' = reports
  BY <1>5 DEF ClientsQuiet
<1> QED
  BY <1>2, <1>3, <1>4, <1>5
  DEF FS!Next, FS!vars, FS!Tick, FS!Flush, FS!HandleMessage, FS!RecordAppFlowStart, FS!Receive,
      FS!RecordUserFlowStart, FS!RecordRouteAssigned, FS!RecordFlowFinished

\* A user-space flow that all its threads have ended is recorded as finished, for
\* any number of threads and any order of their reports (FlowStore::flush,
\* UserFlowStart and FlowFinished in handle_connection).
THEOREM UserFlowsSettle ==
    ASSUME "tun" \notin Clients, "route" \notin Clients
    PROVE  FS!Spec => []FS!UserFlowSettles
<1>0. ClientNames
  BY DEF ClientNames
<1> DEFINE Inv == ClientsQuiet \/ (UserStatsOK /\ SettleInv)
<1>1. FS!Init => Inv
  <2> SUFFICES ASSUME FS!Init PROVE Inv
    OBVIOUS
  <2>0. kind \in {"app", "user"}
    BY DEF FS!Init
  <2>1. << >> \in Seq(UserRecord) /\ << >> \in Seq(UserEvent) /\ Len(<< >>) = 0
    OBVIOUS
  <2>2. chan = [t \in FS!Tasks |-> << >>] /\ reports = [t \in FS!Tasks |-> 0] /\ north = << >>
    BY DEF FS!Init
  <2>3. chan["tun"] = << >> /\ chan["route"] = << >>
    BY <2>2, TaskNames
  <2>4. \A t \in Clients : reports[t] = 0 /\ Left(reports[t], chan[t])
    BY <2>2, TaskNames DEF Left
  <2>5. CASE kind = "user"
    <3>1. UserStatsOK
      BY <2>1, <2>2, <2>3, <2>4, <2>5 DEF FS!Init, UserStatsOK
    <3> QED
      BY <2>4, <3>1 DEF SettleInv
  <2>6. CASE kind = "app"
    BY <2>2, <2>4, <2>6 DEF ClientsQuiet
  <2> QED
    BY <2>0, <2>5, <2>6
<1>2. Inv /\ [FS!Next]_(FS!vars) => Inv'
  BY <1>0, ClientsQuietStep, UserStatsStep
<1>3. Inv => FS!UserFlowSettles
  <2> SUFFICES ASSUME Inv, \A t \in Clients : reports[t] # 1, NEW c \in Clients, reports[c] = 2,
                      north = << >>, entry.stage # "user", \A t \in FS!Tasks : chan[t] = << >>
               PROVE  flow_row.finished
    BY DEF FS!UserFlowSettles
  <2>1. UserStatsOK /\ SettleInv
    BY DEF ClientsQuiet
  <2>2. \A t \in Clients : ~OwesEnd(reports[t], chan[t])
    BY TaskNames DEF OwesEnd
  <2> QED
    BY <2>1, <2>2 DEF SettleInv
<1> QED
  BY <1>1, <1>2, <1>3, PTL DEF FS!Spec

-----------------------------------------------------------------------------
(* A link over UDP *)

UdpSteps == {"recv", "check", "create", "insert", "lookup", "forward"}

UdpTypeOK ==
    /\ udp_client \in Nat
    /\ datagrams \in [UL!Datagrams -> Nat]
    /\ copies \in [UL!Datagrams -> Nat]
    /\ delivered \in [UL!Datagrams -> Nat]
    /\ worker \in [Workers -> [step : UdpSteps, datagram : UL!Datagrams, queue : Nat]]
    /\ queues \in Seq(Seq(UL!Datagrams))
    /\ readers \subseteq DOMAIN queues

\* The copies of a datagram that workers and queues hold.
HeldIn(ws, d) == {w \in Workers : ws[w].step # "recv" /\ ws[w].datagram = d}
Holds(rec, d) == IF rec.step # "recv" /\ rec.datagram = d THEN 1 ELSE 0
QueuedIn(qs, d) == {s \in (DOMAIN qs) \X Nat : s[2] \in 1 .. Len(qs[s[1]]) /\ qs[s[1]][s[2]] = d}

Same(e, d) == IF e = d THEN 1 ELSE 0
Grown(before, after, n) == IsFiniteSet(after) /\ Cardinality(after) = Cardinality(before) + n

\* A queue that the table or a worker refers to has its reader, a datagram the
\* udp_client has not sent has no copies, and no copy is in two places.
UdpInv ==
    /\ UdpTypeOK
    /\ lost = {}
    /\ peer # 0 => peer \in readers
    /\ \A w \in Workers : worker[w].step \in {"insert", "forward"} => worker[w].queue \in readers
    /\ \A d \in UL!Datagrams : d >= udp_client => copies[d] = 0
    /\ \A d \in UL!Datagrams : IsFiniteSet(QueuedIn(queues, d))
    /\ \A d \in UL!Datagrams :
          datagrams[d] + Cardinality(HeldIn(worker, d)) + Cardinality(QueuedIn(queues, d)) + delivered[d]
              <= copies[d]

LEMMA CountSet ==
    ASSUME NEW D, NEW f \in [D -> Nat], NEW d \in D, NEW v \in Nat
    PROVE  /\ [f EXCEPT ![d] = v] \in [D -> Nat] /\ [f EXCEPT ![d] = v][d] = v
           /\ \A e \in D : e # d => [f EXCEPT ![d] = v][e] = f[e]
           /\ f[d] \in Nat
OBVIOUS

LEMMA HeldFinite ==
    ASSUME IsFiniteSet(Workers), NEW ws, NEW d
    PROVE  IsFiniteSet(HeldIn(ws, d)) /\ Cardinality(HeldIn(ws, d)) \in Nat
BY FS_Subset, FS_CardinalityType DEF HeldIn

\* A worker that takes up or lays down a datagram.
LEMMA HeldChanged ==
    ASSUME IsFiniteSet(Workers), NEW w \in Workers, NEW ws, NEW after, NEW r, NEW d,
           after[w] = r, \A v \in Workers : v # w => after[v] = ws[v]
    PROVE  Cardinality(HeldIn(after, d)) + Holds(ws[w], d) = Cardinality(HeldIn(ws, d)) + Holds(r, d)
<1> DEFINE others == HeldIn(ws, d) \ {w}
<1>2. HeldIn(after, d) = IF Holds(r, d) = 1 THEN others \cup {w} ELSE others
  BY DEF HeldIn, Holds
<1>3. w \in HeldIn(ws, d) <=> Holds(ws[w], d) = 1
  BY DEF HeldIn, Holds
<1>0. Holds(ws[w], d) \in {0, 1} /\ Holds(r, d) \in {0, 1}
  BY DEF Holds
<1> HIDE DEF others
<1>4. IsFiniteSet(HeldIn(ws, d)) /\ Cardinality(HeldIn(ws, d)) \in Nat
  BY HeldFinite
<1>5. /\ IsFiniteSet(others) /\ w \notin others
      /\ Cardinality(others) + Holds(ws[w], d) = Cardinality(HeldIn(ws, d))
      /\ Cardinality(others) \in Nat
  <2>1. CASE w \in HeldIn(ws, d)
    <3>1. IsFiniteSet(others) /\ Cardinality(others) = Cardinality(HeldIn(ws, d)) - 1
      BY <1>4, <2>1, FS_RemoveElement DEF others
    <3>2. w \notin others /\ Cardinality(others) \in Nat
      BY <3>1, FS_CardinalityType DEF others
    <3>3. Holds(ws[w], d) = 1
      BY <1>3, <2>1
    <3> QED
      BY <1>4, <3>1, <3>2, <3>3
  <2>2. CASE w \notin HeldIn(ws, d)
    <3>1. others = HeldIn(ws, d)
      BY <2>2 DEF others
    <3> QED
      BY <1>0, <1>3, <1>4, <2>2, <3>1
  <2> QED
    BY <2>1, <2>2
<1>6. Cardinality(others \cup {w}) = Cardinality(others) + 1
  BY <1>5, FS_AddElement
<1> QED
  BY <1>0, <1>2, <1>4, <1>5, <1>6

\* A datagram put into a queue is one more copy there.
LEMMA QueuedAppended ==
    ASSUME NEW D, NEW qs \in Seq(Seq(D)), NEW q \in DOMAIN qs, NEW e \in D, NEW d,
           IsFiniteSet(QueuedIn(qs, d)), NEW after, DOMAIN after = DOMAIN qs,
           after[q] = Append(qs[q], e), \A p \in DOMAIN qs : p # q => after[p] = qs[p]
    PROVE  Grown(QueuedIn(qs, d), QueuedIn(after, d), Same(e, d))
<1> DEFINE n == Len(qs[q]) + 1
<1>1. /\ qs[q] \in Seq(D) /\ Len(qs[q]) \in Nat
      /\ Append(qs[q], e) \in Seq(D) /\ Len(Append(qs[q], e)) = n
      /\ \A i \in 1 .. Len(qs[q]) : Append(qs[q], e)[i] = qs[q][i]
      /\ Append(qs[q], e)[n] = e
  BY AppendProperties, LenProperties
<1>2. /\ DOMAIN after = DOMAIN qs /\ after[q] = Append(qs[q], e)
      /\ \A p \in DOMAIN qs : p # q => after[p] = qs[p]
  OBVIOUS
<1>3. <<q, n>> \notin QueuedIn(qs, d)
  BY <1>1 DEF QueuedIn
<1>4. ASSUME e = d
      PROVE  /\ IsFiniteSet(QueuedIn(after, d))
             /\ Cardinality(QueuedIn(after, d)) = Cardinality(QueuedIn(qs, d)) + 1
  <2>1. QueuedIn(after, d) = QueuedIn(qs, d) \cup {<<q, n>>}
    <3>1. ASSUME NEW s \in (DOMAIN qs) \X Nat
          PROVE  s \in QueuedIn(after, d) <=> s \in QueuedIn(qs, d) \/ s = <<q, n>>
      <4>1. CASE s[1] = q
        BY <1>1, <1>2, <1>4, <4>1 DEF QueuedIn
      <4>2. CASE s[1] # q
        BY <1>1, <1>2, <1>4, <4>2 DEF QueuedIn
      <4> QED
        BY <4>1, <4>2
    <3>2. <<q, n>> \in (DOMAIN qs) \X Nat
      BY <1>1
    <3> QED
      BY <1>2, <3>1, <3>2 DEF QueuedIn
  <2> QED
    BY <1>3, <1>4, <2>1, FS_AddElement
<1>5. ASSUME e # d
      PROVE  /\ IsFiniteSet(QueuedIn(after, d))
             /\ Cardinality(QueuedIn(after, d)) = Cardinality(QueuedIn(qs, d))
  <2>1. QueuedIn(after, d) = QueuedIn(qs, d)
    <3>1. ASSUME NEW s \in (DOMAIN qs) \X Nat
          PROVE  s \in QueuedIn(after, d) <=> s \in QueuedIn(qs, d)
      <4>1. CASE s[1] = q
        BY <1>1, <1>2, <1>5, <4>1 DEF QueuedIn
      <4>2. CASE s[1] # q
        BY <1>1, <1>2, <1>5, <4>2 DEF QueuedIn
      <4> QED
        BY <4>1, <4>2
    <3> QED
      BY <1>2, <3>1 DEF QueuedIn
  <2>2. Cardinality(QueuedIn(qs, d)) \in Nat
    BY FS_CardinalityType
  <2> QED
    BY <2>1, <2>2
<1> QED
  BY <1>4, <1>5, FS_CardinalityType DEF Same, Grown

\* The queue q without its first packet
FirstTaken(qs, q) == [qs EXCEPT ![q] = Tail(@)]
OneFewer(after, qs, q, d) ==
    Cardinality(QueuedIn(after, d)) <=
        Cardinality(QueuedIn(qs, d)) - IF Head(qs[q]) = d THEN 1 ELSE 0

\* A datagram taken out of a queue is one copy less there.
LEMMA QueuedTaken ==
    ASSUME NEW D, NEW qs \in Seq(Seq(D)), NEW q \in DOMAIN qs, qs[q] # << >>, NEW d,
           IsFiniteSet(QueuedIn(qs, d)), NEW after, after = FirstTaken(qs, q)
    PROVE  /\ after \in Seq(Seq(D)) /\ DOMAIN after = DOMAIN qs
           /\ IsFiniteSet(QueuedIn(after, d)) /\ Cardinality(QueuedIn(after, d)) \in Nat
           /\ OneFewer(after, qs, q, d)
<1> DEFINE rest == IF Head(qs[q]) = d THEN QueuedIn(qs, d) \ {<<q, 1>>} ELSE QueuedIn(qs, d)
           f == [s \in QueuedIn(after, d) |-> IF s[1] = q THEN <<q, s[2] + 1>> ELSE s]
<1>1. /\ qs[q] \in Seq(D) /\ Len(qs[q]) \in Nat /\ Len(qs[q]) > 0 /\ Head(qs[q]) = qs[q][1]
      /\ Tail(qs[q]) \in Seq(D) /\ Len(Tail(qs[q])) = Len(qs[q]) - 1
      /\ \A i \in 1 .. Len(Tail(qs[q])) : Tail(qs[q])[i] = qs[q][i + 1]
  BY HeadTailProperties, LenProperties, EmptySeq
<1>2. /\ after \in Seq(Seq(D)) /\ DOMAIN after = DOMAIN qs /\ after[q] = Tail(qs[q])
      /\ \A p \in DOMAIN qs : p # q => after[p] = qs[p]
  BY <1>1 DEF FirstTaken
<1>3. IsFiniteSet(rest) /\ Cardinality(rest) = Cardinality(QueuedIn(qs, d)) - IF Head(qs[q]) = d THEN 1 ELSE 0
  <2>1. CASE Head(qs[q]) = d
    <3>1. <<q, 1>> \in QueuedIn(qs, d)
      BY <1>1, <2>1 DEF QueuedIn
    <3> QED
      BY <2>1, <3>1, FS_RemoveElement
  <2>2. CASE Head(qs[q]) # d
    BY <2>2, FS_CardinalityType
  <2> QED
    BY <2>1, <2>2
<1>4. f \in Injection(QueuedIn(after, d), rest)
  <2>1. ASSUME NEW s \in QueuedIn(after, d)
        PROVE  /\ s \in (DOMAIN qs) \X Nat /\ s = <<s[1], s[2]>>
               /\ f[s] \in QueuedIn(qs, d) /\ f[s] # <<q, 1>>
               /\ f[s][1] = s[1] /\ f[s][2] = IF s[1] = q THEN s[2] + 1 ELSE s[2]
    <3>1. s \in (DOMAIN qs) \X Nat /\ s[2] \in 1 .. Len(after[s[1]]) /\ after[s[1]][s[2]] = d
      BY <1>2 DEF QueuedIn
    <3>2. s = <<s[1], s[2]>> /\ s[1] \in DOMAIN qs /\ s[2] \in Nat
      BY <3>1
    <3> HIDE DEF f
    <3>3. CASE s[1] = q
      <4>1. PICK n : n = s[2] + 1
        OBVIOUS
      <4>2. f[s] = <<q, n>>
        BY <3>3, <4>1 DEF f
      <4>3. s[2] \in 1 .. Len(Tail(qs[q])) /\ Tail(qs[q])[s[2]] = d
        BY <1>2, <3>1, <3>3
      <4>4. n \in 1 .. Len(qs[q]) /\ n \in Nat /\ n # 1
        <5>1. PICK k, m : k = s[2] /\ m = Len(qs[q])
          OBVIOUS
        <5>2. k \in Nat /\ m \in Nat /\ k \in 1 .. (m - 1) /\ n = k + 1
          BY <1>1, <3>2, <4>1, <4>3, <5>1
        <5>3. n \in 1 .. m /\ n \in Nat /\ n # 1
          BY <5>2
        <5> QED
          BY <5>1, <5>3
      <4>5. qs[q][n] = d
        BY <1>1, <4>1, <4>3
      <4>6. <<q, n>> \in QueuedIn(qs, d)
        BY <4>4, <4>5 DEF QueuedIn
      <4> QED
        BY <3>1, <3>2, <3>3, <4>1, <4>2, <4>4, <4>6
    <3>4. CASE s[1] # q
      <4>1. f[s] = s
        BY <3>4 DEF f
      <4> QED
        BY <1>2, <3>1, <3>2, <3>4, <4>1 DEF QueuedIn
    <3> QED
      BY <3>3, <3>4
  <2>2. f \in [QueuedIn(after, d) -> rest]
    BY <2>1
  <2>3. ASSUME NEW s \in QueuedIn(after, d), NEW t \in QueuedIn(after, d), f[s] = f[t]
        PROVE  s = t
    <3> HIDE DEF f
    <3>1. s[1] = t[1]
      <4>1. f[s][1] = s[1] /\ f[t][1] = t[1]
        BY <2>1, Zenon
      <4> QED
        BY <2>3, <4>1
    <3>2. s[2] = t[2]
      <4>1. f[s][2] = f[t][2] /\ s[2] \in Nat /\ t[2] \in Nat
        BY <2>1, <2>3
      <4>2. CASE s[1] = q
        <5>1. PICK m \in Nat, n \in Nat : m = s[2] /\ n = t[2]
          BY <4>1
        <5>2. f[s][2] = m + 1 /\ f[t][2] = n + 1
          BY <2>1, <3>1, <4>2, <5>1
        <5>3. m + 1 = n + 1
          BY <4>1, <5>2, Zenon
        <5>4. m = n
          BY <5>1, <5>3
        <5> QED
          BY <5>1, <5>4
      <4>3. CASE s[1] # q
        BY <2>1, <3>1, <4>1, <4>3
      <4> QED
        BY <4>2, <4>3
    <3>3. s = <<s[1], s[2]>> /\ t = <<t[1], t[2]>>
      BY <2>1
    <3> QED
      BY <3>1, <3>2, <3>3, Zenon
  <2> QED
    BY <2>2, <2>3 DEF Injection, IsInjective
<1> HIDE DEF f, rest
<1>5. IsFiniteSet(QueuedIn(after, d)) /\ Cardinality(QueuedIn(after, d)) <= Cardinality(rest)
  BY <1>3, <1>4, FS_Injection
<1> QED
  BY <1>2, <1>3, <1>5, FS_CardinalityType DEF OneFewer

\* Copies are nowhere else than they were, or there are more of them.
LEMMA CopiesKept ==
    ASSUME IsFiniteSet(Workers), UdpInv, UdpTypeOK', worker' = worker, queues' = queues,
           readers' = readers, peer' = peer, lost' = lost,
           \A d \in UL!Datagrams : datagrams'[d] + delivered'[d] + copies[d]
                                     <= datagrams[d] + delivered[d] + copies'[d],
           \A d \in UL!Datagrams : d >= udp_client' => copies'[d] = 0
    PROVE  UdpInv'
<1>1. ASSUME NEW d \in UL!Datagrams
      PROVE  datagrams'[d] + Cardinality(HeldIn(worker', d)) + Cardinality(QueuedIn(queues', d)) + delivered'[d]
                <= copies'[d]
  <2>1. datagrams[d] + Cardinality(HeldIn(worker, d)) + Cardinality(QueuedIn(queues, d)) + delivered[d]
           <= copies[d]
    BY DEF UdpInv
  <2>2. Cardinality(HeldIn(worker, d)) \in Nat /\ Cardinality(QueuedIn(queues, d)) \in Nat
    BY HeldFinite, FS_CardinalityType DEF UdpInv
  <2>3. /\ datagrams[d] \in Nat /\ delivered[d] \in Nat /\ copies[d] \in Nat
        /\ datagrams'[d] \in Nat /\ delivered'[d] \in Nat /\ copies'[d] \in Nat
    BY DEF UdpInv, UdpTypeOK
  <2>4. worker' = worker /\ queues' = queues
    OBVIOUS
  <2> QED
    BY <2>1, <2>2, <2>3, <2>4
<1> QED
  BY <1>1 DEF UdpInv

\* A worker moves on; what it and the queues hold of a datagram is not more
\* than what the network and the table lose of it.
LEMMA WorkerMoved ==
    ASSUME IsFiniteSet(Workers), UdpInv, UdpTypeOK', NEW w \in Workers, NEW r,
           worker' = [worker EXCEPT ![w] = r],
           udp_client' = udp_client, copies' = copies, delivered' = delivered, lost' = lost,
           readers \subseteq readers', peer' # 0 => peer' \in readers',
           r.step \in {"insert", "forward"} => r.queue \in readers',
           \A d \in UL!Datagrams :
              /\ IsFiniteSet(QueuedIn(queues', d))
              /\ datagrams'[d] + Holds(r, d)
                    + Cardinality(QueuedIn(queues', d))
                 <= datagrams[d] + Holds(worker[w], d)
                    + Cardinality(QueuedIn(queues, d))
    PROVE  UdpInv'
<1>1. DOMAIN worker = Workers
  BY DEF UdpInv, UdpTypeOK
<1>2. ASSUME NEW d \in UL!Datagrams
      PROVE  datagrams'[d] + Cardinality(HeldIn(worker', d)) + Cardinality(QueuedIn(queues', d)) + delivered'[d]
                <= copies'[d]
  <2>1. datagrams[d] + Cardinality(HeldIn(worker, d)) + Cardinality(QueuedIn(queues, d)) + delivered[d]
           <= copies[d]
    BY DEF UdpInv
  <2>2. Cardinality(HeldIn(worker', d)) + Holds(worker[w], d) = Cardinality(HeldIn(worker, d)) + Holds(r, d)
    <3>1. PICK before, after : before = worker /\ after = worker'
      OBVIOUS
    <3>2. after[w] = r /\ \A v \in Workers : v # w => after[v] = before[v]
      BY <1>1, <3>1
    <3>3. Cardinality(HeldIn(after, d)) + Holds(before[w], d) = Cardinality(HeldIn(before, d)) + Holds(r, d)
      BY <3>2, HeldChanged
    <3> QED
      BY <3>1, <3>3
  <2>3. /\ Cardinality(HeldIn(worker, d)) \in Nat /\ Cardinality(QueuedIn(queues, d)) \in Nat
        /\ Cardinality(HeldIn(worker', d)) \in Nat
        /\ Cardinality(QueuedIn(queues', d)) \in Nat /\ Holds(worker[w], d) \in Nat /\ Holds(r, d) \in Nat
    BY HeldFinite, FS_CardinalityType DEF UdpInv, Holds
  <2>4. /\ datagrams[d] \in Nat /\ delivered[d] \in Nat /\ copies[d] \in Nat /\ datagrams'[d] \in Nat
        /\ delivered'[d] = delivered[d] /\ copies'[d] = copies[d]
    BY DEF UdpInv, UdpTypeOK
  <2>5. datagrams'[d] + Holds(r, d) + Cardinality(QueuedIn(queues', d))
           <= datagrams[d] + Holds(worker[w], d) + Cardinality(QueuedIn(queues, d))
    OBVIOUS
  <2> QED
    BY <2>1, <2>2, <2>3, <2>4, <2>5
<1>3. \A v \in Workers : worker'[v].step \in {"insert", "forward"} => worker'[v].queue \in readers'
  <2> SUFFICES ASSUME NEW v \in Workers, worker'[v].step \in {"insert", "forward"}
               PROVE  worker'[v].queue \in readers'
    OBVIOUS
  <2>1. CASE v = w
    BY <1>1, <2>1
  <2>2. CASE v # w
    BY <1>1, <2>2 DEF UdpInv
  <2> QED
    BY <2>1, <2>2
<1> QED
  BY <1>2, <1>3 DEF UdpInv

\* The queues do not change while a worker moves on.
LEMMA WorkerStepped ==
    ASSUME IsFiniteSet(Workers), UdpInv, NEW w \in Workers,
           NEW r \in [step : UdpSteps, datagram : UL!Datagrams, queue : Nat],
           worker' = [worker EXCEPT ![w] = r],
           udp_client' = udp_client, copies' = copies, delivered' = delivered, lost' = lost,
           datagrams' = datagrams, queues' = queues, readers' = readers, peer' # 0 => peer' \in readers,
           r.step \in {"insert", "forward"} => r.queue \in readers,
           r.step # "recv" => worker[w].step # "recv" /\ worker[w].datagram = r.datagram
    PROVE  UdpInv'
<1>1. UdpTypeOK'
  BY DEF UdpInv, UdpTypeOK
<1>2. ASSUME NEW d \in UL!Datagrams
      PROVE  /\ IsFiniteSet(QueuedIn(queues', d))
             /\ datagrams'[d] + Holds(r, d)
                   + Cardinality(QueuedIn(queues', d))
                <= datagrams[d] + Holds(worker[w], d)
                   + Cardinality(QueuedIn(queues, d))
  <2>1. IsFiniteSet(QueuedIn(queues, d)) /\ Cardinality(QueuedIn(queues, d)) \in Nat /\ datagrams[d] \in Nat
    BY FS_CardinalityType DEF UdpInv, UdpTypeOK
  <2>2. datagrams' = datagrams /\ queues' = queues
    OBVIOUS
  <2>3. Holds(r, d) \in {0, 1} /\ Holds(worker[w], d) \in {0, 1}
        /\ (Holds(r, d) = 1 => Holds(worker[w], d) = 1)
    BY DEF Holds
  <2> QED
    BY <2>1, <2>2, <2>3
<1> QED
  BY <1>1, <1>2, WorkerMoved

LEMMA UdpStep ==
    ASSUME IsFiniteSet(Workers), MaxPackets \in Nat, UdpInv, [UL!Next]_(UL!vars)
    PROVE  UdpInv'
<1>t. UdpTypeOK /\ UL!Datagrams = 0 .. MaxPackets
  BY DEF UdpInv, UL!Datagrams
<1>1. CASE UL!Send
  <2>1. /\ udp_client <= MaxPackets /\ udp_client \in UL!Datagrams /\ udp_client' = udp_client + 1
        /\ datagrams' = [datagrams EXCEPT ![udp_client] = @ + 1] /\ copies' = [copies EXCEPT ![udp_client] = 1]
        /\ worker' = worker /\ queues' = queues /\ readers' = readers /\ peer' = peer
        /\ lost' = lost /\ delivered' = delivered
    BY <1>1, <1>t DEF UL!Send, UdpTypeOK
  <2>2. /\ datagrams' \in [UL!Datagrams -> Nat] /\ datagrams'[udp_client] = datagrams[udp_client] + 1
        /\ \A d \in UL!Datagrams : d # udp_client => datagrams'[d] = datagrams[d]
        /\ copies' \in [UL!Datagrams -> Nat] /\ copies'[udp_client] = 1
        /\ \A d \in UL!Datagrams : d # udp_client => copies'[d] = copies[d]
    <3>1. datagrams[udp_client] + 1 \in Nat
      BY <1>t, <2>1 DEF UdpTypeOK
    <3>2. 1 \in Nat
      OBVIOUS
    <3> QED
      BY <1>t, <2>1, <3>1, <3>2, CountSet, SMTT(30) DEF UdpTypeOK
  <2>a. UdpTypeOK'
    <3>1. udp_client' \in Nat
      BY <1>t, <2>1 DEF UdpTypeOK
    <3> QED
      BY <1>t, <2>1, <2>2, <3>1 DEF UdpTypeOK
  <2>3. copies[udp_client] = 0
    BY <1>t, <2>1 DEF UdpInv, UdpTypeOK
  <2>4. \A d \in UL!Datagrams : datagrams'[d] + delivered'[d] + copies[d]
                                     <= datagrams[d] + delivered[d] + copies'[d]
    <3> SUFFICES ASSUME NEW d \in UL!Datagrams
                 PROVE  datagrams'[d] + delivered'[d] + copies[d] <= datagrams[d] + delivered[d] + copies'[d]
      OBVIOUS
    <3>1. datagrams[d] \in Nat /\ delivered[d] \in Nat /\ copies[d] \in Nat
      BY <1>t DEF UdpTypeOK
    <3> QED
      BY <2>1, <2>2, <2>3, <3>1
  <2>5. \A d \in UL!Datagrams : d >= udp_client' => copies'[d] = 0
    BY <1>t, <2>1 DEF UdpInv, UdpTypeOK
  <2> QED
    BY <2>1, <2>a, <2>4, <2>5, CopiesKept
<1>2. ASSUME NEW d \in UL!Datagrams, UL!Lose(d) PROVE UdpInv'
  <2>1. /\ datagrams[d] > 0 /\ datagrams' = [datagrams EXCEPT ![d] = @ - 1] /\ copies' = copies /\ udp_client' = udp_client
        /\ worker' = worker /\ queues' = queues /\ readers' = readers /\ peer' = peer
        /\ lost' = lost /\ delivered' = delivered
    BY <1>2 DEF UL!Lose
  <2>a. datagrams[d] - 1 \in Nat
    BY <1>t, <2>1 DEF UdpTypeOK
  <2>b. /\ datagrams' \in [UL!Datagrams -> Nat] /\ datagrams'[d] = datagrams[d] - 1
        /\ \A e \in UL!Datagrams : e # d => datagrams'[e] = datagrams[e]
    <3>1. PICK n : n = datagrams[d] - 1
      OBVIOUS
    <3>2. n \in Nat /\ datagrams \in [UL!Datagrams -> Nat] /\ datagrams' = [datagrams EXCEPT ![d] = n]
      BY <1>t, <2>1, <2>a, <3>1 DEF UdpTypeOK
    <3>3. datagrams' \in [UL!Datagrams -> Nat] /\ datagrams'[d] = n
          /\ \A e \in UL!Datagrams : e # d => datagrams'[e] = datagrams[e]
      BY <3>2
    <3> QED
      BY <3>1, <3>3
  <2>2. UdpTypeOK'
    BY <1>t, <2>1, <2>b DEF UdpTypeOK
  <2>3. \A e \in UL!Datagrams : datagrams'[e] + delivered'[e] + copies[e]
                                     <= datagrams[e] + delivered[e] + copies'[e]
    <3> SUFFICES ASSUME NEW e \in UL!Datagrams
                 PROVE  datagrams'[e] + delivered'[e] + copies[e] <= datagrams[e] + delivered[e] + copies'[e]
      OBVIOUS
    <3>1. datagrams[e] \in Nat /\ delivered[e] \in Nat /\ copies[e] \in Nat
      BY <1>t DEF UdpTypeOK
    <3> QED
      BY <2>1, <2>b, <3>1
  <2>4. \A e \in UL!Datagrams : e >= udp_client' => copies'[e] = 0
    BY <2>1 DEF UdpInv
  <2> QED
    BY <2>1, <2>2, <2>3, <2>4, CopiesKept
<1>3. ASSUME NEW d \in UL!Datagrams, UL!Duplicate(d) PROVE UdpInv'
  <2>1. /\ datagrams[d] > 0 /\ datagrams' = [datagrams EXCEPT ![d] = @ + 1] /\ copies' = [copies EXCEPT ![d] = @ + 1]
        /\ udp_client' = udp_client /\ worker' = worker /\ queues' = queues /\ readers' = readers
        /\ peer' = peer /\ lost' = lost /\ delivered' = delivered
    BY <1>3 DEF UL!Duplicate
  <2>b. /\ datagrams' \in [UL!Datagrams -> Nat] /\ datagrams'[d] = datagrams[d] + 1
        /\ copies' \in [UL!Datagrams -> Nat] /\ copies'[d] = copies[d] + 1
        /\ \A e \in UL!Datagrams : e # d => datagrams'[e] = datagrams[e] /\ copies'[e] = copies[e]
    <3>1. datagrams[d] + 1 \in Nat /\ copies[d] + 1 \in Nat
      BY <1>t, SMTT(30) DEF UdpTypeOK
    <3> QED
      BY <1>t, <2>1, <3>1, CountSet, SMTT(30) DEF UdpTypeOK
  <2>2. UdpTypeOK'
    BY <1>t, <2>1, <2>b DEF UdpTypeOK
  <2>3. \A e \in UL!Datagrams : datagrams'[e] + delivered'[e] + copies[e]
                                     <= datagrams[e] + delivered[e] + copies'[e]
    <3> SUFFICES ASSUME NEW e \in UL!Datagrams
                 PROVE  datagrams'[e] + delivered'[e] + copies[e] <= datagrams[e] + delivered[e] + copies'[e]
      OBVIOUS
    <3>1. datagrams[e] \in Nat /\ delivered[e] \in Nat /\ copies[e] \in Nat
      BY <1>t DEF UdpTypeOK
    <3> QED
      BY <2>1, <2>b, <3>1
  <2>4. d < udp_client
    <3>1. datagrams[d] <= copies[d]
      <4>1. datagrams[d] + Cardinality(HeldIn(worker, d)) + Cardinality(QueuedIn(queues, d)) + delivered[d]
               <= copies[d]
        BY DEF UdpInv
      <4>2. Cardinality(HeldIn(worker, d)) \in Nat /\ Cardinality(QueuedIn(queues, d)) \in Nat
        BY HeldFinite, FS_CardinalityType DEF UdpInv
      <4> QED
        BY <1>t, <4>1, <4>2, SMTT(30) DEF UdpTypeOK
    <3>2. copies[d] # 0
      BY <1>t, <2>1, <3>1 DEF UdpTypeOK
    <3> QED
      BY <1>t, <3>2 DEF UdpInv, UdpTypeOK
  <2>5. \A e \in UL!Datagrams : e >= udp_client' => copies'[e] = 0
    BY <1>t, <2>1, <2>4, SMTT(30) DEF UdpInv, UdpTypeOK
  <2> QED
    BY <2>1, <2>2, <2>3, <2>5, CopiesKept
<1>4. ASSUME NEW w \in Workers, NEW d \in UL!Datagrams, UL!RecvFrom(w, d) PROVE UdpInv'
  <2> DEFINE r == [step |-> IF d = UL!Handshake THEN "check" ELSE "lookup", datagram |-> d, queue |-> 0]
  <2>1. /\ worker[w].step = "recv" /\ datagrams[d] > 0 /\ datagrams' = [datagrams EXCEPT ![d] = @ - 1]
        /\ worker' = [worker EXCEPT ![w] = r]
        /\ udp_client' = udp_client /\ copies' = copies /\ peer' = peer /\ queues' = queues
        /\ readers' = readers /\ delivered' = delivered /\ lost' = lost
    BY <1>4 DEF UL!RecvFrom, UL!At, UL!Set
  <2>2. r.step \in {"check", "lookup"} /\ r.datagram = d
        /\ r \in [step : UdpSteps, datagram : UL!Datagrams, queue : Nat]
    BY DEF UdpSteps
  <2> HIDE DEF r
  <2>a. datagrams[d] - 1 \in Nat
    BY <1>t, <2>1, SMTT(30) DEF UdpTypeOK
  <2>b. /\ datagrams' \in [UL!Datagrams -> Nat] /\ datagrams'[d] = datagrams[d] - 1
        /\ \A e \in UL!Datagrams : e # d => datagrams'[e] = datagrams[e]
    <3>1. PICK n : n = datagrams[d] - 1
      OBVIOUS
    <3>2. n \in Nat /\ datagrams \in [UL!Datagrams -> Nat] /\ datagrams' = [datagrams EXCEPT ![d] = n]
      BY <1>t, <2>1, <2>a, <3>1 DEF UdpTypeOK
    <3>3. datagrams' \in [UL!Datagrams -> Nat] /\ datagrams'[d] = n
          /\ \A e \in UL!Datagrams : e # d => datagrams'[e] = datagrams[e]
      BY <3>2
    <3> QED
      BY <3>1, <3>3
  <2>3. UdpTypeOK'
    BY <1>t, <2>1, <2>2, <2>b DEF UdpTypeOK
  <2>4. ASSUME NEW e \in UL!Datagrams
        PROVE  /\ IsFiniteSet(QueuedIn(queues', e))
               /\ datagrams'[e] + Holds(r, e)
                     + Cardinality(QueuedIn(queues', e))
                  <= datagrams[e] + Holds(worker[w], e)
                     + Cardinality(QueuedIn(queues, e))
    <3>1. IsFiniteSet(QueuedIn(queues, e)) /\ Cardinality(QueuedIn(queues, e)) \in Nat
          /\ datagrams[e] \in Nat /\ queues' = queues
      BY <1>t, <2>1, FS_CardinalityType DEF UdpInv, UdpTypeOK
    <3>2. Holds(worker[w], e) = 0 /\ Holds(r, e) = IF e = d THEN 1 ELSE 0
      BY <2>1, <2>2 DEF Holds
    <3> QED
      BY <2>1, <2>b, <3>1, <3>2
  <2>5. peer' # 0 => peer' \in readers'
    BY <2>1 DEF UdpInv
  <2> QED
    BY <2>1, <2>2, <2>3, <2>4, <2>5, WorkerMoved
<1>5. ASSUME NEW w \in Workers, UL!CheckHandshake(w) PROVE UdpInv'
  <2> DEFINE r == IF peer # 0 THEN UL!IdleWorker ELSE [worker[w] EXCEPT !.step = "create"]
  <2>1. /\ worker[w].step = "check" /\ worker' = [worker EXCEPT ![w] = r]
        /\ udp_client' = udp_client /\ copies' = copies /\ peer' = peer /\ queues' = queues /\ datagrams' = datagrams
        /\ readers' = readers /\ delivered' = delivered /\ lost' = lost
    BY <1>5 DEF UL!CheckHandshake, UL!At, UL!Set
  <2>2. worker[w] \in [step : UdpSteps, datagram : UL!Datagrams, queue : Nat]
    BY <1>t DEF UdpTypeOK
  <2>3. UL!IdleWorker \in [step : UdpSteps, datagram : UL!Datagrams, queue : Nat]
    BY <1>t DEF UL!IdleWorker, UL!Handshake, UdpSteps
  <2>4. /\ r \in [step : UdpSteps, datagram : UL!Datagrams, queue : Nat]
        /\ r.step \in {"recv", "create"}
        /\ r.step # "recv" => worker[w].step # "recv" /\ worker[w].datagram = r.datagram
    BY <2>1, <2>2, <2>3 DEF UdpSteps, UL!IdleWorker
  <2>5. peer' # 0 => peer' \in readers
    BY <2>1 DEF UdpInv
  <2> HIDE DEF r
  <2> QED
    BY <2>1, <2>4, <2>5, WorkerStepped
<1>6. ASSUME NEW w \in Workers, UL!CreatePeer(w) PROVE UdpInv'
  <2>1. PICK q : q = Len(queues) + 1
    OBVIOUS
  <2>2. PICK r : r = [worker[w] EXCEPT !.step = "insert", !.queue = q]
    OBVIOUS
  <2>3. /\ worker[w].step = "create" /\ worker' = [worker EXCEPT ![w] = r]
        /\ udp_client' = udp_client /\ copies' = copies /\ peer' = peer /\ queues' = Append(queues, << >>)
        /\ datagrams' = datagrams /\ readers' = readers \cup {q} /\ delivered' = delivered /\ lost' = lost
    BY <1>6, <2>1, <2>2 DEF UL!CreatePeer, UL!At, UL!Set
  <2>4. worker[w] \in [step : UdpSteps, datagram : UL!Datagrams, queue : Nat] /\ queues \in Seq(Seq(UL!Datagrams))
    BY <1>t DEF UdpTypeOK
  <2>5. /\ << >> \in Seq(UL!Datagrams) /\ Append(queues, << >>) \in Seq(Seq(UL!Datagrams))
        /\ Len(Append(queues, << >>)) = q /\ Len(queues) \in Nat
        /\ DOMAIN Append(queues, << >>) = 1 .. q /\ DOMAIN queues = 1 .. Len(queues)
        /\ \A i \in 1 .. Len(queues) : Append(queues, << >>)[i] = queues[i]
        /\ Append(queues, << >>)[q] = << >> /\ Len(<< >>) = 0
    <3>1. << >> \in Seq(UL!Datagrams) /\ Len(<< >>) = 0
      BY EmptySeq
    <3> QED
      BY <2>1, <2>4, <3>1, AppendProperties, LenProperties
  <2>6. q \in Nat /\ q \notin 1 .. Len(queues)
    BY <2>1, <2>5
  <2>7. /\ r \in [step : UdpSteps, datagram : UL!Datagrams, queue : Nat]
        /\ r.step = "insert" /\ r.queue = q /\ r.datagram = worker[w].datagram
    BY <2>2, <2>4, <2>6 DEF UdpSteps
  <2>8. UdpTypeOK'
    <3>1. readers' \subseteq DOMAIN queues'
      BY <1>t, <2>1, <2>3, <2>5 DEF UdpTypeOK
    <3>2. worker' \in [Workers -> [step : UdpSteps, datagram : UL!Datagrams, queue : Nat]]
      BY <1>t, <2>3, <2>7 DEF UdpTypeOK
    <3>3. queues' \in Seq(Seq(UL!Datagrams))
      BY <2>3, <2>5
    <3> QED
      BY <1>t, <2>3, <3>1, <3>2, <3>3 DEF UdpTypeOK
  <2>9. ASSUME NEW d \in UL!Datagrams
        PROVE  /\ IsFiniteSet(QueuedIn(queues', d))
               /\ datagrams'[d] + Holds(r, d) + Cardinality(QueuedIn(queues', d))
                  <= datagrams[d] + Holds(worker[w], d) + Cardinality(QueuedIn(queues, d))
    <3>1. IsFiniteSet(QueuedIn(queues, d)) /\ Cardinality(QueuedIn(queues, d)) \in Nat /\ datagrams[d] \in Nat
      BY <1>t, FS_CardinalityType DEF UdpInv, UdpTypeOK
    <3>2. PICK after : after = Append(queues, << >>)
      OBVIOUS
    <3>3. QueuedIn(after, d) = QueuedIn(queues, d)
      <4>1. ASSUME NEW s \in (1 .. q) \X Nat
            PROVE  s \in QueuedIn(after, d) <=> s \in QueuedIn(queues, d)
        <5>1. CASE s[1] = q
          BY <2>5, <2>6, <3>2, <5>1 DEF QueuedIn
        <5>2. CASE s[1] # q
          <6>1. s[1] \in 1 .. Len(queues)
            BY <2>1, <2>5, <5>2
          <6> QED
            BY <2>5, <3>2, <6>1 DEF QueuedIn
        <5> QED
          BY <5>1, <5>2
      <4>2. ASSUME NEW s \in QueuedIn(queues, d) PROVE s \in (1 .. q) \X Nat
        BY <2>1, <2>5, <4>2 DEF QueuedIn
      <4>3. ASSUME NEW s \in QueuedIn(after, d) PROVE s \in (1 .. q) \X Nat
        BY <2>5, <3>2, <4>3 DEF QueuedIn
      <4> QED
        BY <4>1, <4>2, <4>3
    <3>4. queues' = after
      BY <2>3, <3>2
    <3>5. Holds(r, d) = Holds(worker[w], d) /\ Holds(r, d) \in {0, 1}
      BY <2>3, <2>7 DEF Holds
    <3>6. QueuedIn(queues', d) = QueuedIn(queues, d) /\ datagrams'[d] = datagrams[d]
      BY <2>3, <3>3, <3>4
    <3> QED
      BY <3>1, <3>5, <3>6
  <2>10. peer' # 0 => peer' \in readers'
    BY <2>3 DEF UdpInv
  <2>11. readers \subseteq readers' /\ r.queue \in readers'
    BY <2>3, <2>7
  <2> QED
    BY <2>3, <2>8, <2>9, <2>10, <2>11, WorkerMoved
<1>7. ASSUME NEW w \in Workers, UL!InsertPeer(w) PROVE UdpInv'
  <2>1. /\ worker[w].step = "insert" /\ worker' = [worker EXCEPT ![w] = UL!IdleWorker]
        /\ udp_client' = udp_client /\ copies' = copies /\ peer' = worker[w].queue /\ queues' = queues
        /\ datagrams' = datagrams /\ readers' = readers /\ delivered' = delivered /\ lost' = lost
    BY <1>7 DEF UL!InsertPeer, UL!At, UL!Set
  <2>2. UL!IdleWorker \in [step : UdpSteps, datagram : UL!Datagrams, queue : Nat]
        /\ UL!IdleWorker.step = "recv"
    BY <1>t DEF UL!IdleWorker, UL!Handshake, UdpSteps
  <2>3. worker[w].queue \in readers
    BY <2>1 DEF UdpInv
  <2> QED
    BY <2>1, <2>2, <2>3, WorkerStepped
<1>8. ASSUME NEW w \in Workers, UL!Lookup(w) PROVE UdpInv'
  <2> DEFINE r == IF peer = 0 THEN UL!IdleWorker ELSE [worker[w] EXCEPT !.step = "forward", !.queue = peer]
  <2>1. /\ worker[w].step = "lookup" /\ worker' = [worker EXCEPT ![w] = r]
        /\ udp_client' = udp_client /\ copies' = copies /\ peer' = peer /\ queues' = queues /\ datagrams' = datagrams
        /\ readers' = readers /\ delivered' = delivered /\ lost' = lost
    BY <1>8 DEF UL!Lookup, UL!At, UL!Set
  <2>2. worker[w] \in [step : UdpSteps, datagram : UL!Datagrams, queue : Nat]
    BY <1>t DEF UdpTypeOK
  <2>3. UL!IdleWorker \in [step : UdpSteps, datagram : UL!Datagrams, queue : Nat]
    BY <1>t DEF UL!IdleWorker, UL!Handshake, UdpSteps
  <2>4. peer # 0 => peer \in readers /\ peer \in Nat
    BY <1>t, SMTT(30) DEF UdpInv, UdpTypeOK
  <2>5. /\ r \in [step : UdpSteps, datagram : UL!Datagrams, queue : Nat]
        /\ r.step \in {"insert", "forward"} => r.queue \in readers
        /\ r.step # "recv" => worker[w].step # "recv" /\ worker[w].datagram = r.datagram
    BY <2>1, <2>2, <2>3, <2>4 DEF UdpSteps, UL!IdleWorker
  <2> HIDE DEF r
  <2> QED
    BY <2>1, <2>4, <2>5, WorkerStepped
<1>9. ASSUME NEW w \in Workers, UL!Forward(w) PROVE UdpInv'
  <2>1. PICK q, e, r : q = worker[w].queue /\ e = worker[w].datagram /\ r = UL!IdleWorker
    OBVIOUS
  <2>2. worker[w].step = "forward" /\ q \in readers
    BY <1>9, <2>1 DEF UL!Forward, UL!At, UdpInv
  <2>3. /\ worker' = [worker EXCEPT ![w] = r] /\ queues' = [queues EXCEPT ![q] = Append(@, e)]
        /\ udp_client' = udp_client /\ copies' = copies /\ peer' = peer /\ datagrams' = datagrams
        /\ readers' = readers /\ delivered' = delivered /\ lost' = lost
    BY <1>9, <2>1, <2>2 DEF UL!Forward, UL!Set
  <2>4. /\ r \in [step : UdpSteps, datagram : UL!Datagrams, queue : Nat] /\ r.step = "recv"
    BY <1>t, <2>1 DEF UL!IdleWorker, UL!Handshake, UdpSteps
  <2>5. q \in DOMAIN queues /\ e \in UL!Datagrams /\ queues \in Seq(Seq(UL!Datagrams))
    BY <1>t, <2>1, <2>2 DEF UdpTypeOK
  <2>6. ASSUME NEW d \in UL!Datagrams
        PROVE  /\ queues' \in Seq(Seq(UL!Datagrams)) /\ DOMAIN queues' = DOMAIN queues
               /\ Grown(QueuedIn(queues, d), QueuedIn(queues', d), Same(e, d))
    <3>1. PICK qs, after : qs = queues /\ after = [qs EXCEPT ![q] = Append(@, e)]
      OBVIOUS
    <3>2. IsFiniteSet(QueuedIn(qs, d)) /\ qs \in Seq(Seq(UL!Datagrams)) /\ q \in DOMAIN qs
      BY <2>5, <3>1 DEF UdpInv
    <3>3. /\ after \in Seq(Seq(UL!Datagrams)) /\ DOMAIN after = DOMAIN qs
          /\ Grown(QueuedIn(qs, d), QueuedIn(after, d), Same(e, d))
      <4>1. /\ e \in UL!Datagrams /\ Append(qs[q], e) \in Seq(UL!Datagrams)
            /\ after \in Seq(Seq(UL!Datagrams)) /\ DOMAIN after = DOMAIN qs
            /\ after[q] = Append(qs[q], e) /\ \A p \in DOMAIN qs : p # q => after[p] = qs[p]
        <5>1. Append(qs[q], e) \in Seq(UL!Datagrams)
          BY <2>5, <3>2, AppendProperties
        <5> QED
          BY <2>5, <3>1, <3>2, <5>1
      <4> QED
        BY <3>2, <4>1, QueuedAppended
    <3>4. queues' = after
      BY <2>3, <3>1
    <3> QED
      BY <3>1, <3>3, <3>4
  <2>7. ASSUME NEW d \in UL!Datagrams
        PROVE  /\ IsFiniteSet(QueuedIn(queues', d))
               /\ datagrams'[d] + Holds(r, d) + Cardinality(QueuedIn(queues', d))
                  <= datagrams[d] + Holds(worker[w], d) + Cardinality(QueuedIn(queues, d))
    <3>1. Holds(r, d) = 0 /\ Holds(worker[w], d) = Same(e, d) /\ Same(e, d) \in {0, 1}
      BY <2>1, <2>2, <2>4 DEF Holds, Same
    <3>2. datagrams'[d] = datagrams[d] /\ datagrams[d] \in Nat /\ Cardinality(QueuedIn(queues, d)) \in Nat
      BY <1>t, <2>3, FS_CardinalityType DEF UdpInv, UdpTypeOK
    <3>3. IsFiniteSet(QueuedIn(queues', d))
          /\ Cardinality(QueuedIn(queues', d)) = Cardinality(QueuedIn(queues, d)) + Same(e, d)
      BY <2>6 DEF Grown
    <3> QED
      BY <3>1, <3>2, <3>3
  <2>8. UdpTypeOK'
    <3>1. UL!Handshake \in UL!Datagrams
      BY <1>t DEF UL!Handshake
    <3>2. queues' \in Seq(Seq(UL!Datagrams)) /\ DOMAIN queues' = DOMAIN queues
      BY <2>6, <3>1
    <3> QED
      BY <1>t, <2>3, <2>4, <3>2 DEF UdpTypeOK
  <2>9. peer' # 0 => peer' \in readers'
    BY <2>3 DEF UdpInv
  <2> QED
    BY <2>3, <2>4, <2>7, <2>8, <2>9, WorkerMoved
<1>10. ASSUME NEW q \in DOMAIN queues, UL!UdpRead(q) PROVE UdpInv'
  <2>1. PICK e : e = Head(queues[q])
    OBVIOUS
  <2>2. /\ queues[q] # << >> /\ queues' = [queues EXCEPT ![q] = Tail(@)]
        /\ delivered' = [delivered EXCEPT ![e] = @ + 1]
        /\ worker' = worker /\ udp_client' = udp_client /\ copies' = copies /\ peer' = peer
        /\ datagrams' = datagrams /\ readers' = readers /\ lost' = lost
    BY <1>10, <2>1 DEF UL!UdpRead
  <2>3. queues \in Seq(Seq(UL!Datagrams)) /\ queues[q] \in Seq(UL!Datagrams)
    BY <1>t DEF UdpTypeOK
  <2>4. e \in UL!Datagrams
    BY <2>1, <2>2, <2>3, HeadTailProperties
  <2>5. /\ delivered' \in [UL!Datagrams -> Nat] /\ delivered'[e] = delivered[e] + 1
        /\ \A d \in UL!Datagrams : d # e => delivered'[d] = delivered[d]
    <3>1. delivered[e] + 1 \in Nat
      BY <1>t, <2>4, SMTT(30) DEF UdpTypeOK
    <3> QED
      BY <1>t, <2>2, <2>4, <3>1, CountSet DEF UdpTypeOK
  <2>6. ASSUME NEW d \in UL!Datagrams
        PROVE  /\ queues' \in Seq(Seq(UL!Datagrams)) /\ DOMAIN queues' = DOMAIN queues
               /\ IsFiniteSet(QueuedIn(queues', d)) /\ Cardinality(QueuedIn(queues', d)) \in Nat
               /\ Cardinality(QueuedIn(queues', d)) <=
                     Cardinality(QueuedIn(queues, d)) - IF e = d THEN 1 ELSE 0
    <3>1. PICK qs, after : qs = queues /\ after = FirstTaken(qs, q)
      OBVIOUS
    <3>2. IsFiniteSet(QueuedIn(qs, d)) /\ qs[q] # << >> /\ q \in DOMAIN qs
      BY <2>2, <3>1 DEF UdpInv
    <3>3. /\ after \in Seq(Seq(UL!Datagrams)) /\ DOMAIN after = DOMAIN qs
          /\ IsFiniteSet(QueuedIn(after, d)) /\ Cardinality(QueuedIn(after, d)) \in Nat
          /\ OneFewer(after, qs, q, d)
      <4>1. qs \in Seq(Seq(UL!Datagrams))
        BY <2>3, <3>1
      <4>2. after = FirstTaken(qs, q)
        BY <3>1
      <4>3. \A x \in DOMAIN qs : \A a : qs[x] # << >> /\ a = FirstTaken(qs, x) =>
                /\ a \in Seq(Seq(UL!Datagrams)) /\ DOMAIN a = DOMAIN qs
                /\ IsFiniteSet(QueuedIn(a, d)) /\ Cardinality(QueuedIn(a, d)) \in Nat
                /\ OneFewer(a, qs, x, d)
        BY <3>2, <4>1, QueuedTaken, Zenon
      <4> QED
        BY <3>2, <4>2, <4>3, Zenon
    <3>4. queues' = after
      BY <2>2, <3>1 DEF FirstTaken
    <3> QED
      BY <2>1, <3>1, <3>3, <3>4 DEF OneFewer
  <2>7. ASSUME NEW d \in UL!Datagrams
        PROVE  datagrams'[d] + Cardinality(HeldIn(worker', d)) + Cardinality(QueuedIn(queues', d)) + delivered'[d]
                  <= copies'[d]
    <3>1. datagrams[d] + Cardinality(HeldIn(worker, d)) + Cardinality(QueuedIn(queues, d)) + delivered[d]
             <= copies[d]
      BY DEF UdpInv
    <3>2. /\ Cardinality(HeldIn(worker, d)) \in Nat /\ Cardinality(QueuedIn(queues, d)) \in Nat
          /\ datagrams[d] \in Nat /\ delivered[d] \in Nat /\ copies[d] \in Nat
      BY <1>t, HeldFinite, FS_CardinalityType DEF UdpInv, UdpTypeOK
    <3>3. HeldIn(worker', d) = HeldIn(worker, d) /\ datagrams'[d] = datagrams[d] /\ copies'[d] = copies[d]
      BY <2>2 DEF HeldIn
    <3>4. delivered'[d] = delivered[d] + IF e = d THEN 1 ELSE 0
      BY <2>5, <3>2
    <3>5. Cardinality(QueuedIn(queues', d)) \in Nat
          /\ Cardinality(QueuedIn(queues', d)) <= Cardinality(QueuedIn(queues, d)) - IF e = d THEN 1 ELSE 0
      BY <2>6
    <3>6. Cardinality(HeldIn(worker', d)) = Cardinality(HeldIn(worker, d))
      BY <3>3
    <3>7. CASE e = d
      BY <3>1, <3>2, <3>3, <3>4, <3>5, <3>6, <3>7
    <3>8. CASE e # d
      BY <3>1, <3>2, <3>3, <3>4, <3>5, <3>6, <3>8
    <3> QED
      BY <3>7, <3>8
  <2>8. UdpTypeOK'
    <3>1. queues' \in Seq(Seq(UL!Datagrams)) /\ DOMAIN queues' = DOMAIN queues
      BY <2>4, <2>6
    <3> QED
      BY <1>t, <2>2, <2>5, <3>1 DEF UdpTypeOK
  <2>9. \A d \in UL!Datagrams : IsFiniteSet(QueuedIn(queues', d))
    BY <2>6
  <2> QED
    BY <2>2, <2>7, <2>8, <2>9 DEF UdpInv
<1>11. ASSUME NEW q \in DOMAIN queues, UL!ReaderEnds(q) PROVE UdpInv'
  <2>1. /\ q \in readers /\ peer # q /\ UL!Holders(q) = {} /\ readers' = readers \ {q}
        /\ worker' = worker /\ udp_client' = udp_client /\ copies' = copies /\ peer' = peer
        /\ queues' = queues /\ datagrams' = datagrams /\ delivered' = delivered /\ lost' = lost
    BY <1>11 DEF UL!ReaderEnds
  <2>2. \A w \in Workers : worker[w].queue # q
    BY <2>1 DEF UL!Holders
  <2>3. UdpTypeOK'
    BY <1>t, <2>1 DEF UdpTypeOK
  <2> QED
    BY <2>1, <2>2, <2>3 DEF UdpInv
<1>12. CASE UNCHANGED UL!vars
  BY <1>12 DEF UL!vars, UdpInv, UdpTypeOK
<1> QED
  BY <1>1, <1>2, <1>3, <1>4, <1>5, <1>6, <1>7, <1>8, <1>9, <1>10, <1>11, <1>12 DEF UL!Next

\* UdpServer::start_listening, UdpReader::run: however handshakes are lost,
\* repeated and reordered, a packet that found its peer in the table is never
\* dropped, and the processors get no packet more often than it was on the wire.
THEOREM KnownPeersLoseNothing ==
    ASSUME IsFiniteSet(Workers), MaxPackets \in Nat
    PROVE  UL!Spec => []UL!KnownPeerLosesNothing
<1>1. UL!Init => UdpInv
  <2> SUFFICES ASSUME UL!Init PROVE UdpInv
    OBVIOUS
  <2>1. /\ udp_client = 0 /\ datagrams = [d \in UL!Datagrams |-> 0] /\ copies = [d \in UL!Datagrams |-> 0]
        /\ worker = [w \in Workers |-> UL!IdleWorker] /\ peer = 0 /\ queues = << >>
        /\ readers = {} /\ delivered = [d \in UL!Datagrams |-> 0] /\ lost = {}
    BY DEF UL!Init
  <2>2. UL!Datagrams = 0 .. MaxPackets
    BY DEF UL!Datagrams
  <2>3. UL!IdleWorker \in [step : UdpSteps, datagram : UL!Datagrams, queue : Nat]
        /\ UL!IdleWorker.step = "recv"
    BY <2>2 DEF UL!IdleWorker, UL!Handshake, UdpSteps
  <2>4. << >> \in Seq(Seq(UL!Datagrams)) /\ DOMAIN << >> = {}
    OBVIOUS
  <2>5. UdpTypeOK
    BY <2>1, <2>3, <2>4 DEF UdpTypeOK
  <2>6. ASSUME NEW d \in UL!Datagrams
        PROVE  /\ IsFiniteSet(QueuedIn(queues, d))
               /\ datagrams[d] + Cardinality(HeldIn(worker, d)) + Cardinality(QueuedIn(queues, d)) + delivered[d]
                     <= copies[d]
    <3>1. QueuedIn(queues, d) = {} /\ HeldIn(worker, d) = {}
      BY <2>1, <2>3 DEF QueuedIn, HeldIn
    <3>2. Cardinality(QueuedIn(queues, d)) = 0 /\ Cardinality(HeldIn(worker, d)) = 0
          /\ IsFiniteSet(QueuedIn(queues, d))
      BY <3>1, FS_EmptySet
    <3>3. datagrams[d] = 0 /\ delivered[d] = 0 /\ copies[d] = 0
      BY <2>1
    <3> QED
      BY <3>2, <3>3
  <2> QED
    BY <2>1, <2>3, <2>5, <2>6 DEF UdpInv
<1>2. UdpInv /\ [UL!Next]_(UL!vars) => UdpInv'
  BY UdpStep
<1>3. UdpInv => UL!KnownPeerLosesNothing
  <2> SUFFICES ASSUME UdpInv, NEW d \in UL!Datagrams PROVE lost = {} /\ delivered[d] <= copies[d]
    BY DEF UL!KnownPeerLosesNothing, UdpInv
  <2>1. datagrams[d] + Cardinality(HeldIn(worker, d)) + Cardinality(QueuedIn(queues, d)) + delivered[d]
           <= copies[d]
    BY DEF UdpInv
  <2>2. /\ Cardinality(HeldIn(worker, d)) \in Nat /\ Cardinality(QueuedIn(queues, d)) \in Nat
        /\ datagrams[d] \in Nat /\ delivered[d] \in Nat /\ copies[d] \in Nat
    BY HeldFinite, FS_CardinalityType DEF UdpInv, UdpTypeOK
  <2> QED
    BY <2>1, <2>2 DEF UdpInv
<1> QED
  BY <1>1, <1>2, <1>3, PTL DEF UL!Spec

-----------------------------------------------------------------------------
(* The user-space flows *)

TcpStates == {"syn_sent", "established", "aborted", "ended"}
LosslessStates == {"spawned", "refused", "waiting", "ended"}
RunType ==
    [flow : TcpFlows \cup LosslessFlows, port : Nat, state : TcpStates \cup LosslessStates,
     started : BOOLEAN, total : Nat, acked : Nat,
     reports : {<< >>, <<"start">>, <<"finish">>, <<"start", "finish">>}]

\* What a client thread has accepted fits its flow, and it is at the end of it
\* only when its socket was aborted.
TcpRun(r) ==
    /\ r.state \in TcpStates
    /\ r.state # "ended" => r.reports = IF r.started THEN <<"start">> ELSE << >>
    /\ r.state = "ended" => r.reports = IF r.started THEN <<"start", "finish">> ELSE <<"finish">>
    /\ Bytes[r.flow] = 0 => r.total <= MaxTotal
    /\ Bytes[r.flow] > 0 => \/ r.total < Bytes[r.flow]
                            \/ r.total = Bytes[r.flow] /\ r.state \in {"aborted", "ended"}

LosslessRun(r) ==
    /\ r.state \in LosslessStates
    /\ r.state = "spawned" => r.reports = << >>
    /\ r.state = "waiting" => r.reports = <<"start">>
    /\ r.state = "refused" => r.reports = <<"finish">>
    /\ r.state = "ended" => r.reports = <<"start", "finish">>

RunOK(r, sends) ==
    /\ r \in RunType
    /\ r.flow \in TcpFlows => TcpRun(r) /\ (sends <=> r.state # "ended")
    /\ r.flow \in LosslessFlows => LosslessRun(r) /\ ~sends

RunsInv(rs, ss) ==
    /\ rs \in Seq(RunType) /\ Len(rs) <= MaxRuns
    /\ ss \subseteq DOMAIN rs
    /\ \A i \in DOMAIN rs : RunOK(rs[i], i \in ss)

\* No segment carries a byte that its client has not accepted.
TotalOf(rs, i) == IF i \in DOMAIN rs THEN rs[i].total ELSE 0
SegType == [run : UF!RunIds, kind : {"syn", "syn_ack", "data", "ack", "rst"}, n : Nat]
SegOK(s, rs) == s \in SegType /\ (s.kind = "data" => s.n <= TotalOf(rs, s.run))
SegsInv(flying, queued, heard, rs) ==
    /\ \A s \in flying : SegOK(s, rs)
    /\ DOMAIN queued = UF!RunIds
    /\ \A i \in UF!RunIds :
          queued[i] = << >> \/ \E s : queued[i] = <<s>> /\ s.run = i /\ SegOK(s, rs)
    /\ heard \in [UF!RunIds -> Nat]
    /\ \A i \in UF!RunIds : heard[i] <= TotalOf(rs, i)

\* A session of the runtime is that of a run that waits for it.
SessInv(live, rs) ==
    \A id \in live : id \in LosslessFlows
                     /\ \E j \in DOMAIN rs : rs[j].flow = id /\ rs[j].state = "waiting"

UfInv ==
    /\ next_client_port \in Nat
    /\ RunsInv(run, senders)
    /\ SegsInv(segments, flow_chan, rcvd, run)
    /\ SessInv(sessions, run)

LEMMA RunReplaced ==
    ASSUME NEW rs, NEW ss, RunsInv(rs, ss), NEW i \in DOMAIN rs, NEW r, NEW tt,
           NEW after, after = [rs EXCEPT ![i] = r],
           RunOK(r, i \in tt), \A j \in DOMAIN rs : j # i => (j \in tt <=> j \in ss), tt \subseteq DOMAIN rs
    PROVE  RunsInv(after, tt)
<1>1. rs \in Seq(RunType) /\ Len(rs) <= MaxRuns /\ r \in RunType
  BY DEF RunsInv, RunOK
<1>2. after \in Seq(RunType) /\ Len(after) = Len(rs) /\ DOMAIN after = DOMAIN rs
      /\ after[i] = r /\ \A j \in DOMAIN rs : j # i => after[j] = rs[j]
  BY <1>1
<1>3. ASSUME NEW j \in DOMAIN after PROVE RunOK(after[j], j \in tt)
  <2>1. CASE j = i
    BY <1>2, <2>1
  <2>2. CASE j # i
    <3>1. RunOK(rs[j], j \in ss) /\ after[j] = rs[j] /\ (j \in tt <=> j \in ss)
      BY <1>2, <2>2 DEF RunsInv
    <3> QED
      BY <3>1 DEF RunOK
  <2> QED
    BY <2>1, <2>2
<1> QED
  BY <1>1, <1>2, <1>3 DEF RunsInv

Appended(s, x, t, n) == t = Append(s, x) /\ n = Len(s) + 1

LEMMA RunAdded ==
    ASSUME NEW rs, NEW ss, RunsInv(rs, ss), Len(rs) < MaxRuns, UfAssumptions,
           NEW r, NEW tt, NEW n, NEW after, Appended(rs, r, after, n),
           RunOK(r, n \in tt), tt = ss \/ tt = ss \cup {n}
    PROVE  /\ RunsInv(after, tt) /\ DOMAIN after = 1 .. n /\ DOMAIN rs = 1 .. Len(rs)
           /\ \A j \in DOMAIN rs : after[j] = rs[j]
           /\ after[n] = r /\ n \notin DOMAIN rs /\ Len(rs) \in Nat
<1>1. rs \in Seq(RunType) /\ ss \subseteq DOMAIN rs /\ r \in RunType
  BY DEF RunsInv, RunOK
<1>2. after = Append(rs, r) /\ n = Len(rs) + 1
  BY DEF Appended
<1>3. /\ after \in Seq(RunType) /\ Len(after) = n /\ DOMAIN after = 1 .. n /\ DOMAIN rs = 1 .. Len(rs)
      /\ Len(rs) \in Nat /\ after[n] = r /\ \A j \in 1 .. Len(rs) : after[j] = rs[j]
  BY <1>1, <1>2, AppendProperties, LenProperties
<1>4. n \notin DOMAIN rs /\ n <= MaxRuns /\ DOMAIN after = DOMAIN rs \cup {n}
  BY <1>2, <1>3 DEF UfAssumptions
<1>5. ASSUME NEW j \in DOMAIN after PROVE RunOK(after[j], j \in tt)
  <2>1. CASE j = n
    BY <1>2, <1>3, <2>1
  <2>2. CASE j # n
    <3>1. j \in DOMAIN rs /\ (j \in tt <=> j \in ss) /\ after[j] = rs[j]
      BY <1>2, <1>3, <1>4, <2>2
    <3>2. RunOK(rs[j], j \in ss)
      BY <3>1 DEF RunsInv
    <3> QED
      BY <3>1, <3>2 DEF RunOK
  <2> QED
    BY <2>1, <2>2
<1>6. tt \subseteq DOMAIN after
  BY <1>1, <1>2, <1>4
<1>7. RunsInv(after, tt)
  BY <1>3, <1>4, <1>5, <1>6 DEF RunsInv
<1> QED
  BY <1>2, <1>3, <1>4, <1>7

\* The bytes a client has accepted only grow.
LEMMA SegsKept ==
    ASSUME NEW flying, NEW queued, NEW heard, NEW rs, NEW after, SegsInv(flying, queued, heard, rs),
           \A i \in UF!RunIds : /\ TotalOf(rs, i) \in Nat /\ TotalOf(after, i) \in Nat
                                /\ TotalOf(rs, i) <= TotalOf(after, i)
    PROVE  SegsInv(flying, queued, heard, after)
<1>1. ASSUME NEW s, SegOK(s, rs) PROVE SegOK(s, after)
  <2>1. s \in SegType /\ s.run \in UF!RunIds /\ s.n \in Nat
    BY <1>1 DEF SegOK, SegType
  <2> QED
    BY <1>1, <2>1 DEF SegOK
<1>2. ASSUME NEW i \in UF!RunIds PROVE heard[i] <= TotalOf(after, i)
  <2>1. heard[i] \in Nat /\ heard[i] <= TotalOf(rs, i)
    BY DEF SegsInv
  <2> QED
    BY <2>1
<1>3. ASSUME NEW i \in UF!RunIds
      PROVE  queued[i] = << >> \/ \E s : queued[i] = <<s>> /\ s.run = i /\ SegOK(s, after)
  BY <1>1 DEF SegsInv
<1> QED
  BY <1>1, <1>2, <1>3 DEF SegsInv

LEMMA TotalIsNat ==
    ASSUME NEW rs, rs \in Seq(RunType), NEW i
    PROVE  TotalOf(rs, i) \in Nat
<1>1. i \in DOMAIN rs => rs[i] \in RunType
  OBVIOUS
<1> QED
  BY <1>1 DEF TotalOf, RunType

LEMMA TotalsGrow ==
    ASSUME NEW rs, NEW ss, RunsInv(rs, ss), NEW i \in DOMAIN rs, NEW r \in RunType,
           NEW after, after = [rs EXCEPT ![i] = r], rs[i].total <= r.total
    PROVE  \A j \in UF!RunIds : /\ TotalOf(rs, j) \in Nat /\ TotalOf(after, j) \in Nat
                                /\ TotalOf(rs, j) <= TotalOf(after, j)
<1>1. rs \in Seq(RunType)
  BY DEF RunsInv
<1>2. after \in Seq(RunType) /\ DOMAIN after = DOMAIN rs
      /\ after[i] = r /\ \A j \in DOMAIN rs : j # i => after[j] = rs[j]
  BY <1>1
<1> SUFFICES ASSUME NEW j \in UF!RunIds
             PROVE  /\ TotalOf(rs, j) \in Nat /\ TotalOf(after, j) \in Nat
                    /\ TotalOf(rs, j) <= TotalOf(after, j)
  OBVIOUS
<1>3. TotalOf(rs, j) \in Nat /\ TotalOf(after, j) \in Nat
  BY <1>1, <1>2, TotalIsNat
<1>4. CASE j = i
  <2>1. TotalOf(rs, j) = rs[i].total /\ TotalOf(after, j) = r.total
    BY <1>2, <1>4 DEF TotalOf
  <2> QED
    BY <1>3, <2>1
<1>5. CASE j # i
  <2>1. TotalOf(rs, j) = TotalOf(after, j)
    BY <1>2, <1>5 DEF TotalOf
  <2> QED
    BY <1>3, <2>1
<1> QED
  BY <1>4, <1>5

\* A run that was waiting still is, or its session is gone.
LEMMA SessionsKept ==
    ASSUME NEW rs, NEW live, SessInv(live, rs), NEW i, NEW r, NEW after, DOMAIN rs \subseteq DOMAIN after,
           \A j \in DOMAIN rs : j # i => after[j] = rs[j],
           i \in DOMAIN rs => after[i] = r /\ (rs[i].state = "waiting" => r.state = "waiting" /\ r.flow = rs[i].flow)
    PROVE  SessInv(live, after)
<1> SUFFICES ASSUME NEW id \in live
             PROVE  id \in LosslessFlows
                    /\ \E j \in DOMAIN after : after[j].flow = id /\ after[j].state = "waiting"
  BY DEF SessInv
<1>1. PICK j \in DOMAIN rs : rs[j].flow = id /\ rs[j].state = "waiting"
  BY DEF SessInv
<1>2. j \in DOMAIN after /\ after[j].flow = id /\ after[j].state = "waiting"
  BY <1>1
<1> QED
  BY <1>2 DEF SessInv

\* What the socket makes of a segment changes neither the reports nor the bytes.
LEMMA IngressKeeps ==
    ASSUME NEW r \in RunType, TcpRun(r), r.state # "ended", NEW seg \in SegType,
           NEW t, t = UF!Ingress(r, seg)
    PROVE  t \in RunType /\ t.flow = r.flow /\ t.total = r.total /\ TcpRun(t) /\ t.state # "ended"
<1>1. CASE seg.kind = "syn_ack" /\ r.state = "syn_sent"
  <2>1. t = [r EXCEPT !.state = "established"]
    BY <1>1 DEF UF!Ingress
  <2>2. t \in RunType
    BY <2>1 DEF RunType, TcpStates
  <2>3. /\ t.flow = r.flow /\ t.total = r.total /\ t.state = "established" /\ t.reports = r.reports
        /\ t.started = r.started
    BY <2>1 DEF RunType
  <2> QED
    BY <1>1, <2>2, <2>3 DEF TcpRun, TcpStates
<1>2. CASE seg.kind = "ack" /\ r.state = "established" /\ seg.n > r.acked
  <2>1. t = [r EXCEPT !.acked = seg.n] /\ seg.n \in Nat
    BY <1>2 DEF UF!Ingress, SegType
  <2>2. t \in RunType
    BY <2>1 DEF RunType
  <2>3. /\ t.flow = r.flow /\ t.total = r.total /\ t.state = r.state /\ t.reports = r.reports
        /\ t.started = r.started
    BY <2>1 DEF RunType
  <2> QED
    BY <1>2, <2>2, <2>3 DEF TcpRun, TcpStates
<1>3. CASE ~(seg.kind = "syn_ack" /\ r.state = "syn_sent")
           /\ ~(seg.kind = "ack" /\ r.state = "established" /\ seg.n > r.acked)
  <2>1. t = r
    BY <1>3 DEF UF!Ingress
  <2> QED
    BY <2>1
<1> QED
  BY <1>1, <1>2, <1>3

LEMMA EgressOK ==
    ASSUME NEW i \in UF!RunIds, NEW r \in RunType, r.state \in {"syn_sent", "established", "aborted"},
           NEW s \in UF!Egress(i, r)
    PROVE  s \in SegType /\ s.run = i /\ (s.kind = "data" => s.n <= r.total)
<1>0. r.total \in Nat /\ r.acked \in Nat
  BY DEF RunType
<1>1. CASE r.state = "syn_sent"
  BY <1>1 DEF UF!Egress, UF!Segment, SegType
<1>2. CASE r.state = "established"
  <2>1. PICK n \in r.acked + 1 .. r.total : s = [run |-> i, kind |-> "data", n |-> n]
    BY <1>2 DEF UF!Egress, UF!Segment
  <2> QED
    BY <1>0, <2>1 DEF SegType
<1>3. CASE r.state = "aborted"
  BY <1>3 DEF UF!Egress, UF!Segment, SegType
<1> QED
  BY <1>1, <1>2, <1>3

\* UserSpaceClient::send stops with the byte that completes the flow, and then
\* it has aborted the socket.
LEMMA SendKeeps ==
    ASSUME UfAssumptions, NEW r \in RunType, r.flow \in TcpFlows, TcpRun(r), UF!IsActive(r),
           NEW t \in UF!Send(r)
    PROVE  t \in RunType /\ t.flow = r.flow /\ r.total <= t.total /\ TcpRun(t) /\ t.state # "ended"
<1>0. /\ r.total \in Nat /\ r.acked \in Nat /\ r.state \in {"syn_sent", "established"}
      /\ r.started \in BOOLEAN /\ Bytes[r.flow] \in Nat /\ MaxTotal \in Nat /\ BufferSize \in Nat
      /\ r.reports = IF r.started THEN <<"start">> ELSE << >>
  BY DEF RunType, UF!IsActive, TcpRun, UfAssumptions
<1>1. CASE ~UF!CanSend(r)
  <2>1. t = r
    BY <1>1 DEF UF!Send
  <2> QED
    BY <1>0, <2>1
<1>2. CASE UF!CanSend(r)
  <2> DEFINE s == IF r.started THEN r ELSE UF!Report([r EXCEPT !.started = TRUE], "start")
             room == BufferSize - (r.total - r.acked)
             remaining == IF Bytes[r.flow] > 0 THEN Bytes[r.flow] - r.total ELSE MaxTotal - r.total
             taken == UF!Least(room, remaining)
  <2>1. r.state = "established" /\ room > 0 /\ room \in Int
    BY <1>0, <1>2 DEF UF!CanSend
  <2>2. remaining \in Nat /\ (Bytes[r.flow] > 0 => r.total < Bytes[r.flow])
        /\ (Bytes[r.flow] = 0 => r.total <= MaxTotal)
    BY <1>0, <2>1 DEF TcpRun
  <2>3. taken \in Nat /\ taken <= remaining
    BY <2>1, <2>2 DEF UF!Least
  <2>4. /\ s \in RunType /\ s.flow = r.flow /\ s.total = r.total /\ s.state = "established"
        /\ s.started = TRUE /\ s.reports = <<"start">>
    <3>1. CASE r.started
      BY <1>0, <2>1, <3>1 DEF RunType
    <3>2. CASE ~r.started
      <4>1. Append(<< >>, "start") = <<"start">>
        OBVIOUS
      <4>2. PICK u : u = [[r EXCEPT !.started = TRUE] EXCEPT !.reports = <<"start">>]
        OBVIOUS
      <4>3. s = u
        BY <1>0, <3>2, <4>1, <4>2 DEF UF!Report, RunType
      <4>4. /\ u \in RunType /\ u.flow = r.flow /\ u.total = r.total /\ u.state = r.state
            /\ u.started = TRUE /\ u.reports = <<"start">>
        BY <4>2 DEF RunType
      <4> QED
        BY <2>1, <4>3, <4>4
    <3> QED
      BY <1>0, <3>1, <3>2
  <2>5. IF taken = 0 THEN t = s
        ELSE \E over \in UF!Exceeded(r.flow, r.total + taken) :
                t = [s EXCEPT !.total = @ + taken, !.state = IF over THEN "aborted" ELSE @]
    BY <1>2 DEF UF!Send
  <2> HIDE DEF s, room, taken
  <2>6. CASE taken = 0
    <3>1. t = s
      BY <2>5, <2>6
    <3>2. /\ t \in RunType /\ t.flow = r.flow /\ t.total = r.total /\ t.state = "established"
          /\ t.started = TRUE /\ t.reports = <<"start">>
      BY <2>4, <3>1
    <3>3. TcpRun(t)
      <4>1. /\ Bytes[t.flow] = 0 => t.total <= MaxTotal
            /\ Bytes[t.flow] > 0 => t.total < Bytes[t.flow]
        BY <2>2, <3>2
      <4> QED
        BY <3>2, <4>1 DEF TcpRun, TcpStates
    <3> QED
      BY <1>0, <3>2, <3>3
  <2>7. CASE taken # 0
    <3>1. PICK over \in UF!Exceeded(r.flow, r.total + taken) :
             t = [s EXCEPT !.total = @ + taken, !.state = IF over THEN "aborted" ELSE @]
      BY <2>5, <2>7
    <3>2. PICK n, after : n = r.total + taken /\ after = IF over THEN "aborted" ELSE "established"
      OBVIOUS
    <3>3. n \in Nat /\ after \in TcpStates /\ t = [s EXCEPT !.total = n, !.state = after]
      BY <1>0, <2>3, <2>4, <3>1, <3>2 DEF TcpStates
    <3>4. /\ t \in RunType /\ t.flow = r.flow /\ t.total = n /\ t.state = after
          /\ t.started = TRUE /\ t.reports = <<"start">>
      BY <2>4, <3>3 DEF RunType
    <3>5. Bytes[r.flow] > 0 => n < Bytes[r.flow] \/ (n = Bytes[r.flow] /\ after = "aborted")
      <4>1. Bytes[r.flow] > 0 => over = (n >= Bytes[r.flow])
        BY <3>1, <3>2 DEF UF!Exceeded
      <4> SUFFICES ASSUME Bytes[r.flow] > 0 PROVE n < Bytes[r.flow] \/ (n = Bytes[r.flow] /\ after = "aborted")
        OBVIOUS
      <4>2. remaining = Bytes[r.flow] - r.total
        OBVIOUS
      <4> HIDE DEF remaining
      <4>3. n \in Nat /\ n <= Bytes[r.flow]
        BY <1>0, <2>2, <2>3, <3>2, <4>2
      <4>4. CASE n >= Bytes[r.flow]
        <5>1. over = TRUE
          BY <4>1, <4>4
        <5>2. after = "aborted"
          BY <3>2, <5>1
        <5> QED
          BY <1>0, <4>3, <4>4, <5>2
      <4>5. CASE ~(n >= Bytes[r.flow])
        BY <1>0, <4>3, <4>5
      <4> QED
        BY <4>4, <4>5
    <3>6. Bytes[r.flow] = 0 => n <= MaxTotal
      BY <1>0, <2>3, <3>2
    <3>7. r.total <= n /\ after # "ended"
      BY <1>0, <2>3, <3>2
    <3> QED
      BY <3>3, <3>4, <3>5, <3>6, <3>7 DEF TcpRun
  <2> QED
    BY <2>6, <2>7
<1> QED
  BY <1>1, <1>2

LEMMA PairAppended ==
    ASSUME NEW S, NEW x \in S, NEW y \in S, NEW u \in Seq(S), Len(u) = 1, u[1] = x
    PROVE  Append(u, y) = <<x, y>>
<1>0. \A v \in Seq(S) : /\ Append(v, y) \in Seq(S) /\ Len(Append(v, y)) = Len(v) + 1
                        /\ Append(v, y)[Len(v) + 1] = y
                        /\ \A i \in 1 .. Len(v) : Append(v, y)[i] = v[i]
  BY AppendProperties
<1>1. PICK t, n : t = Append(u, y) /\ n = Len(u)
  OBVIOUS
<1>2. /\ t \in Seq(S) /\ Len(t) = n + 1 /\ t[n + 1] = y
      /\ \A i \in 1 .. n : t[i] = u[i]
  BY <1>0, <1>1, Zenon
<1>3. t \in Seq(S) /\ Len(t) = 2 /\ t[1] = x /\ t[2] = y
  BY <1>1, <1>2
<1>4. <<x, y>> \in Seq(S) /\ Len(<<x, y>>) = 2 /\ <<x, y>>[1] = x /\ <<x, y>>[2] = y
  OBVIOUS
<1>5. PICK w : w = <<x, y>>
  OBVIOUS
<1>6. w \in Seq(S) /\ Len(w) = Len(t) /\ \A k \in 1 .. Len(t) : t[k] = w[k]
  BY <1>3, <1>4, <1>5
<1> QED
  BY <1>1, <1>3, <1>5, <1>6, SeqEqual

LEMMA StartAndFinish ==
    /\ Append(<< >>, "start") = <<"start">> /\ Append(<< >>, "finish") = <<"finish">>
    /\ Append(<<"start">>, "finish") = <<"start", "finish">>
<1>1. \A x : Append(<< >>, x) = <<x>>
  OBVIOUS
<1>2. PICK u : u = <<"start">>
  OBVIOUS
<1>3. PICK S : "start" \in S /\ "finish" \in S /\ u \in Seq(S) /\ Len(u) = 1 /\ u[1] = "start"
  <2>1. u \in Seq({"start", "finish"}) /\ Len(u) = 1 /\ u[1] = "start"
    BY <1>2, SingleMessage
  <2> QED
    BY <2>1
<1>4. Append(u, "finish") = <<"start", "finish">>
  BY <1>3, PairAppended
<1> QED
  BY <1>1, <1>2, <1>4

\* One turn of a client thread.
LEMMA ClientTurnKeeps ==
    ASSUME UfAssumptions, UfInv, NEW i \in DOMAIN run, NEW polled \in SUBSET segments,
           polled = {} \/ (\E seg : polled = {seg}), UF!ClientTurn(i, polled)
    PROVE  UfInv'
<1>1. PICK r : r = IF polled = {} THEN run[i] ELSE UF!Ingress(run[i], CHOOSE s \in polled : TRUE)
  OBVIOUS
<1>2. /\ i \in senders /\ segments' = (segments \ polled) \cup UF!Egress(i, r)
      /\ UF!IsActive(r) => (\E s \in UF!Send(r) : run' = [run EXCEPT ![i] = s]) /\ senders' = senders
      /\ ~UF!IsActive(r) => /\ senders' = senders \ {i}
                            /\ run' = [run EXCEPT ![i] = UF!Report([r EXCEPT !.state = "ended"], "finish")]
      /\ next_client_port' = next_client_port /\ flow_server' = flow_server /\ flow_chan' = flow_chan /\ rcvd' = rcvd
      /\ sessions' = sessions
  BY <1>1 DEF UF!ClientTurn
<1>3. RunOK(run[i], TRUE) /\ RunsInv(run, senders) /\ senders \subseteq DOMAIN run /\ DOMAIN run \subseteq UF!RunIds
  <2>1. RunsInv(run, senders)
    BY DEF UfInv
  <2>2. DOMAIN run = 1 .. Len(run) /\ Len(run) \in Nat /\ Len(run) <= MaxRuns
    BY <2>1, LenProperties DEF RunsInv
  <2>3. RunOK(run[i], i \in senders)
    BY <2>1 DEF RunsInv
  <2> QED
    BY <1>2, <2>1, <2>2, <2>3 DEF RunsInv, UF!RunIds, UfAssumptions, RunOK
<1>4. run[i] \in RunType /\ run[i].flow \in TcpFlows /\ TcpRun(run[i]) /\ run[i].state # "ended"
  <2>1. run[i] \in RunType
    BY <1>3 DEF RunOK
  <2>2. run[i].flow \in TcpFlows
    BY <1>3, <2>1 DEF RunOK, RunType
  <2> QED
    BY <1>3, <2>1, <2>2 DEF RunOK
<1>5. r \in RunType /\ r.flow = run[i].flow /\ r.total = run[i].total /\ TcpRun(r) /\ r.state # "ended"
  <2>1. CASE polled = {}
    BY <1>1, <1>4, <2>1
  <2>2. CASE polled # {}
    <3>1. PICK seg : seg = CHOOSE s \in polled : TRUE
      OBVIOUS
    <3>2. seg \in segments
      BY <2>2, <3>1
    <3>3. seg \in SegType
      BY <3>2 DEF UfInv, SegsInv, SegOK
    <3>4. r = UF!Ingress(run[i], seg)
      BY <1>1, <2>2, <3>1
    <3> QED
      BY <1>4, <3>3, <3>4, IngressKeeps
  <2> QED
    BY <2>1, <2>2
<1>6. r.state \in {"syn_sent", "established", "aborted"} /\ r.total \in Nat
  BY <1>5 DEF TcpRun, TcpStates, RunType
<1>7. PICK s : /\ run' = [run EXCEPT ![i] = s] /\ s \in RunType /\ s.flow = run[i].flow
               /\ run[i].total <= s.total /\ TcpRun(s)
               /\ IF UF!IsActive(r) THEN s.state # "ended" ELSE s.state = "ended"
  <2>1. CASE UF!IsActive(r)
    <3>1. PICK s \in UF!Send(r) : run' = [run EXCEPT ![i] = s]
      BY <1>2, <2>1
    <3>2. s \in RunType /\ s.flow = r.flow /\ r.total <= s.total /\ TcpRun(s) /\ s.state # "ended"
      BY <1>4, <1>5, <2>1, SendKeeps
    <3> QED
      BY <1>5, <2>1, <3>1, <3>2
  <2>2. CASE ~UF!IsActive(r)
    <3>1. r.state = "aborted" /\ r.started \in BOOLEAN /\ r.reports = IF r.started THEN <<"start">> ELSE << >>
      BY <1>5, <1>6, <2>2 DEF UF!IsActive, TcpRun, RunType
    <3>2. PICK w : w = IF r.started THEN <<"start", "finish">> ELSE <<"finish">>
      OBVIOUS
    <3>3. Append(r.reports, "finish") = w
      <4>1. Append(<< >>, "finish") = <<"finish">> /\ Append(<<"start">>, "finish") = <<"start", "finish">>
        BY StartAndFinish
      <4>2. CASE r.started
        BY <3>1, <3>2, <4>1, <4>2, Zenon
      <4>3. CASE ~r.started
        BY <3>1, <3>2, <4>1, <4>3, Zenon
      <4> QED
        BY <4>2, <4>3
    <3>4. PICK s : s = [[r EXCEPT !.state = "ended"] EXCEPT !.reports = w]
      OBVIOUS
    <3>5. run' = [run EXCEPT ![i] = s]
      BY <1>2, <1>5, <2>2, <3>3, <3>4 DEF UF!Report, RunType
    <3>6. /\ s \in RunType /\ s.flow = r.flow /\ s.total = r.total /\ s.state = "ended"
          /\ s.started = r.started /\ s.reports = w
      BY <1>5, <3>2, <3>4 DEF RunType, TcpStates
    <3>7. TcpRun(s)
      <4>1. s.reports = IF s.started THEN <<"start", "finish">> ELSE <<"finish">>
        BY <3>2, <3>6
      <4>2. /\ Bytes[s.flow] = 0 => s.total <= MaxTotal
            /\ Bytes[s.flow] > 0 => s.total < Bytes[s.flow] \/ s.total = Bytes[s.flow]
        BY <1>5, <3>6 DEF TcpRun
      <4> QED
        BY <3>6, <4>1, <4>2 DEF TcpRun, TcpStates
    <3>8. s.flow = run[i].flow /\ run[i].total <= s.total
      BY <1>5, <1>6, <3>6
    <3> QED
      BY <2>2, <3>5, <3>6, <3>7, <3>8
  <2> QED
    BY <2>1, <2>2
<1>8. PICK tt : tt = IF UF!IsActive(r) THEN senders ELSE senders \ {i}
  OBVIOUS
<1>9. senders' = tt /\ tt \subseteq DOMAIN run /\ (i \in tt <=> s.state # "ended")
      /\ \A j \in DOMAIN run : j # i => (j \in tt <=> j \in senders)
  BY <1>2, <1>3, <1>7, <1>8
<1>10. PICK after : after = [run EXCEPT ![i] = s]
  OBVIOUS
<1>11. RunsInv(after, tt)
  <2>1. RunOK(s, i \in tt)
    BY <1>4, <1>7, <1>9 DEF RunOK, UfAssumptions
  <2> QED
    BY <1>3, <1>9, <1>10, <2>1, RunReplaced
<1>12. \A j \in UF!RunIds : /\ TotalOf(run, j) \in Nat /\ TotalOf(after, j) \in Nat
                             /\ TotalOf(run, j) <= TotalOf(after, j)
  BY <1>3, <1>7, <1>10, TotalsGrow
<1>13. SegsInv(segments, flow_chan, rcvd, after)
  BY <1>12, SegsKept DEF UfInv
<1>14. SegsInv(segments', flow_chan, rcvd, after)
  <2>1. ASSUME NEW seg \in UF!Egress(i, r) PROVE SegOK(seg, after)
    <3>1. seg \in SegType /\ seg.run = i /\ (seg.kind = "data" => seg.n <= r.total)
      BY <1>3, <1>5, <1>6, EgressOK
    <3>2. TotalOf(after, i) = s.total /\ r.total <= s.total /\ s.total \in Nat
      <4>1. after[i] = s /\ i \in DOMAIN after
        BY <1>10
      <4> QED
        BY <1>5, <1>7, <4>1 DEF TotalOf, RunType
    <3> QED
      BY <1>6, <3>1, <3>2 DEF SegOK, SegType
  <2>2. \A seg \in segments' : SegOK(seg, after)
    BY <1>2, <1>13, <2>1 DEF SegsInv
  <2> QED
    BY <1>13, <2>2 DEF SegsInv
<1>15. SessInv(sessions, after)
  <2>1. DOMAIN after = DOMAIN run /\ after[i] = s /\ \A j \in DOMAIN run : j # i => after[j] = run[j]
    BY <1>10
  <2>2. run[i].state # "waiting"
    BY <1>4 DEF TcpRun, TcpStates
  <2>3. SessInv(sessions, run)
    BY DEF UfInv
  <2>4. i \in DOMAIN run => after[i] = s /\ (run[i].state = "waiting" => s.state = "waiting" /\ s.flow = run[i].flow)
    BY <2>1, <2>2
  <2>5. \A rs, live, r1 : 
           /\ SessInv(live, rs) /\ DOMAIN rs \subseteq DOMAIN after
           /\ \A j \in DOMAIN rs : j # i => after[j] = rs[j]
           /\ i \in DOMAIN rs => after[i] = r1 /\ (rs[i].state = "waiting" => r1.state = "waiting" /\ r1.flow = rs[i].flow)
           => SessInv(live, after)
    BY SessionsKept, SMTT(30)
  <2> QED
    BY <2>1, <2>3, <2>4, <2>5
<1> QED
  BY <1>2, <1>7, <1>9, <1>10, <1>11, <1>14, <1>15 DEF UfInv

\* A flow that is handed out has accepted nothing, and its segments are new.
LEMMA HandedOut ==
    ASSUME UfAssumptions, UfInv, Len(run) < MaxRuns, NEW r, r.total = 0, run' = Append(run, r),
           RunOK(r, Len(run) + 1 \in senders'),
           senders' = senders \/ senders' = senders \cup {Len(run) + 1},
           next_client_port' \in Nat, flow_chan' = flow_chan, rcvd' = rcvd, segments' = segments, sessions' = sessions
    PROVE  UfInv'
<1>1. PICK after, tt : after = Append(run, r) /\ tt = senders' /\ after = run'
  OBVIOUS
<1>2. RunsInv(run, senders) /\ SegsInv(segments, flow_chan, rcvd, run) /\ SessInv(sessions, run)
  BY DEF UfInv
<1>3. PICK n : n = Len(run) + 1
  OBVIOUS
<1>n. RunOK(r, n \in tt) /\ (tt = senders \/ tt = senders \cup {n}) /\ Appended(run, r, after, n)
  BY <1>1, <1>3 DEF Appended
<1>4. /\ RunsInv(after, tt) /\ DOMAIN after = 1 .. n /\ DOMAIN run = 1 .. Len(run)
      /\ \A j \in DOMAIN run : after[j] = run[j]
      /\ after[n] = r /\ n \notin DOMAIN run /\ Len(run) \in Nat
  BY <1>2, <1>3, <1>n, RunAdded
<1>5. \A j \in UF!RunIds : /\ TotalOf(run, j) \in Nat /\ TotalOf(after, j) \in Nat
                           /\ TotalOf(run, j) <= TotalOf(after, j)
  <2> SUFFICES ASSUME NEW j \in UF!RunIds
               PROVE  /\ TotalOf(run, j) \in Nat /\ TotalOf(after, j) \in Nat
                      /\ TotalOf(run, j) <= TotalOf(after, j)
    OBVIOUS
  <2>0. run \in Seq(RunType) /\ after \in Seq(RunType)
    BY <1>2, <1>4 DEF RunsInv
  <2>1. TotalOf(run, j) \in Nat /\ TotalOf(after, j) \in Nat
    BY <2>0, TotalIsNat
  <2>2. CASE j \in DOMAIN run
    <3>1. TotalOf(run, j) = TotalOf(after, j)
      BY <1>3, <1>4, <2>2 DEF TotalOf
    <3> QED
      BY <2>1, <3>1
  <2>3. CASE j \notin DOMAIN run
    <3>1. TotalOf(run, j) = 0
      BY <2>3 DEF TotalOf
    <3> QED
      BY <2>1, <3>1
  <2> QED
    BY <2>2, <2>3
<1>6. SegsInv(segments, flow_chan, rcvd, after)
  BY <1>2, <1>5, SegsKept
<1>7. SessInv(sessions, after)
  <2> SUFFICES ASSUME NEW id \in sessions
               PROVE  id \in LosslessFlows
                      /\ \E j \in DOMAIN after : after[j].flow = id /\ after[j].state = "waiting"
    BY DEF SessInv
  <2>1. id \in LosslessFlows /\ \E j \in DOMAIN run : run[j].flow = id /\ run[j].state = "waiting"
    BY <1>2 DEF SessInv
  <2>2. DOMAIN run \subseteq DOMAIN after
    BY <1>3, <1>4
  <2> QED
    BY <1>4, <2>1, <2>2
<1>8. /\ RunsInv(run', senders') /\ SegsInv(segments', flow_chan', rcvd', run') /\ SessInv(sessions', run')
  <2>1. run' = after /\ senders' = tt
    BY <1>1
  <2>2. SegsInv(segments', flow_chan', rcvd', after) /\ SessInv(sessions', after)
    BY <1>6, <1>7
  <2> QED
    BY <1>4, <2>1, <2>2
<1> QED
  BY <1>8 DEF UfInv

\* A run of a lossless flow moves on.
LEMMA LosslessMoved ==
    ASSUME UfAssumptions, UfInv, NEW i \in DOMAIN run, NEW r, run' = [run EXCEPT ![i] = r],
           r \in RunType, r.flow = run[i].flow, r.total = run[i].total,
           run[i].state \in {"spawned", "waiting"}, LosslessRun(r),
           next_client_port' = next_client_port, senders' = senders, flow_chan' = flow_chan, rcvd' = rcvd,
           segments' = segments, SessInv(sessions', run')
    PROVE  UfInv'
<1>1. PICK after : after = [run EXCEPT ![i] = r] /\ after = run'
  OBVIOUS
<1>2. RunsInv(run, senders) /\ SegsInv(segments, flow_chan, rcvd, run) /\ RunOK(run[i], i \in senders)
  BY DEF UfInv, RunsInv
<1>3. r.flow \in LosslessFlows /\ r.flow \notin TcpFlows /\ i \notin senders
  <2>1. run[i].flow \notin TcpFlows
    BY <1>2 DEF RunOK, TcpRun, TcpStates
  <2> QED
    BY <1>2, <2>1 DEF RunOK, RunType
<1>4. RunOK(r, i \in senders)
  BY <1>3 DEF RunOK
<1>5. RunsInv(after, senders)
  <2>1. senders \subseteq DOMAIN run
    BY <1>2 DEF RunsInv
  <2> QED
    BY <1>1, <1>2, <1>4, <2>1, RunReplaced
<1>6. run[i].total <= r.total
  BY <1>2 DEF RunOK, RunType
<1>7. \A j \in UF!RunIds : /\ TotalOf(run, j) \in Nat /\ TotalOf(after, j) \in Nat
                           /\ TotalOf(run, j) <= TotalOf(after, j)
  BY <1>1, <1>2, <1>6, TotalsGrow
<1>8. SegsInv(segments, flow_chan, rcvd, after)
  BY <1>2, <1>7, SegsKept
<1> QED
  BY <1>1, <1>5, <1>8 DEF UfInv

\* The segments move.
LEMMA SegmentsMoved ==
    ASSUME UfInv, next_client_port' = next_client_port, run' = run, senders' = senders,
           sessions' = sessions, SegsInv(segments', flow_chan', rcvd', run)
    PROVE  UfInv'
<1>1. SegsInv(segments', flow_chan', rcvd', run')
  OBVIOUS
<1> QED
  BY <1>1 DEF UfInv

LEMMA ServerPollKeeps ==
    ASSUME UfAssumptions, UfInv, NEW i \in DOMAIN run, UF!ServerPoll(i)
    PROVE  UfInv'
<1>1. PICK seg : seg = IF flow_chan[i] = << >> THEN UF!Segment(i, "none", 0) ELSE Head(flow_chan[i])
  OBVIOUS
<1>2. /\ flow_server[i] \in {"spawned", "active"} /\ flow_chan' = [flow_chan EXCEPT ![i] = << >>]
      /\ flow_server[i] = "spawned" =>
            /\ rcvd' = rcvd
            /\ segments' = IF seg.kind = "syn" THEN segments \cup {UF!Segment(i, "syn_ack", 0)} ELSE segments
      /\ flow_server[i] = "active" =>
            /\ rcvd' = [rcvd EXCEPT ![i] = IF seg.kind = "data" /\ seg.n = rcvd[i] + 1 THEN @ + 1 ELSE @]
            /\ seg.kind = "syn" => segments' = segments \cup {UF!Segment(i, "syn_ack", 0)}
            /\ seg.kind = "data" => segments' = segments \cup {UF!Segment(i, "ack", rcvd'[i])}
            /\ seg.kind \notin {"syn", "data"} => segments' = segments
      /\ next_client_port' = next_client_port /\ run' = run /\ senders' = senders
      /\ sessions' = sessions
  BY <1>1 DEF UF!ServerPoll
<1>3. SegsInv(segments, flow_chan, rcvd, run) /\ DOMAIN run \subseteq UF!RunIds /\ i \in UF!RunIds
  <2>1. RunsInv(run, senders) /\ SegsInv(segments, flow_chan, rcvd, run)
    BY DEF UfInv
  <2>2. DOMAIN run = 1 .. Len(run) /\ Len(run) \in Nat /\ Len(run) <= MaxRuns
    BY <2>1, LenProperties DEF RunsInv
  <2> QED
    BY <2>1, <2>2 DEF UF!RunIds, UfAssumptions
<1>4. /\ DOMAIN flow_chan = UF!RunIds /\ rcvd \in [UF!RunIds -> Nat]
      /\ \A s \in segments : SegOK(s, run)
  BY <1>3 DEF SegsInv
<1>5. seg.kind = "data" => seg.n <= TotalOf(run, i)
  <2>1. CASE flow_chan[i] = << >>
    BY <1>1, <2>1 DEF UF!Segment
  <2>2. CASE flow_chan[i] # << >>
    <3>1. PICK s : flow_chan[i] = <<s>> /\ s.run = i /\ SegOK(s, run)
      BY <1>3, <2>2 DEF SegsInv
    <3>2. seg = s
      BY <1>1, <2>2, <3>1
    <3> QED
      BY <3>1, <3>2 DEF SegOK
  <2> QED
    BY <2>1, <2>2
<1>6. /\ rcvd' \in [UF!RunIds -> Nat] /\ \A j \in UF!RunIds : j # i => rcvd'[j] = rcvd[j]
      /\ rcvd'[i] = rcvd[i] \/ (rcvd'[i] = rcvd[i] + 1 /\ seg.kind = "data" /\ seg.n = rcvd[i] + 1)
  <2>1. CASE flow_server[i] = "spawned"
    BY <1>2, <1>4, <2>1
  <2>2. CASE flow_server[i] = "active"
    <3>1. PICK n : n = IF seg.kind = "data" /\ seg.n = rcvd[i] + 1 THEN rcvd[i] + 1 ELSE rcvd[i]
      OBVIOUS
    <3>2. n \in Nat /\ rcvd' = [rcvd EXCEPT ![i] = n]
      <4>1. rcvd[i] \in Nat
        BY <1>3, <1>4
      <4> QED
        BY <1>2, <2>2, <3>1, <4>1
    <3> QED
      BY <1>3, <1>4, <3>1, <3>2
  <2> QED
    BY <1>2, <2>1, <2>2
<1>7. ASSUME NEW j \in UF!RunIds PROVE rcvd'[j] <= TotalOf(run, j)
  <2>1. rcvd[j] <= TotalOf(run, j) /\ rcvd[j] \in Nat
    BY <1>3, <1>4 DEF SegsInv
  <2>2. CASE j = i
    BY <1>5, <1>6, <2>1, <2>2
  <2>3. CASE j # i
    BY <1>6, <2>1, <2>3
  <2> QED
    BY <2>2, <2>3
<1>8. ASSUME NEW s \in segments' PROVE SegOK(s, run)
  <2>1. /\ SegOK(UF!Segment(i, "syn_ack", 0), run)
        /\ SegOK(UF!Segment(i, "ack", rcvd'[i]), run)
    <3>1. i \in UF!RunIds /\ rcvd'[i] \in Nat
      BY <1>3, <1>6
    <3> QED
      BY <3>1 DEF SegOK, SegType, UF!Segment
  <2>2. s \in segments \/ s = UF!Segment(i, "syn_ack", 0) \/ s = UF!Segment(i, "ack", rcvd'[i])
    BY <1>2
  <2> QED
    BY <1>4, <2>1, <2>2
<1>9. /\ DOMAIN flow_chan' = UF!RunIds
      /\ \A j \in UF!RunIds :
            flow_chan'[j] = << >> \/ \E s : flow_chan'[j] = <<s>> /\ s.run = j /\ SegOK(s, run)
  <2>1. DOMAIN flow_chan' = UF!RunIds /\ flow_chan'[i] = << >> /\ \A j \in UF!RunIds : j # i => flow_chan'[j] = flow_chan[j]
    BY <1>2, <1>3, <1>4
  <2>2. ASSUME NEW j \in UF!RunIds
        PROVE  flow_chan'[j] = << >> \/ \E s : flow_chan'[j] = <<s>> /\ s.run = j /\ SegOK(s, run)
    <3>1. flow_chan[j] = << >> \/ \E s : flow_chan[j] = <<s>> /\ s.run = j /\ SegOK(s, run)
      BY <1>3 DEF SegsInv
    <3>2. CASE j = i
      BY <2>1, <3>2
    <3>3. CASE j # i
      <4>1. flow_chan'[j] = flow_chan[j]
        BY <2>1, <3>3
      <4> QED
        BY <3>1, <4>1
    <3> QED
      BY <3>2, <3>3
  <2> QED
    BY <2>1, <2>2
<1>10. SegsInv(segments', flow_chan', rcvd', run)
  BY <1>6, <1>7, <1>8, <1>9 DEF SegsInv
<1> QED
  BY <1>2, <1>10, SegmentsMoved

LEMMA UfStep ==
    ASSUME UfAssumptions, UfInv, [UF!Next]_(UF!vars)
    PROVE  UfInv'
<1>t. RunsInv(run, senders) /\ SegsInv(segments, flow_chan, rcvd, run) /\ SessInv(sessions, run) /\ next_client_port \in Nat
  BY DEF UfInv
<1>1. ASSUME NEW f \in TcpFlows, UF!AddFlows(f) PROVE UfInv'
  <2>1. PICK r : r = UF!NewRun(f, next_client_port', "syn_sent")
    OBVIOUS
  <2>2. /\ Len(run) < MaxRuns /\ next_client_port' = next_client_port + 1
        /\ run' = Append(run, r) /\ senders' = senders \cup {Len(run) + 1}
        /\ flow_chan' = flow_chan /\ rcvd' = rcvd /\ segments' = segments /\ sessions' = sessions
    BY <1>1, <2>1 DEF UF!AddFlows
  <2>3. next_client_port' \in Nat
    BY <1>t, <2>2
  <2>4. /\ r \in RunType /\ r.flow = f /\ r.state = "syn_sent" /\ r.started = FALSE /\ r.total = 0
        /\ r.reports = << >>
    BY <2>1, <2>3 DEF UF!NewRun, RunType, TcpStates
  <2>5. Bytes[f] \in Nat /\ MaxTotal \in Nat /\ f \notin LosslessFlows
    BY DEF UfAssumptions
  <2>6. TcpRun(r)
    BY <2>4, <2>5 DEF TcpRun, TcpStates
  <2>7. RunOK(r, Len(run) + 1 \in senders')
    BY <2>2, <2>4, <2>5, <2>6 DEF RunOK
  <2> QED
    BY <2>2, <2>3, <2>4, <2>7, HandedOut
<1>2. ASSUME NEW f \in LosslessFlows, UF!RunSenderFlow(f) PROVE UfInv'
  <2>1. PICK r : r = UF!NewRun(f, UF!ClientPortForFlow(f), "spawned")
    OBVIOUS
  <2>2. /\ Len(run) < MaxRuns /\ next_client_port' = next_client_port
        /\ run' = Append(run, r) /\ senders' = senders
        /\ flow_chan' = flow_chan /\ rcvd' = rcvd /\ segments' = segments /\ sessions' = sessions
    BY <1>2, <2>1 DEF UF!RunSenderFlow, UF!tcpVars
  <2>3. next_client_port' \in Nat /\ UF!ClientPortForFlow(f) \in Nat
    BY <1>t, <2>2 DEF UF!ClientPortForFlow, UfAssumptions
  <2>4. /\ r \in RunType /\ r.flow = f /\ r.state = "spawned" /\ r.total = 0 /\ r.reports = << >>
    BY <2>1, <2>3 DEF UF!NewRun, RunType, LosslessStates
  <2>5. f \notin TcpFlows
    BY DEF UfAssumptions
  <2>6. LosslessRun(r)
    BY <2>4 DEF LosslessRun, LosslessStates
  <2>7. Len(run) + 1 \notin senders'
    <3>1. DOMAIN run = 1 .. Len(run) /\ Len(run) \in Nat /\ senders \subseteq DOMAIN run
      BY <1>t, LenProperties DEF RunsInv
    <3> QED
      BY <2>2, <3>1
  <2>8. RunOK(r, Len(run) + 1 \in senders')
    BY <2>4, <2>5, <2>6, <2>7 DEF RunOK
  <2> QED
    BY <2>2, <2>3, <2>4, <2>8, HandedOut
<1>3. ASSUME NEW f \in LosslessFlows, UF!RunReceiverFlow(f) PROVE UfInv'
  BY <1>3 DEF UF!RunReceiverFlow, UF!tcpVars, UfInv
<1>4. ASSUME NEW seg \in segments, UF!Arrive(seg.run, seg) PROVE UfInv'
  <2>1. PICK i : i = seg.run
    OBVIOUS
  <2>2. /\ segments' = segments \ {seg} /\ next_client_port' = next_client_port /\ run' = run
        /\ senders' = senders /\ rcvd' = rcvd /\ sessions' = sessions
        /\ flow_chan' = [flow_chan EXCEPT ![i] = IF flow_server[i] = "ended" \/ @ # << >> THEN @ ELSE Append(@, seg)]
    BY <1>4, <2>1 DEF UF!Arrive
  <2>3. SegOK(seg, run) /\ i \in UF!RunIds /\ DOMAIN flow_chan = UF!RunIds
    BY <1>t, <2>1 DEF SegsInv, SegOK, SegType
  <2>4. flow_chan'[i] = flow_chan[i] \/ (flow_chan[i] = << >> /\ flow_chan'[i] = Append(<< >>, seg))
    BY <2>2, <2>3
  <2>5. Append(<< >>, seg) = <<seg>>
    OBVIOUS
  <2>6. \A j \in UF!RunIds : j # i => flow_chan'[j] = flow_chan[j]
    BY <2>2, <2>3
  <2>7. ASSUME NEW j \in UF!RunIds
        PROVE  flow_chan'[j] = << >> \/ \E s : flow_chan'[j] = <<s>> /\ s.run = j /\ SegOK(s, run)
    <3>1. flow_chan[j] = << >> \/ \E s : flow_chan[j] = <<s>> /\ s.run = j /\ SegOK(s, run)
      BY <1>t DEF SegsInv
    <3>2. CASE flow_chan'[j] = flow_chan[j]
      BY <3>1, <3>2
    <3>3. CASE flow_chan'[j] # flow_chan[j]
      <4>1. j = i /\ flow_chan'[j] = <<seg>>
        BY <2>4, <2>5, <2>6, <3>3
      <4> QED
        BY <2>1, <2>3, <4>1
    <3> QED
      BY <3>2, <3>3
  <2>8. DOMAIN flow_chan' = UF!RunIds
    BY <2>2, <2>3
  <2>9. SegsInv(segments', flow_chan', rcvd', run)
    BY <1>t, <2>2, <2>7, <2>8 DEF SegsInv
  <2> QED
    BY <2>2, <2>9, SegmentsMoved
<1>5. ASSUME NEW seg \in segments, UF!Drop(seg) PROVE UfInv'
  <2>1. /\ segments' = segments \ {seg} /\ next_client_port' = next_client_port /\ run' = run
        /\ senders' = senders /\ rcvd' = rcvd /\ sessions' = sessions /\ flow_chan' = flow_chan
    BY <1>5 DEF UF!Drop
  <2>2. SegsInv(segments', flow_chan', rcvd', run)
    BY <1>t, <2>1 DEF SegsInv
  <2> QED
    BY <2>1, <2>2, SegmentsMoved
<1>6. ASSUME NEW i \in DOMAIN run, UF!ClientPoll(i) PROVE UfInv'
  <2>1. CASE UF!ClientTurn(i, {})
    BY <2>1, ClientTurnKeeps
  <2>2. CASE \E s \in UF!ToClient(i) : UF!ClientTurn(i, {s})
    <3>1. PICK s \in UF!ToClient(i) : UF!ClientTurn(i, {s})
      BY <2>2
    <3>2. {s} \in SUBSET segments
      BY DEF UF!ToClient
    <3> QED
      BY <3>1, <3>2, ClientTurnKeeps
  <2> QED
    BY <1>6, <2>1, <2>2 DEF UF!ClientPoll
<1>7. ASSUME NEW i \in DOMAIN run, UF!AddServer(i) PROVE UfInv'
  BY <1>7 DEF UF!AddServer, UfInv
<1>8. ASSUME NEW i \in DOMAIN run, UF!ServerPoll(i) PROVE UfInv'
  BY <1>8, ServerPollKeeps
<1>9. ASSUME NEW i \in DOMAIN run, UF!StartSender(i) PROVE UfInv'
  <2>1. PICK id : id = run[i].flow
    OBVIOUS
  <2>2. /\ run[i].state = "spawned" /\ next_client_port' = next_client_port /\ senders' = senders
        /\ flow_chan' = flow_chan /\ rcvd' = rcvd /\ segments' = segments
        /\ IF id \in sessions
           THEN /\ run' = [run EXCEPT ![i] = UF!Report([@ EXCEPT !.state = "refused"], "finish")]
                /\ sessions' = sessions
           ELSE /\ sessions' = sessions \cup {id}
                /\ run' = [run EXCEPT ![i] = UF!Report([@ EXCEPT !.state = "waiting"], "start")]
    BY <1>9, <2>1 DEF UF!StartSender, UF!tcpVars, UF!SessionIdForFlow
  <2>3. RunOK(run[i], i \in senders) /\ run \in Seq(RunType)
    BY <1>t DEF RunsInv
  <2>4. /\ run[i] \in RunType /\ run[i].reports = << >> /\ id \in LosslessFlows
    <3>1. run[i] \in RunType /\ run[i].flow \notin TcpFlows
      BY <2>2, <2>3 DEF RunOK, TcpRun, TcpStates
    <3>2. LosslessRun(run[i]) /\ id \in LosslessFlows
      BY <2>1, <2>3, <3>1 DEF RunOK, RunType
    <3> QED
      BY <2>2, <3>1, <3>2 DEF LosslessRun
  <2>5. PICK next_state, word : /\ next_state = IF id \in sessions THEN "refused" ELSE "waiting"
                                /\ word = IF id \in sessions THEN "finish" ELSE "start"
    OBVIOUS
  <2>6. PICK r : r = [[run[i] EXCEPT !.state = next_state] EXCEPT !.reports = <<word>>]
    OBVIOUS
  <2>7. Append(run[i].reports, word) = <<word>>
    BY <2>4
  <2>8. run' = [run EXCEPT ![i] = r]
    <3>1. UF!Report([run[i] EXCEPT !.state = next_state], word) = r
      BY <2>4, <2>6, <2>7 DEF UF!Report, RunType
    <3>2. run' = [run EXCEPT ![i] = UF!Report([run[i] EXCEPT !.state = next_state], word)]
      BY <2>2, <2>5
    <3> QED
      BY <3>1, <3>2
  <2>9. /\ r \in RunType /\ r.flow = id /\ r.total = run[i].total /\ r.state = next_state
        /\ r.reports = <<word>> /\ LosslessRun(r)
    <3>1. next_state \in LosslessStates /\ <<word>> \in {<<"start">>, <<"finish">>}
      BY <2>5 DEF LosslessStates
    <3>2. /\ r \in RunType /\ r.flow = id /\ r.total = run[i].total /\ r.state = next_state
          /\ r.reports = <<word>>
      BY <2>1, <2>4, <2>6, <3>1 DEF RunType
    <3> QED
      BY <2>5, <3>2 DEF LosslessRun, LosslessStates
  <2>10. /\ DOMAIN run' = DOMAIN run /\ run'[i] = r
         /\ \A j \in DOMAIN run : j # i => run'[j] = run[j]
    BY <2>8
  <2>11. SessInv(sessions', run')
    <3> SUFFICES ASSUME NEW s \in sessions'
                 PROVE  s \in LosslessFlows
                        /\ \E j \in DOMAIN run' : run'[j].flow = s /\ run'[j].state = "waiting"
      BY DEF SessInv
    <3>1. CASE s \in sessions
      <4>1. PICK j \in DOMAIN run : run[j].flow = s /\ run[j].state = "waiting"
        BY <1>t, <3>1 DEF SessInv
      <4>2. j # i
        BY <2>2, <4>1
      <4> QED
        BY <1>t, <2>10, <3>1, <4>1, <4>2 DEF SessInv
    <3>2. CASE s \notin sessions
      <4>1. s = id /\ next_state = "waiting"
        BY <2>2, <2>5, <3>2
      <4> QED
        BY <2>4, <2>9, <2>10, <4>1
    <3> QED
      BY <3>1, <3>2
  <2> QED
    BY <2>1, <2>2, <2>8, <2>9, <2>11, LosslessMoved
<1>10. ASSUME NEW i \in DOMAIN run, UF!SessionWait(i) PROVE UfInv'
  <2>1. PICK id : id = run[i].flow
    OBVIOUS
  <2>2. /\ run[i].state = "waiting" /\ next_client_port' = next_client_port /\ senders' = senders
        /\ flow_chan' = flow_chan /\ rcvd' = rcvd /\ segments' = segments /\ sessions' = sessions \ {id}
        /\ run' = [run EXCEPT ![i] = UF!Report([@ EXCEPT !.state = "ended"], "finish")]
    BY <1>10, <2>1 DEF UF!SessionWait, UF!tcpVars, UF!SessionIdForFlow
  <2>3. RunOK(run[i], i \in senders) /\ run \in Seq(RunType)
    BY <1>t DEF RunsInv
  <2>4. /\ run[i] \in RunType /\ run[i].reports = <<"start">> /\ id \in LosslessFlows
    <3>1. run[i] \in RunType /\ run[i].flow \notin TcpFlows
      BY <2>2, <2>3 DEF RunOK, TcpRun, TcpStates
    <3>2. LosslessRun(run[i]) /\ id \in LosslessFlows
      BY <2>1, <2>3, <3>1 DEF RunOK, RunType
    <3> QED
      BY <2>2, <3>1, <3>2 DEF LosslessRun
  <2>6. PICK r : r = [[run[i] EXCEPT !.state = "ended"] EXCEPT !.reports = <<"start", "finish">>]
    OBVIOUS
  <2>7. Append(run[i].reports, "finish") = <<"start", "finish">>
    BY <2>4, StartAndFinish
  <2>8. run' = [run EXCEPT ![i] = r]
    <3>1. UF!Report([run[i] EXCEPT !.state = "ended"], "finish") = r
      BY <2>4, <2>6, <2>7 DEF UF!Report, RunType
    <3> QED
      BY <2>2, <3>1
  <2>9. /\ r \in RunType /\ r.flow = id /\ r.total = run[i].total /\ r.state = "ended"
        /\ r.reports = <<"start", "finish">> /\ LosslessRun(r)
    <3>2. /\ r \in RunType /\ r.flow = id /\ r.total = run[i].total /\ r.state = "ended"
          /\ r.reports = <<"start", "finish">>
      BY <2>1, <2>4, <2>6 DEF RunType, LosslessStates
    <3> QED
      BY <3>2 DEF LosslessRun, LosslessStates
  <2>10. /\ DOMAIN run' = DOMAIN run /\ run'[i] = r
         /\ \A j \in DOMAIN run : j # i => run'[j] = run[j]
    BY <2>8
  <2>11. SessInv(sessions', run')
    <3> SUFFICES ASSUME NEW s \in sessions'
                 PROVE  s \in LosslessFlows
                        /\ \E j \in DOMAIN run' : run'[j].flow = s /\ run'[j].state = "waiting"
      BY DEF SessInv
    <3>1. s \in sessions /\ s # id
      BY <2>2
    <3>2. PICK j \in DOMAIN run : run[j].flow = s /\ run[j].state = "waiting"
      BY <1>t, <3>1 DEF SessInv
    <3>3. j # i
      BY <2>1, <3>1, <3>2
    <3> QED
      BY <1>t, <2>10, <3>1, <3>2, <3>3 DEF SessInv
  <2> QED
    BY <2>1, <2>2, <2>8, <2>9, <2>11, LosslessMoved
<1>11. CASE UNCHANGED UF!vars
  BY <1>11 DEF UF!vars, UfInv
<1> QED
  BY <1>1, <1>2, <1>3, <1>4, <1>5, <1>6, <1>7, <1>8, <1>9, <1>10, <1>11 DEF UF!Next

\* UserSpaceClient::run and send, run_sender_flow: however segments are lost and
\* flows handed out again, a run reports its start and its finish once each and
\* in this order, and with the finish it has let go of everything it held.
THEOREM FinishesReleaseRuns ==
    ASSUME UfAssumptions
    PROVE  UF!Spec => []UF!FinishReleasesRun
<1>1. UF!Init => UfInv
  <2> SUFFICES ASSUME UF!Init PROVE UfInv
    OBVIOUS
  <2>1. /\ next_client_port = BasePort /\ run = << >> /\ senders = {}
        /\ flow_chan = [i \in UF!RunIds |-> << >>] /\ rcvd = [i \in UF!RunIds |-> 0]
        /\ segments = {} /\ sessions = {}
    BY DEF UF!Init
  <2>2. run \in Seq(RunType) /\ Len(run) = 0 /\ DOMAIN run = {}
    BY <2>1
  <2>3. RunsInv(run, senders)
    BY <2>1, <2>2 DEF RunsInv, UfAssumptions
  <2>4. SegsInv(segments, flow_chan, rcvd, run)
    BY <2>1, <2>2 DEF SegsInv, TotalOf
  <2>5. SessInv(sessions, run)
    BY <2>1 DEF SessInv
  <2> QED
    BY <2>1, <2>3, <2>4, <2>5 DEF UfInv, UfAssumptions
<1>2. UfInv /\ [UF!Next]_(UF!vars) => UfInv'
  BY UfStep
<1>3. UfInv => UF!FinishReleasesRun
  <2> SUFFICES ASSUME UfInv, NEW i \in DOMAIN run
               PROVE  /\ run[i].reports \in {<< >>, <<"start">>, <<"finish">>, <<"start", "finish">>}
                      /\ run[i].flow \in TcpFlows =>
                          /\ UF!Finished(run[i]) <=> i \notin senders
                          /\ rcvd[i] <= run[i].total
                          /\ Bytes[run[i].flow] > 0 => \/ run[i].total < Bytes[run[i].flow]
                                                       \/ run[i].total = Bytes[run[i].flow] /\ ~UF!IsActive(run[i])
                      /\ run[i].flow \in LosslessFlows /\ UF!Finished(run[i])
                            /\ UF!SessionIdForFlow(run[i].flow) \in sessions =>
                          \E j \in DOMAIN run \ {i} : run[j].flow = run[i].flow /\ run[j].state = "waiting"
    BY DEF UF!FinishReleasesRun
  <2>1. RunOK(run[i], i \in senders) /\ i \in UF!RunIds
    <3>1. DOMAIN run = 1 .. Len(run) /\ Len(run) \in Nat /\ Len(run) <= MaxRuns
      BY LenProperties DEF UfInv, RunsInv
    <3> QED
      BY <3>1 DEF UfInv, RunsInv, UF!RunIds, UfAssumptions
  <2>2. run[i] \in RunType
    BY <2>1 DEF RunOK
  <2>3. /\ run[i].reports = << >> => ~UF!Finished(run[i])
        /\ run[i].reports = <<"start">> => ~UF!Finished(run[i])
        /\ run[i].reports = <<"finish">> => UF!Finished(run[i])
        /\ run[i].reports = <<"start", "finish">> => UF!Finished(run[i])
    BY DEF UF!Finished
  <2>4. rcvd[i] <= run[i].total
    BY <2>1 DEF UfInv, SegsInv, TotalOf
  <2>5. ASSUME run[i].flow \in TcpFlows
        PROVE  /\ UF!Finished(run[i]) <=> i \notin senders
               /\ Bytes[run[i].flow] > 0 => \/ run[i].total < Bytes[run[i].flow]
                                            \/ run[i].total = Bytes[run[i].flow] /\ ~UF!IsActive(run[i])
    <3>1. TcpRun(run[i]) /\ (i \in senders <=> run[i].state # "ended")
      BY <2>1, <2>5 DEF RunOK
    <3>2. UF!Finished(run[i]) <=> i \notin senders
      BY <2>3, <3>1 DEF TcpRun
    <3>3. run[i].total = Bytes[run[i].flow] /\ Bytes[run[i].flow] > 0 => ~UF!IsActive(run[i])
      <4>1. Bytes[run[i].flow] \in Nat
        BY <2>2, <2>5 DEF UfAssumptions
      <4> QED
        BY <3>1, <4>1 DEF TcpRun, UF!IsActive
    <3>4. Bytes[run[i].flow] > 0 => run[i].total < Bytes[run[i].flow] \/ run[i].total = Bytes[run[i].flow]
      BY <3>1 DEF TcpRun
    <3>5. Bytes[run[i].flow] > 0 => \/ run[i].total < Bytes[run[i].flow]
                                    \/ run[i].total = Bytes[run[i].flow] /\ ~UF!IsActive(run[i])
      BY <3>3, <3>4
    <3> QED
      BY <3>2, <3>5
  <2>6. ASSUME run[i].flow \in LosslessFlows, UF!Finished(run[i]), run[i].flow \in sessions
        PROVE  \E j \in DOMAIN run \ {i} : run[j].flow = run[i].flow /\ run[j].state = "waiting"
    <3>1. PICK j \in DOMAIN run : run[j].flow = run[i].flow /\ run[j].state = "waiting"
      BY <2>6 DEF UfInv, SessInv
    <3>2. run[i].state # "waiting"
      BY <2>1, <2>3, <2>6 DEF RunOK, LosslessRun
    <3> QED
      BY <3>1, <3>2
  <2>7. run[i].reports \in {<< >>, <<"start">>, <<"finish">>, <<"start", "finish">>}
    BY <2>2 DEF RunType
  <2> QED
    BY <2>4, <2>5, <2>6, <2>7 DEF UF!SessionIdForFlow
<1> QED
  BY <1>1, <1>2, <1>3, PTL DEF UF!Spec

-----------------------------------------------------------------------------
(* A link over TCP or QUIC *)

UnitType == [len : Nat, packet : DOMAIN Traffic]

\* The units on the way are the frames of `is` from unit b of frame a on:
\* frame[p] and place[p] say where the unit at p belongs.
Laid(units, is, a, b, frame, place) ==
    /\ frame \in [1 .. (Len(units) + 1) -> Nat] /\ place \in [1 .. (Len(units) + 1) -> Nat]
    /\ frame[1] = a /\ place[1] = b
    /\ frame[Len(units) + 1] = Len(is) + 1 /\ place[Len(units) + 1] = 0
    /\ \A p \in 1 .. Len(units) :
          /\ frame[p] \in 1 .. Len(is) /\ place[p] <= Traffic[is[frame[p]]].size
          /\ units[p].packet = is[frame[p]]
          /\ units[p].len = IF place[p] = 0 THEN Traffic[is[frame[p]]].size ELSE 0
          /\ place[p] < Traffic[is[frame[p]]].size =>
                frame[p + 1] = frame[p] /\ place[p + 1] = place[p] + 1
          /\ place[p] = Traffic[is[frame[p]]].size =>
                frame[p + 1] = frame[p] + 1 /\ place[p + 1] = 0

LaidOut(units, is, a, b) == \E frame, place : Laid(units, is, a, b, frame, place)

LEMMA FrameUnits ==
    ASSUME TrafficOK, NEW i \in DOMAIN Traffic
    PROVE  /\ SL!Frame(i) \in Seq(UnitType) /\ Len(SL!Frame(i)) = Traffic[i].size + 1
           /\ Traffic[i].size \in Nat \ {0} /\ Traffic[i].size \in MinSize .. MaxSize
           /\ SL!Frame(i)[1] = [len |-> Traffic[i].size, packet |-> i]
           /\ \A k \in 2 .. (Traffic[i].size + 1) : SL!Frame(i)[k] = [len |-> 0, packet |-> i]
<1>1. PICK n : n = Traffic[i].size
  OBVIOUS
<1>2. n \in Nat \ {0} /\ n \in MinSize .. MaxSize
  <2>1. Traffic \in Seq(PacketType)
    BY DEF TrafficOK
  <2>2. n \in MinSize .. MaxSize
    <3>1. Traffic[i] \in PacketType
      BY <2>1
    <3> QED
      BY <1>1, <3>1 DEF PacketType
  <2>3. MinSize \in Nat /\ MinSize >= 1 /\ MaxSize \in Nat
    BY DEF TrafficOK
  <2> QED
    BY <2>2, <2>3
<1>3. PICK h, t : h = [len |-> n, packet |-> i] /\ t = [j \in 1 .. n |-> [len |-> 0, packet |-> i]]
  OBVIOUS
<1>4. h \in UnitType /\ <<h>> \in Seq(UnitType) /\ Len(<<h>>) = 1 /\ <<h>>[1] = h
  BY <1>2, <1>3 DEF UnitType
<1>5. t \in Seq(UnitType) /\ Len(t) = n
  BY <1>2, <1>3 DEF UnitType
<1>6. SL!Frame(i) = <<h>> \o t
  BY <1>1, <1>3 DEF SL!Frame
<1>7. PICK s : s = <<h>>
  OBVIOUS
<1>8. /\ s \o t \in Seq(UnitType) /\ Len(s \o t) = 1 + n
      /\ \A k \in 1 .. (1 + n) : (s \o t)[k] = IF k <= 1 THEN s[k] ELSE t[k - 1]
  <2>1. s \in Seq(UnitType) /\ Len(s) = 1
    BY <1>4, <1>7
  <2>2. /\ s \o t \in Seq(UnitType) /\ Len(s \o t) = Len(s) + Len(t)
        /\ \A k \in 1 .. Len(s) + Len(t) : (s \o t)[k] = IF k <= Len(s) THEN s[k] ELSE t[k - Len(s)]
    BY <1>5, <2>1, ConcatProperties, Zenon
  <2> QED
    BY <1>5, <2>1, <2>2
<1>9. (s \o t)[1] = h /\ \A k \in 2 .. (n + 1) : (s \o t)[k] = [len |-> 0, packet |-> i]
  BY <1>2, <1>3, <1>4, <1>7, <1>8
<1> QED
  BY <1>1, <1>2, <1>3, <1>6, <1>7, <1>8, <1>9

\* The frames of a batch of one packet and of two
LEMMA BatchFrames ==
    ASSUME TrafficOK, NEW is, NEW n \in {1, 2}, Len(is) = n, \A k \in 1 .. n : is[k] \in DOMAIN Traffic
    PROVE  /\ n = 1 => SL!Frames(is) = SL!Frame(is[1])
           /\ n = 2 => SL!Frames(is) = SL!Frame(is[1]) \o SL!Frame(is[2])
<1> DEFINE Follows(f) == f = [k \in 0 .. Len(is) |->
                              IF k = 0 THEN << >> ELSE f[k - 1] \o SL!Frame(is[k])]
           F == CHOOSE f : Follows(f)
           g == [k \in 0 .. Len(is) |-> IF k = 0 THEN << >> ELSE
                    IF k = 1 THEN << >> \o SL!Frame(is[1])
                    ELSE (<< >> \o SL!Frame(is[1])) \o SL!Frame(is[2])]
<1>1. SL!Frames(is) = F[Len(is)]
  BY Zenon DEF SL!Frames
<1>2. Follows(g)
  <2>1. 0 .. Len(is) = IF n = 1 THEN {0, 1} ELSE {0, 1, 2}
    <3>1. Len(is) = n /\ n \in {1, 2}
      OBVIOUS
    <3>2. 0 .. 1 = {0, 1} /\ 0 .. 2 = {0, 1, 2}
      OBVIOUS
    <3> QED
      BY <3>1, <3>2
  <2>2. g[0] = << >> /\ g[1] = << >> \o SL!Frame(is[1])
        /\ (n = 2 => g[2] = (<< >> \o SL!Frame(is[1])) \o SL!Frame(is[2]))
    OBVIOUS
  <2>3. \A k \in 0 .. Len(is) : g[k] = IF k = 0 THEN << >> ELSE g[k - 1] \o SL!Frame(is[k])
    <3> HIDE DEF g
    <3>1. 1 - 1 = 0 /\ 2 - 1 = 1 /\ 1 # 0 /\ 2 # 0
      OBVIOUS
    <3>2. ASSUME NEW k \in 0 .. Len(is)
          PROVE  g[k] = IF k = 0 THEN << >> ELSE g[k - 1] \o SL!Frame(is[k])
      <4>1. CASE k = 0
        BY <2>2, <4>1, Zenon
      <4>2. CASE k = 1
        <5>1. g[k] = g[0] \o SL!Frame(is[1])
          BY <2>2, <4>2, Zenon
        <5> QED
          BY <3>1, <4>2, <5>1, Zenon
      <4>3. CASE n = 2 /\ k = 2
        <5>1. g[k] = g[1] \o SL!Frame(is[2])
          BY <2>2, <4>3, Zenon
        <5> QED
          BY <3>1, <4>3, <5>1, Zenon
      <4> QED
        BY <2>1, <4>1, <4>2, <4>3
    <3> QED
      BY <3>2
  <2>4. g = [k \in 0 .. Len(is) |-> g[k]]
    OBVIOUS
  <2> HIDE DEF g
  <2> QED
    BY <2>3, <2>4
<1>3. Follows(F)
  BY <1>2, Zenon
<1>4. << >> \o SL!Frame(is[1]) = SL!Frame(is[1])
  <2>1. is[1] \in DOMAIN Traffic
    OBVIOUS
  <2>2. SL!Frame(is[1]) \in Seq(UnitType)
    BY <2>1, FrameUnits
  <2> QED
    BY <2>2, ConcatEmptySeq
<1>5. F[0] = << >> /\ F[1] = F[0] \o SL!Frame(is[1]) /\ (n = 2 => F[2] = F[1] \o SL!Frame(is[2]))
  <2> HIDE DEF F
  <2>1. \A k \in 0 .. Len(is) : F[k] = IF k = 0 THEN << >> ELSE F[k - 1] \o SL!Frame(is[k])
    BY <1>3
  <2>2. 0 \in 0 .. Len(is) /\ 1 \in 0 .. Len(is) /\ (n = 2 => 2 \in 0 .. Len(is))
    OBVIOUS
  <2>3. 1 - 1 = 0 /\ 2 - 1 = 1 /\ 1 # 0 /\ 2 # 0
    OBVIOUS
  <2>4. F[0] = << >>
    BY <2>1, <2>2, Zenon
  <2>5. F[1] = F[0] \o SL!Frame(is[1])
    <3>1. F[1] = F[1 - 1] \o SL!Frame(is[1])
      BY <2>1, <2>2, <2>3, Zenon
    <3> QED
      BY <2>3, <3>1, Zenon
  <2>6. n = 2 => F[2] = F[1] \o SL!Frame(is[2])
    <3>1. n = 2 => F[2] = F[2 - 1] \o SL!Frame(is[2])
      BY <2>1, <2>2, <2>3, Zenon
    <3> QED
      BY <2>3, <3>1, Zenon
  <2> QED
    BY <2>4, <2>5, <2>6
<1> HIDE DEF F
<1> QED
  BY <1>1, <1>4, <1>5

\* What lies first is the unit that the reader is at; taking it leads to the next.
LEMMA LaidTaken ==
    ASSUME NEW u \in Seq(UnitType), u # << >>, NEW is, NEW a, NEW b, LaidOut(u, is, a, b)
    PROVE  /\ a \in 1 .. Len(is) /\ b \in Nat /\ b <= Traffic[is[a]].size
           /\ Head(u).packet = is[a]
           /\ Head(u).len = IF b = 0 THEN Traffic[is[a]].size ELSE 0
           /\ b < Traffic[is[a]].size => LaidOut(Tail(u), is, a, b + 1)
           /\ b = Traffic[is[a]].size => LaidOut(Tail(u), is, a + 1, 0)
<1>1. PICK f, o : Laid(u, is, a, b, f, o)
  BY DEF LaidOut
<1>2. PICK n, t : n = Len(u) /\ t = Tail(u)
  OBVIOUS
<1>3. /\ n \in Nat /\ n >= 1 /\ t \in Seq(UnitType) /\ Len(t) = n - 1 /\ Head(u) = u[1]
      /\ \A p \in 1 .. (n - 1) : t[p] = u[p + 1]
  BY <1>2, HeadTailProperties, LenProperties, EmptySeq
<1>4. /\ f \in [1 .. (n + 1) -> Nat] /\ o \in [1 .. (n + 1) -> Nat] /\ f[1] = a /\ o[1] = b
      /\ f[n + 1] = Len(is) + 1 /\ o[n + 1] = 0
      /\ \A p \in 1 .. n :
          /\ f[p] \in 1 .. Len(is) /\ o[p] <= Traffic[is[f[p]]].size
          /\ u[p].packet = is[f[p]]
          /\ u[p].len = IF o[p] = 0 THEN Traffic[is[f[p]]].size ELSE 0
          /\ o[p] < Traffic[is[f[p]]].size => f[p + 1] = f[p] /\ o[p + 1] = o[p] + 1
          /\ o[p] = Traffic[is[f[p]]].size => f[p + 1] = f[p] + 1 /\ o[p + 1] = 0
  BY <1>1, <1>2 DEF Laid
<1>5. 1 \in 1 .. n /\ 1 \in 1 .. (n + 1)
  BY <1>3
<1>6. /\ a \in 1 .. Len(is) /\ b \in Nat /\ b <= Traffic[is[a]].size
      /\ Head(u).packet = is[a] /\ Head(u).len = IF b = 0 THEN Traffic[is[a]].size ELSE 0
      /\ b < Traffic[is[a]].size => f[2] = a /\ o[2] = b + 1
      /\ b = Traffic[is[a]].size => f[2] = a + 1 /\ o[2] = 0
  <2>1. 1 + 1 = 2
    OBVIOUS
  <2> QED
    BY <1>3, <1>4, <1>5, <2>1, SMTT(30)
<1>7. PICK f2, o2 : /\ f2 = [p \in 1 .. n |-> f[p + 1]] /\ o2 = [p \in 1 .. n |-> o[p + 1]]
  OBVIOUS
<1>8. Laid(t, is, f[2], o[2], f2, o2)
  <2>1. f2 \in [1 .. n -> Nat] /\ o2 \in [1 .. n -> Nat]
    <3>1. ASSUME NEW p \in 1 .. n PROVE f[p + 1] \in Nat /\ o[p + 1] \in Nat
      <4>1. p + 1 \in 1 .. (n + 1)
        BY <1>3
      <4> QED
        BY <1>4, <4>1
    <3> QED
      BY <1>7, <3>1
  <2>2. f2[1] = f[2] /\ o2[1] = o[2] /\ f2[n] = f[n + 1] /\ o2[n] = o[n + 1]
    <3>1. 1 \in 1 .. n /\ n \in 1 .. n /\ 1 + 1 = 2
      BY <1>3
    <3> QED
      BY <1>7, <3>1
  <2>3. ASSUME NEW p \in 1 .. (n - 1)
        PROVE  /\ f2[p] \in 1 .. Len(is) /\ o2[p] <= Traffic[is[f2[p]]].size
               /\ t[p].packet = is[f2[p]]
               /\ t[p].len = IF o2[p] = 0 THEN Traffic[is[f2[p]]].size ELSE 0
               /\ o2[p] < Traffic[is[f2[p]]].size => f2[p + 1] = f2[p] /\ o2[p + 1] = o2[p] + 1
               /\ o2[p] = Traffic[is[f2[p]]].size => f2[p + 1] = f2[p] + 1 /\ o2[p + 1] = 0
    <3>1. PICK q : q = p + 1
      OBVIOUS
    <3>2. q \in 1 .. n /\ p \in 1 .. n
      BY <1>3, <3>1
    <3>3. f2[p] = f[q] /\ o2[p] = o[q] /\ t[p] = u[q] /\ f2[q] = f[q + 1] /\ o2[q] = o[q + 1]
      BY <1>3, <1>7, <3>1, <3>2
    <3>4. /\ f[q] \in 1 .. Len(is) /\ o[q] <= Traffic[is[f[q]]].size
          /\ u[q].packet = is[f[q]]
          /\ u[q].len = IF o[q] = 0 THEN Traffic[is[f[q]]].size ELSE 0
          /\ o[q] < Traffic[is[f[q]]].size => f[q + 1] = f[q] /\ o[q + 1] = o[q] + 1
          /\ o[q] = Traffic[is[f[q]]].size => f[q + 1] = f[q] + 1 /\ o[q + 1] = 0
      BY <1>4, <3>2
    <3> QED
      BY <3>1, <3>3, <3>4, Zenon
  <2>4. Len(t) = n - 1 /\ (n - 1) + 1 = n
    BY <1>3
  <2>5. f2[Len(t) + 1] = Len(is) + 1 /\ o2[Len(t) + 1] = 0
    BY <1>4, <2>2, <2>4
  <2> QED
    BY <2>1, <2>2, <2>3, <2>4, <2>5 DEF Laid
<1>9. LaidOut(t, is, f[2], o[2])
  BY <1>8 DEF LaidOut
<1> QED
  BY <1>2, <1>6, <1>9

\* A frame is laid behind the others.
LEMMA LaidFrame ==
    ASSUME TrafficOK, NEW u \in Seq(UnitType), NEW is \in Seq(DOMAIN Traffic), NEW a, NEW b,
           LaidOut(u, is, a, b), NEW i \in DOMAIN Traffic
    PROVE  LaidOut(u \o SL!Frame(i), Append(is, i), a, b) /\ u \o SL!Frame(i) \in Seq(UnitType)
<1>1. PICK f, o : Laid(u, is, a, b, f, o)
  BY DEF LaidOut
<1>2. PICK n, t, w, js, m, z : /\ n = Len(u) /\ t = SL!Frame(i) /\ w = u \o t /\ js = Append(is, i)
                               /\ m = Len(is) /\ z = Traffic[i].size
  OBVIOUS
<1>3. /\ n \in Nat /\ m \in Nat /\ z \in Nat \ {0} /\ t \in Seq(UnitType) /\ Len(t) = z + 1
      /\ t[1] = [len |-> z, packet |-> i]
      /\ \A k \in 2 .. (z + 1) : t[k] = [len |-> 0, packet |-> i]
  BY <1>2, FrameUnits, LenProperties
<1>4. /\ w \in Seq(UnitType) /\ Len(w) = n + z + 1
      /\ \A p \in 1 .. n : w[p] = u[p]
      /\ \A p \in n + 1 .. n + z + 1 : w[p] = t[p - n]
  <2>1. /\ u \o t \in Seq(UnitType) /\ Len(u \o t) = Len(u) + Len(t)
        /\ \A k \in 1 .. Len(u) + Len(t) : (u \o t)[k] = IF k <= Len(u) THEN u[k] ELSE t[k - Len(u)]
    BY <1>3, ConcatProperties, Zenon
  <2> QED
    BY <1>2, <1>3, <2>1, SMTT(30)
<1>5. js \in Seq(DOMAIN Traffic) /\ Len(js) = m + 1 /\ js[m + 1] = i /\ \A k \in 1 .. m : js[k] = is[k]
  <2>1. /\ Append(is, i) \in Seq(DOMAIN Traffic) /\ Len(Append(is, i)) = Len(is) + 1
        /\ Append(is, i)[Len(is) + 1] = i /\ \A k \in 1 .. Len(is) : Append(is, i)[k] = is[k]
    BY AppendProperties
  <2> QED
    BY <1>2, <2>1
<1>6. /\ f \in [1 .. (n + 1) -> Nat] /\ o \in [1 .. (n + 1) -> Nat] /\ f[1] = a /\ o[1] = b
      /\ f[n + 1] = m + 1 /\ o[n + 1] = 0
      /\ \A p \in 1 .. n :
          /\ f[p] \in 1 .. m /\ o[p] <= Traffic[is[f[p]]].size
          /\ u[p].packet = is[f[p]]
          /\ u[p].len = IF o[p] = 0 THEN Traffic[is[f[p]]].size ELSE 0
          /\ o[p] < Traffic[is[f[p]]].size => f[p + 1] = f[p] /\ o[p + 1] = o[p] + 1
          /\ o[p] = Traffic[is[f[p]]].size => f[p + 1] = f[p] + 1 /\ o[p + 1] = 0
  BY <1>1, <1>2 DEF Laid
<1>7. PICK f2, o2 :
         /\ f2 = [p \in 1 .. (n + z + 2) |-> IF p <= n THEN f[p] ELSE IF p <= n + z + 1 THEN m + 1 ELSE m + 2]
         /\ o2 = [p \in 1 .. (n + z + 2) |-> IF p <= n THEN o[p] ELSE IF p <= n + z + 1 THEN p - (n + 1) ELSE 0]
  OBVIOUS
<1>8. /\ \A p \in 1 .. n + 1 : f2[p] = f[p] /\ o2[p] = o[p]
      /\ \A p \in n + 1 .. n + z + 1 : f2[p] = m + 1 /\ o2[p] = p - (n + 1)
      /\ f2[n + z + 2] = m + 2 /\ o2[n + z + 2] = 0
  <2>1. ASSUME NEW p \in 1 .. n + 1 PROVE f2[p] = f[p] /\ o2[p] = o[p]
    <3>1. CASE p <= n
      BY <1>3, <1>7, <3>1
    <3>2. CASE p = n + 1
      BY <1>3, <1>6, <1>7, <3>2
    <3> QED
      BY <1>3, <3>1, <3>2
  <2>2. ASSUME NEW p \in n + 1 .. n + z + 1 PROVE f2[p] = m + 1 /\ o2[p] = p - (n + 1)
    BY <1>3, <1>7
  <2>3. f2[n + z + 2] = m + 2 /\ o2[n + z + 2] = 0
    BY <1>3, <1>7
  <2> QED
    BY <2>1, <2>2, <2>3
<1>9. Laid(w, js, a, b, f2, o2)
  <2>1. f2 \in [1 .. (n + z + 2) -> Nat] /\ o2 \in [1 .. (n + z + 2) -> Nat]
    <3>1. ASSUME NEW p \in 1 .. (n + z + 2)
          PROVE  /\ (IF p <= n THEN f[p] ELSE IF p <= n + z + 1 THEN m + 1 ELSE m + 2) \in Nat
                 /\ (IF p <= n THEN o[p] ELSE IF p <= n + z + 1 THEN p - (n + 1) ELSE 0) \in Nat
      <4>1. p <= n => f[p] \in Nat /\ o[p] \in Nat
        BY <1>3, <1>6
      <4> QED
        BY <1>3, <4>1
    <3> QED
      BY <1>7, <3>1
  <2>2. ASSUME NEW p \in 1 .. (n + z + 1)
        PROVE  /\ f2[p] \in 1 .. (m + 1) /\ o2[p] <= Traffic[js[f2[p]]].size
               /\ w[p].packet = js[f2[p]]
               /\ w[p].len = IF o2[p] = 0 THEN Traffic[js[f2[p]]].size ELSE 0
               /\ o2[p] < Traffic[js[f2[p]]].size => f2[p + 1] = f2[p] /\ o2[p + 1] = o2[p] + 1
               /\ o2[p] = Traffic[js[f2[p]]].size => f2[p + 1] = f2[p] + 1 /\ o2[p + 1] = 0
    <3>1. CASE p <= n
      <4>1. p \in 1 .. n /\ p \in 1 .. n + 1 /\ p + 1 \in 1 .. n + 1
        BY <1>3, <3>1
      <4>2. f2[p] = f[p] /\ o2[p] = o[p] /\ f2[p + 1] = f[p + 1] /\ o2[p + 1] = o[p + 1] /\ w[p] = u[p]
        BY <1>4, <1>8, <4>1
      <4>3. f[p] \in 1 .. m /\ js[f[p]] = is[f[p]]
        BY <1>5, <1>6, <4>1
      <4>4. f[p] \in 1 .. (m + 1)
        BY <1>3, <4>3
      <4>5. /\ o[p] <= Traffic[is[f[p]]].size
            /\ u[p].packet = is[f[p]]
            /\ u[p].len = IF o[p] = 0 THEN Traffic[is[f[p]]].size ELSE 0
            /\ o[p] < Traffic[is[f[p]]].size => f[p + 1] = f[p] /\ o[p + 1] = o[p] + 1
            /\ o[p] = Traffic[is[f[p]]].size => f[p + 1] = f[p] + 1 /\ o[p + 1] = 0
        BY <1>6, <4>1
      <4> QED
        BY <4>2, <4>3, <4>4, <4>5, Zenon
    <3>2. CASE p > n
      <4>1. PICK k : k = p - n
        OBVIOUS
      <4>2. k \in 1 .. (z + 1) /\ p \in n + 1 .. n + z + 1 /\ p - (n + 1) = k - 1
        BY <1>3, <3>2, <4>1
      <4>3. f2[p] = m + 1 /\ o2[p] = k - 1 /\ w[p] = t[k] /\ js[f2[p]] = i /\ Traffic[js[f2[p]]].size = z
        BY <1>2, <1>4, <1>5, <1>8, <4>1, <4>2
      <4>4. t[k].packet = i /\ t[k].len = IF k = 1 THEN z ELSE 0
        <5>1. CASE k = 1
          BY <1>3, <5>1
        <5>2. CASE k # 1
          <6>1. k \in 2 .. (z + 1)
            BY <1>3, <4>2, <5>2
          <6> QED
            BY <1>3, <5>2, <6>1
        <5> QED
          BY <5>1, <5>2
      <4>5. k - 1 < z => f2[p + 1] = m + 1 /\ o2[p + 1] = (k - 1) + 1
        <5>1. k - 1 < z => p + 1 \in n + 1 .. n + z + 1 /\ (p + 1) - (n + 1) = (k - 1) + 1
          BY <1>3, <4>1, <4>2
        <5> QED
          BY <1>8, <5>1
      <4>6. k - 1 = z => f2[p + 1] = (m + 1) + 1 /\ o2[p + 1] = 0
        <5>0. k \in Nat /\ p \in Nat /\ n \in Nat /\ z \in Nat /\ k = p - n
          BY <1>3, <4>1, <4>2
        <5>1. k - 1 = z => p + 1 = n + z + 2
          BY <5>0
        <5> QED
          BY <1>3, <1>8, <5>1
      <4>7. k - 1 <= z /\ (k - 1 = 0 <=> k = 1) /\ m + 1 \in 1 .. (m + 1)
        BY <1>3, <4>2
      <4> QED
        BY <4>3, <4>4, <4>5, <4>6, <4>7
    <3> QED
      BY <1>3, <3>1, <3>2
  <2>3. Len(w) = n + z + 1 /\ Len(js) = m + 1 /\ (n + z + 1) + 1 = n + z + 2 /\ (m + 1) + 1 = m + 2
    BY <1>3, <1>4, <1>5
  <2>4. f2[1] = a /\ o2[1] = b
    <3>1. 1 \in 1 .. n + 1
      BY <1>3
    <3> QED
      BY <1>6, <1>8, <3>1
  <2>5. f2[Len(w) + 1] = Len(js) + 1 /\ o2[Len(w) + 1] = 0
    BY <1>8, <2>3
  <2>6. f2 \in [1 .. (Len(w) + 1) -> Nat] /\ o2 \in [1 .. (Len(w) + 1) -> Nat]
    BY <2>1, <2>3
  <2> QED
    BY <2>2, <2>3, <2>4, <2>5, <2>6 DEF Laid
<1> QED
  BY <1>2, <1>4, <1>9 DEF LaidOut

\* The front of two sequences is the front of the first.
LEMMA ConcatFront ==
    ASSUME NEW S, NEW s \in Seq(S), NEW t \in Seq(S), s # << >>
    PROVE  /\ s \o t \in Seq(S) /\ s \o t # << >> /\ Head(s \o t) = Head(s) /\ Head(s) \in S
           /\ Tail(s) \in Seq(S) /\ Tail(s \o t) = Tail(s) \o t
<1>1. PICK n, m, w, r : n = Len(s) /\ m = Len(t) /\ w = s \o t /\ r = Tail(s)
  OBVIOUS
<1>2. /\ n \in Nat /\ m \in Nat /\ n >= 1 /\ r \in Seq(S) /\ Len(r) = n - 1 /\ Head(s) = s[1]
      /\ s[1] \in S /\ \A p \in 1 .. (n - 1) : r[p] = s[p + 1]
  BY <1>1, HeadTailProperties, LenProperties, EmptySeq, ElementOfSeq
<1>3. w \in Seq(S) /\ Len(w) = n + m /\ \A k \in 1 .. n + m : w[k] = IF k <= n THEN s[k] ELSE t[k - n]
  <2>1. /\ s \o t \in Seq(S) /\ Len(s \o t) = Len(s) + Len(t)
        /\ \A k \in 1 .. Len(s) + Len(t) : (s \o t)[k] = IF k <= Len(s) THEN s[k] ELSE t[k - Len(s)]
    BY ConcatProperties, Zenon
  <2> QED
    BY <1>1, <2>1, Zenon
<1>4. w # << >> /\ w[1] = s[1]
  <2>1. Len(w) >= 1 /\ 1 \in 1 .. n + m /\ 1 <= n
    BY <1>2, <1>3
  <2> QED
    BY <1>3, <2>1, EmptySeq
<1>5. PICK v : v = Tail(w)
  OBVIOUS
<1>6. Head(w) = w[1] /\ v \in Seq(S) /\ Len(v) = (n + m) - 1 /\ \A p \in 1 .. ((n + m) - 1) : v[p] = w[p + 1]
  BY <1>3, <1>4, <1>5, HeadTailProperties
<1>7. PICK x : x = r \o t
  OBVIOUS
<1>8. x \in Seq(S) /\ Len(x) = (n - 1) + m
      /\ \A k \in 1 .. (n - 1) + m : x[k] = IF k <= n - 1 THEN r[k] ELSE t[k - (n - 1)]
  <2>1. /\ r \o t \in Seq(S) /\ Len(r \o t) = Len(r) + Len(t)
        /\ \A k \in 1 .. Len(r) + Len(t) : (r \o t)[k] = IF k <= Len(r) THEN r[k] ELSE t[k - Len(r)]
    BY <1>2, ConcatProperties, Zenon
  <2> QED
    BY <1>1, <1>2, <1>7, <2>1, Zenon
<1>9. v = x
  <2>1. Len(v) = Len(x)
    BY <1>2, <1>6, <1>8
  <2>2. ASSUME NEW k \in 1 .. Len(v) PROVE v[k] = x[k]
    <3>1. k \in 1 .. ((n + m) - 1) /\ k \in 1 .. (n - 1) + m /\ k + 1 \in 1 .. n + m
      BY <1>2, <1>6
    <3>2. v[k] = w[k + 1]
      BY <1>6, <3>1
    <3>3. CASE k <= n - 1
      <4>1. k \in 1 .. (n - 1) /\ k + 1 <= n
        BY <1>2, <3>1, <3>3
      <4> QED
        BY <1>2, <1>3, <1>8, <3>1, <3>2, <3>3, <4>1
    <3>4. CASE ~(k <= n - 1)
      <4>1. ~(k + 1 <= n) /\ (k + 1) - n = k - (n - 1)
        BY <1>2, <3>1, <3>4
      <4>2. w[k + 1] = t[(k + 1) - n] /\ x[k] = t[k - (n - 1)]
        BY <1>3, <1>8, <3>1, <3>4, <4>1
      <4> QED
        BY <3>2, <4>1, <4>2
    <3> QED
      BY <3>3, <3>4
  <2> QED
    BY <1>6, <1>8, <2>1, <2>2, SeqEqual
<1> QED
  BY <1>1, <1>2, <1>3, <1>4, <1>5, <1>6, <1>7, <1>9

LEMMA Regrouped ==
    ASSUME NEW x \in Seq(UnitType), NEW y \in Seq(UnitType), NEW z \in Seq(UnitType)
    PROVE  (x \o y) \o z = x \o (y \o z)
BY ConcatAssociative

\* A write moves units, it changes none.
LEMMA WriteMoves ==
    ASSUME NEW s \in Seq(UnitType), NEW t \in Seq(UnitType), NEW k \in 1 .. Len(t)
    PROVE  /\ s \o SubSeq(t, 1, k) \in Seq(UnitType) /\ SubSeq(t, k + 1, Len(t)) \in Seq(UnitType)
           /\ (s \o SubSeq(t, 1, k)) \o SubSeq(t, k + 1, Len(t)) = s \o t
<1>1. PICK a, b, n : a = SubSeq(t, 1, k) /\ b = SubSeq(t, k + 1, n) /\ n = Len(t)
  OBVIOUS
<1>2. n \in Nat /\ k \in 1 .. n
  BY <1>1, LenProperties
<1>3. a \in Seq(UnitType) /\ b \in Seq(UnitType)
  BY <1>1, <1>2, SubSeqProperties
<1>4. a \o b = t
  <2>1. 1 \in 1 .. Len(t) + 1 /\ k \in (1 - 1) .. Len(t) /\ n \in k .. Len(t)
    BY <1>1, <1>2
  <2>2. a \o b = SubSeq(t, 1, n)
    BY <1>1, <2>1, ConcatAdjacentSubSeq
  <2>3. SubSeq(t, 1, Len(t)) = t
    BY SubSeqFull
  <2> QED
    BY <1>1, <2>2, <2>3
<1>5. s \o a \in Seq(UnitType)
  <2>1. \A x, y \in Seq(UnitType) : x \o y \in Seq(UnitType)
    BY ConcatProperties
  <2> QED
    BY <1>3, <2>1
<1>6. (s \o a) \o b = s \o (a \o b)
  BY <1>3, Regrouped
<1> QED
  BY <1>1, <1>3, <1>4, <1>5, <1>6

\* The packets written, in order; what the reader has of them; what is on the way.
Body(units, i, n) ==
    /\ units \in Seq(UnitType) /\ Len(units) = n
    /\ \A j \in 1 .. n : units[j] = [len |-> 0, packet |-> i]
Written(is, n) ==
    /\ is \in Seq(DOMAIN Traffic) /\ n \in Nat \ {0}
    /\ \A i, j \in 1 .. Len(is) : i < j => is[i] < is[j]
    /\ \A i \in 1 .. Len(is) : is[i] < n
Whole(gs, is) ==
    /\ gs \in Seq(Seq(UnitType)) /\ Len(gs) <= Len(is)
    /\ \A i \in 1 .. Len(gs) : Body(gs[i], is[i], Traffic[is[i]].size)
Begun(w, is, a) ==
    \/ w = SL!NoFrame
    \/ \E us : /\ w = [size |-> Traffic[is[a]].size, units |-> us] /\ a \in 1 .. Len(is)
               /\ Len(us) < Traffic[is[a]].size /\ Body(us, is[a], Len(us))
UnitsOf(w) == IF w = SL!NoFrame THEN 0 ELSE Len(w.units) + 1

FramesInv ==
    /\ TrafficOK
    /\ Written(sent, next) /\ Whole(got, sent) /\ Begun(want, sent, Len(got) + 1)
    /\ stream \in Seq(UnitType) /\ pending \in Seq(UnitType)
    /\ LaidOut(stream \o pending, sent, Len(got) + 1, UnitsOf(want))

LEMMA FramesInit ==
    ASSUME TrafficOK, SL!Init PROVE FramesInv
<1>1. next = 1 /\ pending = << >> /\ stream = << >> /\ want = SL!NoFrame /\ sent = << >> /\ got = << >>
  BY DEF SL!Init
<1>2. Written(<< >>, 1) /\ Whole(<< >>, << >>)
  BY EmptySeq DEF Written, Whole
<1>3. << >> \o << >> = << >> /\ << >> \in Seq(UnitType) /\ Len(<< >>) = 0
  OBVIOUS
<1>4. LaidOut(<< >>, << >>, 1, 0)
  <2>1. PICK f, o : f = [p \in 1 .. 1 |-> 1] /\ o = [p \in 1 .. 1 |-> 0]
    OBVIOUS
  <2>2. Laid(<< >>, << >>, 1, 0, f, o)
    BY <1>3, <2>1 DEF Laid
  <2> QED
    BY <2>2 DEF LaidOut
<1> QED
  BY <1>1, <1>2, <1>3, <1>4 DEF FramesInv, Begun, UnitsOf

LEMMA WrittenMore ==
    ASSUME TrafficOK, NEW is, NEW n, Written(is, n), n \in DOMAIN Traffic
    PROVE  Written(Append(is, n), n + 1) /\ Len(Append(is, n)) = Len(is) + 1
           /\ \A i \in 1 .. Len(is) : Append(is, n)[i] = is[i]
<1>1. /\ is \in Seq(DOMAIN Traffic) /\ n \in Nat \ {0} /\ DOMAIN Traffic \subseteq Nat
      /\ \A i, j \in 1 .. Len(is) : i < j => is[i] < is[j]
      /\ \A i \in 1 .. Len(is) : is[i] < n /\ is[i] \in DOMAIN Traffic
  BY DEF Written, TrafficOK
<1>2. PICK t, m : t = Append(is, n) /\ m = Len(is)
  OBVIOUS
<1>3. t \in Seq(DOMAIN Traffic) /\ Len(t) = m + 1 /\ m \in Nat
      /\ t[m + 1] = n /\ \A i \in 1 .. m : t[i] = is[i]
  <2>1. /\ Append(is, n) \in Seq(DOMAIN Traffic) /\ Len(Append(is, n)) = Len(is) + 1
        /\ Append(is, n)[Len(is) + 1] = n /\ \A k \in 1 .. Len(is) : Append(is, n)[k] = is[k]
    BY <1>1, AppendProperties
  <2> QED
    BY <1>1, <1>2, <2>1, LenProperties
<1>4. \A i \in 1 .. m + 1 : IF i = m + 1 THEN t[i] = n ELSE i \in 1 .. m /\ t[i] < n /\ t[i] \in Nat
  BY <1>1, <1>2, <1>3
<1>5. \A i, j \in 1 .. m + 1 : i < j => t[i] < t[j]
  <2>1. ASSUME NEW i \in 1 .. m + 1, NEW j \in 1 .. m + 1, i < j PROVE t[i] < t[j]
    <3>1. i \in 1 .. m /\ i # m + 1
      BY <1>3, <2>1
    <3>2. CASE j = m + 1
      BY <1>4, <3>1, <3>2
    <3>3. CASE j # m + 1
      BY <1>1, <1>2, <1>3, <1>4, <2>1, <3>1, <3>3
    <3> QED
      BY <3>2, <3>3
  <2> QED
    BY <2>1
<1>6. \A i \in 1 .. m + 1 : t[i] < n + 1
  BY <1>1, <1>4
<1> QED
  BY <1>1, <1>2, <1>3, <1>5, <1>6 DEF Written

\* What the reader has stays the first of what was written.
LEMMA WholeOfMore ==
    ASSUME NEW gs, NEW is, NEW js, NEW w, NEW u, NEW a, Whole(gs, is), Begun(w, is, a), Len(is) \in Nat,
           Len(js) = Len(is) + 1, \A i \in 1 .. Len(is) : js[i] = is[i]
    PROVE  Whole(gs, js) /\ Begun(w, js, a)
<1>1. Len(gs) \in Nat
  BY LenProperties DEF Whole
<1>2. Whole(gs, js)
  BY <1>1 DEF Whole
<1>3. Begun(w, js, a)
  BY DEF Begun
<1> QED
  BY <1>2, <1>3

LEMMA TwoAppended ==
    ASSUME NEW S, NEW s \in Seq(S), NEW x \in S, NEW y \in S
    PROVE  s \o <<x, y>> = Append(Append(s, x), y)
<1>1. PICK b, n : b = <<x, y>> /\ n = Len(s)
  OBVIOUS
<1>2. b \in Seq(S) /\ Len(b) = 2 /\ b[1] = x /\ b[2] = y /\ n \in Nat
  BY <1>1, LenProperties
<1>3. PICK u : u = s \o b
  OBVIOUS
<1>4. u \in Seq(S) /\ Len(u) = n + 2 /\ \A k \in 1 .. n + 2 : u[k] = IF k <= n THEN s[k] ELSE b[k - n]
  <2>1. /\ s \o b \in Seq(S) /\ Len(s \o b) = Len(s) + Len(b)
        /\ \A k \in 1 .. Len(s) + Len(b) : (s \o b)[k] = IF k <= Len(s) THEN s[k] ELSE b[k - Len(s)]
    BY <1>2, ConcatProperties, Zenon
  <2> QED
    BY <1>1, <1>2, <1>3, <2>1
<1>5. PICK t, v : t = Append(s, x) /\ v = Append(t, y)
  OBVIOUS
<1>6. t \in Seq(S) /\ Len(t) = n + 1 /\ t[n + 1] = x /\ \A k \in 1 .. n : t[k] = s[k]
  <2>1. /\ Append(s, x) \in Seq(S) /\ Len(Append(s, x)) = Len(s) + 1
        /\ Append(s, x)[Len(s) + 1] = x /\ \A k \in 1 .. Len(s) : Append(s, x)[k] = s[k]
    BY AppendProperties
  <2> QED
    BY <1>1, <1>5, <2>1
<1>7. v \in Seq(S) /\ Len(v) = n + 2 /\ v[n + 2] = y /\ \A k \in 1 .. n + 1 : v[k] = t[k]
  <2>1. /\ Append(t, y) \in Seq(S) /\ Len(Append(t, y)) = Len(t) + 1
        /\ Append(t, y)[Len(t) + 1] = y /\ \A k \in 1 .. Len(t) : Append(t, y)[k] = t[k]
    BY <1>6, AppendProperties
  <2> QED
    BY <1>2, <1>5, <1>6, <2>1
<1>8. \A k \in 1 .. n + 2 : u[k] = v[k]
  <2>1. ASSUME NEW k \in 1 .. n + 2 PROVE u[k] = v[k]
    <3>1. CASE k <= n
      BY <1>2, <1>4, <1>6, <1>7, <3>1, SMTT(30)
    <3>2. CASE k = n + 1
      <4>1. k - n = 1 /\ ~(k <= n) /\ k \in 1 .. n + 1
        BY <1>2, <3>2
      <4> QED
        BY <1>2, <1>4, <1>6, <1>7, <3>2, <4>1
    <3>3. CASE k = n + 2
      <4>1. k - n = 2 /\ ~(k <= n)
        BY <1>2, <3>3
      <4> QED
        BY <1>2, <1>4, <1>7, <3>3, <4>1
    <3> QED
      BY <1>2, <3>1, <3>2, <3>3
  <2> QED
    BY <2>1
<1>9. u = v
  BY <1>4, <1>7, <1>8, SeqEqual
<1> QED
  BY <1>1, <1>3, <1>5, <1>9

LEMMA UnitsRegrouped ==
    ASSUME NEW x \in Seq(UnitType), NEW y \in Seq(UnitType), NEW z \in Seq(UnitType)
    PROVE  (x \o y) \o z = x \o (y \o z)
BY ConcatAssociative, SMTT(30)

LEMMA FramesWrite ==
    ASSUME TrafficOK, FramesInv, NEW n \in 1 .. 2, SL!WritePackets(n)
    PROVE  FramesInv'
<1>1. /\ pending = << >> /\ next + n - 1 <= Len(Traffic) /\ next' = next + n
      /\ stream' = stream /\ want' = want /\ got' = got
  BY DEF SL!WritePackets
<1>2. PICK is : is = [i \in 1 .. n |-> next + i - 1]
  OBVIOUS
<1>3. pending' = SL!Frames(is) /\ sent' = sent \o is
  BY <1>2 DEF SL!WritePackets
<1>4. PICK a, b : a = Len(got) + 1 /\ b = UnitsOf(want)
  OBVIOUS
<1>5. /\ Written(sent, next) /\ Whole(got, sent) /\ Begun(want, sent, a) /\ stream \in Seq(UnitType)
      /\ LaidOut(stream \o pending, sent, a, b)
  BY <1>4 DEF FramesInv
<1>6. /\ sent \in Seq(DOMAIN Traffic) /\ next \in Nat \ {0} /\ Traffic \in Seq(PacketType)
      /\ Len(sent) \in Nat /\ Len(Traffic) \in Nat /\ DOMAIN Traffic = 1 .. Len(Traffic)
  BY <1>5, LenProperties DEF Written, TrafficOK
<1>7. stream \o pending = stream
  BY <1>1, <1>5, ConcatEmptySeq
<1>8. LaidOut(stream, sent, a, b)
  BY <1>5, <1>7
<1>9. next \in DOMAIN Traffic
  BY <1>1, <1>6
<1>10. PICK one, f : one = Append(sent, next) /\ f = SL!Frame(next)
  OBVIOUS
<1>11. /\ Written(one, next + 1) /\ Len(one) = Len(sent) + 1 /\ \A i \in 1 .. Len(sent) : one[i] = sent[i]
       /\ one \in Seq(DOMAIN Traffic)
  BY <1>5, <1>9, <1>10, WrittenMore DEF Written
<1>12. Whole(got, one) /\ Begun(want, one, a)
  BY <1>5, <1>6, <1>11, WholeOfMore
<1>13. LaidOut(stream \o f, one, a, b) /\ stream \o f \in Seq(UnitType)
  BY <1>5, <1>6, <1>8, <1>9, <1>10, LaidFrame
<1>14. f \in Seq(UnitType)
  BY <1>9, <1>10, FrameUnits
<1>15. CASE n = 1
  <2>1. is = <<next>>
    BY <1>2, <1>6, <1>15
  <2>2. Len(is) = 1 /\ is[1] = next
    BY <2>1
  <2>3. sent' = one
    <3>1. sent \o <<next>> = Append(sent, next)
      BY <1>6, <1>9, AppendIsConcat
    <3> QED
      BY <1>3, <1>10, <2>1, <3>1
  <2>4. pending' = f
    <3>1. SL!Frames(is) = SL!Frame(is[1])
      BY <1>9, <2>2, BatchFrames
    <3> QED
      BY <1>3, <1>10, <2>2, <3>1
  <2>5. next' = next + 1
    BY <1>1, <1>15
  <2> QED
    BY <1>1, <1>4, <1>5, <1>11, <1>12, <1>13, <1>14, <2>3, <2>4, <2>5 DEF FramesInv
<1>16. CASE n = 2
  <2>0. next + 1 \in DOMAIN Traffic /\ next' = (next + 1) + 1
    BY <1>1, <1>6, <1>16
  <2>1. PICK two, g, k : two = Append(one, next + 1) /\ g = SL!Frame(next + 1) /\ k = next + 1
    OBVIOUS
  <2>2. is = <<next, k>>
    BY <1>2, <1>6, <1>16, <2>1
  <2>3. Len(is) = 2 /\ is[1] = next /\ is[2] = k
    BY <2>2
  <2>4. /\ Written(two, k + 1) /\ Len(two) = Len(one) + 1 /\ \A i \in 1 .. Len(one) : two[i] = one[i]
        /\ two \in Seq(DOMAIN Traffic)
    <3>1. Written(one, k) /\ k \in DOMAIN Traffic /\ two = Append(one, k)
      BY <1>11, <2>0, <2>1
    <3> QED
      BY <3>1, WrittenMore DEF Written
  <2>5. Whole(got, two) /\ Begun(want, two, a)
    <3>1. Len(one) \in Nat
      BY <1>6, <1>11
    <3> QED
      BY <1>12, <2>4, <3>1, WholeOfMore
  <2>6. LaidOut((stream \o f) \o g, two, a, b)
    <3>1. k \in DOMAIN Traffic /\ two = Append(one, k) /\ g = SL!Frame(k)
      BY <2>0, <2>1
    <3>2. PICK u : u = stream \o f
      OBVIOUS
    <3>3. u \in Seq(UnitType) /\ LaidOut(u, one, a, b)
      BY <1>13, <3>2
    <3>4. LaidOut(u \o SL!Frame(k), Append(one, k), a, b)
      BY <1>11, <3>1, <3>3, LaidFrame
    <3> QED
      BY <3>1, <3>2, <3>4
  <2>7. g \in Seq(UnitType)
    BY <2>0, <2>1, FrameUnits
  <2>8. (stream \o f) \o g = stream \o (f \o g) /\ f \o g \in Seq(UnitType)
    <3>1. \A x, y \in Seq(UnitType) : x \o y \in Seq(UnitType)
      BY ConcatProperties
    <3>2. stream \in Seq(UnitType) /\ f \in Seq(UnitType)
      BY <1>5, <1>14
    <3>3. (stream \o f) \o g = stream \o (f \o g)
      BY <2>7, <3>2, UnitsRegrouped, SMTT(30)
    <3> QED
      BY <2>7, <3>1, <3>2, <3>3
  <2>9. sent' = two
    <3>1. sent \o <<next, k>> = Append(Append(sent, next), k)
      <4>1. k \in DOMAIN Traffic
        BY <2>0, <2>1
      <4> QED
        BY <1>6, <1>9, <4>1, TwoAppended
    <3> QED
      BY <1>3, <1>10, <2>1, <2>2, <3>1
  <2>10. pending' = f \o g
    <3>1. SL!Frames(is) = SL!Frame(is[1]) \o SL!Frame(is[2])
      <4>1. \A j \in 1 .. 2 : is[j] \in DOMAIN Traffic
        BY <1>9, <2>0, <2>1, <2>3
      <4> QED
        BY <2>3, <4>1, BatchFrames
    <3> QED
      BY <1>3, <1>10, <2>1, <2>3, <3>1
  <2>11. LaidOut(stream' \o pending', sent', Len(got') + 1, UnitsOf(want'))
    BY <1>1, <1>4, <2>6, <2>8, <2>9, <2>10
  <2>12. Written(sent', next')
    BY <2>0, <2>1, <2>4, <2>9
  <2> QED
    BY <1>1, <1>4, <1>5, <2>5, <2>8, <2>9, <2>10, <2>11, <2>12 DEF FramesInv
<1> QED
  BY <1>15, <1>16

LEMMA FramesDropPacket ==
    ASSUME FramesInv, SL!DropPacket PROVE FramesInv'
<1>1. next' = next + 1 /\ UNCHANGED <<pending, stream, want, sent, got>>
  BY DEF SL!DropPacket
<1>2. Written(sent, next + 1)
  <2>1. Written(sent, next)
    BY DEF FramesInv
  <2>2. /\ sent \in Seq(DOMAIN Traffic) /\ next \in Nat \ {0} /\ DOMAIN Traffic \subseteq Nat
        /\ \A i \in 1 .. Len(sent) : sent[i] < next /\ sent[i] \in Nat
    BY <2>1 DEF Written, FramesInv, TrafficOK
  <2>3. \A i \in 1 .. Len(sent) : sent[i] < next + 1
    BY <2>2
  <2> QED
    BY <2>1, <2>2, <2>3 DEF Written
<1> QED
  BY <1>1, <1>2 DEF FramesInv

LEMMA FramesWriteVectored ==
    ASSUME FramesInv, NEW k \in 1 .. Len(pending), SL!WriteVectored(k) PROVE FramesInv'
<1>1. /\ stream' = stream \o SubSeq(pending, 1, k) /\ pending' = SubSeq(pending, k + 1, Len(pending))
      /\ UNCHANGED <<next, want, sent, got>>
  BY DEF SL!WriteVectored, SL!AdvanceSlices
<1>2. stream \in Seq(UnitType) /\ pending \in Seq(UnitType)
  BY DEF FramesInv
<1>3. stream' \in Seq(UnitType) /\ pending' \in Seq(UnitType) /\ stream' \o pending' = stream \o pending
  BY <1>1, <1>2, WriteMoves
<1> QED
  BY <1>1, <1>3 DEF FramesInv

LEMMA FramesReadLength ==
    ASSUME FramesInv, SL!ReadLength PROVE FramesInv'
<1>1. /\ want = SL!NoFrame /\ stream # << >> /\ stream' = Tail(stream)
      /\ want' = IF SL!ValidLength(Head(stream).len) THEN [size |-> Head(stream).len, units |-> << >>]
                 ELSE SL!NoFrame
      /\ UNCHANGED <<next, pending, sent, got>>
  BY DEF SL!ReadLength
<1>2. PICK u, a : u = stream \o pending /\ a = Len(got) + 1
  OBVIOUS
<1>3. /\ Written(sent, next) /\ Whole(got, sent) /\ stream \in Seq(UnitType) /\ pending \in Seq(UnitType)
      /\ LaidOut(u, sent, a, 0)
  BY <1>1, <1>2 DEF FramesInv, UnitsOf
<1>4. /\ u \in Seq(UnitType) /\ u # << >> /\ Head(u) = Head(stream) /\ Tail(stream) \in Seq(UnitType)
      /\ Tail(u) = Tail(stream) \o pending
  BY <1>1, <1>2, <1>3, ConcatFront, SMTT(30)
<1>5. a \in 1 .. Len(sent) /\ Head(u).len = Traffic[sent[a]].size
      /\ (0 < Traffic[sent[a]].size => LaidOut(Tail(u), sent, a, 0 + 1))
  BY <1>3, <1>4, LaidTaken
<1>6. PICK z : z = Traffic[sent[a]].size
  OBVIOUS
<1>7. z \in Nat \ {0} /\ z \in MinSize .. MaxSize
  <2>1. sent[a] \in DOMAIN Traffic
    BY <1>3, <1>5 DEF Written
  <2> QED
    BY <1>6, <2>1, FrameUnits DEF FramesInv
<1>8. want' = [size |-> z, units |-> << >>]
  BY <1>1, <1>4, <1>5, <1>6, <1>7 DEF SL!ValidLength
<1>9. Begun(want', sent, a) /\ UnitsOf(want') = 0 + 1
  <2>1. want'.size = z /\ SL!NoFrame.size = 0 /\ want'.units = << >> /\ Len(<< >>) = 0
    BY <1>8 DEF SL!NoFrame
  <2>2. want' # SL!NoFrame
    BY <1>7, <2>1
  <2>3. Body(<< >>, sent[a], 0)
    BY DEF Body
  <2>4. Begun(want', sent, a)
    <3>1. Len(<< >>) < z /\ Body(<< >>, sent[a], Len(<< >>))
      BY <1>7, <2>1, <2>3
    <3> QED
      BY <1>5, <1>6, <1>8, <3>1 DEF Begun
  <2> QED
    BY <2>1, <2>2, <2>4 DEF UnitsOf
<1>10. LaidOut(Tail(u), sent, a, 0 + 1)
  BY <1>5, <1>6, <1>7
<1>11. LaidOut(stream' \o pending', sent', Len(got') + 1, UnitsOf(want'))
  BY <1>1, <1>2, <1>4, <1>9, <1>10
<1> QED
  BY <1>1, <1>2, <1>3, <1>4, <1>9, <1>11 DEF FramesInv

\* One unit of the body is read; the last one completes the packet.
LEMMA FramesReadBody ==
    ASSUME FramesInv, SL!ReadBody
    PROVE  /\ FramesInv'
           /\ got' # got => \E us : /\ got' = Append(got, us) /\ SL!HandlePacket(us[1].packet)
                                    /\ Len(got) + 1 \in 1 .. Len(sent) /\ sent[Len(got) + 1] \in DOMAIN Traffic
                                    /\ Body(us, sent[Len(got) + 1], Traffic[sent[Len(got) + 1]].size)
           /\ got' = got => active_probes' = active_probes /\ results' = results
<1>1. /\ want # SL!NoFrame /\ stream # << >> /\ stream' = Tail(stream)
      /\ UNCHANGED <<protocol, stream_client, stream_server, backlog, known, next, pending, sent>>
  BY DEF SL!ReadBody, SL!setup
<1>2. PICK u, a, us : u = stream \o pending /\ a = Len(got) + 1 /\ us = Append(want.units, Head(stream))
  OBVIOUS
<1>3. IF Len(us) < want.size
      THEN want' = [want EXCEPT !.units = us] /\ got' = got /\ active_probes' = active_probes /\ results' = results
      ELSE want' = SL!NoFrame /\ got' = Append(got, us) /\ SL!HandlePacket(us[1].packet)
  BY <1>2 DEF SL!ReadBody
<1>4. /\ Written(sent, next) /\ Whole(got, sent) /\ Begun(want, sent, a)
      /\ stream \in Seq(UnitType) /\ pending \in Seq(UnitType)
      /\ LaidOut(u, sent, a, Len(want.units) + 1)
  BY <1>1, <1>2 DEF FramesInv, UnitsOf
<1>5. /\ u \in Seq(UnitType) /\ u # << >> /\ Head(u) = Head(stream) /\ Tail(stream) \in Seq(UnitType)
      /\ Tail(u) = Tail(stream) \o pending /\ Head(stream) \in UnitType
  BY <1>1, <1>2, <1>4, ConcatFront, SMTT(30)
<1>6. PICK ws, z, b, x : /\ ws = want.units /\ z = Traffic[sent[a]].size /\ b = Len(ws) + 1
                         /\ x = [len |-> 0, packet |-> sent[a]]
  OBVIOUS
<1>7. want = [size |-> z, units |-> ws] /\ a \in 1 .. Len(sent) /\ Len(ws) < z /\ Body(ws, sent[a], Len(ws))
  <2>1. PICK vs : /\ want = [size |-> Traffic[sent[a]].size, units |-> vs] /\ a \in 1 .. Len(sent)
                  /\ Len(vs) < Traffic[sent[a]].size /\ Body(vs, sent[a], Len(vs))
    BY <1>1, <1>4 DEF Begun
  <2>2. vs = ws
    BY <1>6, <2>1
  <2> QED
    BY <1>6, <2>1, <2>2
<1>8. sent[a] \in DOMAIN Traffic /\ z \in Nat \ {0} /\ ws \in Seq(UnitType) /\ Len(ws) \in Nat
  <2>1. sent[a] \in DOMAIN Traffic
    BY <1>4, <1>7 DEF Written
  <2>2. z \in Nat \ {0}
    BY <1>6, <2>1, FrameUnits DEF FramesInv
  <2>3. ws \in Seq(UnitType)
    BY <1>7 DEF Body
  <2> QED
    BY <2>1, <2>2, <2>3, LenProperties
<1>9. /\ Head(u).packet = sent[a] /\ Head(u).len = IF b = 0 THEN Traffic[sent[a]].size ELSE 0
      /\ b < Traffic[sent[a]].size => LaidOut(Tail(u), sent, a, b + 1)
      /\ b = Traffic[sent[a]].size => LaidOut(Tail(u), sent, a + 1, 0)
  <2>1. LaidOut(u, sent, a, b)
    BY <1>4, <1>6
  <2> QED
    BY <1>5, <2>1, LaidTaken
<1>10. Head(stream) = x
  <2>1. Head(stream).len = 0 /\ Head(stream).packet = sent[a]
    BY <1>5, <1>6, <1>8, <1>9
  <2> QED
    BY <1>5, <1>6, <2>1 DEF UnitType
<1>11. us = Append(ws, x)
  BY <1>2, <1>6, <1>10
<1>12. Body(us, sent[a], b) /\ Len(us) = b /\ b \in Nat
  <2>1. x \in UnitType
    BY <1>5, <1>10
  <2>2. /\ Append(ws, x) \in Seq(UnitType) /\ Len(Append(ws, x)) = Len(ws) + 1
        /\ Append(ws, x)[Len(ws) + 1] = x /\ \A k \in 1 .. Len(ws) : Append(ws, x)[k] = ws[k]
    BY <1>8, <2>1, AppendProperties
  <2>3. us \in Seq(UnitType) /\ Len(us) = b
    BY <1>6, <1>11, <2>2
  <2>4. \A j \in 1 .. b : us[j] = x
    <3>1. ASSUME NEW j \in 1 .. b PROVE us[j] = x
      <4>1. CASE j = Len(ws) + 1
        BY <1>11, <2>2, <4>1
      <4>2. CASE j # Len(ws) + 1
        <5>1. j \in 1 .. Len(ws)
          BY <1>6, <1>8, <4>2
        <5>2. ws[j] = x
          BY <1>6, <1>7, <5>1 DEF Body
        <5> QED
          BY <1>11, <2>2, <5>1, <5>2
      <4> QED
        BY <4>1, <4>2
    <3> QED
      BY <3>1
  <2> QED
    BY <1>6, <1>8, <2>3, <2>4 DEF Body
<1>13. CASE Len(us) < want.size
  <2>1. b < z
    BY <1>7, <1>12, <1>13
  <2>2. want' = [size |-> z, units |-> us] /\ got' = got
    BY <1>3, <1>7, <1>13
  <2>3. Begun(want', sent, a) /\ UnitsOf(want') = b + 1
    <3>1. want'.size = z /\ SL!NoFrame.size = 0 /\ want'.units = us
      BY <2>2 DEF SL!NoFrame
    <3>2. want' # SL!NoFrame
      BY <1>8, <3>1
    <3>3. Len(us) < z /\ Body(us, sent[a], Len(us))
      BY <1>12, <2>1
    <3>4. Begun(want', sent, a)
      BY <1>6, <1>7, <2>2, <3>3 DEF Begun
    <3> QED
      BY <1>12, <3>1, <3>2, <3>4 DEF UnitsOf
  <2>4. LaidOut(Tail(u), sent, a, b + 1)
    BY <1>6, <1>9, <2>1
  <2>5. FramesInv'
    <3>1. LaidOut(stream' \o pending', sent', Len(got') + 1, UnitsOf(want'))
      BY <1>1, <1>2, <1>5, <2>2, <2>3, <2>4
    <3> QED
      BY <1>1, <1>2, <1>4, <1>5, <2>2, <2>3, <3>1 DEF FramesInv
  <2> QED
    BY <1>3, <1>13, <2>2, <2>5
<1>14. CASE ~(Len(us) < want.size)
  <2>1. b = z
    <3>1. want.size = z
      BY <1>7
    <3> QED
      BY <1>6, <1>7, <1>8, <1>12, <1>14, <3>1
  <2>2. want' = SL!NoFrame /\ got' = Append(got, us) /\ SL!HandlePacket(us[1].packet)
    BY <1>3, <1>14
  <2>3. Body(us, sent[a], z)
    BY <1>12, <2>1
  <2>4. PICK t : t = Append(got, us)
    OBVIOUS
  <2>5. /\ got \in Seq(Seq(UnitType)) /\ us \in Seq(UnitType) /\ Len(got) \in Nat
        /\ \A i \in 1 .. Len(got) : Body(got[i], sent[i], Traffic[sent[i]].size)
    BY <1>4, <2>3, LenProperties DEF Whole, Body
  <2>6. t \in Seq(Seq(UnitType)) /\ Len(t) = a /\ t[a] = us /\ \A i \in 1 .. Len(got) : t[i] = got[i]
    <3>1. /\ Append(got, us) \in Seq(Seq(UnitType)) /\ Len(Append(got, us)) = Len(got) + 1
          /\ Append(got, us)[Len(got) + 1] = us /\ \A i \in 1 .. Len(got) : Append(got, us)[i] = got[i]
      BY <2>5, AppendProperties
    <3> QED
      BY <1>2, <2>4, <3>1
  <2>7. Whole(t, sent)
    <3>1. ASSUME NEW i \in 1 .. a PROVE Body(t[i], sent[i], Traffic[sent[i]].size)
      <4>1. CASE i = a
        BY <1>6, <2>3, <2>6, <4>1
      <4>2. CASE i # a
        <5>1. i \in 1 .. Len(got)
          BY <1>2, <2>5, <4>2
        <5> QED
          BY <2>5, <2>6, <5>1
      <4> QED
        BY <4>1, <4>2
    <3>2. a <= Len(sent)
      BY <1>7
    <3> QED
      BY <2>6, <3>1, <3>2 DEF Whole
  <2>8. Begun(want', sent, a + 1) /\ UnitsOf(want') = 0
    BY <2>2 DEF Begun, UnitsOf
  <2>9. LaidOut(Tail(u), sent, a + 1, 0)
    BY <1>6, <1>9, <2>1
  <2>10. FramesInv'
    <3>1. LaidOut(stream' \o pending', sent', Len(got') + 1, UnitsOf(want'))
      BY <1>1, <1>2, <1>5, <2>2, <2>4, <2>6, <2>8, <2>9
    <3> QED
      BY <1>1, <1>2, <1>4, <1>5, <2>2, <2>4, <2>6, <2>7, <2>8, <3>1 DEF FramesInv
  <2>11. got' # got
    <3>1. Len(got') # Len(got)
      BY <1>2, <2>2, <2>4, <2>5, <2>6
    <3> QED
      BY <3>1
  <2> QED
    BY <1>2, <1>6, <1>7, <1>8, <2>2, <2>3, <2>10, <2>11
<1> QED
  BY <1>13, <1>14

\* g adds up the lengths of the packets at any of the places in gs.
Adds(g, gs) ==
    /\ g \in [SUBSET (1 .. Len(gs)) -> Nat] /\ g[{}] = 0
    /\ \A S \in SUBSET (1 .. Len(gs)) : \A x \in 1 .. Len(gs) :
          x \notin S => g[S \cup {x}] = g[S] + Len(gs[x])

AddsOn(h, g, gs, us) ==
    /\ Adds(h, Append(gs, us))
    /\ \A S \in SUBSET (1 .. Len(gs)) : h[S] = g[S]
    /\ \A S \in SUBSET (1 .. Len(gs)) : h[S \cup {Len(gs) + 1}] = g[S] + Len(us)

LEMMA AddsMore ==
    ASSUME NEW gs \in Seq(Seq(UnitType)), NEW us \in Seq(UnitType), NEW g, Adds(g, gs)
    PROVE  \E h : AddsOn(h, g, gs, us)
<1>1. PICK n, t, l, w : n = Len(gs) /\ t = Append(gs, us) /\ l = Len(gs) + 1 /\ w = Len(us)
  OBVIOUS
<1>2. n \in Nat /\ l = n + 1 /\ Len(t) = l /\ t[l] = us /\ (\A i \in 1 .. n : t[i] = gs[i]) /\ w \in Nat
  <2>1. /\ Len(Append(gs, us)) = Len(gs) + 1
        /\ Append(gs, us)[Len(gs) + 1] = us /\ \A i \in 1 .. Len(gs) : Append(gs, us)[i] = gs[i]
    BY AppendProperties
  <2> QED
    BY <1>1, <2>1, LenProperties
<1>3. /\ g \in [SUBSET (1 .. n) -> Nat] /\ g[{}] = 0
      /\ \A S \in SUBSET (1 .. n) : \A x \in 1 .. n : x \notin S => g[S \cup {x}] = g[S] + Len(gs[x])
  BY <1>1 DEF Adds
<1>4. 1 .. l = (1 .. n) \cup {l} /\ l \notin 1 .. n
  BY <1>2
<1>5. PICK h : h = [S \in SUBSET (1 .. l) |-> IF l \in S THEN g[S \ {l}] + w ELSE g[S]]
  OBVIOUS
<1>6. \A S \in SUBSET (1 .. n) : h[S] = g[S] /\ h[S \cup {l}] = g[S] + w
  <2>1. ASSUME NEW S \in SUBSET (1 .. n) PROVE h[S] = g[S] /\ h[S \cup {l}] = g[S] + w
    <3>1. S \in SUBSET (1 .. l) /\ S \cup {l} \in SUBSET (1 .. l) /\ l \notin S /\ l \in S \cup {l}
          /\ (S \cup {l}) \ {l} = S
      BY <1>4
    <3> QED
      BY <1>5, <3>1, Zenon
  <2> QED
    BY <2>1
<1>7. \A S \in SUBSET (1 .. l) : S \ {l} \in SUBSET (1 .. n) /\ (l \notin S => S \in SUBSET (1 .. n))
  BY <1>4
<1>8. h \in [SUBSET (1 .. l) -> Nat]
  <2>1. ASSUME NEW S \in SUBSET (1 .. l) PROVE (IF l \in S THEN g[S \ {l}] + w ELSE g[S]) \in Nat
    <3>1. g[S \ {l}] \in Nat /\ (l \notin S => g[S] \in Nat)
      BY <1>3, <1>7
    <3> QED
      BY <1>2, <3>1
  <2> QED
    BY <1>5, <2>1
<1>9. h[{}] = 0
  <2>1. {} \in SUBSET (1 .. n)
    OBVIOUS
  <2> QED
    BY <1>3, <1>6, <2>1
<1>10. ASSUME NEW S \in SUBSET (1 .. l), NEW x \in 1 .. l, x \notin S
       PROVE  h[S \cup {x}] = h[S] + Len(t[x])
  <2>1. CASE x = l
    <3>1. S \in SUBSET (1 .. n)
      BY <1>7, <1>10, <2>1
    <3>2. h[S] = g[S] /\ h[S \cup {l}] = g[S] + w /\ Len(t[l]) = w
      BY <1>1, <1>2, <1>6, <3>1
    <3> QED
      BY <2>1, <3>2
  <2>2. CASE x # l
    <3>1. x \in 1 .. n /\ t[x] = gs[x]
      BY <1>2, <1>4, <2>2
    <3>2. CASE l \notin S
      <4>1. S \in SUBSET (1 .. n) /\ S \cup {x} \in SUBSET (1 .. n)
        BY <1>7, <3>1, <3>2
      <4>2. h[S] = g[S] /\ h[S \cup {x}] = g[S \cup {x}]
        BY <1>6, <4>1
      <4>3. g[S \cup {x}] = g[S] + Len(gs[x])
        BY <1>3, <1>10, <3>1, <4>1
      <4> QED
        BY <3>1, <4>2, <4>3
    <3>3. CASE l \in S
      <4>1. PICK R : R = S \ {l}
        OBVIOUS
      <4>2. R \in SUBSET (1 .. n) /\ R \cup {x} \in SUBSET (1 .. n) /\ x \notin R
        BY <1>7, <1>10, <3>1, <4>1
      <4>3. S = R \cup {l} /\ S \cup {x} = (R \cup {x}) \cup {l}
        BY <3>3, <4>1
      <4>4. h[S] = g[R] + w
        BY <1>6, <4>2, <4>3
      <4>5. h[S \cup {x}] = g[R \cup {x}] + w
        <5>1. PICK Q : Q = R \cup {x}
          OBVIOUS
        <5>2. h[Q \cup {l}] = g[Q] + w
          BY <1>6, <4>2, <5>1
        <5> QED
          BY <4>3, <5>1, <5>2
      <4>6. g[R \cup {x}] = g[R] + Len(gs[x])
        BY <1>3, <3>1, <4>2
      <4>7. g[R] \in Nat /\ Len(gs[x]) \in Nat
        <5>1. gs[x] \in Seq(UnitType)
          BY <1>1, <3>1, ElementOfSeq
        <5> QED
          BY <1>3, <4>2, <5>1, LenProperties
      <4> QED
        BY <1>2, <3>1, <4>4, <4>5, <4>6, <4>7
    <3> QED
      BY <3>2, <3>3
  <2> QED
    BY <2>1, <2>2
<1>11. Adds(h, t)
  BY <1>2, <1>8, <1>9, <1>10 DEF Adds
<1>12. AddsOn(h, g, gs, us)
  BY <1>1, <1>6, <1>11 DEF AddsOn
<1> QED
  BY <1>12

\* The sum of ProbeMeasuresOwnTrain is what g says.
Total(gs, of) ==
    LET f[S \in SUBSET of] == IF S = {} THEN 0
                              ELSE LET i == CHOOSE j \in S : TRUE IN Len(gs[i]) + f[S \ {i}]
    IN  f[of]

LEMMA AddsTotal ==
    ASSUME NEW gs \in Seq(Seq(UnitType)), NEW g, Adds(g, gs), NEW of \in SUBSET (1 .. Len(gs))
    PROVE  Total(gs, of) = g[of]
<1> DEFINE Some(S) == CHOOSE j \in S : TRUE
           Follows(f) == f = [S \in SUBSET of |->
                                IF S = {} THEN 0
                                ELSE LET i == CHOOSE j \in S : TRUE IN Len(gs[i]) + f[S \ {i}]]
           F == CHOOSE f : Follows(f)
           k == [S \in SUBSET of |-> g[S]]
<1>1. Total(gs, of) = F[of]
  BY Zenon DEF Total
<1>2. \A S \in SUBSET of : S # {} => Some(S) \in S
  OBVIOUS
<1>3. \A S \in SUBSET of : S # {} => g[S] = Len(gs[Some(S)]) + g[S \ {Some(S)}]
  <2> HIDE DEF Some
  <2>1. ASSUME NEW S \in SUBSET of, S # {} PROVE g[S] = Len(gs[Some(S)]) + g[S \ {Some(S)}]
    <3>1. PICK x, R : x = Some(S) /\ R = S \ {x}
      OBVIOUS
    <3>2. x \in S
      BY <1>2, <2>1, <3>1
    <3>3. R \in SUBSET (1 .. Len(gs)) /\ x \in 1 .. Len(gs) /\ x \notin R /\ R \cup {x} = S
      BY <3>1, <3>2
    <3>4. g[R \cup {x}] = g[R] + Len(gs[x]) /\ g[R] \in Nat
      BY <3>3 DEF Adds
    <3>5. Len(gs[x]) \in Nat
      <4>1. gs[x] \in Seq(UnitType)
        BY <3>3, ElementOfSeq
      <4> QED
        BY <4>1, LenProperties
    <3>6. g[S] = Len(gs[x]) + g[R]
      <4>1. g[S] = g[R] + Len(gs[x])
        BY <3>3, <3>4, Zenon
      <4>2. \A n, m \in Nat : n + m = m + n
        OBVIOUS
      <4>3. g[R] + Len(gs[x]) = Len(gs[x]) + g[R]
        BY <3>4, <3>5, <4>2, Zenon
      <4> QED
        BY <4>1, <4>3, Zenon
    <3> QED
      BY <3>1, <3>6
  <2> QED
    BY <2>1
<1>4. Follows(k)
  <2>1. ASSUME NEW S \in SUBSET of
        PROVE  k[S] = IF S = {} THEN 0
                      ELSE LET i == CHOOSE j \in S : TRUE IN Len(gs[i]) + k[S \ {i}]
    <3>1. k[S] = g[S] /\ \A R \in SUBSET of : k[R] = g[R]
      OBVIOUS
    <3> HIDE DEF k
    <3>2. CASE S = {}
      <4>1. g[S] = 0
        BY <3>2 DEF Adds
      <4> QED
        BY <3>1, <3>2, <4>1, Zenon
    <3>3. CASE S # {}
      <4>1. S \ {Some(S)} \in SUBSET of
        OBVIOUS
      <4>2. k[S] = Len(gs[Some(S)]) + k[S \ {Some(S)}]
        <5> HIDE DEF Some
        <5> QED
          BY <1>3, <3>1, <3>3, <4>1, Zenon
      <4> QED
        BY <3>3, <4>2, Zenon
    <3> QED
      BY <3>2, <3>3
  <2>2. k = [S \in SUBSET of |-> k[S]]
    OBVIOUS
  <2> HIDE DEF k
  <2> QED
    BY <2>1, <2>2, Zenon
<1>5. Follows(F)
  BY <1>4, Zenon
<1>6. F[{}] = 0 /\ \A S \in SUBSET of : S # {} => F[S] = Len(gs[Some(S)]) + F[S \ {Some(S)}]
  <2> HIDE DEF F
  <2>1. \A S \in SUBSET of : F[S] = IF S = {} THEN 0
                      ELSE LET i == CHOOSE j \in S : TRUE IN Len(gs[i]) + F[S \ {i}]
    BY <1>5, Zenon
  <2>2. {} \in SUBSET of
    OBVIOUS
  <2>3. F[{}] = 0
    BY <2>1, <2>2, Zenon
  <2>4. \A S \in SUBSET of : S # {} => F[S] = Len(gs[Some(S)]) + F[S \ {Some(S)}]
    BY <2>1, Zenon
  <2> QED
    BY <2>3, <2>4
<1> HIDE DEF F, Some, k
<1>7. IsFiniteSet(of) /\ \A S \in SUBSET of : IsFiniteSet(S)
  <2>1. Len(gs) \in Nat
    BY LenProperties
  <2>2. IsFiniteSet(1 .. Len(gs))
    BY <2>1, FS_Interval
  <2> QED
    BY <2>2, FS_Subset
<1>8. \A S \in SUBSET of : F[S] = g[S]
  <2> DEFINE Bad == {S \in SUBSET of : F[S] # g[S]}
             Counts == {Cardinality(S) : S \in Bad}
  <2>1. SUFFICES ASSUME Bad # {} PROVE FALSE
    OBVIOUS
  <2>2. Counts \subseteq Nat /\ Counts # {}
    <3>1. \A S \in Bad : Cardinality(S) \in Nat
      BY <1>7, FS_CardinalityType
    <3> QED
      BY <2>1, <3>1
  <2>3. PICK m \in Counts : \A y \in Counts : m <= y
    <3> HIDE DEF Counts
    <3> QED
      BY <2>2, LeastNatural
  <2>4. PICK S \in Bad : Cardinality(S) = m
    BY <2>3
  <2>5. S \in SUBSET of /\ F[S] # g[S] /\ IsFiniteSet(S)
    BY <1>7, <2>4
  <2>6. S # {}
    BY <1>6, <2>5 DEF Adds
  <2>7. PICK x, R : x = Some(S) /\ R = S \ {x}
    OBVIOUS
  <2>8. x \in S /\ R \in SUBSET of
    BY <1>2, <2>5, <2>6, <2>7
  <2>9. F[S] = Len(gs[x]) + F[R] /\ g[S] = Len(gs[x]) + g[R]
    BY <1>3, <1>6, <2>5, <2>6, <2>7, Zenon
  <2>10. R \in Bad
    BY <2>5, <2>8, <2>9
  <2>11. Cardinality(R) = Cardinality(S) - 1 /\ Cardinality(S) \in Nat
    <3>1. Cardinality(S \ {x}) = Cardinality(S) - 1
      BY <2>5, <2>8, FS_RemoveElement, Zenon
    <3>2. Cardinality(S) \in Nat
      BY <2>5, FS_CardinalityType
    <3> QED
      BY <2>7, <3>1, <3>2
  <2>12. Cardinality(R) \in Counts
    BY <2>10
  <2> QED
    <3>1. m <= Cardinality(R)
      BY <2>3, <2>12
    <3> QED
      BY <2>4, <2>11, <3>1
<1> QED
  BY <1>1, <1>8

\* The packets of a probe train among those received, and whether it has ended.
ProbeOf(us) == Traffic[us[1].packet].probe
LastOf(us) == Traffic[us[1].packet].last
Train(gs, p) == {i \in 1 .. Len(gs) : ProbeOf(gs[i]) = p}
Ended(gs, p) == \E i \in 1 .. Len(gs) : ProbeOf(gs[i]) = p /\ LastOf(gs[i])

\* Of a train still open the reader knows the sum, of one that ended it gave it.
Measures(g, gs, trains, rs) ==
    /\ Adds(g, gs)
    /\ \A p \in SL!Probes : ~Ended(gs, p) => trains[p] = g[Train(gs, p)]
    /\ \A r \in 1 .. Len(rs) : Ended(gs, rs[r].probe) /\ rs[r].units = g[Train(gs, rs[r].probe)]
ProbesInv ==
    /\ active_probes \in [SL!Probes -> Nat] /\ results \in Seq([probe : SL!Probes, units : Nat])
    /\ protocol # "Tcp" => results = << >>
    /\ protocol = "Tcp" => \E g : Measures(g, got, active_probes, results)

LEMMA TrainMore ==
    ASSUME NEW gs \in Seq(Seq(UnitType)), NEW us \in Seq(UnitType), NEW p
    PROVE  /\ Train(Append(gs, us), p) = IF ProbeOf(us) = p THEN Train(gs, p) \cup {Len(gs) + 1} ELSE Train(gs, p)
           /\ Ended(Append(gs, us), p) <=> Ended(gs, p) \/ (ProbeOf(us) = p /\ LastOf(us))
           /\ Train(gs, p) \in SUBSET (1 .. Len(gs))
<1>1. PICK n, t, l : n = Len(gs) /\ t = Append(gs, us) /\ l = Len(gs) + 1
  OBVIOUS
<1>2. n \in Nat /\ l = n + 1 /\ Len(t) = l /\ t[l] = us /\ (\A i \in 1 .. n : t[i] = gs[i])
  <2>1. /\ Len(Append(gs, us)) = Len(gs) + 1
        /\ Append(gs, us)[Len(gs) + 1] = us /\ \A i \in 1 .. Len(gs) : Append(gs, us)[i] = gs[i]
    BY AppendProperties
  <2> QED
    BY <1>1, <2>1, LenProperties
<1>3. 1 .. l = (1 .. n) \cup {l} /\ l \notin 1 .. n
  BY <1>2
<1>4. Train(t, p) = {i \in 1 .. l : ProbeOf(t[i]) = p} /\ Train(gs, p) = {i \in 1 .. n : ProbeOf(gs[i]) = p}
  BY <1>1, <1>2 DEF Train
<1>5. Train(t, p) = IF ProbeOf(us) = p THEN Train(gs, p) \cup {l} ELSE Train(gs, p)
  <2>1. \A i : i \in Train(t, p) <=> i \in Train(gs, p) \/ (i = l /\ ProbeOf(us) = p)
    BY <1>2, <1>3, <1>4, Zenon
  <2> QED
    BY <2>1
<1>6. Ended(t, p) <=> Ended(gs, p) \/ (ProbeOf(us) = p /\ LastOf(us))
  <2>1. Ended(t, p) <=> \E i \in 1 .. l : ProbeOf(t[i]) = p /\ LastOf(t[i])
    BY <1>2, Zenon DEF Ended
  <2>2. Ended(gs, p) <=> \E i \in 1 .. n : ProbeOf(gs[i]) = p /\ LastOf(gs[i])
    BY <1>1, Zenon DEF Ended
  <2> QED
    BY <1>2, <1>3, <2>1, <2>2, Zenon
<1> QED
  BY <1>1, <1>4, <1>5, <1>6

\* After the last packet of a train no packet of it is written.
LEMMA NoneAfterLast ==
    ASSUME TrafficOK, NEW gs, NEW is, NEW n, Written(is, n), Whole(gs, is), Len(gs) + 1 \in 1 .. Len(is)
    PROVE  LET p == Traffic[is[Len(gs) + 1]].probe IN p # SL!NoProbe => ~Ended(gs, p)
<1> DEFINE a == Len(gs) + 1
           p == Traffic[is[a]].probe
<1>1. SUFFICES ASSUME p # SL!NoProbe, Ended(gs, p) PROVE FALSE
  OBVIOUS
<1>2. PICK i \in 1 .. Len(gs) : ProbeOf(gs[i]) = p /\ LastOf(gs[i])
  BY <1>1 DEF Ended
<1>3. Len(gs) \in Nat /\ Len(is) \in Nat /\ is \in Seq(DOMAIN Traffic) /\ Len(gs) <= Len(is)
      /\ Body(gs[i], is[i], Traffic[is[i]].size)
  BY LenProperties DEF Whole, Written
<1>4. i \in 1 .. Len(is) /\ a \in 1 .. Len(is) /\ i < a
  BY <1>3
<1>5. is[i] \in DOMAIN Traffic /\ is[a] \in DOMAIN Traffic /\ is[i] < is[a]
  BY <1>3, <1>4 DEF Written
<1>6. gs[i][1].packet = is[i]
  <2>1. Traffic[is[i]].size \in Nat \ {0}
    BY <1>5, FrameUnits
  <2>2. 1 \in 1 .. Traffic[is[i]].size
    BY <2>1
  <2> QED
    BY <1>3, <2>2 DEF Body
<1>7. Traffic[is[i]].probe = p /\ Traffic[is[i]].last
  BY <1>2, <1>6 DEF ProbeOf, LastOf
<1> QED
  BY <1>1, <1>5, <1>7 DEF TrafficOK

LEMMA ProbesInit ==
    ASSUME SL!Init PROVE ProbesInv
<1>1. got = << >> /\ active_probes = [p \in SL!Probes |-> 0] /\ results = << >>
  BY DEF SL!Init
<1>2. PICK g : g = [S \in SUBSET (1 .. 0) |-> 0]
  OBVIOUS
<1>3. Len(<< >>) = 0 /\ 1 .. 0 = {} /\ SUBSET {} = {{}}
  OBVIOUS
<1>4. Adds(g, << >>) /\ g[{}] = 0
  BY <1>2, <1>3 DEF Adds
<1>5. \A p : Train(<< >>, p) = {}
  BY <1>3 DEF Train
<1>6. \A p \in SL!Probes : active_probes[p] = 0
  BY <1>1
<1>7. Measures(g, got, active_probes, results)
  BY <1>1, <1>3, <1>4, <1>5, <1>6 DEF Measures
<1> QED
  BY <1>1, <1>7 DEF ProbesInv

\* What handle_probe does with a packet of the reader.
LEMMA ProbesPacket ==
    ASSUME FramesInv, ProbesInv, NEW us, UNCHANGED protocol, got' = Append(got, us),
           SL!HandlePacket(us[1].packet), Len(got) + 1 \in 1 .. Len(sent),
           Body(us, sent[Len(got) + 1], Traffic[sent[Len(got) + 1]].size)
    PROVE  ProbesInv'
<1>1. PICK a, i, p, w : a = Len(got) + 1 /\ i = sent[a] /\ p = Traffic[i].probe /\ w = Len(us)
  OBVIOUS
<1>2. i \in DOMAIN Traffic
  BY <1>1 DEF FramesInv, Written
<1>3. us \in Seq(UnitType) /\ w = Traffic[i].size /\ w \in Nat \ {0} /\ us[1].packet = i
  <2>1. Traffic[i].size \in Nat \ {0}
    BY <1>2, FrameUnits DEF FramesInv
  <2>2. 1 \in 1 .. Traffic[i].size
    BY <2>1
  <2> QED
    BY <1>1, <2>1, <2>2 DEF Body
<1>4. p \in Nat /\ Traffic[i].last \in BOOLEAN /\ ProbeOf(us) = p /\ LastOf(us) = Traffic[i].last
  <2>1. Traffic[i] \in PacketType
    BY <1>2 DEF FramesInv, TrafficOK
  <2> QED
    BY <1>1, <1>3, <2>1 DEF PacketType, ProbeOf, LastOf
<1>5. got \in Seq(Seq(UnitType))
  BY DEF FramesInv, Whole
<1>6. SL!HandlePacket(i)
  BY <1>3
<1>7. CASE protocol # "Tcp"
  BY <1>6, <1>7 DEF SL!HandlePacket, ProbesInv
<1>8. CASE protocol = "Tcp"
  <2>1. PICK g : Measures(g, got, active_probes, results)
    BY <1>8 DEF ProbesInv
  <2>2. PICK h : AddsOn(h, g, got, us)
    <3>1. Adds(g, got)
      BY <2>1 DEF Measures
    <3> QED
      BY <1>3, <1>5, <3>1, AddsMore, Zenon
  <2>3. \A q : /\ Train(got', q) = IF p = q THEN Train(got, q) \cup {Len(got) + 1} ELSE Train(got, q)
               /\ Ended(got', q) <=> Ended(got, q) \/ (p = q /\ Traffic[i].last)
               /\ Train(got, q) \in SUBSET (1 .. Len(got))
    BY <1>3, <1>4, <1>5, TrainMore
  <2>4. \A q : h[Train(got', q)] = IF p = q THEN g[Train(got, q)] + w ELSE g[Train(got, q)]
    <3>1. ASSUME NEW q PROVE h[Train(got', q)] = IF p = q THEN g[Train(got, q)] + w ELSE g[Train(got, q)]
      <4>1. PICK S : S = Train(got, q) /\ S \in SUBSET (1 .. Len(got))
        BY <2>3
      <4>2. h[S] = g[S] /\ h[S \cup {Len(got) + 1}] = g[S] + w
        BY <1>1, <2>2, <4>1 DEF AddsOn
      <4>3. Train(got', q) = IF p = q THEN S \cup {Len(got) + 1} ELSE S
        BY <2>3, <4>1
      <4> QED
        BY <4>1, <4>2, <4>3, Zenon
    <3> QED
      BY <3>1
  <2>5. p # SL!NoProbe => ~Ended(got, p)
    <3>1. TrafficOK /\ Written(sent, next) /\ Whole(got, sent)
      BY DEF FramesInv
    <3> QED
      BY <1>1, <3>1, NoneAfterLast
  <2>6. /\ active_probes \in [SL!Probes -> Nat] /\ results \in Seq([probe : SL!Probes, units : Nat])
        /\ \A q \in SL!Probes : ~Ended(got, q) => active_probes[q] = g[Train(got, q)]
        /\ \A r \in 1 .. Len(results) :
              Ended(got, results[r].probe) /\ results[r].units = g[Train(got, results[r].probe)]
    BY <2>1 DEF Measures, ProbesInv
  <2>7. p # SL!NoProbe => p \in SL!Probes
    BY <1>1, <1>2 DEF SL!Probes
  <2>8. Adds(h, got')
    BY <2>2 DEF AddsOn
  <2>9. \A r \in 1 .. Len(results) :
              Ended(got', results[r].probe) /\ results[r].units = h[Train(got', results[r].probe)]
    <3>1. ASSUME NEW r \in 1 .. Len(results)
          PROVE  Ended(got', results[r].probe) /\ results[r].units = h[Train(got', results[r].probe)]
      <4>1. PICK q : q = results[r].probe
        OBVIOUS
      <4>2. Ended(got, q) /\ results[r].units = g[Train(got, q)]
        BY <2>6, <4>1
      <4>3. CASE q = p /\ p # SL!NoProbe
        BY <2>5, <4>2, <4>3
      <4>4. CASE q # p
        BY <2>3, <2>4, <4>1, <4>2, <4>4, Zenon
      <4>5. q # SL!NoProbe
        <5>1. results[r] \in [probe : SL!Probes, units : Nat]
          BY <2>6, ElementOfSeq
        <5> QED
          BY <4>1, <5>1 DEF SL!Probes
      <4> QED
        BY <4>3, <4>4, <4>5
    <3> QED
      BY <3>1
  <2>10. CASE p = SL!NoProbe
    <3>1. active_probes' = active_probes /\ results' = results
      BY <1>1, <1>6, <2>10 DEF SL!HandlePacket
    <3>2. \A q \in SL!Probes : q # p
      BY <2>10 DEF SL!Probes
    <3>3. \A q \in SL!Probes : ~Ended(got', q) => active_probes[q] = h[Train(got', q)]
      BY <2>3, <2>4, <2>6, <3>2, Zenon
    <3>4. Measures(h, got', active_probes', results')
      BY <2>8, <2>9, <3>1, <3>3 DEF Measures
    <3> QED
      BY <1>8, <2>6, <3>1, <3>4 DEF ProbesInv
  <2>11. CASE p # SL!NoProbe
    <3>1. PICK total : total = active_probes[p] + w
      OBVIOUS
    <3>2. total = h[Train(got', p)] /\ total \in Nat
      <4>1. active_probes[p] = g[Train(got, p)] /\ active_probes[p] \in Nat
        BY <2>5, <2>6, <2>7, <2>11
      <4>2. h[Train(got', p)] = g[Train(got, p)] + w
        BY <2>4
      <4> QED
        BY <1>3, <3>1, <4>1, <4>2
    <3>3. SL!HandleProbe(i)
      BY <1>1, <1>6, <1>8, <2>11 DEF SL!HandlePacket
    <3>4. IF Traffic[i].last
          THEN /\ results' = Append(results, [probe |-> p, units |-> total])
               /\ active_probes' = [active_probes EXCEPT ![p] = 0]
          ELSE active_probes' = [active_probes EXCEPT ![p] = total] /\ results' = results
      BY <1>1, <1>3, <3>1, <3>3 DEF SL!HandleProbe, SL!ProbeKey
    <3>5. active_probes' \in [SL!Probes -> Nat]
          /\ (\A q \in SL!Probes : q # p => active_probes'[q] = active_probes[q])
          /\ (~Traffic[i].last => active_probes'[p] = total)
      <4>1. CASE Traffic[i].last
        BY <2>6, <2>7, <3>4, <4>1
      <4>2. CASE ~Traffic[i].last
        BY <2>6, <2>7, <2>11, <3>2, <3>4, <4>2
      <4> QED
        BY <4>1, <4>2
    <3>6. \A q \in SL!Probes : ~Ended(got', q) => active_probes'[q] = h[Train(got', q)]
      <4>1. ASSUME NEW q \in SL!Probes, ~Ended(got', q) PROVE active_probes'[q] = h[Train(got', q)]
        <5>1. CASE q = p
          BY <2>3, <3>2, <3>5, <4>1, <5>1
        <5>2. CASE q # p
          BY <2>3, <2>4, <2>6, <3>5, <4>1, <5>2, Zenon
        <5> QED
          BY <5>1, <5>2
      <4> QED
        BY <4>1
    <3>7. CASE ~Traffic[i].last
      <4>1. Measures(h, got', active_probes', results')
        BY <2>8, <2>9, <3>4, <3>6, <3>7 DEF Measures
      <4> QED
        BY <1>8, <2>6, <3>4, <3>5, <3>7, <4>1 DEF ProbesInv
    <3>8. CASE Traffic[i].last
      <4>1. PICK x, t : x = [probe |-> p, units |-> total] /\ t = Append(results, x)
        OBVIOUS
      <4>2. x \in [probe : SL!Probes, units : Nat] /\ x.probe = p /\ x.units = total
        BY <2>7, <2>11, <3>2, <4>1
      <4>3. /\ t \in Seq([probe : SL!Probes, units : Nat]) /\ Len(t) = Len(results) + 1 /\ Len(results) \in Nat
            /\ t[Len(results) + 1] = x /\ \A r \in 1 .. Len(results) : t[r] = results[r]
        BY <2>6, <4>1, <4>2, AppendProperties, LenProperties
      <4>4. results' = t
        BY <3>4, <3>8, <4>1
      <4>5. Ended(got', p)
        BY <2>3, <3>8
      <4>6. ASSUME NEW r \in 1 .. Len(t)
            PROVE  Ended(got', t[r].probe) /\ t[r].units = h[Train(got', t[r].probe)]
        <5>1. CASE r = Len(results) + 1
          <6>1. t[r].probe = p /\ t[r].units = total
            BY <4>2, <4>3, <5>1
          <6> QED
            BY <3>2, <4>5, <6>1
        <5>2. CASE r # Len(results) + 1
          <6>1. r \in 1 .. Len(results)
            BY <4>3, <5>2
          <6> QED
            BY <2>9, <4>3, <6>1
        <5> QED
          BY <5>1, <5>2
      <4>7. Measures(h, got', active_probes', results')
        BY <2>8, <3>6, <4>4, <4>6 DEF Measures
      <4> QED
        BY <1>8, <3>5, <4>3, <4>4, <4>7 DEF ProbesInv
    <3> QED
      BY <3>7, <3>8
  <2> QED
    BY <2>10, <2>11
<1> QED
  BY <1>7, <1>8

LEMMA ProbesOther ==
    ASSUME ProbesInv, UNCHANGED <<protocol, got, active_probes, results>>
    PROVE  ProbesInv'
BY DEF ProbesInv

LEMMA StreamNext ==
    ASSUME FramesInv, ProbesInv, [SL!Next]_SL!vars
    PROVE  FramesInv' /\ ProbesInv'
<1>1. ASSUME UNCHANGED SL!traffic, UNCHANGED protocol
      PROVE  FramesInv' /\ ProbesInv'
  <2>1. UNCHANGED <<next, pending, stream, want, sent, got, active_probes, results>>
    BY <1>1 DEF SL!traffic
  <2> QED
    BY <1>1, <2>1, ProbesOther DEF FramesInv
<1>2. ASSUME SL!StartListening PROVE FramesInv' /\ ProbesInv'
  BY <1>1, <1>2 DEF SL!StartListening
<1>3. ASSUME SL!Accept PROVE FramesInv' /\ ProbesInv'
  BY <1>1, <1>3 DEF SL!Accept
<1>4. ASSUME SL!DropPacket PROVE FramesInv' /\ ProbesInv'
  <2>1. UNCHANGED <<protocol, got, active_probes, results>>
    BY <1>4 DEF SL!DropPacket, SL!setup
  <2> QED
    BY <1>4, <2>1, FramesDropPacket, ProbesOther
<1>5. ASSUME SL!ReadLength PROVE FramesInv' /\ ProbesInv'
  <2>1. UNCHANGED <<protocol, got, active_probes, results>>
    BY <1>5 DEF SL!ReadLength, SL!setup
  <2> QED
    BY <1>5, <2>1, FramesReadLength, ProbesOther
<1>6. ASSUME SL!ReadBody PROVE FramesInv' /\ ProbesInv'
  <2>1. UNCHANGED protocol
    BY <1>6 DEF SL!ReadBody, SL!setup
  <2>2. FramesInv'
    BY <1>6, FramesReadBody
  <2>3. CASE got' = got
    BY <1>6, <2>1, <2>3, FramesReadBody, ProbesOther
  <2>4. CASE got' # got
    <3>1. PICK us : /\ got' = Append(got, us) /\ SL!HandlePacket(us[1].packet)
                    /\ Len(got) + 1 \in 1 .. Len(sent) /\ sent[Len(got) + 1] \in DOMAIN Traffic
                    /\ Body(us, sent[Len(got) + 1], Traffic[sent[Len(got) + 1]].size)
      BY <1>6, <2>4, FramesReadBody
    <3> QED
      BY <2>1, <2>2, <3>1, ProbesPacket
  <2> QED
    BY <2>2, <2>3, <2>4
<1>7. ASSUME NEW c \in Clients, SL!Dial(c) \/ SL!SendNodeId(c) \/ SL!ClientDies(c) \/ SL!ReadNodeId(c)
      PROVE  FramesInv' /\ ProbesInv'
  BY <1>1, <1>7 DEF SL!Dial, SL!SendNodeId, SL!ClientDies, SL!ReadNodeId
<1>8. ASSUME NEW n \in 1 .. 2, SL!WritePackets(n) PROVE FramesInv' /\ ProbesInv'
  <2>1. UNCHANGED <<protocol, got, active_probes, results>>
    BY <1>8 DEF SL!WritePackets, SL!setup
  <2>2. TrafficOK
    BY DEF FramesInv
  <2> QED
    BY <1>8, <2>1, <2>2, FramesWrite, ProbesOther
<1>9. ASSUME NEW k \in 1 .. Len(pending), SL!WriteVectored(k) PROVE FramesInv' /\ ProbesInv'
  <2>1. UNCHANGED <<protocol, got, active_probes, results>>
    BY <1>9 DEF SL!WriteVectored, SL!setup
  <2> QED
    BY <1>9, <2>1, FramesWriteVectored, ProbesOther
<1>10. ASSUME UNCHANGED SL!vars PROVE FramesInv' /\ ProbesInv'
  BY <1>1, <1>10 DEF SL!vars, SL!traffic
<1> QED
  BY <1>2, <1>3, <1>4, <1>5, <1>6, <1>7, <1>8, <1>9, <1>10 DEF SL!Next

\* The units the reader sees are those of the frames: framing and probes hold.
LEMMA StreamSafe ==
    ASSUME FramesInv, ProbesInv PROVE SL!ReaderSeesWhatWasSent
<1>1. Whole(got, sent)
  BY DEF FramesInv
<1>2. got \in Seq(Seq(UnitType)) /\ DOMAIN got = 1 .. Len(got) /\ DOMAIN results = 1 .. Len(results)
  BY <1>1, LenProperties DEF Whole, ProbesInv
<1>3. SL!FramesArriveWhole
  <2>1. ASSUME NEW i \in DOMAIN got
        PROVE  /\ Len(got[i]) = Traffic[sent[i]].size
               /\ \A j \in DOMAIN got[i] : got[i][j] = [len |-> 0, packet |-> sent[i]]
    <3>1. Body(got[i], sent[i], Traffic[sent[i]].size)
      BY <1>1, <1>2 DEF Whole
    <3>2. DOMAIN got[i] = 1 .. Traffic[sent[i]].size
      BY <3>1, LenProperties DEF Body
    <3> QED
      BY <3>1, <3>2 DEF Body
  <2> QED
    BY <1>1, <2>1 DEF Whole, SL!FramesArriveWhole
<1>4. SL!ProbeMeasuresOwnTrain
  <2>1. ASSUME NEW r \in DOMAIN results
        PROVE  results[r].units = Total(got, {i \in DOMAIN got : Traffic[got[i][1].packet].probe = results[r].probe})
    <3>1. protocol = "Tcp"
      <4>1. results # << >>
        BY <2>1
      <4> QED
        BY <4>1 DEF ProbesInv
    <3>2. PICK g : Measures(g, got, active_probes, results)
      BY <3>1 DEF ProbesInv
    <3>3. results[r].units = g[Train(got, results[r].probe)] /\ Adds(g, got)
      BY <1>2, <3>2 DEF Measures
    <3>4. Train(got, results[r].probe) = {i \in DOMAIN got : Traffic[got[i][1].packet].probe = results[r].probe}
      BY <1>2 DEF Train, ProbeOf
    <3>5. Train(got, results[r].probe) \in SUBSET (1 .. Len(got))
      BY DEF Train
    <3>6. Total(got, Train(got, results[r].probe)) = g[Train(got, results[r].probe)]
      BY <1>2, <3>3, <3>5, AddsTotal
    <3> QED
      BY <3>3, <3>4, <3>6
  <2> QED
    BY <2>1, Zenon DEF Total, SL!ProbeMeasuresOwnTrain
<1> QED
  BY <1>3, <1>4 DEF SL!ReaderSeesWhatWasSent

\* What the reader of a TCP or QUIC link hands over are the packets written, whole
\* and in order, and a probe result counts the packets of its own train.
THEOREM ReadersSeeWhatWasSent ==
    ASSUME TrafficOK
    PROVE  SL!Spec => []SL!ReaderSeesWhatWasSent
<1>1. SL!Init => FramesInv /\ ProbesInv
  BY FramesInit, ProbesInit
<1>2. (FramesInv /\ ProbesInv) /\ [SL!Next]_SL!vars => (FramesInv /\ ProbesInv)'
  BY StreamNext
<1>3. FramesInv /\ ProbesInv => SL!ReaderSeesWhatWasSent
  BY StreamSafe
<1> QED
  BY <1>1, <1>2, <1>3, PTL DEF SL!Spec

-----------------------------------------------------------------------------
(* The composition: a part that runs is a behaviour of its module *)

LEMMA StatsRuns == Spec => FS!Spec \/ []~(part = "stats")
<1>1. Init /\ part = "stats" => FS!Init
  BY DEF Init
<1>2. part = "stats" /\ [Next]_vars => [FS!Next]_(FS!vars)
  BY DEF Next, vars, statsVars, FS!vars
<1>3. part = "stats" /\ [Next]_vars => (part = "stats")'
  BY DEF Next, vars
<1>4. ~(part = "stats") /\ [Next]_vars => ~(part = "stats")'
  BY DEF Next, vars
<1> QED
  BY <1>1, <1>2, <1>3, <1>4, PTL DEF Spec, FS!Spec

LEMMA StreamRuns == Spec => SL!Spec \/ []~(part = "stream")
<1>1. Init /\ part = "stream" => SL!Init
  BY DEF Init
<1>2. part = "stream" /\ [Next]_vars => [SL!Next]_(SL!vars)
  BY DEF Next, vars, streamVars, SL!vars
<1>3. part = "stream" /\ [Next]_vars => (part = "stream")'
  BY DEF Next, vars
<1>4. ~(part = "stream") /\ [Next]_vars => ~(part = "stream")'
  BY DEF Next, vars
<1> QED
  BY <1>1, <1>2, <1>3, <1>4, PTL DEF Spec, SL!Spec

LEMMA UdpRuns == Spec => UL!Spec \/ []~(part = "udp")
<1>1. Init /\ part = "udp" => UL!Init
  BY DEF Init
<1>2. part = "udp" /\ [Next]_vars => [UL!Next]_(UL!vars)
  BY DEF Next, vars, udpVars, UL!vars
<1>3. part = "udp" /\ [Next]_vars => (part = "udp")'
  BY DEF Next, vars
<1>4. ~(part = "udp") /\ [Next]_vars => ~(part = "udp")'
  BY DEF Next, vars
<1> QED
  BY <1>1, <1>2, <1>3, <1>4, PTL DEF Spec, UL!Spec

LEMMA FlowsRuns == Spec => UF!Spec \/ []~(part = "flows")
<1>1. Init /\ part = "flows" => UF!Init
  BY DEF Init
<1>2. part = "flows" /\ [Next]_vars => [UF!Next]_(UF!vars)
  BY DEF Next, vars, flowVars, UF!vars
<1>3. part = "flows" /\ [Next]_vars => (part = "flows")'
  BY DEF Next, vars
<1>4. ~(part = "flows") /\ [Next]_vars => ~(part = "flows")'
  BY DEF Next, vars
<1> QED
  BY <1>1, <1>2, <1>3, <1>4, PTL DEF Spec, UF!Spec

\* FlowStore::flush, handle_connection: whatever the controller applies to a flow
\* finds the row that its start made.
THEOREM NoReportIsOrphaned == Spec => []NoOrphanReports
<1>1. FS!NoOrphanReports => NoOrphanReports
  BY DEF NoOrphanReports
<1>2. ~(part = "stats") => NoOrphanReports
  BY DEF NoOrphanReports
<1>3. FS!Spec => []FS!NoOrphanReports
  BY ReportsHaveRows, ServicesAssumption
<1> QED
  BY <1>1, <1>2, <1>3, StatsRuns, PTL

\* FlowStore::flush, handle_connection: a user-space flow all of whose threads
\* are done is recorded as finished.
THEOREM StartedFlowsSettle == Spec => []UserFlowSettles
<1>1. FS!UserFlowSettles => UserFlowSettles
  BY DEF UserFlowSettles
<1>2. ~(part = "stats") => UserFlowSettles
  BY DEF UserFlowSettles
<1>3. FS!Spec => []FS!UserFlowSettles
  BY UserFlowsSettle, ServicesAssumption DEF ClientNames
<1> QED
  BY <1>1, <1>2, <1>3, StatsRuns, PTL

\* read_packet, write_packets, handle_probe: a stream link hands over the packets
\* that were written, and probe results count their own train.
THEOREM LinksDeliverWhatWasSent == Spec => []ReaderSeesWhatWasSent
<1>1. SL!ReaderSeesWhatWasSent => ReaderSeesWhatWasSent
  BY DEF ReaderSeesWhatWasSent
<1>2. ~(part = "stream") => ReaderSeesWhatWasSent
  BY DEF ReaderSeesWhatWasSent
<1>3. SL!Spec => []SL!ReaderSeesWhatWasSent
  BY ReadersSeeWhatWasSent, ServicesAssumption
<1> QED
  BY <1>1, <1>2, <1>3, StreamRuns, PTL

\* start_listening: a packet that finds its UDP peer reaches the processors, while
\* peers are replaced too.
THEOREM UdpPeersLoseNothing == Spec => []KnownPeerLosesNothing
<1>1. UL!KnownPeerLosesNothing => KnownPeerLosesNothing
  BY DEF KnownPeerLosesNothing
<1>2. ~(part = "udp") => KnownPeerLosesNothing
  BY DEF KnownPeerLosesNothing
<1>3. UL!Spec => []UL!KnownPeerLosesNothing
  BY KnownPeersLoseNothing, ServicesAssumption
<1> QED
  BY <1>1, <1>2, <1>3, UdpRuns, PTL

\* UserSpaceClient::run, run_sender_flow: a flow that has reported its finish holds
\* nothing any more.
THEOREM FinishedRunsHoldNothing == Spec => []FinishReleasesRun
<1>1. UF!FinishReleasesRun => FinishReleasesRun
  BY DEF FinishReleasesRun
<1>2. ~(part = "flows") => FinishReleasesRun
  BY DEF FinishReleasesRun
<1>3. UF!Spec => []UF!FinishReleasesRun
  BY FinishesReleaseRuns, ServicesAssumption
<1> QED
  BY <1>1, <1>2, <1>3, FlowsRuns, PTL
=============================================================================
