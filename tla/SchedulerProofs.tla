--------------------------- MODULE SchedulerProofs ---------------------------
(***************************************************************************)
(* Proofs about Scheduler, for every set of flows, every capacity, every   *)
(* kind of packet, every weight and bucket size and any number of packets. *)
(***************************************************************************)
EXTENDS Scheduler, TLAPS, FiniteSetTheorems

USE CapacityAssumption, SizesAssumption, WeightsAssumption, BoundsAssumption

-----------------------------------------------------------------------------
(* Sequences of packets *)

\* The packets of s are packets of t.
Within(s, t) == \A i \in DOMAIN s : \E j \in DOMAIN t : s[i] = t[j]

LEMMA EmptyOrder ==
    /\ << >> \in Seq(Packets) /\ Ascending(<< >>) /\ \A n : UpTo(<< >>, n)
    /\ \A t : Precedes(<< >>, t) /\ Precedes(t, << >>) /\ Within(<< >>, t) /\ Within(t, t)
BY DEF Ascending, Precedes, Within, UpTo

LEMMA OneOrder ==
    ASSUME NEW p \in Packets
    PROVE  <<p>> \in Seq(Packets) /\ Ascending(<<p>>) /\ DOMAIN <<p>> = {1} /\ <<p>>[1] = p
BY DEF Ascending

\* Fewer packets in either place keep the order.
LEMMA WithinKeepsOrder ==
    ASSUME NEW s, NEW t, NEW u, Within(s, t)
    PROVE  /\ Precedes(t, u) => Precedes(s, u)
           /\ Precedes(u, t) => Precedes(u, s)
           /\ Within(t, u) => Within(s, u)
           /\ \A n : UpTo(t, n) => UpTo(s, n)
BY DEF Within, Precedes, UpTo

LEMMA AppendOrder ==
    ASSUME NEW s \in Seq(Packets), NEW p \in Packets
    PROVE  /\ Append(s, p) \in Seq(Packets)
           /\ \A n : UpTo(s, n) /\ UpTo(<<p>>, n) => UpTo(Append(s, p), n)
           /\ Ascending(s) /\ Precedes(s, <<p>>) => Ascending(Append(s, p))
           /\ \A u : Precedes(s, u) /\ Precedes(<<p>>, u) => Precedes(Append(s, p), u)
           /\ \A u : Precedes(u, s) /\ Precedes(u, <<p>>) => Precedes(u, Append(s, p))
<1> DEFINE a == Append(s, p)
<1>1. /\ a \in Seq(Packets) /\ DOMAIN a = 1 .. (Len(s) + 1) /\ DOMAIN s = 1 .. Len(s)
      /\ Len(s) \in Nat /\ a[Len(s) + 1] = p /\ \A i \in 1 .. Len(s) : a[i] = s[i]
  OBVIOUS
<1>2. DOMAIN <<p>> = {1} /\ <<p>>[1] = p
  OBVIOUS
<1> HIDE DEF a
<1>3. ASSUME Ascending(s), Precedes(s, <<p>>), NEW i \in DOMAIN a, NEW j \in DOMAIN a, i < j,
             a[i].flow = a[j].flow
      PROVE  a[i].id < a[j].id
  <2>1. CASE j = Len(s) + 1
    <3>1. i \in DOMAIN s /\ a[i] = s[i] /\ a[j] = <<p>>[1]
      BY <1>1, <1>2, <1>3, <2>1
    <3> QED
      BY <1>2, <1>3, <3>1 DEF Precedes
  <2>2. CASE j # Len(s) + 1
    <3>1. i \in DOMAIN s /\ j \in DOMAIN s /\ a[i] = s[i] /\ a[j] = s[j]
      BY <1>1, <1>3, <2>2
    <3> QED
      BY <1>3, <3>1 DEF Ascending
  <2> QED
    BY <2>1, <2>2
<1>4. \A i \in DOMAIN a : (i \in DOMAIN s /\ a[i] = s[i]) \/ (1 \in DOMAIN <<p>> /\ a[i] = <<p>>[1])
  BY <1>1, <1>2
<1>5. \A u : Precedes(s, u) /\ Precedes(<<p>>, u) => Precedes(a, u)
  BY <1>4 DEF Precedes
<1>6. \A u : Precedes(u, s) /\ Precedes(u, <<p>>) => Precedes(u, a)
  BY <1>4 DEF Precedes
<1>7. Ascending(s) /\ Precedes(s, <<p>>) => Ascending(a)
  BY <1>3 DEF Ascending
<1>8. \A n : UpTo(s, n) /\ UpTo(<<p>>, n) => UpTo(a, n)
  BY <1>4 DEF UpTo
<1> QED
  BY <1>1, <1>8, <1>5, <1>6, <1>7 DEF a

LEMMA TailOrder ==
    ASSUME NEW s \in Seq(Packets), s # << >>
    PROVE  /\ Head(s) \in Packets /\ Tail(s) \in Seq(Packets)
           /\ 1 \in DOMAIN s /\ Head(s) = s[1]
           /\ Within(Tail(s), s) /\ Within(<<Head(s)>>, s)
           /\ Ascending(s) => Ascending(Tail(s)) /\ Precedes(<<Head(s)>>, Tail(s))
<1> DEFINE t == Tail(s)
           h == <<Head(s)>>
<1>1. /\ Head(s) \in Packets /\ t \in Seq(Packets) /\ Len(s) \in Nat
      /\ DOMAIN s = 1 .. Len(s) /\ DOMAIN t = 1 .. (Len(s) - 1) /\ 1 \in DOMAIN s
      /\ Head(s) = s[1]
      /\ \A i \in DOMAIN t : i + 1 \in DOMAIN s /\ t[i] = s[i + 1]
      /\ DOMAIN h = {1} /\ h[1] = s[1]
  OBVIOUS
<1> HIDE DEF t, h
<1>2. Within(t, s) /\ Within(h, s)
  BY <1>1 DEF Within
<1>3. ASSUME Ascending(s) PROVE Ascending(t) /\ Precedes(h, t)
  <2>1. ASSUME NEW i \in DOMAIN t, NEW j \in DOMAIN t, i < j, t[i].flow = t[j].flow
        PROVE  t[i].id < t[j].id
    <3>1. /\ i + 1 \in DOMAIN s /\ j + 1 \in DOMAIN s /\ i + 1 < j + 1
          /\ t[i] = s[i + 1] /\ t[j] = s[j + 1]
      BY <1>1, <2>1
    <3> QED
      BY <1>3, <2>1, <3>1 DEF Ascending
  <2>2. ASSUME NEW i \in DOMAIN h, NEW j \in DOMAIN t, h[i].flow = t[j].flow
        PROVE  h[i].id < t[j].id
    <3>1. /\ j + 1 \in DOMAIN s /\ 1 < j + 1 /\ t[j] = s[j + 1] /\ h[i] = s[1]
      BY <1>1, <2>2
    <3> QED
      BY <1>1, <1>3, <2>2, <3>1 DEF Ascending
  <2> QED
    BY <2>1, <2>2 DEF Ascending, Precedes
<1> QED
  BY <1>1, <1>2, <1>3 DEF t, h

LEMMA ConcatOrder ==
    ASSUME NEW s \in Seq(Packets), NEW t \in Seq(Packets)
    PROVE  /\ s \o t \in Seq(Packets)
           /\ Ascending(s) /\ Ascending(t) /\ Precedes(s, t) => Ascending(s \o t)
           /\ \A u : Precedes(s, u) /\ Precedes(t, u) => Precedes(s \o t, u)
           /\ \A u : Precedes(u, s) /\ Precedes(u, t) => Precedes(u, s \o t)
           /\ \A n : UpTo(s, n) /\ UpTo(t, n) => UpTo(s \o t, n)
           /\ \A i \in DOMAIN (s \o t) :
                 \/ i \in DOMAIN s /\ (s \o t)[i] = s[i]
                 \/ i - Len(s) \in DOMAIN t /\ (s \o t)[i] = t[i - Len(s)] /\ i > Len(s)
<1> DEFINE c == s \o t
<1>1. /\ c \in Seq(Packets) /\ DOMAIN c = 1 .. (Len(s) + Len(t))
      /\ DOMAIN s = 1 .. Len(s) /\ DOMAIN t = 1 .. Len(t) /\ Len(s) \in Nat /\ Len(t) \in Nat
      /\ \A i \in DOMAIN s : c[i] = s[i]
      /\ \A i \in DOMAIN c : i > Len(s) => c[i] = t[i - Len(s)]
  OBVIOUS
<1> HIDE DEF c
<1>2. \A i \in DOMAIN c : \/ i \in DOMAIN s /\ c[i] = s[i]
                          \/ i - Len(s) \in DOMAIN t /\ c[i] = t[i - Len(s)] /\ i > Len(s)
  BY <1>1
<1>3. ASSUME Ascending(s), Ascending(t), Precedes(s, t),
             NEW i \in DOMAIN c, NEW j \in DOMAIN c, i < j, c[i].flow = c[j].flow
      PROVE  c[i].id < c[j].id
  <2>1. i \in Int /\ j \in Int
    BY <1>1
  <2>2. CASE i \in DOMAIN s /\ j \in DOMAIN s
    BY <1>1, <1>3, <2>2 DEF Ascending
  <2>3. CASE i \in DOMAIN s /\ j > Len(s)
    <3>1. j - Len(s) \in DOMAIN t /\ c[j] = t[j - Len(s)] /\ c[i] = s[i]
      BY <1>1, <2>1, <2>3
    <3> QED
      BY <1>3, <2>3, <3>1 DEF Precedes
  <2>4. CASE i > Len(s) /\ j > Len(s)
    <3>1. /\ j - Len(s) \in DOMAIN t /\ c[j] = t[j - Len(s)]
          /\ i - Len(s) \in DOMAIN t /\ c[i] = t[i - Len(s)] /\ i - Len(s) < j - Len(s)
      BY <1>1, <1>3, <2>1, <2>4
    <3> QED
      BY <1>3, <3>1 DEF Ascending
  <2> QED
    BY <1>1, <1>3, <2>1, <2>2, <2>3, <2>4
<1>4. /\ \A u : Precedes(s, u) /\ Precedes(t, u) => Precedes(c, u)
      /\ \A u : Precedes(u, s) /\ Precedes(u, t) => Precedes(u, c)
      /\ \A n : UpTo(s, n) /\ UpTo(t, n) => UpTo(c, n)
  BY <1>2 DEF Precedes, UpTo
<1>5. Ascending(s) /\ Ascending(t) /\ Precedes(s, t) => Ascending(c)
  BY <1>3 DEF Ascending
<1> QED
  BY <1>1, <1>2, <1>4, <1>5 DEF c

\* Taking the first n packets off
LEMMA SplitOrder ==
    ASSUME NEW s \in Seq(Packets), NEW n \in 0 .. Len(s)
    PROVE  LET a == SubSeq(s, 1, n)
               b == SubSeq(s, n + 1, Len(s))
           IN  /\ a \in Seq(Packets) /\ b \in Seq(Packets) /\ Len(a) = n /\ Len(b) = Len(s) - n
               /\ Within(a, s) /\ Within(b, s)
               /\ \A i \in DOMAIN s : (\E j \in DOMAIN a : a[j] = s[i])
                                      \/ (\E j \in DOMAIN b : b[j] = s[i])
               /\ \A i \in DOMAIN a, j \in DOMAIN b :
                     \E k, m \in DOMAIN s : k < m /\ a[i] = s[k] /\ b[j] = s[m]
               /\ \A i \in DOMAIN a : i \in DOMAIN s /\ a[i] = s[i]
               /\ Ascending(s) => Ascending(a) /\ Ascending(b) /\ Precedes(a, b)
<1> DEFINE a == SubSeq(s, 1, n)
           b == SubSeq(s, n + 1, Len(s))
<1>1. /\ Len(s) \in Nat /\ DOMAIN s = 1 .. Len(s)
      /\ a \in Seq(Packets) /\ Len(a) = n /\ DOMAIN a = 1 .. n
      /\ \A i \in 1 .. n : a[i] = s[i]
  OBVIOUS
<1>2. /\ b \in Seq(Packets) /\ Len(b) = Len(s) - n /\ DOMAIN b = 1 .. (Len(s) - n)
      /\ \A i \in 1 .. (Len(s) - n) : b[i] = s[n + i]
  OBVIOUS
<1> HIDE DEF a, b
<1>3. Within(a, s) /\ Within(b, s)
  <2>1. ASSUME NEW i \in DOMAIN a PROVE i \in DOMAIN s /\ a[i] = s[i]
    BY <1>1, <2>1
  <2>2. ASSUME NEW i \in DOMAIN b PROVE n + i \in DOMAIN s /\ b[i] = s[n + i]
    BY <1>1, <1>2, <2>2
  <2> QED
    BY <2>1, <2>2 DEF Within
<1>4. \A i \in DOMAIN s : (\E j \in DOMAIN a : a[j] = s[i]) \/ (\E j \in DOMAIN b : b[j] = s[i])
  <2> TAKE i \in DOMAIN s
  <2>1. CASE i <= n
    <3>1. i \in DOMAIN a /\ a[i] = s[i]
      BY <1>1, <2>1
    <3> QED
      BY <3>1
  <2>2. CASE i > n
    <3> DEFINE k == i - n
    <3>1. k \in DOMAIN b /\ n + k = i
      BY <1>1, <1>2, <2>2
    <3>2. b[k] = s[n + k]
      BY <1>2, <3>1
    <3> QED
      BY <3>1, <3>2
  <2> QED
    BY <1>1, <2>1, <2>2
<1>5. ASSUME NEW i \in DOMAIN a, NEW j \in DOMAIN b
      PROVE  i \in DOMAIN s /\ n + j \in DOMAIN s /\ i < n + j /\ a[i] = s[i] /\ b[j] = s[n + j]
  BY <1>1, <1>2
<1>6. ASSUME Ascending(s) PROVE Ascending(a) /\ Ascending(b) /\ Precedes(a, b)
  <2>1. Ascending(a)
    BY <1>1, <1>6 DEF Ascending
  <2>2. ASSUME NEW i \in DOMAIN b, NEW j \in DOMAIN b, i < j, b[i].flow = b[j].flow
        PROVE  b[i].id < b[j].id
    <3>1. i \in Int /\ j \in Int /\ n \in Int
      BY <1>2
    <3>2. n + i \in DOMAIN s /\ n + j \in DOMAIN s /\ n + i < n + j
      BY <1>1, <1>2, <2>2, <3>1
    <3>3. b[i] = s[n + i] /\ b[j] = s[n + j]
      BY <1>2
    <3> QED
      BY <1>6, <2>2, <3>2, <3>3 DEF Ascending
  <2>3. Precedes(a, b)
    BY <1>5, <1>6 DEF Ascending, Precedes
  <2> QED
    BY <2>1, <2>2, <2>3 DEF Ascending
<1>7. \A i \in DOMAIN a, j \in DOMAIN b :
         \E k, m \in DOMAIN s : k < m /\ a[i] = s[k] /\ b[j] = s[m]
  BY <1>5
<1>8. \A i \in DOMAIN a : i \in DOMAIN s /\ a[i] = s[i]
  BY <1>1
<1> QED
  BY <1>1, <1>2, <1>3, <1>4, <1>7, <1>8, <1>6 DEF a, b

-----------------------------------------------------------------------------
(* Types, and where packets may be at all *)

LEMMA ControlTypes ==
    ASSUME NEW m \in ControlMessages
    PROVE  /\ m.kind = "RateLimit" => m.size \in Nat \ {0}
           /\ m.kind = "SetFlowWeight" => m.flow \in Flows /\ m.weight \in Nat
<1>1. \/ \E s \in BucketSizes : m = RateLimit(s)
      \/ m = LinkProbePackets
      \/ \E f \in Flows, w \in Weights : m = SetFlowWeight(f, w)
  BY DEF ControlMessages
<1>2. CASE \E s \in BucketSizes : m = RateLimit(s)
  BY <1>2 DEF RateLimit
<1>3. CASE m = LinkProbePackets
  BY <1>3 DEF LinkProbePackets
<1>4. CASE \E f \in Flows, w \in Weights : m = SetFlowWeight(f, w)
  <2>1. PICK f \in Flows, w \in Weights : m = [kind |-> "SetFlowWeight", flow |-> f, weight |-> w]
    BY <1>4 DEF SetFlowWeight
  <2>2. m.kind = "SetFlowWeight" /\ m.flow = f /\ m.weight = w
    BY <2>1
  <2> QED
    BY <2>2
<1> QED
  BY <1>1, <1>2, <1>3, <1>4

LEMMA ApplyControlTypes ==
    ASSUME SchedTypeOK, ApplyControl
    PROVE  /\ controls' \in Seq(ControlMessages)
           /\ bucket' \in Buckets /\ (bucket' = bucket \/ bucket'.size > 0)
           /\ flow_weights' \in [Flows -> Nat]
<1>1. controls \in Seq(ControlMessages) /\ controls # << >>
  BY DEF SchedTypeOK, ApplyControl
<1>2. Head(controls) \in ControlMessages /\ controls' \in Seq(ControlMessages)
  BY <1>1 DEF ApplyControl
<1> DEFINE m == Head(controls)
<1>3. /\ m.kind = "RateLimit" => m.size \in Nat \ {0}
      /\ m.kind = "SetFlowWeight" => m.flow \in Flows /\ m.weight \in Nat
  BY <1>2, ControlTypes
<1>4. /\ bucket' = IF m.kind = "RateLimit" THEN [size |-> m.size, tokens |-> m.size] ELSE bucket
      /\ flow_weights' = IF m.kind = "SetFlowWeight" /\ config.discipline = "Wrr"
                         THEN [flow_weights EXCEPT ![m.flow] = m.weight] ELSE flow_weights
  BY DEF ApplyControl
<1> HIDE DEF m
<1>5. bucket \in Buckets /\ flow_weights \in [Flows -> Nat]
  BY DEF SchedTypeOK
<1> QED
  BY <1>2, <1>3, <1>4, <1>5 DEF Buckets

LEMMA RefillTypes ==
    ASSUME bucket \in Buckets, NEW b \in Refills
    PROVE  b \in Buckets /\ b.size = bucket.size /\ b.tokens \in bucket.tokens .. bucket.size
BY DEF Buckets, Refills

\* A bucket that is there stays there.
LEMMA BucketStays ==
    ASSUME NEW b \in Buckets
    PROVE  b.size > 0 => b # NoBucket
BY DEF NoBucket

LEMMA TypeInit ==
    SchedInit => SchedTypeOK /\ MeteredOnly
<1> SUFFICES ASSUME SchedInit PROVE SchedTypeOK /\ MeteredOnly
  OBVIOUS
<1>1. MeteredOnly
  BY DEF SchedInit, MeteredOnly
<1>2. /\ config \in Configs /\ offered \in Nat /\ asked \in Nat /\ permits \in Nat
      /\ reader \in ReaderStates /\ packet = NoPacket /\ reader = "Idle" /\ seen_len \in Nat
      /\ notified \in BOOLEAN /\ overtaken \in BOOLEAN /\ writer \in WriterStates
      /\ flow_ids \subseteq Flows /\ turn \subseteq Flows /\ retry_count \in Nat
  BY DEF SchedInit, ReaderStates, WriterStates
<1>3. /\ << >> \in Seq(Packets) /\ << >> \in Seq(ControlMessages)
      /\ flow_weights \in [Flows -> Nat]
  BY DEF SchedInit
<1>4. queue \in [Queues -> Seq(Packets)]
  BY <1>3 DEF SchedInit
<1>5. bucket \in Buckets
  BY DEF SchedInit, Buckets, NoBucket
<1> QED
  BY <1>1, <1>2, <1>3, <1>4, <1>5 DEF SchedTypeOK, SchedInit

\* How many packets a flow's turn takes
LEMMA TurnShare ==
    ASSUME SchedTypeOK, NEW f \in Flows
    PROVE  /\ f \in Queues /\ queue[f] \in Seq(Packets)
           /\ (IF Len(queue[f]) < Weight(f) THEN Len(queue[f]) ELSE Weight(f)) \in 0 .. Len(queue[f])
<1>1. f \in Queues /\ queue[f] \in Seq(Packets) /\ flow_weights[f] \in Nat
  BY DEF SchedTypeOK, Queues
<1>2. Weight(f) \in Nat /\ Len(queue[f]) \in Nat
  BY <1>1 DEF Weight
<1> QED
  BY <1>1, <1>2

LEMMA TypeNext ==
    ASSUME SchedTypeOK, MeteredOnly, [SchedNext]_schedVars
    PROVE  SchedTypeOK' /\ MeteredOnly'
<1> USE DEF ReaderStates, WriterStates
<1>a. /\ \A s \in Seq(Packets) : s # << >> => Head(s) \in Packets /\ Tail(s) \in Seq(Packets)
      /\ \A s \in Seq(Packets), p \in Packets : Append(s, p) \in Seq(Packets)
      /\ \A s, t \in Seq(Packets) : s \o t \in Seq(Packets)
      /\ << >> \in Seq(Packets)
  BY TailOrder, AppendOrder, ConcatOrder, EmptyOrder
<1>1. ASSUME NEW k \in Kinds, Offer(k) PROVE SchedTypeOK' /\ MeteredOnly'
  <2>1. offered' \in Nat \ {0} /\ Packet(offered', k) \in Packets
    BY <1>1 DEF SchedTypeOK, Offer, Packet, Packets
  <2>2. channel' \in Seq(Packets)
    <3>1. channel \in Seq(Packets) /\ Append(channel, Packet(offered', k)) \in Seq(Packets)
      BY <2>1, AppendOrder DEF SchedTypeOK
    <3> QED
      BY <1>1, <3>1 DEF Offer
  <2> QED
    BY <1>1, <2>1, <2>2 DEF SchedTypeOK, MeteredOnly, Offer, controlVars, collectVars, sendVars
<1>2. ASSUME NEW m \in ControlMessages, SendControl(m) PROVE SchedTypeOK' /\ MeteredOnly'
  <2>1. controls' \in Seq(ControlMessages)
    BY <1>2 DEF SchedTypeOK, SendControl
  <2> QED
    BY <1>2, <2>1 DEF SchedTypeOK, MeteredOnly, SendControl, readerVars, collectVars, sendVars
<1>3. CASE TakePacket
  BY <1>3, <1>a DEF SchedTypeOK, MeteredOnly, TakePacket, controlVars, collectVars, sendVars
<1>4. CASE AcquireSlot
  BY <1>4 DEF SchedTypeOK, MeteredOnly, AcquireSlot, controlVars, collectVars, sendVars
<1>5. CASE MeasureQueue
  <2>1. /\ reader' \in ReaderStates /\ packet' \in Packets \cup {NoPacket}
        /\ reader' # "Idle" => packet' \in Packets
        /\ seen_len' \in Nat
    <3>1. reader = "Measure" /\ packet \in Packets
      BY <1>5 DEF SchedTypeOK, MeasureQueue
    <3>2. Len(queue[QueueOf(packet)]) \in Nat
      BY <3>1 DEF SchedTypeOK, QueueOf, Queues, Packets
    <3> QED
      BY <1>5, <3>1, <3>2 DEF SchedTypeOK, MeasureQueue, Forget
  <2> QED
    BY <1>5, <2>1 DEF SchedTypeOK, MeteredOnly, MeasureQueue, controlVars, collectVars, sendVars
<1>6. CASE PushPacket
  <2>1. packet \in Packets /\ QueueOf(packet) \in Queues
    BY <1>6 DEF SchedTypeOK, PushPacket, QueueOf, Queues, Packets
  <2>2. queue' \in [Queues -> Seq(Packets)] /\ permits' \in Nat /\ overtaken' \in BOOLEAN
    <3>1. queue[QueueOf(packet)] \in Seq(Packets) /\ queue \in [Queues -> Seq(Packets)]
      BY <2>1 DEF SchedTypeOK
    <3>2. Append(queue[QueueOf(packet)], packet) \in Seq(Packets)
      BY <2>1, <3>1, AppendOrder
    <3>3. \/ queue' = queue /\ overtaken' = overtaken
          \/ /\ queue' = [queue EXCEPT ![QueueOf(packet)] = Append(queue[QueueOf(packet)], packet)]
             /\ overtaken' \in BOOLEAN
      BY <1>6 DEF PushPacket
    <3>4. permits' \in Nat
      BY <1>6 DEF SchedTypeOK, PushPacket
    <3>5. queue' \in [Queues -> Seq(Packets)]
      BY <2>1, <3>1, <3>2, <3>3
    <3>6. overtaken' \in BOOLEAN
      BY <3>3 DEF SchedTypeOK
    <3> QED
      BY <3>4, <3>5, <3>6
  <2>3. /\ reader' \in ReaderStates /\ packet' \in Packets \cup {NoPacket}
        /\ reader' # "Idle" => packet' \in Packets
        /\ seen_len' \in Nat
    BY <1>6, <2>1 DEF SchedTypeOK, PushPacket, Forget
  <2> QED
    BY <1>6, <2>2, <2>3 DEF SchedTypeOK, MeteredOnly, PushPacket, controlVars, collectVars, sendVars
<1>7. CASE NotifyWriter
  BY <1>7 DEF SchedTypeOK, MeteredOnly, NotifyWriter, Forget, controlVars, collectVars, sendVars
<1>8. CASE HandleControl \/ WakeForControl
  <2>1. ApplyControl /\ (writer' = writer \/ (writer = "Wait" /\ writer' = "Check"))
    <3>1. CASE HandleControl
      BY <3>1 DEF HandleControl
    <3>2. CASE WakeForControl
      BY <3>2 DEF WakeForControl
    <3> QED
      BY <1>8, <3>1, <3>2
  <2>2. /\ controls' \in Seq(ControlMessages) /\ flow_weights' \in [Flows -> Nat]
        /\ bucket' \in Buckets /\ (bucket' = bucket \/ bucket'.size > 0)
    BY <2>1, ApplyControlTypes
  <2>3. SchedTypeOK'
    BY <2>1, <2>2 DEF SchedTypeOK, ApplyControl, readerVars, collectVars
  <2>4. MeteredOnly'
    BY <2>1, <2>2 DEF MeteredOnly, ApplyControl, NoBucket
  <2> QED
    BY <2>3, <2>4
<1>9. CASE ControlsHandled \/ CheckQueues \/ WakeUp
  BY <1>9 DEF SchedTypeOK, MeteredOnly, ControlsHandled, CheckQueues, WakeUp, WriterMoves,
              readerVars, controlVars, collectVars, sendVars
<1>10. CASE PopFifo
  <2>1. Shared \in Queues /\ queue[Shared] \in Seq(Packets)
    BY DEF SchedTypeOK, Queues
  <2>2. batch' \in Seq(Packets) /\ queue' \in [Queues -> Seq(Packets)]
    <3>1. CASE queue[Shared] = << >>
      BY <1>10, <3>1 DEF SchedTypeOK, PopFifo
    <3>2. CASE queue[Shared] # << >>
      <4>1. Head(queue[Shared]) \in Packets /\ Tail(queue[Shared]) \in Seq(Packets)
        BY <2>1, <3>2, TailOrder
      <4>2. batch' = Append(batch, Head(queue[Shared])) /\ queue' = [queue EXCEPT ![Shared] = Tail(queue[Shared])]
        BY <1>10, <3>2 DEF PopFifo
      <4>3. batch' \in Seq(Packets)
        BY <4>1, <4>2, AppendOrder DEF SchedTypeOK
      <4>4. queue' \in [Queues -> Seq(Packets)]
        BY <2>1, <4>1, <4>2 DEF SchedTypeOK
      <4> QED
        BY <4>3, <4>4
    <3> QED
      BY <3>1, <3>2
  <2> QED
    BY <1>10, <2>2 DEF SchedTypeOK, MeteredOnly, PopFifo, readerVars, controlVars, collectVars, sendVars
<1>11. CASE CountRounds
  BY <1>11 DEF SchedTypeOK, MeteredOnly, CountRounds, readerVars, controlVars, sendVars
<1>12. ASSUME NEW f \in Flows, TakeTurn(f) PROVE SchedTypeOK' /\ MeteredOnly'
  <2> DEFINE n == IF Len(queue[f]) < Weight(f) THEN Len(queue[f]) ELSE Weight(f)
  <2>1. f \in Queues /\ queue[f] \in Seq(Packets) /\ n \in 0 .. Len(queue[f])
    BY TurnShare
  <2>2. /\ batch' = batch \o SubSeq(queue[f], 1, n)
        /\ queue' = [queue EXCEPT ![f] = SubSeq(queue[f], n + 1, Len(queue[f]))]
    BY <1>12 DEF TakeTurn
  <2> HIDE DEF n
  <2>3. SubSeq(queue[f], 1, n) \in Seq(Packets) /\ SubSeq(queue[f], n + 1, Len(queue[f])) \in Seq(Packets)
    BY <2>1, SplitOrder
  <2>4. batch' \in Seq(Packets) /\ queue' \in [Queues -> Seq(Packets)]
    BY <1>a, <2>1, <2>2, <2>3 DEF SchedTypeOK
  <2> QED
    BY <1>12, <2>4 DEF SchedTypeOK, MeteredOnly, TakeTurn, readerVars, controlVars, sendVars
<1>13. CASE ReleaseSlots
  <2>1. permits' \in Nat
    BY <1>13 DEF SchedTypeOK, ReleaseSlots
  <2> QED
    BY <1>13, <2>1 DEF SchedTypeOK, MeteredOnly, ReleaseSlots, readerVars, controlVars, collectVars, sendVars
<1>14. CASE SendBatch
  <2>1. bucket' \in Buckets /\ bucket'.size = bucket.size /\ sent' \in Seq(Packets) /\ batch' \in Seq(Packets)
    BY <1>14, <1>a, RefillTypes DEF SchedTypeOK, SendBatch
  <2>2. SchedTypeOK'
    BY <1>14, <2>1 DEF SchedTypeOK, SendBatch, readerVars, controlVars, collectVars
  <2>3. MeteredOnly'
    BY <1>14, <2>1 DEF MeteredOnly, SendBatch, NoBucket
  <2> QED
    BY <2>2, <2>3
<1>15. CASE MeterPacket
  <2>1. Head(batch) \in Packets /\ batch' \in Seq(Packets) /\ Head(batch).size \in Nat
    BY <1>15, <1>a DEF SchedTypeOK, MeterPacket, Packets
  <2>2. bucket' \in Buckets /\ bucket'.size = bucket.size
    <3>1. \/ bucket' = bucket
          \/ bucket.tokens >= Head(batch).size
             /\ bucket' = [bucket EXCEPT !.tokens = bucket.tokens - Head(batch).size]
      BY <1>15 DEF MeterPacket
    <3>2. bucket \in Buckets
      BY DEF SchedTypeOK
    <3>3. CASE bucket' = bucket
      BY <3>2, <3>3
    <3>4. CASE /\ bucket.tokens >= Head(batch).size
               /\ bucket' = [bucket EXCEPT !.tokens = bucket.tokens - Head(batch).size]
      BY <2>1, <3>2, <3>4 DEF Buckets
    <3> QED
      BY <3>1, <3>3, <3>4
  <2>3. sent' \in Seq(Packets) /\ delayed' \in Seq(Packets)
    BY <1>15, <1>a, <2>1 DEF SchedTypeOK, MeterPacket
  <2>4. SchedTypeOK'
    BY <1>15, <2>1, <2>2, <2>3 DEF SchedTypeOK, MeterPacket, readerVars, controlVars, collectVars
  <2>5. MeteredOnly'
    BY <1>15, <2>2 DEF MeteredOnly, MeterPacket, NoBucket
  <2> QED
    BY <2>4, <2>5
<1>16. CASE BatchMetered \/ BatchDone
  BY <1>16 DEF SchedTypeOK, MeteredOnly, BatchMetered, BatchDone, WriterMoves,
               readerVars, controlVars, collectVars, sendVars
<1>17. CASE SendDelayed
  <2>1. Head(delayed) \in Packets /\ Tail(delayed) \in Seq(Packets) /\ Head(delayed).size \in Nat
    BY <1>17, <1>a DEF SchedTypeOK, SendDelayed, Packets
  <2>2. bucket' \in Buckets /\ bucket'.size = bucket.size
    <3>1. \/ bucket' = bucket
          \/ bucket' \in Refills
          \/ \E b \in Refills : /\ b.tokens >= Head(delayed).size
                                /\ bucket' = [b EXCEPT !.tokens = b.tokens - Head(delayed).size]
      BY <1>17 DEF SendDelayed
    <3>2. bucket \in Buckets
      BY DEF SchedTypeOK
    <3>3. ASSUME NEW b \in Refills, b.tokens >= Head(delayed).size,
                 bucket' = [b EXCEPT !.tokens = b.tokens - Head(delayed).size]
          PROVE  bucket' \in Buckets /\ bucket'.size = bucket.size
      <4>1. b \in Buckets /\ b.size = bucket.size
        BY <3>2, RefillTypes
      <4> QED
        BY <2>1, <3>3, <4>1 DEF Buckets
    <3> QED
      BY <3>1, <3>2, <3>3, RefillTypes
  <2>3. sent' \in Seq(Packets) /\ delayed' \in Seq(Packets) /\ retry_count' \in Nat
    <3>1. /\ sent' = sent \/ sent' = Append(sent, Head(delayed))
          /\ delayed' = delayed \/ delayed' = Tail(delayed)
          /\ retry_count' = 0 \/ retry_count' = retry_count + 1
      BY <1>17 DEF SendDelayed
    <3>2. Append(sent, Head(delayed)) \in Seq(Packets)
      BY <2>1, AppendOrder DEF SchedTypeOK
    <3>3. sent \in Seq(Packets) /\ delayed \in Seq(Packets) /\ retry_count \in Nat
      BY DEF SchedTypeOK
    <3>4. sent' \in Seq(Packets) /\ delayed' \in Seq(Packets)
      BY <2>1, <3>1, <3>2, <3>3
    <3>5. retry_count' \in Nat
      BY <3>1, <3>3
    <3> QED
      BY <3>4, <3>5
  <2>4. SchedTypeOK'
    BY <1>17, <2>2, <2>3 DEF SchedTypeOK, SendDelayed, readerVars, controlVars, collectVars
  <2>5. MeteredOnly'
    BY <1>17, <2>2 DEF MeteredOnly, SendDelayed, NoBucket
  <2> QED
    BY <2>4, <2>5
<1>18. CASE UNCHANGED schedVars
  BY <1>18 DEF SchedTypeOK, MeteredOnly, schedVars, readerVars, controlVars, collectVars, sendVars
<1> QED
  BY <1>1, <1>2, <1>3, <1>4, <1>5, <1>6, <1>7, <1>8, <1>9, <1>10, <1>11, <1>12, <1>13, <1>14,
     <1>15, <1>16, <1>17, <1>18 DEF SchedNext, Reader, Writer

-----------------------------------------------------------------------------
(* The order of the packets of a flow *)

\* A packet that was just offered is newer than every other.
LEMMA NewestIsLast ==
    ASSUME NEW s \in Seq(Packets), NEW n \in Nat, NEW p \in Packets, p.id = n + 1, UpTo(s, n)
    PROVE  Precedes(s, <<p>>) /\ UpTo(<<p>>, n + 1) /\ UpTo(s, n + 1)
<1>1. \A i \in DOMAIN s : s[i].id \in Nat
  <2>1. \A i \in DOMAIN s : s[i] \in Packets
    OBVIOUS
  <2> QED
    BY <2>1 DEF Packets
<1>2. DOMAIN <<p>> = {1} /\ <<p>>[1] = p
  OBVIOUS
<1> QED
  BY <1>1, <1>2 DEF UpTo, Precedes

LEMMA InHandTypes ==
    SchedTypeOK => /\ InHand \in Seq(Packets)
                   /\ reader \in {"Acquire", "Measure", "Push"} => packet \in Packets /\ InHand = <<packet>>
                   /\ reader \notin {"Acquire", "Measure", "Push"} => InHand = << >>
BY DEF SchedTypeOK, InHand

\* Queues share no flow.
LEMMA QueuesApart ==
    ASSUME InOwnQueue, NEW q \in Queues, NEW r \in Queues, q # r
    PROVE  Precedes(queue[q], queue[r])
BY DEF InOwnQueue, Precedes, QueueOf

LEMMA PipelineFrame ==
    ASSUME PipelineOrder, UNCHANGED <<offered, channel, queue, batch, delayed, sent>>,
           InHand' = InHand \/ InHand' = << >>
    PROVE  PipelineOrder'
<1>1. CASE InHand' = InHand
  BY <1>1 DEF PipelineOrder
<1>2. CASE InHand' = << >>
  BY <1>2, EmptyOrder DEF PipelineOrder
<1> QED
  BY <1>1, <1>2

\* What the order of what was sent depends on
LEMMA SentFrame ==
    ASSUME FlowOrder, OvertakingIsSmaller, UNCHANGED <<sent, delayed>>,
           bucket # NoBucket => bucket' # NoBucket,
           writer' = "Meter" => writer = "Meter" /\ bucket' = bucket
    PROVE  FlowOrder' /\ OvertakingIsSmaller'
BY DEF FlowOrder, OvertakingIsSmaller

OrderInv == InOwnQueue /\ PipelineOrder /\ OvertakingIsSmaller /\ FlowOrder

LEMMA OrderInit ==
    SchedInit => OrderInv
<1> SUFFICES ASSUME SchedInit PROVE OrderInv
  OBVIOUS
<1>1. InHand = << >>
  BY DEF SchedInit, InHand
<1>2. PipelineOrder
  BY <1>1, EmptyOrder DEF SchedInit, PipelineOrder
<1>3. InOwnQueue /\ OvertakingIsSmaller /\ FlowOrder
  BY DEF SchedInit, InOwnQueue, OvertakingIsSmaller, FlowOrder
<1> QED
  BY <1>2, <1>3 DEF OrderInv

LEMMA OfferOrder ==
    ASSUME SchedTypeOK, SchedTypeOK', OrderInv, NEW k \in Kinds, Offer(k)
    PROVE  OrderInv'
<1> DEFINE p == Packet(offered', k)
<1>1. offered \in Nat /\ offered' = offered + 1 /\ p \in Packets /\ p.id = offered + 1
  <2>1. offered \in Nat /\ offered' = offered + 1
    BY DEF SchedTypeOK, Offer
  <2>2. k.flow \in Flows /\ k.data \in BOOLEAN /\ k.size \in Nat \ {0}
    OBVIOUS
  <2> QED
    BY <2>1, <2>2 DEF Packet, Packets
<1>2. channel' = channel \/ channel' = Append(channel, p)
  BY DEF Offer
<1> HIDE DEF p
<1>3. \A s \in Seq(Packets) :
         UpTo(s, offered) => Precedes(s, <<p>>) /\ UpTo(s, offered') /\ UpTo(<<p>>, offered')
  BY <1>1, NewestIsLast
<1>4. /\ channel \in Seq(Packets) /\ InHand \in Seq(Packets) /\ batch \in Seq(Packets)
      /\ delayed \in Seq(Packets) /\ sent \in Seq(Packets)
      /\ \A q \in Queues : queue[q] \in Seq(Packets)
  BY InHandTypes DEF SchedTypeOK
<1>5. UNCHANGED <<config, queue, batch, delayed, sent, bucket, writer>> /\ InHand' = InHand
  BY DEF Offer, InHand, sendVars
<1>6. /\ Ascending(channel) => Ascending(channel')
      /\ UpTo(channel, offered) => UpTo(channel', offered')
      /\ \A s \in Seq(Packets) : UpTo(s, offered) /\ Precedes(s, channel) => Precedes(s, channel')
  BY <1>1, <1>2, <1>3, <1>4, AppendOrder DEF OrderInv, PipelineOrder
<1>7. PipelineOrder'
  BY <1>3, <1>4, <1>5, <1>6 DEF OrderInv, PipelineOrder
<1>8. InOwnQueue'
  BY <1>5 DEF OrderInv, InOwnQueue, QueueOf
<1> QED
  BY <1>5, <1>7, <1>8, SentFrame DEF OrderInv

LEMMA TakeOrder ==
    ASSUME SchedTypeOK, SchedTypeOK', OrderInv, TakePacket
    PROVE  OrderInv'
<1>1. channel \in Seq(Packets) /\ channel # << >> /\ channel' = Tail(channel)
  BY DEF SchedTypeOK, TakePacket
<1>2. InHand' = <<Head(channel)>>
  BY DEF TakePacket, InHand
<1>3. UNCHANGED <<config, offered, queue, batch, delayed, sent, bucket, writer>>
  BY DEF TakePacket, sendVars
<1>4. /\ Within(channel', channel) /\ Within(InHand', channel)
      /\ Ascending(channel) => Ascending(channel') /\ Precedes(InHand', channel')
  BY <1>1, <1>2, TailOrder
<1>5. /\ \A s : Precedes(s, channel) => Precedes(s, channel') /\ Precedes(s, InHand')
      /\ \A n : UpTo(channel, n) => UpTo(channel', n) /\ UpTo(InHand', n)
  BY <1>4, WithinKeepsOrder
<1>6. PipelineOrder'
  BY <1>3, <1>4, <1>5 DEF OrderInv, PipelineOrder
<1>7. InOwnQueue'
  BY <1>3 DEF OrderInv, InOwnQueue, QueueOf
<1> QED
  BY <1>3, <1>6, <1>7, SentFrame DEF OrderInv

LEMMA PushOrder ==
    ASSUME SchedTypeOK, SchedTypeOK', OrderInv, PushPacket
    PROVE  OrderInv'
<1> DEFINE h == QueueOf(packet)
<1>1. packet \in Packets /\ InHand = <<packet>> /\ InHand' = << >>
  <2>1. reader = "Push" /\ reader' \in {"Idle", "Notify"}
    BY DEF PushPacket, Forget
  <2> QED
    BY <2>1, InHandTypes DEF InHand
<1>2. UNCHANGED <<config, offered, channel, batch, delayed, sent, bucket, writer>>
  BY DEF PushPacket, sendVars
<1>3. h \in Queues /\ queue \in [Queues -> Seq(Packets)]
  BY <1>1 DEF SchedTypeOK, QueueOf, Queues, Packets
<1>4. queue' = queue \/ queue' = [queue EXCEPT ![h] = Append(queue[h], packet)]
  BY DEF PushPacket
<1>5. CASE queue' = queue
  <2>1. PipelineOrder'
    BY <1>1, <1>2, <1>5, PipelineFrame DEF OrderInv
  <2>2. InOwnQueue'
    BY <1>2, <1>5 DEF OrderInv, InOwnQueue, QueueOf
  <2> QED
    BY <1>2, <2>1, <2>2, SentFrame DEF OrderInv
<1>6. CASE queue' = [queue EXCEPT ![h] = Append(queue[h], packet)]
  <2>1. /\ queue'[h] = Append(queue[h], packet) /\ queue[h] \in Seq(Packets)
        /\ \A q \in Queues : q # h => queue'[q] = queue[q]
    BY <1>3, <1>6
  <2>2. /\ Ascending(queue[h]) /\ Precedes(queue[h], InHand) => Ascending(queue'[h])
        /\ \A s : Precedes(queue[h], s) /\ Precedes(InHand, s) => Precedes(queue'[h], s)
        /\ \A s : Precedes(s, queue[h]) /\ Precedes(s, InHand) => Precedes(s, queue'[h])
        /\ \A n : UpTo(queue[h], n) /\ UpTo(InHand, n) => UpTo(queue'[h], n)
    BY <1>1, <2>1, AppendOrder
  <2>3. /\ UpTo(queue'[h], offered) /\ Ascending(queue'[h]) /\ Precedes(queue'[h], channel)
        /\ Precedes(batch, queue'[h]) /\ Precedes(delayed, queue'[h]) /\ Precedes(sent, queue'[h])
    BY <1>3, <2>2 DEF OrderInv, PipelineOrder
  <2>4. PipelineOrder'
    BY <1>1, <1>2, <2>1, <2>3, EmptyOrder DEF OrderInv, PipelineOrder
  <2>5. InOwnQueue'
    <3> SUFFICES ASSUME NEW q \in Queues, NEW i \in DOMAIN queue'[q]
                 PROVE  QueueOf(queue'[q][i]) = q
      BY <1>2 DEF InOwnQueue, QueueOf
    <3>1. CASE q = h
      <4>1. (i \in DOMAIN queue[h] /\ queue'[q][i] = queue[h][i]) \/ queue'[q][i] = packet
        <5> DEFINE s == queue[h]
        <5>1. s \in Seq(Packets) /\ queue'[q] = Append(s, packet)
          BY <2>1, <3>1
        <5> HIDE DEF s
        <5>2. (i \in DOMAIN s /\ queue'[q][i] = s[i]) \/ queue'[q][i] = packet
          BY <5>1
        <5> QED
          BY <5>2 DEF s
      <4> QED
        BY <1>3, <3>1, <4>1 DEF OrderInv, InOwnQueue
    <3>2. CASE q # h
      BY <2>1, <3>2 DEF OrderInv, InOwnQueue
    <3> QED
      BY <3>1, <3>2
  <2> QED
    BY <1>2, <2>4, <2>5, SentFrame DEF OrderInv
<1> QED
  BY <1>4, <1>5, <1>6

\* Collecting the first packets a of a queue and leaving b
LEMMA CollectOrder ==
    ASSUME SchedTypeOK, OrderInv, NEW q \in Queues, NEW a \in Seq(Packets), NEW b \in Seq(Packets),
           Within(a, queue[q]), Within(b, queue[q]),
           Ascending(a), Ascending(b), Precedes(a, b),
           batch' = batch \o a, queue' = [queue EXCEPT ![q] = b],
           UNCHANGED <<config, offered, channel, reader, packet, delayed, sent, bucket>>,
           writer' # "Meter"
    PROVE  OrderInv'
<1>1. /\ batch \in Seq(Packets) /\ queue'[q] = b
      /\ \A r \in Queues : r # q => queue'[r] = queue[r]
      /\ InHand' = InHand
  BY DEF SchedTypeOK, InHand
<1>2. /\ \A s : Precedes(queue[q], s) => Precedes(a, s) /\ Precedes(b, s)
      /\ \A s : Precedes(s, queue[q]) => Precedes(s, a) /\ Precedes(s, b)
      /\ \A n : UpTo(queue[q], n) => UpTo(a, n) /\ UpTo(b, n)
  BY WithinKeepsOrder
<1>3. /\ Ascending(batch) /\ Ascending(a) /\ Precedes(batch, a) => Ascending(batch')
      /\ \A s : Precedes(batch, s) /\ Precedes(a, s) => Precedes(batch', s)
      /\ \A s : Precedes(s, batch) /\ Precedes(s, a) => Precedes(s, batch')
      /\ \A n : UpTo(batch, n) /\ UpTo(a, n) => UpTo(batch', n)
  BY <1>1, ConcatOrder
<1>4. \A r \in Queues : r # q => Precedes(queue[q], queue[r])
  BY QueuesApart DEF OrderInv
<1>5. /\ UpTo(batch', offered) /\ Ascending(batch')
      /\ Precedes(batch', InHand) /\ Precedes(batch', channel)
      /\ Precedes(delayed, batch') /\ Precedes(sent, batch')
      /\ Precedes(batch', b) /\ \A r \in Queues : r # q => Precedes(batch', queue[r])
  BY <1>2, <1>3, <1>4 DEF OrderInv, PipelineOrder
<1>6. /\ UpTo(b, offered) /\ Precedes(b, InHand) /\ Precedes(b, channel)
      /\ Precedes(delayed, b) /\ Precedes(sent, b)
  BY <1>2 DEF OrderInv, PipelineOrder
<1>7. PipelineOrder'
  BY <1>1, <1>5, <1>6 DEF OrderInv, PipelineOrder
<1>8. InOwnQueue'
  <2> SUFFICES ASSUME NEW r \in Queues, NEW i \in DOMAIN queue'[r]
               PROVE  QueueOf(queue'[r][i]) = r
    BY DEF InOwnQueue, QueueOf
  <2>1. CASE r = q
    BY <1>1, <2>1 DEF OrderInv, InOwnQueue, Within
  <2>2. CASE r # q
    BY <1>1, <2>2 DEF OrderInv, InOwnQueue
  <2> QED
    BY <2>1, <2>2
<1> QED
  BY <1>7, <1>8, SentFrame DEF OrderInv

LEMMA PopOrder ==
    ASSUME SchedTypeOK, OrderInv, PopFifo
    PROVE  OrderInv'
<1>1. Shared \in Queues /\ queue[Shared] \in Seq(Packets) /\ batch \in Seq(Packets)
  BY DEF SchedTypeOK, Queues
<1>2. UNCHANGED <<config, offered, channel, reader, packet, delayed, sent, bucket>> /\ writer' # "Meter"
  BY DEF PopFifo, sendVars, readerVars
<1>3. CASE queue[Shared] = << >>
  <2>1. UNCHANGED <<queue, batch>> /\ InHand' = InHand
    BY <1>2, <1>3 DEF PopFifo, InHand
  <2>2. PipelineOrder'
    BY <1>2, <2>1, PipelineFrame DEF OrderInv
  <2>3. InOwnQueue'
    BY <1>2, <2>1 DEF OrderInv, InOwnQueue, QueueOf
  <2> QED
    BY <1>2, <2>2, <2>3, SentFrame DEF OrderInv
<1>4. CASE queue[Shared] # << >>
  <2> DEFINE a == <<Head(queue[Shared])>>
             b == Tail(queue[Shared])
  <2>1. queue' = [queue EXCEPT ![Shared] = b] /\ batch' = Append(batch, Head(queue[Shared]))
    BY <1>4 DEF PopFifo
  <2>2. Head(queue[Shared]) \in Packets /\ b \in Seq(Packets) /\ Within(a, queue[Shared]) /\ Within(b, queue[Shared])
    BY <1>1, <1>4, TailOrder
  <2>3. Ascending(queue[Shared])
    BY <1>1 DEF OrderInv, PipelineOrder
  <2>4. Ascending(b) /\ Precedes(a, b)
    BY <1>1, <1>4, <2>3, TailOrder
  <2>5. a \in Seq(Packets) /\ Ascending(a)
    BY <2>2, OneOrder
  <2>6. batch' = batch \o a
    BY <1>1, <2>1, <2>2
  <2> HIDE DEF a, b
  <2> QED
    BY <1>1, <1>2, <2>1, <2>2, <2>4, <2>5, <2>6, CollectOrder
<1> QED
  BY <1>3, <1>4

LEMMA TurnOrder ==
    ASSUME SchedTypeOK, OrderInv, NEW f \in Flows, TakeTurn(f)
    PROVE  OrderInv'
<1> DEFINE n == IF Len(queue[f]) < Weight(f) THEN Len(queue[f]) ELSE Weight(f)
           a == SubSeq(queue[f], 1, n)
           b == SubSeq(queue[f], n + 1, Len(queue[f]))
<1>1. f \in Queues /\ queue[f] \in Seq(Packets) /\ n \in 0 .. Len(queue[f])
  BY TurnShare
<1>2. batch' = batch \o a /\ queue' = [queue EXCEPT ![f] = b]
  BY DEF TakeTurn
<1>3. UNCHANGED <<config, offered, channel, reader, packet, delayed, sent, bucket>> /\ writer' # "Meter"
  BY DEF TakeTurn, sendVars, readerVars
<1> HIDE DEF n
<1>4. Ascending(queue[f])
  BY <1>1 DEF OrderInv, PipelineOrder
<1>5. /\ a \in Seq(Packets) /\ b \in Seq(Packets)
      /\ Within(a, queue[f]) /\ Within(b, queue[f])
      /\ Ascending(a) /\ Ascending(b) /\ Precedes(a, b)
  BY <1>1, <1>4, SplitOrder
<1> HIDE DEF a, b
<1> QED
  BY <1>1, <1>2, <1>3, <1>5, CollectOrder

\* A sequence of sent packets that only grew by one keeps its order.
LEMMA OneMoreSent ==
    ASSUME NEW s \in Seq(Packets), NEW p \in Packets, NEW i, NEW j,
           i \in DOMAIN Append(s, p), j \in DOMAIN Append(s, p), i < j
    PROVE  LET t == Append(s, p) IN
           \/ i \in DOMAIN s /\ j \in DOMAIN s /\ t[i] = s[i] /\ t[j] = s[j]
           \/ i \in DOMAIN s /\ t[i] = s[i] /\ t[j] = p
OBVIOUS

LEMMA SendBatchOrder ==
    ASSUME SchedTypeOK, MeteredOnly, OrderInv, SendBatch
    PROVE  OrderInv'
<1>1. UNCHANGED <<config, offered, channel, queue, delayed>> /\ InHand' = InHand /\ delayed = << >>
  BY DEF SendBatch, MeteredOnly, InHand, readerVars
<1>2. InOwnQueue'
  BY <1>1 DEF OrderInv, InOwnQueue, QueueOf
<1>3. CASE bucket # NoBucket
  <2>1. UNCHANGED <<sent, batch>> /\ bucket' \in Refills /\ bucket' # NoBucket
    <3>1. UNCHANGED <<sent, batch>> /\ bucket' \in Refills
      BY <1>3 DEF SendBatch
    <3>2. bucket'.size = bucket.size /\ bucket.size > 0
      BY <1>3, <3>1, RefillTypes DEF SchedTypeOK, MeteredOnly
    <3> QED
      BY <3>1, <3>2 DEF NoBucket
  <2>2. PipelineOrder'
    BY <1>1, <2>1, PipelineFrame DEF OrderInv
  <2>3. FlowOrder' /\ OvertakingIsSmaller'
    BY <1>1, <2>1 DEF OrderInv, FlowOrder, OvertakingIsSmaller
  <2> QED
    BY <1>2, <2>2, <2>3 DEF OrderInv
<1>4. CASE bucket = NoBucket
  <2>1. sent' = sent \o batch /\ batch' = << >> /\ writer' = "Controls" /\ bucket' = bucket
    BY <1>4 DEF SendBatch
  <2>2. sent \in Seq(Packets) /\ batch \in Seq(Packets)
    BY DEF SchedTypeOK
  <2>3. /\ \A s : Precedes(sent, s) /\ Precedes(batch, s) => Precedes(sent', s)
        /\ \A n : UpTo(sent, n) /\ UpTo(batch, n) => UpTo(sent', n)
    BY <2>1, <2>2, ConcatOrder
  <2>4. PipelineOrder'
    BY <1>1, <2>1, <2>3, EmptyOrder DEF OrderInv, PipelineOrder
  <2>5. FlowOrder'
    <3> SUFFICES ASSUME NEW i \in DOMAIN sent', NEW j \in DOMAIN sent', i < j,
                        sent'[i].flow = sent'[j].flow
                 PROVE  ~(sent'[i].id > sent'[j].id)
      BY DEF FlowOrder
    <3> DEFINE m == Len(sent)
    <3>1. /\ (i \in DOMAIN sent /\ sent'[i] = sent[i]) \/ (i - m \in DOMAIN batch /\ sent'[i] = batch[i - m] /\ i > m)
          /\ (j \in DOMAIN sent /\ sent'[j] = sent[j]) \/ (j - m \in DOMAIN batch /\ sent'[j] = batch[j - m] /\ j > m)
      BY <2>1, <2>2, ConcatOrder
    <3>2. m \in Nat /\ i \in Int /\ j \in Int /\ DOMAIN sent = 1 .. m
      BY <2>1, <2>2
    <3>3. sent'[i].id \in Int /\ sent'[j].id \in Int
      <4>1. sent'[i] \in Packets /\ sent'[j] \in Packets
        BY <2>1, <2>2
      <4> QED
        BY <4>1 DEF Packets
    <3>4. CASE i \in DOMAIN sent /\ sent'[i] = sent[i] /\ j \in DOMAIN sent /\ sent'[j] = sent[j]
      BY <1>4, <3>4 DEF OrderInv, FlowOrder
    <3>5. CASE i \in DOMAIN sent /\ sent'[i] = sent[i] /\ j - m \in DOMAIN batch /\ sent'[j] = batch[j - m]
      <4>1. sent'[i].id < sent'[j].id
        BY <3>5 DEF OrderInv, PipelineOrder, Precedes
      <4> QED
        BY <3>3, <4>1
    <3>6. CASE /\ i - m \in DOMAIN batch /\ sent'[i] = batch[i - m]
               /\ j - m \in DOMAIN batch /\ sent'[j] = batch[j - m]
      <4>1. i - m < j - m
        BY <3>2
      <4>2. sent'[i].id < sent'[j].id
        BY <3>6, <4>1 DEF OrderInv, PipelineOrder, Ascending
      <4> QED
        BY <3>3, <4>2
    <3> HIDE DEF m
    <3> QED
      BY <3>1, <3>2, <3>4, <3>5, <3>6
  <2>6. OvertakingIsSmaller'
    BY <1>1, <2>1 DEF OvertakingIsSmaller
  <2> QED
    BY <1>2, <2>4, <2>5, <2>6 DEF OrderInv
<1> QED
  BY <1>3, <1>4

\* One packet more, and every packet sent before it that is newer is smaller.
LEMMA SentOneMore ==
    ASSUME SchedTypeOK, FlowOrder, bucket' # NoBucket, NEW p \in Packets, sent' = Append(sent, p),
           \A i \in DOMAIN sent :
              sent[i].flow = p.flow /\ sent[i].id > p.id => sent[i].size < p.size
    PROVE  FlowOrder'
<1>1. sent \in Seq(Packets)
  BY DEF SchedTypeOK
<1> SUFFICES ASSUME NEW i \in DOMAIN sent', NEW j \in DOMAIN sent', i < j,
                    sent'[i].flow = sent'[j].flow, sent'[i].id > sent'[j].id
             PROVE  sent'[i].size < sent'[j].size
  BY DEF FlowOrder
<1>2. \/ i \in DOMAIN sent /\ j \in DOMAIN sent /\ sent'[i] = sent[i] /\ sent'[j] = sent[j]
      \/ i \in DOMAIN sent /\ sent'[i] = sent[i] /\ sent'[j] = p
  BY <1>1, OneMoreSent
<1> QED
  BY <1>2 DEF FlowOrder

LEMMA MeterOrder ==
    ASSUME SchedTypeOK, MeteredOnly, MeteredOnly', OrderInv, MeterPacket
    PROVE  OrderInv'
<1> DEFINE p == Head(batch)
<1>1. UNCHANGED <<config, offered, channel, queue>> /\ InHand' = InHand /\ writer = "Meter" /\ writer' = "Meter"
  BY DEF MeterPacket, InHand, readerVars
<1>2. InOwnQueue'
  BY <1>1 DEF OrderInv, InOwnQueue, QueueOf
<1>3. /\ batch \in Seq(Packets) /\ batch # << >> /\ batch' = Tail(batch)
      /\ sent \in Seq(Packets) /\ delayed \in Seq(Packets) /\ bucket \in Buckets /\ bucket' # NoBucket
  BY <1>1 DEF SchedTypeOK, MeterPacket, MeteredOnly
<1>4. /\ p \in Packets /\ Within(<<p>>, batch) /\ Within(batch', batch)
      /\ Ascending(batch') /\ Precedes(<<p>>, batch')
  BY <1>3, TailOrder DEF OrderInv, PipelineOrder
<1>5. DOMAIN <<p>> = {1} /\ <<p>>[1] = p
  BY <1>4, OneOrder
<1>6. /\ bucket.tokens \in Nat /\ p.size \in Nat /\ p.id \in Nat
      /\ \A i \in DOMAIN sent : sent[i].id \in Nat /\ sent[i].size \in Nat
      /\ \A i \in DOMAIN delayed : delayed[i].id \in Nat /\ delayed[i].size \in Nat
  <2>1. /\ \A i \in DOMAIN sent : sent[i] \in Packets
        /\ \A i \in DOMAIN delayed : delayed[i] \in Packets
    BY <1>3
  <2> QED
    BY <1>3, <1>4, <2>1 DEF Packets, Buckets
<1>7. \/ /\ bucket.tokens >= p.size
         /\ bucket' = [bucket EXCEPT !.tokens = bucket.tokens - p.size]
         /\ sent' = Append(sent, p) /\ delayed' = delayed
      \/ /\ bucket.tokens < p.size
         /\ delayed' = Append(delayed, p) /\ sent' = sent /\ bucket' = bucket
  BY DEF MeterPacket
<1> HIDE DEF p
<1>8. /\ \A s : Precedes(batch, s) => Precedes(<<p>>, s) /\ Precedes(batch', s)
      /\ \A s : Precedes(s, batch) => Precedes(s, <<p>>) /\ Precedes(s, batch')
      /\ \A n : UpTo(batch, n) => UpTo(<<p>>, n) /\ UpTo(batch', n)
  BY <1>4, WithinKeepsOrder
<1>9. \A i \in DOMAIN sent : sent[i].flow = p.flow => sent[i].id < p.id
  <2>1. Precedes(sent, <<p>>)
    BY <1>8 DEF OrderInv, PipelineOrder
  <2> QED
    BY <1>5, <2>1 DEF Precedes
<1>10. CASE /\ bucket.tokens >= p.size
            /\ bucket' = [bucket EXCEPT !.tokens = bucket.tokens - p.size]
            /\ sent' = Append(sent, p) /\ delayed' = delayed
  <2>1. /\ \A s : Precedes(sent, s) /\ Precedes(<<p>>, s) => Precedes(sent', s)
        /\ \A n : UpTo(sent, n) /\ UpTo(<<p>>, n) => UpTo(sent', n)
    BY <1>3, <1>4, <1>10, AppendOrder
  <2>2. PipelineOrder'
    BY <1>1, <1>4, <1>8, <1>10, <2>1 DEF OrderInv, PipelineOrder
  <2>3. \A i \in DOMAIN sent : sent[i].flow = p.flow => ~(sent[i].id > p.id)
    BY <1>6, <1>9
  <2>4. FlowOrder'
    BY <1>3, <1>4, <1>10, <2>3, SentOneMore DEF OrderInv
  <2>5. \A j \in DOMAIN delayed : bucket.tokens < delayed[j].size
    BY <1>1 DEF OrderInv, OvertakingIsSmaller
  <2>6. bucket'.tokens = bucket.tokens - p.size
    BY <1>3, <1>10 DEF Buckets
  <2>7. \A j \in DOMAIN delayed : bucket'.tokens < delayed[j].size /\ p.size < delayed[j].size
    BY <1>6, <1>10, <2>5, <2>6
  <2>8. \A i \in DOMAIN sent' : (i \in DOMAIN sent /\ sent'[i] = sent[i]) \/ sent'[i] = p
    BY <1>3, <1>4, <1>10
  <2>9. OvertakingIsSmaller'
    BY <1>10, <2>7, <2>8 DEF OrderInv, OvertakingIsSmaller
  <2> QED
    BY <1>2, <2>2, <2>4, <2>9 DEF OrderInv
<1>11. CASE /\ bucket.tokens < p.size
            /\ delayed' = Append(delayed, p) /\ sent' = sent /\ bucket' = bucket
  <2>1. /\ \A s : Precedes(delayed, s) /\ Precedes(<<p>>, s) => Precedes(delayed', s)
        /\ \A n : UpTo(delayed, n) /\ UpTo(<<p>>, n) => UpTo(delayed', n)
        /\ Ascending(delayed) /\ Precedes(delayed, <<p>>) => Ascending(delayed')
    BY <1>3, <1>4, <1>11, AppendOrder
  <2>2. PipelineOrder'
    BY <1>1, <1>4, <1>8, <1>11, <2>1 DEF OrderInv, PipelineOrder
  <2>3. FlowOrder'
    BY <1>11 DEF OrderInv, FlowOrder
  <2>4. \A i \in DOMAIN delayed' : (i \in DOMAIN delayed /\ delayed'[i] = delayed[i]) \/ delayed'[i] = p
    BY <1>3, <1>4, <1>11
  <2>5. \A i \in DOMAIN sent : ~(sent[i].flow = p.flow /\ sent[i].id >= p.id)
    BY <1>6, <1>9
  <2>6. OvertakingIsSmaller'
    BY <1>1, <1>11, <2>4, <2>5 DEF OrderInv, OvertakingIsSmaller
  <2> QED
    BY <1>2, <2>2, <2>3, <2>6 DEF OrderInv
<1> QED
  BY <1>7, <1>10, <1>11

LEMMA DelayedOrder ==
    ASSUME SchedTypeOK, MeteredOnly, MeteredOnly', OrderInv, SendDelayed
    PROVE  OrderInv'
<1> DEFINE p == Head(delayed)
<1>1. /\ UNCHANGED <<config, offered, channel, queue, batch>> /\ InHand' = InHand
      /\ writer = "Delayed" /\ writer' = "Delayed"
  BY DEF SendDelayed, InHand, readerVars
<1>2. InOwnQueue'
  BY <1>1 DEF OrderInv, InOwnQueue, QueueOf
<1>3. /\ delayed \in Seq(Packets) /\ delayed # << >> /\ sent \in Seq(Packets) /\ bucket' # NoBucket
  BY <1>1 DEF SchedTypeOK, SendDelayed, MeteredOnly
<1>4. /\ p \in Packets /\ Within(<<p>>, delayed) /\ Within(Tail(delayed), delayed)
      /\ Ascending(Tail(delayed)) /\ Precedes(<<p>>, Tail(delayed))
      /\ 1 \in DOMAIN delayed /\ p = delayed[1]
  BY <1>3, TailOrder DEF OrderInv, PipelineOrder
<1>5. /\ delayed' = delayed \/ delayed' = Tail(delayed)
      /\ sent' = sent \/ (sent' = Append(sent, p) /\ delayed' = Tail(delayed))
  BY DEF SendDelayed
<1> HIDE DEF p
<1>6. /\ Within(delayed', delayed) /\ Ascending(delayed')
      /\ \A s : Precedes(delayed, s) => Precedes(<<p>>, s) /\ Precedes(delayed', s)
      /\ \A s : Precedes(s, delayed) => Precedes(s, <<p>>) /\ Precedes(s, delayed')
      /\ \A n : UpTo(delayed, n) => UpTo(<<p>>, n) /\ UpTo(delayed', n)
  BY <1>4, <1>5, EmptyOrder, WithinKeepsOrder DEF OrderInv, PipelineOrder
<1>7. CASE sent' = sent
  <2>1. PipelineOrder'
    BY <1>1, <1>6, <1>7 DEF OrderInv, PipelineOrder
  <2>2. FlowOrder'
    BY <1>3, <1>7 DEF OrderInv, FlowOrder
  <2>3. OvertakingIsSmaller'
    BY <1>1, <1>6, <1>7 DEF OrderInv, OvertakingIsSmaller, Within
  <2> QED
    BY <1>2, <2>1, <2>2, <2>3 DEF OrderInv
<1>8. CASE sent' = Append(sent, p) /\ delayed' = Tail(delayed)
  <2>1. /\ \A s : Precedes(sent, s) /\ Precedes(<<p>>, s) => Precedes(sent', s)
        /\ \A n : UpTo(sent, n) /\ UpTo(<<p>>, n) => UpTo(sent', n)
    BY <1>3, <1>4, <1>8, AppendOrder
  <2>2. PipelineOrder'
    BY <1>1, <1>6, <2>1 DEF OrderInv, PipelineOrder
  <2>3. \A i \in DOMAIN sent : sent[i].id \in Nat
    <3>1. \A i \in DOMAIN sent : sent[i] \in Packets
      BY <1>3
    <3> QED
      BY <3>1 DEF Packets
  <2>4. p.id \in Nat
    BY <1>4 DEF Packets
  <2>5. \A i \in DOMAIN sent :
           sent[i].flow = p.flow /\ sent[i].id > p.id => sent[i].size < p.size
    BY <1>4, <2>3, <2>4 DEF OrderInv, OvertakingIsSmaller
  <2>6. FlowOrder'
    BY <1>3, <1>4, <1>8, <2>5, SentOneMore DEF OrderInv
  <2>7. \A i \in DOMAIN sent' : (i \in DOMAIN sent /\ sent'[i] = sent[i]) \/ sent'[i] = p
    BY <1>3, <1>4, <1>8
  <2>8. \A j \in DOMAIN delayed' : delayed'[j].flow = p.flow => ~(p.id >= delayed'[j].id)
    <3>1. \A j \in DOMAIN delayed' : delayed'[j].id \in Nat
      <4>1. \A j \in DOMAIN delayed' : delayed'[j] \in Packets
        BY <1>3, <1>8
      <4> QED
        BY <4>1 DEF Packets
    <3>2. DOMAIN <<p>> = {1} /\ <<p>>[1] = p
      BY <1>4, OneOrder
    <3>3. \A j \in DOMAIN delayed' : delayed'[j].flow = p.flow => p.id < delayed'[j].id
      BY <1>4, <1>8, <3>2 DEF Precedes
    <3> QED
      BY <2>4, <3>1, <3>3
  <2>9. \A j \in DOMAIN delayed' : \E k \in DOMAIN delayed : delayed'[j] = delayed[k]
    BY <1>6 DEF Within
  <2>10. OvertakingIsSmaller'
    BY <1>1, <2>7, <2>8, <2>9 DEF OrderInv, OvertakingIsSmaller
  <2> QED
    BY <1>2, <2>2, <2>6, <2>10 DEF OrderInv
<1> QED
  BY <1>5, <1>7, <1>8

LEMMA OrderNext ==
    ASSUME SchedTypeOK, SchedTypeOK', MeteredOnly, MeteredOnly', OrderInv, [SchedNext]_schedVars
    PROVE  OrderInv'
<1>1. ASSUME UNCHANGED <<config, offered, channel, queue, batch, delayed, sent>>,
             InHand' = InHand \/ InHand' = << >>,
             bucket # NoBucket => bucket' # NoBucket,
             writer' = "Meter" => writer = "Meter" /\ bucket' = bucket
      PROVE  OrderInv'
  <2>1. PipelineOrder'
    BY <1>1, PipelineFrame DEF OrderInv
  <2>2. InOwnQueue'
    BY <1>1 DEF OrderInv, InOwnQueue, QueueOf
  <2> QED
    BY <1>1, <2>1, <2>2, SentFrame DEF OrderInv
<1>2. ASSUME NEW m \in ControlMessages, SendControl(m) PROVE OrderInv'
  BY <1>1, <1>2 DEF SendControl, InHand, readerVars, sendVars
<1>3. CASE AcquireSlot
  BY <1>1, <1>3 DEF AcquireSlot, InHand, sendVars
<1>4. CASE MeasureQueue
  <2>1. InHand' = InHand \/ InHand' = << >>
    BY <1>4 DEF MeasureQueue, Forget, InHand
  <2> QED
    BY <1>1, <1>4, <2>1 DEF MeasureQueue, sendVars
<1>5. CASE NotifyWriter
  BY <1>1, <1>5 DEF NotifyWriter, Forget, InHand, sendVars
<1>6. CASE HandleControl \/ WakeForControl
  <2>1. ApplyControl /\ writer' # "Meter"
    BY <1>6 DEF HandleControl, WakeForControl
  <2>2. bucket # NoBucket => bucket' # NoBucket
    BY <2>1, ApplyControlTypes DEF NoBucket
  <2> QED
    BY <1>1, <2>1, <2>2 DEF ApplyControl, InHand, readerVars
<1>7. CASE ControlsHandled \/ CheckQueues \/ WakeUp \/ BatchMetered \/ BatchDone
  <2>1. \E a, b \in WriterStates : b # "Meter" /\ WriterMoves(a, b)
    BY <1>7 DEF ControlsHandled, CheckQueues, WakeUp, BatchMetered, BatchDone, WriterStates
  <2> QED
    BY <1>1, <2>1 DEF WriterMoves, InHand, readerVars, sendVars
<1>8. CASE CountRounds
  BY <1>1, <1>8 DEF CountRounds, InHand, readerVars, sendVars
<1>9. CASE ReleaseSlots
  BY <1>1, <1>9 DEF ReleaseSlots, InHand, readerVars, sendVars
<1>10. CASE UNCHANGED schedVars
  BY <1>1, <1>10 DEF schedVars, InHand, readerVars, sendVars
<1> QED
  BY <1>2, <1>3, <1>4, <1>5, <1>6, <1>7, <1>8, <1>9, <1>10, OfferOrder, TakeOrder, PushOrder,
     PopOrder, TurnOrder, SendBatchOrder, MeterOrder, DelayedOrder DEF SchedNext, Reader, Writer

-----------------------------------------------------------------------------
(* Counting queued packets *)

\* Packets of one sequence differ, so that there are as many as it is long.
LEMMA CountPackets ==
    ASSUME NEW s \in Seq(Packets), Ascending(s)
    PROVE  IsFiniteSet(Range(s)) /\ Cardinality(Range(s)) = Len(s)
<1>1. Len(s) \in Nat /\ DOMAIN s = 1 .. Len(s) /\ s \in [1 .. Len(s) -> Range(s)]
  BY DEF Range
<1>2. \A i \in DOMAIN s : s[i].id \in Nat
  <2>1. \A i \in DOMAIN s : s[i] \in Packets
    OBVIOUS
  <2> QED
    BY <2>1 DEF Packets
<1>3. ASSUME NEW i \in DOMAIN s, NEW j \in DOMAIN s, s[i] = s[j] PROVE i = j
  <2>1. i \in Int /\ j \in Int
    BY <1>1
  <2>2. ~(i < j) /\ ~(j < i)
    BY <1>2, <1>3 DEF Ascending
  <2> QED
    BY <2>1, <2>2
<1>4. s \in Bijection(1 .. Len(s), Range(s))
  BY <1>1, <1>3 DEF Bijection, Injection, IsInjective, Surjection, Range
<1>5. ExistsBijection(1 .. Len(s), Range(s))
  BY <1>4 DEF ExistsBijection
<1> QED
  BY <1>1, <1>5, FS_CountingElements, FS_NatBijection

LEMMA QueuedMember ==
    ASSUME NEW x
    PROVE  /\ x \in Queued <=> \E q \in Queues : \E i \in DOMAIN queue[q] : x = queue[q][i]
           /\ x \in Queued' <=> \E q \in Queues : \E i \in DOMAIN queue'[q] : x = queue'[q][i]
BY DEF Queued, Range

\* No queue is longer than the number of queued packets.
LEMMA QueueBound ==
    ASSUME NEW qs \in [Queues -> Seq(Packets)], NEW q \in Queues, Ascending(qs[q]),
           IsFiniteSet(UNION {Range(qs[r]) : r \in Queues})
    PROVE  /\ Len(qs[q]) <= Cardinality(UNION {Range(qs[r]) : r \in Queues})
           /\ Len(qs[q]) \in Nat
<1>1. qs[q] \in Seq(Packets) /\ Range(qs[q]) \subseteq UNION {Range(qs[r]) : r \in Queues}
  OBVIOUS
<1> QED
  BY <1>1, CountPackets, FS_Subset

\* Placing a packet: it is not queued yet.
LEMMA CountPush ==
    ASSUME SchedTypeOK, OrderInv, IsFiniteSet(Queued), packet \in Packets, InHand = <<packet>>,
           NEW h \in Queues, queue' = [queue EXCEPT ![h] = Append(queue[h], packet)]
    PROVE  IsFiniteSet(Queued') /\ Cardinality(Queued') = Cardinality(Queued) + 1
<1>1. /\ queue \in [Queues -> Seq(Packets)] /\ queue[h] \in Seq(Packets)
      /\ queue'[h] = Append(queue[h], packet)
      /\ \A q \in Queues : q # h => queue'[q] = queue[q]
  BY DEF SchedTypeOK
<1> DEFINE s == queue[h]
           t == queue'[h]
<1>2. /\ \A i \in DOMAIN t : (i \in DOMAIN s /\ t[i] = s[i]) \/ t[i] = packet
      /\ \A i \in DOMAIN s : i \in DOMAIN t /\ t[i] = s[i]
      /\ \E i \in DOMAIN t : t[i] = packet
  <2>1. s \in Seq(Packets) /\ t = Append(s, packet)
    BY <1>1
  <2> HIDE DEF s, t
  <2>2. /\ DOMAIN t = 1 .. (Len(s) + 1) /\ DOMAIN s = 1 .. Len(s) /\ Len(s) \in Nat
        /\ t[Len(s) + 1] = packet /\ \A i \in 1 .. Len(s) : t[i] = s[i]
    BY <2>1
  <2> QED
    BY <2>2
<1>3. Queued' = Queued \cup {packet}
  <2>1. ASSUME NEW x \in Queued' PROVE x \in Queued \cup {packet}
    <3>1. PICK q \in Queues : \E i \in DOMAIN queue'[q] : x = queue'[q][i]
      BY <2>1, QueuedMember
    <3> QED
      BY <1>1, <1>2, <3>1, QueuedMember
  <2>2. ASSUME NEW x \in Queued PROVE x \in Queued'
    <3>1. PICK q \in Queues : \E i \in DOMAIN queue[q] : x = queue[q][i]
      BY <2>2, QueuedMember
    <3> QED
      BY <1>1, <1>2, <3>1, QueuedMember
  <2>3. packet \in Queued'
    BY <1>1, <1>2, QueuedMember
  <2> QED
    BY <2>1, <2>2, <2>3
<1>4. packet \notin Queued
  <2> SUFFICES ASSUME NEW q \in Queues, NEW i \in DOMAIN queue[q], packet = queue[q][i]
               PROVE  FALSE
    BY QueuedMember
  <2>1. Precedes(queue[q], <<packet>>) /\ DOMAIN <<packet>> = {1} /\ <<packet>>[1] = packet
    BY OneOrder DEF OrderInv, PipelineOrder
  <2>2. packet.id < packet.id
    BY <2>1 DEF Precedes
  <2>3. packet.id \in Nat
    BY DEF Packets
  <2> QED
    BY <2>2, <2>3
<1> QED
  BY <1>3, <1>4, FS_AddElement

\* Collecting the first packets a of a queue and leaving b
LEMMA CountCollect ==
    ASSUME SchedTypeOK, OrderInv, IsFiniteSet(Queued), NEW q \in Queues,
           NEW a \in Seq(Packets), NEW b \in Seq(Packets),
           Within(a, queue[q]), Within(b, queue[q]),
           \A i \in DOMAIN queue[q] : (\E j \in DOMAIN a : a[j] = queue[q][i])
                                      \/ (\E j \in DOMAIN b : b[j] = queue[q][i]),
           Ascending(a), Precedes(a, b), queue' = [queue EXCEPT ![q] = b]
    PROVE  IsFiniteSet(Queued') /\ Cardinality(Queued') + Len(a) = Cardinality(Queued)
<1>1. queue'[q] = b /\ \A r \in Queues : r # q => queue'[r] = queue[r]
  BY DEF SchedTypeOK
<1>2. Range(a) \subseteq Queued
  BY QueuedMember DEF Range, Within
<1>3. Queued' = Queued \ Range(a)
  <2>1. ASSUME NEW x \in Queued' PROVE x \in Queued /\ x \notin Range(a)
    <3>1. PICK r \in Queues : \E i \in DOMAIN queue'[r] : x = queue'[r][i]
      BY <2>1, QueuedMember
    <3>2. CASE r = q
      <4>1. PICK i \in DOMAIN b : x = b[i]
        BY <1>1, <3>1, <3>2
      <4>2. x \in Queued
        BY <4>1, QueuedMember DEF Within
      <4>3. x.id \in Nat
        <5>1. x \in Packets
          BY <4>1
        <5> QED
          BY <5>1 DEF Packets
      <4>4. ASSUME NEW j \in DOMAIN a, x = a[j] PROVE FALSE
        <5>1. x.id < x.id
          BY <4>1, <4>4 DEF Precedes
        <5> QED
          BY <4>3, <5>1
      <4> QED
        BY <4>2, <4>4 DEF Range
    <3>3. CASE r # q
      <4>1. PICK i \in DOMAIN queue[r] : x = queue[r][i]
        BY <1>1, <3>1, <3>3
      <4>2. x \in Queued /\ QueueOf(x) = r
        BY <4>1, QueuedMember DEF OrderInv, InOwnQueue
      <4>3. ASSUME NEW j \in DOMAIN a, x = a[j] PROVE QueueOf(x) = q
        BY <4>3 DEF Within, OrderInv, InOwnQueue
      <4> QED
        BY <3>3, <4>2, <4>3 DEF Range
    <3> QED
      BY <3>2, <3>3
  <2>2. ASSUME NEW x \in Queued, x \notin Range(a) PROVE x \in Queued'
    <3>1. PICK r \in Queues : \E i \in DOMAIN queue[r] : x = queue[r][i]
      BY <2>2, QueuedMember
    <3>2. CASE r = q
      <4>1. \E j \in DOMAIN b : b[j] = x
        BY <2>2, <3>1, <3>2 DEF Range
      <4> QED
        BY <1>1, <4>1, QueuedMember
    <3>3. CASE r # q
      BY <1>1, <3>1, <3>3, QueuedMember
    <3> QED
      BY <3>2, <3>3
  <2> QED
    BY <2>1, <2>2
<1>4. Cardinality(Range(a)) = Len(a) /\ Queued \cap Range(a) = Range(a)
  BY <1>2, CountPackets
<1>5. /\ IsFiniteSet(Queued')
      /\ Cardinality(Queued') = Cardinality(Queued) - Len(a)
  BY <1>3, <1>4, FS_Difference
<1>6. Cardinality(Queued) \in Nat /\ Len(a) \in Nat
  BY FS_CardinalityType
<1> QED
  BY <1>5, <1>6

-----------------------------------------------------------------------------
(* The slot ledger *)

SlotInv == IsFiniteSet(Queued) /\ SlotLedger

LEMMA SlotInit ==
    SchedInit => SlotInv
<1> SUFFICES ASSUME SchedInit PROVE SlotInv
  OBVIOUS
<1>1. Queued = {}
  BY DEF SchedInit, Queued, Range
<1>2. IsFiniteSet(Queued) /\ Cardinality(Queued) = 0
  BY <1>1, FS_EmptySet
<1>3. SlotsBalance
  BY <1>2 DEF SchedInit, SlotsBalance
<1>4. NeverRefused /\ CollectsFromQueues
  BY DEF SchedInit, NeverRefused, CollectsFromQueues
<1> QED
  BY <1>2, <1>3, <1>4 DEF SlotInv, SlotLedger

\* What the writer takes off the queues moves from one side of the ledger to
\* the other.
LEMMA CollectBalance ==
    ASSUME SchedTypeOK, OrderInv, SlotInv, NEW q \in Queues,
           NEW a \in Seq(Packets), NEW b \in Seq(Packets),
           Within(a, queue[q]), Within(b, queue[q]),
           \A i \in DOMAIN queue[q] : (\E j \in DOMAIN a : a[j] = queue[q][i])
                                      \/ (\E j \in DOMAIN b : b[j] = queue[q][i]),
           Ascending(a), Precedes(a, b), queue' = [queue EXCEPT ![q] = b],
           batch' = batch \o a, UNCHANGED <<config, permits, reader>>,
           writer \in {"Collect", "Turn"}, writer' \in {"Collect", "Turn", "Release"}
    PROVE  IsFiniteSet(Queued') /\ SlotsBalance'
<1>1. IsFiniteSet(Queued') /\ Cardinality(Queued') + Len(a) = Cardinality(Queued)
  BY CountCollect DEF SlotInv
<1>2. Cardinality(Queued') \in Nat /\ Len(batch) \in Nat /\ Len(a) \in Nat /\ permits \in Nat
  BY <1>1, FS_CardinalityType DEF SchedTypeOK
<1>3. Len(batch') = Len(batch) + Len(a)
  BY DEF SchedTypeOK
<1>4. SlotsBalance'
  BY <1>1, <1>2, <1>3 DEF SlotInv, SlotLedger, SlotsBalance
<1> QED
  BY <1>1, <1>4

LEMMA BalanceNext ==
    ASSUME SchedTypeOK, SchedTypeOK', MeteredOnly, OrderInv, SlotInv, [SchedNext]_schedVars
    PROVE  IsFiniteSet(Queued') /\ SlotsBalance'
<1>a. /\ IsFiniteSet(Queued) /\ Cardinality(Queued) \in Nat /\ SlotsBalance
      /\ permits \in Nat /\ Len(batch) \in Nat /\ config.backpressure \in BOOLEAN
  BY FS_CardinalityType DEF SlotInv, SlotLedger, SchedTypeOK, Configs
<1>b. ASSUME UNCHANGED <<config, permits, reader, queue, writer, batch>>
      PROVE  IsFiniteSet(Queued') /\ SlotsBalance'
  <2>1. Queued' = Queued
    BY <1>b DEF Queued
  <2> QED
    BY <1>a, <1>b, <2>1 DEF SlotsBalance
<1>c. ASSUME UNCHANGED <<config, permits, reader, queue>>,
             writer \notin {"Collect", "Turn", "Release"} \/ writer' = "Turn",
             writer' \notin {"Collect", "Turn", "Release"} \/ writer' = "Turn" \/ batch' = << >>,
             writer' = "Turn" => writer \in {"Collect", "Turn"} /\ batch' = batch
      PROVE  IsFiniteSet(Queued') /\ SlotsBalance'
  <2>1. Queued' = Queued
    BY <1>c DEF Queued
  <2>2. batch' = << >> => Len(batch') = 0
    OBVIOUS
  <2> QED
    BY <1>a, <1>c, <2>1, <2>2 DEF SlotsBalance
<1>1. ASSUME NEW k \in Kinds, Offer(k) PROVE IsFiniteSet(Queued') /\ SlotsBalance'
  BY <1>b, <1>1 DEF Offer
<1>2. ASSUME NEW m \in ControlMessages, SendControl(m) PROVE IsFiniteSet(Queued') /\ SlotsBalance'
  BY <1>b, <1>2 DEF SendControl, readerVars
<1>3. CASE TakePacket \/ AcquireSlot \/ MeasureQueue \/ NotifyWriter
  <2>1. UNCHANGED <<config, queue, writer, batch>>
    BY <1>3 DEF TakePacket, AcquireSlot, MeasureQueue, NotifyWriter
  <2>2. \/ permits' = permits /\ reader = "Idle" /\ reader' = (IF config.backpressure THEN "Acquire" ELSE "Measure")
        \/ permits > 0 /\ permits' = permits - 1 /\ reader = "Acquire" /\ reader' = "Measure"
        \/ permits' = permits /\ reader = "Measure" /\ reader' = "Push"
        \/ permits' = permits /\ reader = "Measure" /\ reader' = "Idle" /\ ~config.backpressure
        \/ permits' = permits /\ reader = "Notify" /\ reader' = "Idle"
    BY <1>3 DEF TakePacket, AcquireSlot, MeasureQueue, NotifyWriter, Forget
  <2>3. Queued' = Queued
    BY <2>1 DEF Queued
  <2> QED
    BY <1>a, <2>1, <2>2, <2>3 DEF SlotsBalance
<1>4. CASE PushPacket
  <2> DEFINE h == QueueOf(packet)
  <2>1. UNCHANGED <<config, writer, batch>> /\ reader = "Push" /\ reader' \in {"Idle", "Notify"}
    BY <1>4 DEF PushPacket, Forget
  <2>2. packet \in Packets /\ InHand = <<packet>> /\ h \in Queues
    BY <2>1, InHandTypes DEF SchedTypeOK, QueueOf, Queues, Packets
  <2>3. \/ queue' = [queue EXCEPT ![h] = Append(queue[h], packet)] /\ permits' = permits
        \/ queue' = queue /\ permits' = IF config.backpressure THEN permits + 1 ELSE permits
    BY <1>4 DEF PushPacket
  <2> HIDE DEF h
  <2>4. CASE queue' = [queue EXCEPT ![h] = Append(queue[h], packet)] /\ permits' = permits
    <3>1. IsFiniteSet(Queued') /\ Cardinality(Queued') = Cardinality(Queued) + 1
      BY <1>a, <2>2, <2>4, CountPush
    <3> QED
      BY <1>a, <2>1, <2>4, <3>1 DEF SlotsBalance
  <2>5. CASE queue' = queue /\ permits' = IF config.backpressure THEN permits + 1 ELSE permits
    <3>1. Queued' = Queued
      BY <2>5 DEF Queued
    <3> QED
      BY <1>a, <2>1, <2>5, <3>1 DEF SlotsBalance
  <2> QED
    BY <2>3, <2>4, <2>5
<1>5. CASE HandleControl \/ WakeForControl
  <2>1. ApplyControl /\ (writer' = writer \/ writer' = "Check") /\ writer \in {"Controls", "Wait"}
    BY <1>5 DEF HandleControl, WakeForControl
  <2> QED
    BY <1>c, <2>1 DEF ApplyControl, readerVars
<1>6. CASE ControlsHandled \/ WakeUp \/ BatchMetered \/ BatchDone
  <2>1. \E x, y \in WriterStates \ {"Collect", "Turn", "Release"} : WriterMoves(x, y)
    BY <1>6 DEF ControlsHandled, WakeUp, BatchMetered, BatchDone, WriterStates
  <2> QED
    BY <1>c, <2>1 DEF WriterMoves, readerVars
<1>7. CASE CheckQueues
  <2>1. writer = "Check" /\ writer' \in {"Wait", "Collect"} /\ batch = << >>
    BY <1>7 DEF CheckQueues, WriterMoves, MeteredOnly
  <2> QED
    BY <1>c, <1>7, <2>1 DEF CheckQueues, WriterMoves, readerVars
<1>8. CASE PopFifo
  <2>1. /\ UNCHANGED <<config, permits, reader>>
        /\ writer = "Collect" /\ writer' \in {"Collect", "Release"}
    BY <1>8 DEF PopFifo, readerVars
  <2>2. CASE queue[Shared] = << >>
    <3>1. UNCHANGED <<queue, batch>>
      BY <1>8, <2>2 DEF PopFifo
    <3>2. Queued' = Queued
      BY <3>1 DEF Queued
    <3> QED
      BY <1>a, <2>1, <3>1, <3>2 DEF SlotsBalance
  <2>3. CASE queue[Shared] # << >>
    <3> DEFINE s == queue[Shared]
               a == <<Head(s)>>
               b == Tail(s)
    <3>1. batch' = Append(batch, Head(s)) /\ queue' = [queue EXCEPT ![Shared] = b]
      BY <1>8, <2>3 DEF PopFifo
    <3>2. s \in Seq(Packets) /\ Shared \in Queues /\ batch \in Seq(Packets) /\ Ascending(s)
      BY DEF SchedTypeOK, Queues, OrderInv, PipelineOrder
    <3>3. /\ Head(s) \in Packets /\ b \in Seq(Packets) /\ Within(a, s) /\ Within(b, s)
          /\ Precedes(a, b)
      BY <2>3, <3>2, TailOrder
    <3>4. \A i \in DOMAIN s : (\E j \in DOMAIN a : a[j] = s[i]) \/ (\E j \in DOMAIN b : b[j] = s[i])
      <4> TAKE i \in DOMAIN s
      <4>1. CASE i = 1
        <5>1. 1 \in DOMAIN a /\ a[1] = s[1]
          BY <2>3, <3>2
        <5> QED
          BY <4>1, <5>1
      <4>2. CASE i # 1
        <5>1. i - 1 \in DOMAIN b /\ b[i - 1] = s[i]
          BY <2>3, <3>2, <4>2
        <5> QED
          BY <5>1
      <4> QED
        BY <4>1, <4>2
    <3>5. a \in Seq(Packets) /\ Ascending(a)
      BY <3>3, OneOrder
    <3>6. batch' = batch \o a
      BY <3>1, <3>2, <3>3
    <3> HIDE DEF a, b
    <3> QED
      BY <2>1, <3>1, <3>2, <3>3, <3>4, <3>5, <3>6, CollectBalance
  <2> QED
    BY <2>2, <2>3
<1>9. CASE CountRounds
  BY <1>c, <1>9 DEF CountRounds, readerVars
<1>10. ASSUME NEW f \in Flows, TakeTurn(f) PROVE IsFiniteSet(Queued') /\ SlotsBalance'
  <2> DEFINE n == IF Len(queue[f]) < Weight(f) THEN Len(queue[f]) ELSE Weight(f)
             a == SubSeq(queue[f], 1, n)
             b == SubSeq(queue[f], n + 1, Len(queue[f]))
  <2>1. f \in Queues /\ queue[f] \in Seq(Packets) /\ n \in 0 .. Len(queue[f])
    BY TurnShare
  <2>2. batch' = batch \o a /\ queue' = [queue EXCEPT ![f] = b]
    BY <1>10 DEF TakeTurn
  <2>3. UNCHANGED <<config, permits, reader>> /\ writer = "Turn" /\ writer' \in {"Turn", "Release"}
    BY <1>10 DEF TakeTurn, readerVars
  <2> HIDE DEF n
  <2>4. Ascending(queue[f])
    BY <2>1 DEF OrderInv, PipelineOrder
  <2>5. /\ a \in Seq(Packets) /\ b \in Seq(Packets)
        /\ Within(a, queue[f]) /\ Within(b, queue[f])
        /\ \A i \in DOMAIN queue[f] : (\E j \in DOMAIN a : a[j] = queue[f][i])
                                      \/ (\E j \in DOMAIN b : b[j] = queue[f][i])
        /\ Ascending(a) /\ Precedes(a, b)
    BY <2>1, <2>4, SplitOrder
  <2> HIDE DEF a, b
  <2> QED
    BY <2>1, <2>2, <2>3, <2>5, CollectBalance
<1>11. CASE ReleaseSlots
  <2>1. /\ UNCHANGED <<config, reader, queue, batch>> /\ writer = "Release" /\ writer' = "Send"
        /\ permits' = IF config.backpressure THEN permits + Len(batch) ELSE permits
    BY <1>11 DEF ReleaseSlots, readerVars
  <2>2. Queued' = Queued
    BY <2>1 DEF Queued
  <2>3. CASE config.backpressure
    <3>1. /\ config'.backpressure /\ permits' = permits + Len(batch) /\ reader' = reader
          /\ Cardinality(Queued') = Cardinality(Queued)
      BY <2>1, <2>2, <2>3
    <3> QED
      BY <1>a, <2>1, <2>2, <2>3, <3>1 DEF SlotsBalance
  <2>4. CASE ~config.backpressure
    BY <1>a, <2>1, <2>2, <2>4 DEF SlotsBalance
  <2> QED
    BY <2>3, <2>4
<1>12. CASE SendBatch \/ MeterPacket \/ SendDelayed
  <2>1. /\ UNCHANGED <<config, permits, reader, queue>>
        /\ writer \in {"Send", "Meter", "Delayed"} /\ writer' \in {"Controls", "Meter", "Delayed"}
    BY <1>12 DEF SendBatch, MeterPacket, SendDelayed, readerVars
  <2> QED
    BY <1>c, <2>1
<1>13. CASE UNCHANGED schedVars
  BY <1>b, <1>13 DEF schedVars, readerVars
<1> QED
  BY <1>1, <1>2, <1>3, <1>4, <1>5, <1>6, <1>7, <1>8, <1>9, <1>10, <1>11, <1>12, <1>13
     DEF SchedNext, Reader, Writer

\* Under backpressure the slot in hand leaves room in every queue; otherwise the
\* length that was compared can only have shrunk.
LEMMA RefusedNext ==
    ASSUME SchedTypeOK, SchedTypeOK', OrderInv', SlotInv, IsFiniteSet(Queued'), SlotsBalance',
           [SchedNext]_schedVars
    PROVE  NeverRefused'
<1> SUFFICES ASSUME reader' = "Push" PROVE Len(queue'[QueueOf(packet)']) < Capacity
  BY DEF NeverRefused
<1>1. config' = config /\ config.backpressure \in BOOLEAN
  <2>1. config' = config
    BY DEF SchedNext, Reader, Writer, schedVars, Offer, SendControl, TakePacket, AcquireSlot,
           MeasureQueue, PushPacket, NotifyWriter, HandleControl, ControlsHandled, CheckQueues,
           WakeUp, WakeForControl, ApplyControl, WriterMoves, PopFifo, CountRounds, TakeTurn,
           ReleaseSlots, SendBatch, MeterPacket, BatchMetered, SendDelayed, BatchDone
  <2> QED
    BY <2>1 DEF SchedTypeOK, Configs
<1>2. CASE config.backpressure
  <2>1. packet' \in Packets /\ QueueOf(packet)' \in Queues /\ queue' \in [Queues -> Seq(Packets)]
    BY DEF SchedTypeOK, QueueOf, Queues, Packets
  <2>2. Queued' = UNION {Range(queue'[r]) : r \in Queues}
    BY DEF Queued
  <2>3. \A q \in Queues : Ascending(queue'[q])
    BY DEF OrderInv, PipelineOrder
  <2> DEFINE q == QueueOf(packet)'
  <2> HIDE DEF q
  <2>4. q \in Queues
    BY <2>1 DEF q
  <2>5. Len(queue'[q]) <= Cardinality(Queued') /\ Len(queue'[q]) \in Nat
    BY <2>1, <2>2, <2>3, <2>4, QueueBound
  <2>6. Cardinality(Queued') \in Nat /\ permits' \in Nat /\ Len(batch') \in Nat
    BY FS_CardinalityType DEF SchedTypeOK
  <2>7. Cardinality(Queued') + 1 <= Capacity
    BY <1>1, <1>2, <2>6 DEF SlotsBalance
  <2>8. Len(queue'[q]) < Capacity
    BY <2>5, <2>6, <2>7
  <2> QED
    BY <2>8 DEF q
<1>3. ASSUME reader = "Push", packet' = packet, \A q \in Queues : Len(queue'[q]) <= Len(queue[q])
      PROVE  Len(queue'[QueueOf(packet)']) < Capacity
  <2>1. packet \in Packets /\ QueueOf(packet) \in Queues /\ QueueOf(packet)' = QueueOf(packet)
    BY <1>1, <1>3 DEF SchedTypeOK, QueueOf, Queues, Packets
  <2>2. Len(queue[QueueOf(packet)]) < Capacity
    BY <1>3 DEF SlotInv, SlotLedger, NeverRefused
  <2>3. /\ Len(queue[QueueOf(packet)]) \in Nat /\ Len(queue'[QueueOf(packet)]) \in Nat
        /\ Len(queue'[QueueOf(packet)]) <= Len(queue[QueueOf(packet)])
    <3>1. queue \in [Queues -> Seq(Packets)] /\ queue' \in [Queues -> Seq(Packets)]
      BY DEF SchedTypeOK
    <3>2. \A q \in Queues : Len(queue[q]) \in Nat /\ Len(queue'[q]) \in Nat
      BY <3>1
    <3> QED
      BY <1>3, <2>1, <3>2
  <2> QED
    BY <2>1, <2>2, <2>3
<1>4. \A q \in Queues : queue[q] \in Seq(Packets) /\ Len(queue[q]) \in Nat
  BY DEF SchedTypeOK
<1>5. ASSUME UNCHANGED <<reader, packet, queue>> PROVE Len(queue'[QueueOf(packet)']) < Capacity
  BY <1>3, <1>4, <1>5
<1>6. CASE MeasureQueue /\ ~config.backpressure
  <2> DEFINE len == Len(queue[QueueOf(packet)])
  <2>1. PICK drop \in DropDecisions(len) :
           IF drop THEN Forget ELSE reader' = "Push" /\ seen_len' = len /\ UNCHANGED packet
    BY <1>6 DEF MeasureQueue
  <2>2. queue' = queue
    BY <1>6 DEF MeasureQueue
  <2> HIDE DEF len
  <2>3. drop \in BOOLEAN
    BY DEF DropDecisions
  <2>4. drop = FALSE
    BY <2>1, <2>3 DEF Forget
  <2>5. packet' = packet
    BY <2>1, <2>4
  <2>6. packet' \in Packets /\ QueueOf(packet)' = QueueOf(packet) /\ QueueOf(packet) \in Queues
    BY <1>1, <2>5 DEF SchedTypeOK, QueueOf, Queues, Packets
  <2>7. len \in Nat
    BY <1>4, <2>6 DEF len
  <2>8. ~(len + 1 > Capacity)
    <3> SUFFICES ASSUME len + 1 > Capacity PROVE FALSE
      OBVIOUS
    <3>1. DropDecisions(len) = {TRUE}
      BY DEF DropDecisions
    <3> QED
      BY <2>4, <3>1, Zenon
  <2>9. len < Capacity
    BY <2>7, <2>8
  <2> QED
    BY <2>2, <2>6, <2>9 DEF len
<1>7. CASE TakePacket \/ AcquireSlot \/ PushPacket \/ NotifyWriter
  BY <1>7 DEF TakePacket, AcquireSlot, PushPacket, NotifyWriter, Forget
<1>8. CASE PopFifo
  <2>1. UNCHANGED <<reader, packet>>
    BY <1>8 DEF PopFifo, readerVars
  <2>2. \A q \in Queues : Len(queue'[q]) <= Len(queue[q])
    <3>1. CASE queue[Shared] = << >>
      BY <1>4, <1>8, <3>1 DEF PopFifo
    <3>2. CASE queue[Shared] # << >>
      <4>1. queue' = [queue EXCEPT ![Shared] = Tail(queue[Shared])] /\ Shared \in Queues
        BY <1>8, <3>2 DEF PopFifo, Queues
      <4>2. Len(Tail(queue[Shared])) <= Len(queue[Shared])
        <5> DEFINE s == queue[Shared]
        <5>1. s \in Seq(Packets) /\ s # << >>
          BY <1>4, <3>2, <4>1
        <5> HIDE DEF s
        <5>2. Len(Tail(s)) <= Len(s)
          BY <5>1
        <5> QED
          BY <5>2 DEF s
      <4>3. queue'[Shared] = Tail(queue[Shared]) /\ \A q \in Queues : q # Shared => queue'[q] = queue[q]
        BY <4>1 DEF SchedTypeOK
      <4> TAKE q \in Queues
      <4>4. CASE q = Shared
        BY <4>2, <4>3, <4>4
      <4>5. CASE q # Shared
        <5>1. Len(queue[q]) \in Nat /\ queue'[q] = queue[q]
          BY <1>4, <4>3, <4>5
        <5> QED
          BY <5>1
      <4> QED
        BY <4>4, <4>5
    <3> QED
      BY <3>1, <3>2
  <2> QED
    BY <1>3, <2>1, <2>2
<1>9. ASSUME NEW f \in Flows, TakeTurn(f) PROVE Len(queue'[QueueOf(packet)']) < Capacity
  <2> DEFINE n == IF Len(queue[f]) < Weight(f) THEN Len(queue[f]) ELSE Weight(f)
             b == SubSeq(queue[f], n + 1, Len(queue[f]))
  <2>1. f \in Queues /\ queue[f] \in Seq(Packets) /\ n \in 0 .. Len(queue[f])
    BY TurnShare
  <2>2. queue' = [queue EXCEPT ![f] = b] /\ UNCHANGED <<reader, packet>>
    BY <1>9 DEF TakeTurn, readerVars
  <2> HIDE DEF n
  <2>3. Len(b) = Len(queue[f]) - n
    BY <2>1, SplitOrder
  <2>4. queue'[f] = b /\ \A q \in Queues : q # f => queue'[q] = queue[q]
    BY <2>1, <2>2 DEF SchedTypeOK
  <2> HIDE DEF b
  <2>5. \A q \in Queues : Len(queue'[q]) <= Len(queue[q])
    BY <1>4, <2>1, <2>3, <2>4
  <2> QED
    BY <1>3, <2>2, <2>5
<1>10. CASE (\E k \in Kinds : Offer(k)) \/ (\E m \in ControlMessages : SendControl(m)) \/ UNCHANGED schedVars
  BY <1>5, <1>10 DEF Offer, SendControl, schedVars, readerVars
<1>11. CASE HandleControl \/ WakeForControl
  BY <1>5, <1>11 DEF HandleControl, WakeForControl, ApplyControl, readerVars
<1>12. CASE ControlsHandled \/ CheckQueues \/ WakeUp \/ BatchMetered \/ BatchDone
  BY <1>5, <1>12 DEF ControlsHandled, CheckQueues, WakeUp, BatchMetered, BatchDone, WriterMoves, readerVars
<1>13. CASE CountRounds \/ ReleaseSlots \/ SendBatch \/ MeterPacket \/ SendDelayed
  BY <1>5, <1>13 DEF CountRounds, ReleaseSlots, SendBatch, MeterPacket, SendDelayed, readerVars
<1> QED
  BY <1>1, <1>2, <1>6, <1>7, <1>8, <1>9, <1>10, <1>11, <1>12, <1>13 DEF SchedNext, Reader, Writer

\* What WRR found in its queues is still there when it counts.
LEMMA CollectsNext ==
    ASSUME SchedTypeOK, SlotInv, [SchedNext]_schedVars
    PROVE  CollectsFromQueues'
<1> SUFFICES ASSUME writer' = "Collect", config'.discipline = "Wrr" PROVE ~AllEmpty'
  BY DEF CollectsFromQueues
<1>1. ASSUME writer = "Collect", config' = config, queue' = queue PROVE ~AllEmpty'
  BY <1>1 DEF SlotInv, SlotLedger, CollectsFromQueues, AllEmpty
<1>2. CASE CheckQueues
  <2>1. ~AllEmpty /\ queue' = queue
    BY <1>2 DEF CheckQueues, WriterMoves
  <2> QED
    BY <2>1 DEF AllEmpty
<1>3. CASE PushPacket
  <2> DEFINE h == QueueOf(packet)
  <2>1. h \in Queues /\ packet \in Packets /\ queue[h] \in Seq(Packets)
    BY <1>3 DEF PushPacket, SchedTypeOK, QueueOf, Queues, Packets
  <2>2. /\ writer = "Collect" /\ config' = config
        /\ queue' = queue \/ queue' = [queue EXCEPT ![h] = Append(queue[h], packet)]
    BY <1>3 DEF PushPacket
  <2> HIDE DEF h
  <2>3. CASE queue' = [queue EXCEPT ![h] = Append(queue[h], packet)]
    <3>1. queue'[h] = Append(queue[h], packet)
      BY <2>1, <2>3 DEF SchedTypeOK
    <3>2. Append(queue[h], packet) # << >>
      <4>1. \A s \in Seq(Packets) : Append(s, packet) # << >>
        OBVIOUS
      <4> QED
        BY <2>1, <4>1
    <3> QED
      BY <2>1, <3>1, <3>2 DEF AllEmpty
  <2> QED
    BY <1>1, <2>2, <2>3
<1>4. CASE (\E k \in Kinds : Offer(k)) \/ (\E m \in ControlMessages : SendControl(m)) \/ UNCHANGED schedVars
  BY <1>1, <1>4 DEF Offer, SendControl, schedVars
<1>5. CASE TakePacket \/ AcquireSlot \/ MeasureQueue \/ NotifyWriter
  BY <1>1, <1>5 DEF TakePacket, AcquireSlot, MeasureQueue, NotifyWriter
<1>6. CASE HandleControl \/ WakeForControl \/ ControlsHandled \/ WakeUp \/ BatchMetered \/ BatchDone
  BY <1>6 DEF HandleControl, WakeForControl, ControlsHandled, WakeUp, BatchMetered, BatchDone, WriterMoves
<1>7. CASE PopFifo
  BY <1>7 DEF PopFifo
<1>8. CASE CountRounds \/ ReleaseSlots \/ SendBatch \/ MeterPacket \/ SendDelayed
  BY <1>8 DEF CountRounds, ReleaseSlots, SendBatch, MeterPacket, SendDelayed
<1>9. CASE \E f \in Flows : TakeTurn(f)
  BY <1>9 DEF TakeTurn
<1> QED
  BY <1>2, <1>3, <1>4, <1>5, <1>6, <1>7, <1>8, <1>9 DEF SchedNext, Reader, Writer

-----------------------------------------------------------------------------
(* Theorems *)

\* SchedInv holds in every reachable state: types, the order of the packets of
\* a flow at every place between the channel and the network, and the ledger.
THEOREM SchedInductive == SchedSpec => []SchedInv
<1>1. SchedInit => SchedInv
  BY TypeInit, OrderInit, SlotInit DEF SchedInv, OrderInv, SlotInv
<1>2. SchedInv /\ [SchedNext]_schedVars => SchedInv'
  <2> SUFFICES ASSUME SchedInv, [SchedNext]_schedVars PROVE SchedInv'
    OBVIOUS
  <2>1. SchedTypeOK /\ MeteredOnly /\ OrderInv /\ SlotInv
    BY DEF SchedInv, OrderInv, SlotInv
  <2>2. SchedTypeOK' /\ MeteredOnly'
    BY <2>1, TypeNext
  <2>3. OrderInv'
    BY <2>1, <2>2, OrderNext
  <2>4. IsFiniteSet(Queued') /\ SlotsBalance'
    BY <2>1, <2>2, BalanceNext
  <2>5. NeverRefused'
    BY <2>1, <2>2, <2>3, <2>4, RefusedNext
  <2>6. CollectsFromQueues'
    BY <2>1, CollectsNext
  <2> QED
    BY <2>2, <2>3, <2>4, <2>5, <2>6 DEF SchedInv, OrderInv, SlotLedger
<1> QED
  BY <1>1, <1>2, PTL DEF SchedSpec

\* Under backpressure every slot is free, in the reader's hand, or taken by one
\* packet that is queued or being collected, in every interleaving of
\* enqueue, collect_packets and the release of the slots; a packet that was let
\* through is never refused; WRR never counts rounds over empty queues.
THEOREM LedgerBalances == SchedSpec => []SlotLedger
BY SchedInductive, PTL DEF SchedInv

\* The packets of a flow reach the network interface in the order they were
\* offered, whatever the discipline, the weights and the drops; with a token
\* bucket (TokenBucket::send) one may overtake another only if it is smaller.
THEOREM FlowsStayInOrder == SchedSpec => []FlowOrder
BY SchedInductive, PTL DEF SchedInv
=============================================================================
