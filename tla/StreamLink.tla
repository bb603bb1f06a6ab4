----------------------------- MODULE StreamLink -----------------------------
(***************************************************************************)
(* Links over TCP and QUIC (dataplane/src/node/network): how clients and a *)
(* server set a link up, and the framing of packets on its byte stream,    *)
(* with the bandwidth probes that travel among them.  Bytes are counted in *)
(* units: one for the length of a frame, one per unit of packet size.  The *)
(* packets of the first client are followed.                               *)
(***************************************************************************)
EXTENDS Integers, Sequences, FiniteSets

CONSTANTS
    Clients,        \* nodes that dial the server
    Sender,         \* the client whose packets are followed
    MaxRetry,       \* MAX_RETRY
    MaxDials,       \* bound on the dials of a client
    MinSize,        \* the smallest frame, 20 bytes
    MaxSize,        \* MAX_FRAMED_PACKET_SIZE
    Traffic         \* what the client is to send: [size, probe, last]

VARIABLES
    protocol,       \* "Tcp" or "Quic"
    client,         \* per client: its state and how often it dialled
    server,         \* the accept loop and the connection it works on
    backlog,        \* connections not accepted yet
    known,          \* nodes the processors have a scheduler for
    next,           \* index of the next packet the scheduler hands over
    pending,        \* units of the batch not written yet
    stream,         \* units written, not read
    want,           \* the frame being read: its size, and the units so far
    sent,           \* packets handed to the writer (history)
    got,            \* packets the reader handed over (history)
    active_probes,  \* probe id -> units received
    results         \* probe results reported

vars == <<protocol, client, server, backlog, known, next, pending, stream, want, sent, got,
          active_probes, results>>

\* send_probe: a train of packets, the last one marked.
ProbeTrain(p, count, size) == [i \in 1 .. count |-> [size |-> size, probe |-> p, last |-> i = count]]

setup == <<protocol, client, server, backlog, known>>
NoFrame == [size |-> 0, units |-> << >>]
NoProbe == 0
Probes == {Traffic[i].probe : i \in DOMAIN Traffic} \ {NoProbe}

Init ==
    /\ protocol \in {"Tcp", "Quic"}
    /\ client = [c \in Clients |-> [state |-> "dialing", dials |-> 0]]
    /\ server = [state |-> "down", peer |-> {}]
    /\ backlog = << >>
    /\ known = {}
    /\ next = 1
    /\ pending = << >> /\ stream = << >> /\ want = NoFrame
    /\ sent = << >> /\ got = << >>
    /\ active_probes = [p \in Probes |-> 0]
    /\ results = << >>

-----------------------------------------------------------------------------
(* Setting a link up *)

traffic == <<next, pending, stream, want, sent, got, active_probes, results>>

StartListening ==
    /\ server.state = "down"
    /\ server' = [server EXCEPT !.state = "accepting"]
    /\ UNCHANGED <<protocol, client, backlog, known, traffic>>

\* TcpClient::connect tries for ever, QuicClient::connect panics in the end.
AfterFailedDial(dials) == IF protocol = "Quic" /\ dials >= MaxRetry THEN "panicked" ELSE "dialing"

Dial(c) ==
    /\ client[c].state = "dialing" /\ client[c].dials < MaxDials
    /\ LET dials == client[c].dials + 1 IN
       IF server.state \in {"down", "stopped"}
       THEN /\ client' = [client EXCEPT ![c] = [state |-> AfterFailedDial(dials), dials |-> dials]]
            /\ UNCHANGED backlog
       ELSE /\ client' = [client EXCEPT ![c] = [state |-> "connected", dials |-> dials]]
            /\ backlog' = Append(backlog, c)
    /\ UNCHANGED <<protocol, server, known, traffic>>

SendNodeId(c) ==
    /\ client[c].state = "connected"
    /\ client' = [client EXCEPT ![c].state = "up"]
    /\ UNCHANGED <<protocol, server, backlog, known, traffic>>

\* The process of a client ends between the connection and its node id.
ClientDies(c) ==
    /\ client[c].state = "connected" /\ c # Sender
    /\ client' = [client EXCEPT ![c].state = "dead"]
    /\ UNCHANGED <<protocol, server, backlog, known, traffic>>

Accept ==
    /\ server.state = "accepting" /\ backlog # << >>
    /\ server' = [state |-> "serving", peer |-> {Head(backlog)}]
    /\ backlog' = Tail(backlog)
    /\ UNCHANGED <<protocol, client, known, traffic>>

\* A connection without a node id is skipped by the TCP server.  So is a QUIC
\* connection that ends before its stream opens; one whose stream opened and
\* ends before the id is read makes the QUIC server return.
AfterFailedHandshake ==
    IF protocol = "Tcp" THEN {"accepting"} ELSE {"accepting", "stopped"}

\* The loop waits for the node id of the connection it accepted.
ReadNodeId(c) ==
    /\ server.state = "serving" /\ c \in server.peer
    /\ \/ /\ client[c].state = "up"
          /\ server' = [state |-> "accepting", peer |-> {}]
          /\ known' = known \cup {c}
       \/ /\ client[c].state = "dead"
          /\ \E state \in AfterFailedHandshake : server' = [state |-> state, peer |-> {}]
          /\ UNCHANGED known
    /\ UNCHANGED <<protocol, client, backlog, traffic>>

-----------------------------------------------------------------------------
(* framing::write_packets *)

Frame(i) == <<[len |-> Traffic[i].size, packet |-> i]>>
            \o [j \in 1 .. Traffic[i].size |-> [len |-> 0, packet |-> i]]

Frames(is) ==
    LET f[k \in 0 .. Len(is)] == IF k = 0 THEN << >> ELSE f[k - 1] \o Frame(is[k]) IN f[Len(is)]

\* The scheduler hands over a batch of packets, or drops one.
WritePackets(n) ==
    /\ client[Sender].state = "up" /\ pending = << >> /\ next + n - 1 <= Len(Traffic)
    /\ LET batch == [i \in 1 .. n |-> next + i - 1] IN
       /\ pending' = Frames(batch)
       /\ sent' = sent \o batch
    /\ next' = next + n
    /\ UNCHANGED <<setup, stream, want, got, active_probes, results>>

DropPacket ==
    /\ client[Sender].state = "up" /\ pending = << >> /\ next <= Len(Traffic)
    /\ next' = next + 1
    /\ UNCHANGED <<setup, pending, stream, want, sent, got, active_probes, results>>

\* Slip: a write that ends within a frame loses the rest of that frame.
AdvanceFrames(units, k) ==
    LET later == {j \in k + 1 .. Len(units) : units[j].len # 0} IN
    IF later = {} THEN << >>
    ELSE SubSeq(units, CHOOSE j \in later : \A i \in later : j <= i, Len(units))

\* IoSlice::advance_slices
AdvanceSlices(units, k) == SubSeq(units, k + 1, Len(units))

\* write_vectored takes as much as it likes.
WriteVectored(k) ==
    /\ pending # << >> /\ k <= Len(pending)
    /\ stream' = stream \o SubSeq(pending, 1, k)
    /\ pending' = AdvanceSlices(pending, k)
    /\ UNCHANGED <<setup, next, want, sent, got, active_probes, results>>

-----------------------------------------------------------------------------
(* framing::read_packet, TcpReader::run and QuicReader::run *)

ValidLength(n) == n \in MinSize .. MaxSize

\* After an invalid length the loop reads on behind it.
ReadLength ==
    /\ Sender \in known /\ want = NoFrame /\ stream # << >>
    /\ stream' = Tail(stream)
    /\ want' = IF ValidLength(Head(stream).len) THEN [size |-> Head(stream).len, units |-> << >>]
               ELSE NoFrame
    /\ UNCHANGED <<setup, next, pending, sent, got, active_probes, results>>

ProbeKey(p) == p

\* handle_probe, on TCP links only: the last packet of a train reports it.
HandleProbe(i) ==
    LET p == Traffic[i].probe
        k == ProbeKey(p)
        total == active_probes[k] + Traffic[i].size IN
    IF Traffic[i].last
    THEN /\ results' = Append(results, [probe |-> p, units |-> total])
         /\ active_probes' = [active_probes EXCEPT ![k] = 0]
    ELSE /\ active_probes' = [active_probes EXCEPT ![k] = total]
         /\ UNCHANGED results

\* TcpReader::run keeps probes to itself, QuicReader::run hands all on.
HandlePacket(i) ==
    IF protocol = "Tcp" /\ Traffic[i].probe # NoProbe THEN HandleProbe(i)
    ELSE UNCHANGED <<active_probes, results>>

ReadBody ==
    /\ want # NoFrame /\ stream # << >>
    /\ stream' = Tail(stream)
    /\ LET units == Append(want.units, Head(stream)) IN
       IF Len(units) < want.size
       THEN /\ want' = [want EXCEPT !.units = units]
            /\ UNCHANGED <<got, active_probes, results>>
       ELSE /\ want' = NoFrame
            /\ got' = Append(got, units)
            /\ HandlePacket(units[1].packet)
    /\ UNCHANGED <<setup, next, pending, sent>>

-----------------------------------------------------------------------------
Next ==
    \/ StartListening \/ Accept \/ DropPacket \/ ReadLength \/ ReadBody
    \/ \E c \in Clients : Dial(c) \/ SendNodeId(c) \/ ClientDies(c) \/ ReadNodeId(c)
    \/ \E n \in 1 .. 2 : WritePackets(n)
    \/ \E k \in 1 .. Len(pending) : WriteVectored(k)

Spec == Init /\ [][Next]_vars

-----------------------------------------------------------------------------
(* Properties *)

\* The reader hands over exactly the packets that were written, whole and in
\* order, however the writes and reads are split (write_packets, read_packet).
FramesArriveWhole ==
    /\ Len(got) <= Len(sent)
    /\ \A i \in DOMAIN got :
          /\ Len(got[i]) = Traffic[sent[i]].size
          /\ \A j \in DOMAIN got[i] : got[i][j] = [len |-> 0, packet |-> sent[i]]

\* A probe result counts the packets of its own train that arrived, also when
\* the scheduler dropped the end of an earlier train (handle_probe).
ProbeMeasuresOwnTrain ==
    \A r \in DOMAIN results :
        LET of == {i \in DOMAIN got : Traffic[got[i][1].packet].probe = results[r].probe}
            f[S \in SUBSET of] == IF S = {} THEN 0
                                  ELSE LET i == CHOOSE j \in S : TRUE IN Len(got[i]) + f[S \ {i}]
        IN  results[r].units = f[of]

\* The reader of a link sees what was sent on it: the frames, and the trains
\* among them (read_packet, handle_probe).
ReaderSeesWhatWasSent == FramesArriveWhole /\ ProbeMeasuresOwnTrain
=============================================================================
