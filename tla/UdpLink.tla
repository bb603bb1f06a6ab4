------------------------------ MODULE UdpLink ------------------------------
(***************************************************************************)
(* A link over UDP (dataplane/src/node/network/udp.rs): the client sends   *)
(* one handshake datagram and then packets; the workers of the server      *)
(* share a socket and a table of peers, each peer with a queue and a       *)
(* reader.  The network loses, duplicates and reorders datagrams.  A       *)
(* worker looks a peer up and changes the table under separate locks.      *)
(***************************************************************************)
EXTENDS Integers, Sequences, FiniteSets

CONSTANTS
    Workers,        \* the receive tasks of the server
    MaxPackets,     \* packets the client sends
    MaxCopies,      \* bound on the copies of a datagram
    Capacity        \* channel_capacity of a peer's queue

VARIABLES
    client,         \* datagrams the client has sent; 0 is the handshake
    net,            \* datagram -> copies in flight
    copies,         \* datagram -> copies there ever were
    worker,         \* per worker: what it is doing
    peer,           \* the queue of the client in the peers table; 0 if none
    queues,         \* packets in each queue, in the order of their creation
    readers,        \* queues that have a reader
    scheduler,      \* the queue whose interface the processors use; 0 if none
    delivered,      \* packet -> copies handed to the processors (history)
    lost            \* packets a worker dropped although it had found the peer (history)

vars == <<client, net, copies, worker, peer, queues, readers, scheduler, delivered, lost>>

Handshake == 0
Datagrams == 0 .. MaxPackets
IdleWorker == [step |-> "recv", datagram |-> Handshake, queue |-> 0]

Init ==
    /\ client = 0
    /\ net = [d \in Datagrams |-> 0]
    /\ copies = [d \in Datagrams |-> 0]
    /\ worker = [w \in Workers |-> IdleWorker]
    /\ peer = 0
    /\ queues = << >>
    /\ readers = {}
    /\ scheduler = 0
    /\ delivered = [d \in Datagrams |-> 0]
    /\ lost = {}

-----------------------------------------------------------------------------
(* The client and the network *)

\* UdpClient::connect sends the handshake once; UdpWriter sends the packets.
Send ==
    /\ client <= MaxPackets
    /\ client' = client + 1
    /\ net' = [net EXCEPT ![client] = @ + 1]
    /\ copies' = [copies EXCEPT ![client] = 1]
    /\ UNCHANGED <<worker, peer, queues, readers, scheduler, delivered, lost>>

Lose(d) ==
    /\ net[d] > 0
    /\ net' = [net EXCEPT ![d] = @ - 1]
    /\ UNCHANGED <<client, copies, worker, peer, queues, readers, scheduler, delivered, lost>>

Duplicate(d) ==
    /\ net[d] > 0 /\ copies[d] < MaxCopies
    /\ net' = [net EXCEPT ![d] = @ + 1]
    /\ copies' = [copies EXCEPT ![d] = @ + 1]
    /\ UNCHANGED <<client, worker, peer, queues, readers, scheduler, delivered, lost>>

-----------------------------------------------------------------------------
(* The workers of UdpServer::start_listening *)

At(w, step) == worker[w].step = step
Set(w, rec) == worker' = [worker EXCEPT ![w] = rec]

RecvFrom(w, d) ==
    /\ At(w, "recv") /\ net[d] > 0
    /\ net' = [net EXCEPT ![d] = @ - 1]
    /\ Set(w, [step |-> IF d = Handshake THEN "check" ELSE "lookup", datagram |-> d, queue |-> 0])
    /\ UNCHANGED <<client, copies, peer, queues, readers, scheduler, delivered, lost>>

\* A handshake of a known peer is ignored.
CheckHandshake(w) ==
    /\ At(w, "check")
    /\ Set(w, IF peer # 0 THEN IdleWorker ELSE [worker[w] EXCEPT !.step = "create"])
    /\ UNCHANGED <<client, net, copies, peer, queues, readers, scheduler, delivered, lost>>

\* The queue, its reader and its scheduler; add_node replaces an earlier one.
CreatePeer(w) ==
    /\ At(w, "create")
    /\ queues' = Append(queues, << >>)
    /\ readers' = readers \cup {Len(queues) + 1}
    /\ scheduler' = Len(queues) + 1
    /\ Set(w, [worker[w] EXCEPT !.step = "insert", !.queue = Len(queues) + 1])
    /\ UNCHANGED <<client, net, copies, peer, delivered, lost>>

\* Slip: the reader of a replaced peer is stopped at once.
InsertPeerStopping(w) ==
    /\ At(w, "insert")
    /\ peer' = worker[w].queue
    /\ readers' = readers \ {peer}
    /\ Set(w, IdleWorker)
    /\ UNCHANGED <<client, net, copies, queues, scheduler, delivered, lost>>

\* Two workers that both saw no peer both insert one: the later replaces the
\* earlier, whose reader lives on as long as somebody holds its sender.
InsertPeer(w) ==
    /\ At(w, "insert")
    /\ peer' = worker[w].queue
    /\ Set(w, IdleWorker)
    /\ UNCHANGED <<client, net, copies, queues, readers, scheduler, delivered, lost>>

\* The sender is cloned under the lock and used after it.
Lookup(w) ==
    /\ At(w, "lookup")
    /\ Set(w, IF peer = 0 THEN IdleWorker ELSE [worker[w] EXCEPT !.step = "forward", !.queue = peer])
    /\ UNCHANGED <<client, net, copies, peer, queues, readers, scheduler, delivered, lost>>

\* sender.send waits for room; it fails when the reader is gone, and the peer
\* is removed.
Forward(w) ==
    LET q == worker[w].queue IN
    /\ At(w, "forward")
    /\ IF q \in readers
       THEN /\ Len(queues[q]) < Capacity
            /\ queues' = [queues EXCEPT ![q] = Append(@, worker[w].datagram)]
            /\ UNCHANGED <<peer, lost>>
       ELSE /\ lost' = lost \cup {worker[w].datagram}
            /\ peer' = 0
            /\ UNCHANGED queues
    /\ Set(w, IdleWorker)
    /\ UNCHANGED <<client, net, copies, readers, scheduler, delivered>>

-----------------------------------------------------------------------------
(* UdpReader::run: ends when its queue is empty and all senders are dropped *)

Holders(q) == {w \in Workers : worker[w].queue = q} 

UdpRead(q) ==
    /\ q \in readers /\ queues[q] # << >>
    /\ delivered' = [delivered EXCEPT ![Head(queues[q])] = @ + 1]
    /\ queues' = [queues EXCEPT ![q] = Tail(@)]
    /\ UNCHANGED <<client, net, copies, worker, peer, readers, scheduler, lost>>

ReaderEnds(q) ==
    /\ q \in readers /\ queues[q] = << >> /\ peer # q /\ Holders(q) = {}
    /\ readers' = readers \ {q}
    /\ UNCHANGED <<client, net, copies, worker, peer, queues, scheduler, delivered, lost>>

-----------------------------------------------------------------------------
Next ==
    \/ Send
    \/ \E d \in Datagrams : Lose(d) \/ Duplicate(d)
    \/ \E w \in Workers :
        \/ \E d \in Datagrams : RecvFrom(w, d)
        \/ CheckHandshake(w) \/ CreatePeer(w) \/ InsertPeer(w) \/ Lookup(w) \/ Forward(w)
    \/ \E q \in DOMAIN queues : UdpRead(q) \/ ReaderEnds(q)

Spec == Init /\ [][Next]_vars

-----------------------------------------------------------------------------
(* Properties *)

\* A packet that finds its peer reaches the processors, also while duplicated
\* handshakes replace that peer: the queue a worker holds keeps its reader, and
\* a peer once inserted is never forgotten; and no copy of a packet is handed
\* over twice (start_listening, UdpReader::run).
KnownPeerLosesNothing == lost = {} /\ \A d \in Datagrams : delivered[d] <= copies[d]
=============================================================================
