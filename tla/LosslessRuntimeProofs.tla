------------------------ MODULE LosslessRuntimeProofs ------------------------
(***************************************************************************)
(* Proofs about LosslessRuntime, for every set of tasks, senders and       *)
(* sessions, every assignment of tasks to session ids, every inbox         *)
(* capacity and every number of frames.                                    *)
(***************************************************************************)
EXTENDS LosslessRuntime, TLAPS

USE TasksAssumption, RoundsAssumption, CapacityAssumption

-----------------------------------------------------------------------------
(* Messages and the queue *)

LEMMA MessageCases ==
    ASSUME NEW m \in Messages
    PROVE  /\ m.kind = "Start" => m.task \in Tasks /\ m = Start(m.task)
           /\ m.kind = "Abort" => m.task \in MayAbort
           /\ m.kind = "Deliver" => m.sid \in Sessions /\ m.frame \in Frames
           /\ m.kind = "ReceiverCompleted" =>
                 m.task \in Tasks /\ m.round \in Rounds /\ m = ReceiverCompleted(m.task, m.round)
           /\ m.kind = "SessionExited" =>
                 m.task \in Tasks /\ m.outcome \in Outcomes
                 /\ m = SessionExited(m.task, m.outcome)
BY DEF Messages, SetTopologyReady, Start, ReceiverCompleted, SessionExited

LEMMA MessagesTyped ==
    /\ \A t \in Tasks : Start(t) \in Messages
    /\ \A t \in MayAbort : AbortMsg(t) \in Messages
    /\ \A sid \in Sessions, f \in Frames : Deliver(sid, f) \in Messages
    /\ \A t \in Tasks, r \in Rounds : ReceiverCompleted(t, r) \in Messages
    /\ \A t \in Tasks, o \in Outcomes : SessionExited(t, o) \in Messages
    /\ SetTopologyReady \in Messages
BY DEF Messages, SetTopologyReady, Start, AbortMsg, Deliver, ReceiverCompleted, SessionExited

\* The queue without its first message
LEMMA TailFacts ==
    ASSUME NEW q \in Seq(Messages), q # << >>
    PROVE  /\ Tail(q) \in Seq(Messages)
           /\ 1 \in DOMAIN q /\ q[1] \in Messages
           /\ \A i \in DOMAIN Tail(q) :
                 i \in Int /\ i + 1 \in DOMAIN q /\ i + 1 # 1 /\ Tail(q)[i] = q[i + 1]
           /\ \A i \in DOMAIN q : i # 1 => i - 1 \in DOMAIN Tail(q) /\ Tail(q)[i - 1] = q[i]
OBVIOUS

\* The queue with one message more
LEMMA AppendFacts ==
    ASSUME NEW q \in Seq(Messages), NEW m \in Messages
    PROVE  /\ Append(q, m) \in Seq(Messages)
           /\ Len(q) + 1 \in DOMAIN Append(q, m) /\ Append(q, m)[Len(q) + 1] = m
           /\ Len(q) + 1 \notin DOMAIN q
           /\ \A i \in DOMAIN q : i \in DOMAIN Append(q, m) /\ Append(q, m)[i] = q[i]
           /\ \A i \in DOMAIN Append(q, m) : i \in DOMAIN q \/ i = Len(q) + 1
OBVIOUS

\* What is said once is still said once after the first message is taken, and
\* after a message is added that nobody has said.
LEMMA SaidOnceTail ==
    ASSUME queue \in Seq(Messages), queue # << >>, SaidOnce, queue' = Tail(queue)
    PROVE  SaidOnce'
<1>1. ASSUME NEW i \in DOMAIN queue', NEW j \in DOMAIN queue',
             queue'[i].kind \in {"Start", "ReceiverCompleted", "SessionExited"},
             queue'[j].kind = queue'[i].kind, queue'[j].task = queue'[i].task
      PROVE  i = j
  <2>1. /\ i \in Int /\ j \in Int
        /\ i + 1 \in DOMAIN queue /\ j + 1 \in DOMAIN queue
        /\ queue'[i] = queue[i + 1] /\ queue'[j] = queue[j + 1]
    BY TailFacts
  <2>2. i + 1 = j + 1
    BY <1>1, <2>1 DEF SaidOnce
  <2> QED
    BY <2>1, <2>2
<1> QED
  BY <1>1 DEF SaidOnce

LEMMA SaidOnceAppend ==
    ASSUME queue \in Seq(Messages), SaidOnce, NEW m \in Messages, queue' = Append(queue, m),
           m.kind \in {"Start", "ReceiverCompleted", "SessionExited"} =>
              \A i \in DOMAIN queue : queue[i].kind = m.kind => queue[i].task # m.task
    PROVE  SaidOnce'
<1>1. ASSUME NEW i \in DOMAIN queue', NEW j \in DOMAIN queue',
             queue'[i].kind \in {"Start", "ReceiverCompleted", "SessionExited"},
             queue'[j].kind = queue'[i].kind, queue'[j].task = queue'[i].task
      PROVE  i = j
  <2>1. CASE i \in DOMAIN queue /\ j \in DOMAIN queue
    BY <1>1, <2>1, AppendFacts DEF SaidOnce
  <2>2. CASE i \in DOMAIN queue /\ j = Len(queue) + 1
    BY <1>1, <2>2, AppendFacts
  <2>3. CASE i = Len(queue) + 1 /\ j \in DOMAIN queue
    BY <1>1, <2>3, AppendFacts
  <2> QED
    BY <2>1, <2>2, <2>3, AppendFacts
<1> QED
  BY <1>1 DEF SaidOnce

\* A message that is in the queue stays there unless it is the first one.
LEMMA InQueueTail ==
    ASSUME queue \in Seq(Messages), queue # << >>, queue' = Tail(queue)
    PROVE  \A m : InQueue(m) /\ m # queue[1] => \E i \in DOMAIN queue' : queue'[i] = m
<1>1. ASSUME NEW m, NEW i \in DOMAIN queue, queue[i] = m, m # queue[1]
      PROVE  \E j \in DOMAIN queue' : queue'[j] = m
  <2>1. i - 1 \in DOMAIN queue' /\ queue'[i - 1] = m
    BY <1>1, TailFacts
  <2> QED
    BY <2>1
<1> QED
  BY <1>1 DEF InQueue

LEMMA InQueueAppend ==
    ASSUME queue \in Seq(Messages), NEW m \in Messages, queue' = Append(queue, m)
    PROVE  /\ \E i \in DOMAIN queue' : queue'[i] = m
           /\ \A n : InQueue(n) => \E i \in DOMAIN queue' : queue'[i] = n
BY AppendFacts DEF InQueue

-----------------------------------------------------------------------------
(* The invariant holds initially *)

LEMMA RuntimeInitInv == RuntimeInit => OwnedInv
<1> SUFFICES ASSUME RuntimeInit PROVE OwnedInv
  OBVIOUS
<1> USE DEF RuntimeInit
<1>1. RuntimeTypeOK
  <2>1. queue \in Seq(Messages) /\ inbox \in [Tasks -> Seq(Frames)]
        /\ \A t \in Tasks : Len(inbox[t]) <= InboxCapacity
    OBVIOUS
  <2>2. /\ blocked \in [task : Tasks, frame : Frames] \cup {NoDelivery}
        /\ sessions \in [Sessions -> Tasks \cup {NoTask}]
        /\ completed_receivers \in [Sessions -> Rounds \cup {NoRound}]
        /\ round \in [Tasks -> Rounds \cup {NoRound}]
    OBVIOUS
  <2>3. /\ status \in [Tasks -> Statuses]
        /\ outcome \in [Tasks -> Outcomes \cup {"None"}]
        /\ handle \in [Tasks -> Outcomes \cup {"None", "Running"}]
    BY DEF Statuses
  <2> QED
    BY <2>1, <2>2, <2>3 DEF RuntimeTypeOK
<1>2. SaidOnce /\ MessagesStayTrue
  BY DEF SaidOnce, MessagesStayTrue
<1>3. EntriesMatchHandles /\ Awaited /\ TaskHistory
  BY DEF EntriesMatchHandles, Awaited, TaskHistory
<1>4. StoredReplaysAreTrue /\ ReplaysAreTrue /\ ReplayHasOwner
  BY DEF StoredReplaysAreTrue, ReplaysAreTrue, ReplayHasOwner
<1>5. EntriesLast
  BY DEF EntriesLast, StillOwned, Outcomes
<1> QED
  BY <1>1, <1>2, <1>3, <1>4, <1>5 DEF OwnedInv, RuntimeInv

\* Replays stay true as long as receivers that have ended complete stay so: a
\* step may drop stored replays, and answer with what is stored.
LEMMA ReplaysStay ==
    ASSUME RuntimeInv, complete \subseteq complete',
           \A u \in complete : status[u] \notin {"running", "gated"} =>
              /\ round'[u] = round[u] /\ status'[u] \notin {"running", "gated"}
              /\ status[u] \in {"acked", "returned", "gone"} =>
                    status'[u] \in {"acked", "returned", "gone"},
           \A s \in Sessions : completed_receivers'[s] \in {completed_receivers[s], NoRound},
           \/ UNCHANGED replays
           \/ \E s \in Sessions : /\ completed_receivers[s] # NoRound
                                  /\ replays' = replays \cup {<<s, completed_receivers[s]>>}
    PROVE  StoredReplaysAreTrue' /\ ReplaysAreTrue'
<1> USE DEF RuntimeInv
<1>1. ASSUME NEW s \in Sessions, completed_receivers'[s] # NoRound
      PROVE  \E u \in complete' : /\ SidOf[u] = s /\ round'[u] = completed_receivers'[s]
                                  /\ status'[u] \in {"acked", "returned", "gone"}
  <2>1. PICK u \in complete : /\ SidOf[u] = s /\ round[u] = completed_receivers[s]
                              /\ status[u] \in {"acked", "returned", "gone"}
    BY <1>1 DEF StoredReplaysAreTrue
  <2> QED
    BY <1>1, <2>1
<1>2. ASSUME NEW p \in replays
      PROVE  \E u \in complete' : SidOf[u] = p[1] /\ round'[u] = p[2]
                                  /\ status'[u] \notin {"running", "gated"}
  <2>1. PICK u \in complete : SidOf[u] = p[1] /\ round[u] = p[2]
                              /\ status[u] \notin {"running", "gated"}
    BY <1>2 DEF ReplaysAreTrue
  <2> QED
    BY <2>1
<1>3. ASSUME NEW s \in Sessions, completed_receivers[s] # NoRound
      PROVE  \E u \in complete' : SidOf[u] = s /\ round'[u] = completed_receivers[s]
                                  /\ status'[u] \notin {"running", "gated"}
  <2>1. PICK u \in complete : /\ SidOf[u] = s /\ round[u] = completed_receivers[s]
                              /\ status[u] \in {"acked", "returned", "gone"}
    BY <1>3 DEF StoredReplaysAreTrue
  <2> QED
    BY <2>1
<1> QED
  BY <1>1, <1>2, <1>3 DEF StoredReplaysAreTrue, ReplaysAreTrue

-----------------------------------------------------------------------------
(* Clients and the network *)

\* Only a request for a start says something that could stop being true.
LEMMA AskKeepsInv ==
    ASSUME RuntimeInv, NEW m \in Messages, Ask(m),
           m.kind \in {"Start", "Abort", "SetTopologyReady"}
    PROVE  RuntimeInv'
<1> USE DEF RuntimeInv
<1>1. /\ m \notin asked /\ asked' = asked \cup {m}
      /\ queue' = Append(queue, m)
      /\ UNCHANGED <<actorVars, taskVars, cancelled, handle, delivers>>
  BY DEF Ask, Send
<1>2. queue \in Seq(Messages)
  BY DEF RuntimeTypeOK
<1>3. m.kind = "Start" => m.task \in Tasks /\ m = Start(m.task) /\ status[m.task] = "new"
  BY <1>1, MessageCases DEF TaskHistory
<1>4. RuntimeTypeOK'
  BY <1>1, <1>2, AppendFacts DEF RuntimeTypeOK, actorVars, taskVars
<1>5. SaidOnce'
  <2>1. ASSUME NEW i \in DOMAIN queue, queue[i].kind = m.kind, m.kind = "Start"
        PROVE  queue[i].task # m.task
    BY <1>1, <1>2, <2>1, MessageCases DEF MessagesStayTrue, StillTrue
  <2> QED
    BY <1>1, <1>2, <2>1, SaidOnceAppend
<1>6. MessagesStayTrue'
  BY <1>1, <1>2, <1>3, AppendFacts DEF MessagesStayTrue, StillTrue, actorVars, taskVars
<1>7. Awaited'
  BY <1>1, <1>2, InQueueAppend, SMTT(30) DEF Awaited, InQueue, actorVars, taskVars
<1>8. EntriesMatchHandles' /\ TaskHistory' /\ StoredReplaysAreTrue' /\ ReplaysAreTrue'
  BY <1>1 DEF EntriesMatchHandles, TaskHistory, StoredReplaysAreTrue, ReplaysAreTrue,
              actorVars, taskVars
<1> QED
  BY <1>4, <1>5, <1>6, <1>7, <1>8

LEMMA FrameKeepsInv ==
    ASSUME RuntimeInv, NEW sid \in Sessions, NEW f \in Frames, FrameArrives(sid, f)
    PROVE  RuntimeInv'
<1> USE DEF RuntimeInv
<1> DEFINE m == Deliver(sid, f)
<1>1. /\ queue' = Append(queue, m)
      /\ UNCHANGED <<actorVars, taskVars, cancelled, handle, asked>>
  BY DEF FrameArrives, Send
<1>2. queue \in Seq(Messages) /\ m \in Messages
  BY MessagesTyped DEF RuntimeTypeOK
<1>3. m.kind = "Deliver"
  BY DEF Deliver
<1> HIDE DEF m
<1>4. RuntimeTypeOK'
  BY <1>1, <1>2, AppendFacts DEF RuntimeTypeOK, actorVars, taskVars
<1>5. SaidOnce'
  BY <1>1, <1>2, <1>3, SaidOnceAppend
<1>6. MessagesStayTrue'
  BY <1>1, <1>2, <1>3, AppendFacts DEF MessagesStayTrue, StillTrue, actorVars, taskVars
<1>7. Awaited'
  BY <1>1, <1>2, InQueueAppend, SMTT(30) DEF Awaited, InQueue, actorVars, taskVars
<1>8. EntriesMatchHandles' /\ TaskHistory' /\ StoredReplaysAreTrue' /\ ReplaysAreTrue'
  BY <1>1 DEF EntriesMatchHandles, TaskHistory, StoredReplaysAreTrue, ReplaysAreTrue,
              actorVars, taskVars
<1> QED
  BY <1>4, <1>5, <1>6, <1>7, <1>8

-----------------------------------------------------------------------------
(* The actor *)

\* The message the actor takes, and what is left behind it
LEMMA TakenFacts ==
    ASSUME RuntimeInv, NEW kind, Received(kind)
    PROVE  /\ queue \in Seq(Messages) /\ queue # << >> /\ queue' = Tail(queue)
           /\ 1 \in DOMAIN queue /\ queue[1] \in Messages /\ queue[1].kind = kind
           /\ queue' \in Seq(Messages)
           /\ SaidOnce'
BY TailFacts, SaidOnceTail DEF Received, RuntimeInv, RuntimeTypeOK

\* No message behind the first one is about the same start, completion or end.
LEMMA RestDiffers ==
    ASSUME RuntimeInv, NEW kind \in {"Start", "ReceiverCompleted", "SessionExited"},
           Received(kind), NEW i \in DOMAIN queue'
    PROVE  /\ i + 1 \in DOMAIN queue /\ queue'[i] = queue[i + 1]
           /\ queue'[i].kind = kind => queue'[i].task # queue[1].task
<1>1. /\ i \in Int /\ i + 1 \in DOMAIN queue /\ i + 1 # 1 /\ queue'[i] = queue[i + 1]
      /\ 1 \in DOMAIN queue /\ queue[1].kind = kind
  BY TakenFacts, TailFacts
<1> QED
  BY <1>1 DEF RuntimeInv, SaidOnce

LEMMA StartKeepsInv ==
    ASSUME RuntimeInv, StartSession
    PROVE  RuntimeInv'
<1> USE DEF RuntimeInv
<1> DEFINE t == queue[1].task
           sid == SidOf[t]
<1>1. /\ Received("Start")
      /\ UNCHANGED <<blocked, replays, topology_ready, inbox, round, complete, outcome,
                     cancelled, delivers, asked>>
  BY DEF StartSession, clientVars
<1>2. t \in Tasks /\ sid \in Sessions /\ status[t] = "new" /\ Start(t) \in asked
      /\ handle[t] = "None" /\ t # NoTask /\ t \notin complete /\ t \notin cancelled
      /\ outcome[t] = "None"
  BY <1>1, TakenFacts, MessageCases
     DEF MessagesStayTrue, StillTrue, EntriesMatchHandles, TaskHistory
<1>3. \/ /\ status' = [status EXCEPT ![t] = "refused"]
         /\ UNCHANGED <<sessions, handle>>
         /\ \/ UNCHANGED completed_receivers
            \/ completed_receivers' = [completed_receivers EXCEPT ![sid] = NoRound]
      \/ /\ sessions[sid] = NoTask
         /\ completed_receivers' = [completed_receivers EXCEPT ![sid] = NoRound]
         /\ sessions' = [sessions EXCEPT ![sid] = t]
         /\ status' = [status EXCEPT ![t] =
               IF t \in Senders /\ ~topology_ready THEN "gated" ELSE "running"]
         /\ handle' = [handle EXCEPT ![t] = "Running"]
  BY DEF StartSession
<1> HIDE DEF t, sid
<1>4. /\ status \in [Tasks -> Statuses] /\ sessions \in [Sessions -> Tasks \cup {NoTask}]
      /\ handle \in [Tasks -> Outcomes \cup {"None", "Running"}]
      /\ completed_receivers \in [Sessions -> Rounds \cup {NoRound}]
  BY DEF RuntimeTypeOK
<1>5. /\ \A u \in Tasks : u # t => status'[u] = status[u]
      /\ status'[t] \in {"refused", "gated", "running"}
      /\ \A s \in Sessions : completed_receivers'[s] \in {completed_receivers[s], NoRound}
  BY <1>2, <1>3, <1>4
<1>6. RuntimeTypeOK'
  <2>1. /\ status' \in [Tasks -> Statuses]
        /\ sessions' \in [Sessions -> Tasks \cup {NoTask}]
        /\ handle' \in [Tasks -> Outcomes \cup {"None", "Running"}]
        /\ completed_receivers' \in [Sessions -> Rounds \cup {NoRound}]
    BY <1>2, <1>3, <1>4 DEF Statuses
  <2> QED
    BY <1>1, <2>1, TakenFacts DEF RuntimeTypeOK
<1>7. SaidOnce'
  BY <1>1, TakenFacts
<1>8. MessagesStayTrue'
  <2> SUFFICES ASSUME NEW i \in DOMAIN queue'
               PROVE  StillTrue(queue[i])'
    BY DEF MessagesStayTrue
  <2>1. /\ i + 1 \in DOMAIN queue /\ queue'[i] = queue[i + 1]
        /\ queue'[i].kind = "Start" => queue'[i].task # t
    BY <1>1, RestDiffers DEF t
  <2> DEFINE m == queue[i + 1]
  <2>2. StillTrue(m) /\ m \in Messages
    BY <2>1, <1>1, TakenFacts DEF MessagesStayTrue
  <2>3. m.kind \in {"Start", "ReceiverCompleted", "SessionExited"} => m.task \in Tasks
    BY <2>2, MessageCases
  <2>4. m.kind \in {"ReceiverCompleted", "SessionExited"} => m.task # t
    BY <2>2, <1>2 DEF StillTrue
  <2> QED
    BY <2>1, <2>2, <2>3, <2>4, <1>1, <1>5 DEF StillTrue
<1>9. EntriesMatchHandles'
  <2>1. CASE UNCHANGED <<sessions, handle>>
    BY <1>1, <1>2, <1>3, <1>4, <1>5, <2>1 DEF EntriesMatchHandles
  <2>2. CASE /\ sessions[sid] = NoTask /\ sessions' = [sessions EXCEPT ![sid] = t]
             /\ status'[t] \in {"gated", "running"}
             /\ handle' = [handle EXCEPT ![t] = "Running"]
    <3>1. \A u \in Tasks : u # t => handle'[u] = handle[u] /\ handle'[t] = "Running"
      BY <1>2, <1>4, <2>2
    <3>2. \A s \in Sessions : s # sid => sessions'[s] = sessions[s] /\ sessions'[sid] = t
      BY <1>2, <1>4, <2>2
    <3>3. \A u \in Tasks : SidOf[u] \in Sessions
      OBVIOUS
    <3> QED
      BY <1>1, <1>2, <1>4, <1>5, <2>2, <3>1, <3>2, <3>3 DEF EntriesMatchHandles, sid
  <2> QED
    BY <1>2, <1>3, <1>4, <2>1, <2>2
<1>10. Awaited'
  <2>1. \A m : InQueue(m) /\ m.kind # "Start" => \E i \in DOMAIN queue' : queue'[i] = m
    BY <1>1, TakenFacts, InQueueTail
  <2>2. \A u, x : ReceiverCompleted(u, x).kind # "Start" /\ SessionExited(u, x).kind # "Start"
    BY DEF ReceiverCompleted, SessionExited
  <2>3. \A u \in Tasks : handle'[u] = "Running" /\ status'[u] = "gone" => handle[u] = "Running"
    BY <1>2, <1>3, <1>4, <1>5
  <2> QED
    BY <1>1, <1>2, <1>5, <2>1, <2>2, <2>3 DEF Awaited, InQueue
<1>11. TaskHistory' /\ StoredReplaysAreTrue' /\ ReplaysAreTrue'
  <2>1. TaskHistory'
    BY <1>1, <1>2, <1>5 DEF TaskHistory
  <2>2. \A u \in complete : u # t /\ u \in Tasks
    BY <1>2 DEF RuntimeTypeOK, Receivers
  <2> QED
    BY <1>1, <1>5, <2>1, <2>2, ReplaysStay
<1> QED
  BY <1>6, <1>7, <1>8, <1>9, <1>10, <1>11

\* A step that takes a message and changes no task keeps what is said about tasks.
LEMMA TakeKeepsMessages ==
    ASSUME RuntimeInv, NEW kind, Received(kind),
           UNCHANGED <<status, round, complete, outcome, asked>>
    PROVE  MessagesStayTrue' /\ TaskHistory'
<1>1. queue \in Seq(Messages) /\ queue # << >> /\ queue' = Tail(queue)
  BY TakenFacts
<1>2. \A i \in DOMAIN queue' : i + 1 \in DOMAIN queue /\ queue'[i] = queue[i + 1]
  BY <1>1, TailFacts
<1> QED
  BY <1>2 DEF RuntimeInv, MessagesStayTrue, StillTrue, TaskHistory

\* The other messages are still in the queue.
LEMMA TakeKeepsOthers ==
    ASSUME RuntimeInv, NEW kind, Received(kind)
    PROVE  \A m : InQueue(m) /\ m # queue[1] => \E i \in DOMAIN queue' : queue'[i] = m
BY TakenFacts, InQueueTail

\* abort_session and finish_session remove the entry of an id and settle the
\* handle of the task that had it.
LEMMA RemovalKeepsEntries ==
    ASSUME RuntimeInv, NEW sid \in Sessions, NEW o \in Outcomes,
           sessions' = [sessions EXCEPT ![sid] = NoTask],
           handle' = IF sessions[sid] = NoTask THEN handle
                     ELSE [handle EXCEPT ![sessions[sid]] = o],
           cancelled' = cancelled
              \/ (cancelled' = cancelled \cup {sessions[sid]} /\ o = "Aborted"
                  /\ sessions[sid] # NoTask),
           UNCHANGED status
    PROVE  /\ sessions' \in [Sessions -> Tasks \cup {NoTask}]
           /\ handle' \in [Tasks -> Outcomes \cup {"None", "Running"}]
           /\ cancelled' \subseteq Tasks
           /\ \A u \in Tasks : u # sessions[sid] => handle'[u] = handle[u]
           /\ EntriesMatchHandles'
<1> USE DEF RuntimeInv
<1>1. /\ sessions \in [Sessions -> Tasks \cup {NoTask}]
      /\ handle \in [Tasks -> Outcomes \cup {"None", "Running"}]
      /\ cancelled \subseteq Tasks
      /\ \A u \in Tasks : SidOf[u] \in Sessions
  BY DEF RuntimeTypeOK
<1>2. /\ sessions' \in [Sessions -> Tasks \cup {NoTask}]
      /\ handle' \in [Tasks -> Outcomes \cup {"None", "Running"}]
      /\ cancelled' \subseteq Tasks
  BY <1>1
<1>3. /\ sessions'[sid] = NoTask
      /\ \A s \in Sessions : s # sid => sessions'[s] = sessions[s]
  BY <1>1
<1>4. /\ \A u \in Tasks : u # sessions[sid] => handle'[u] = handle[u]
      /\ sessions[sid] # NoTask => handle'[sessions[sid]] = o
  BY <1>1
<1>5. sessions[sid] # NoTask => SidOf[sessions[sid]] = sid /\ handle[sessions[sid]] = "Running"
  BY <1>1 DEF EntriesMatchHandles
<1>6. EntriesMatchHandles'
  <2>1. \A s \in Sessions : sessions'[s] # NoTask => SidOf[sessions'[s]] = s
    BY <1>3 DEF EntriesMatchHandles
  <2>2. ASSUME NEW u \in Tasks
        PROVE  /\ handle'[u] = "Running" <=> sessions'[SidOf[u]] = u
               /\ handle'[u] = "None" <=> status[u] \in {"new", "refused"}
               /\ u \in cancelled' => handle'[u] = "Aborted"
    <3>1. CASE u = sessions[sid]
      BY <1>1, <1>3, <1>4, <1>5, <3>1 DEF EntriesMatchHandles, Outcomes
    <3>2. CASE u # sessions[sid] /\ SidOf[u] = sid
      BY <1>1, <1>3, <1>4, <3>2 DEF EntriesMatchHandles
    <3>3. CASE u # sessions[sid] /\ SidOf[u] # sid
      BY <1>1, <1>3, <1>4, <3>3 DEF EntriesMatchHandles
    <3> QED
      BY <3>1, <3>2, <3>3
  <2> QED
    BY <2>1, <2>2 DEF EntriesMatchHandles
<1> QED
  BY <1>2, <1>4, <1>6

LEMMA AbortKeepsInv ==
    ASSUME RuntimeInv, AbortSession
    PROVE  RuntimeInv'
<1> USE DEF RuntimeInv
<1> DEFINE sid == SidOf[queue[1].task]
           t == sessions[sid]
<1>1. /\ Received("Abort")
      /\ sessions' = [sessions EXCEPT ![sid] = NoTask]
      /\ completed_receivers' = [completed_receivers EXCEPT ![sid] = NoRound]
      /\ IF t = NoTask THEN UNCHANGED <<cancelled, handle>>
         ELSE /\ cancelled' = cancelled \cup {t}
              /\ handle' = [handle EXCEPT ![t] = "Aborted"]
      /\ UNCHANGED <<blocked, replays, topology_ready, status, inbox, round, complete, outcome,
                     delivers, asked>>
  BY DEF AbortSession, taskVars, clientVars
<1>2. sid \in Sessions /\ "Aborted" \in Outcomes
  BY <1>1, TakenFacts, MessageCases DEF Outcomes
<1> HIDE DEF sid
<1>3. /\ sessions' \in [Sessions -> Tasks \cup {NoTask}]
      /\ handle' \in [Tasks -> Outcomes \cup {"None", "Running"}]
      /\ cancelled' \subseteq Tasks
      /\ \A u \in Tasks : u # t => handle'[u] = handle[u]
      /\ EntriesMatchHandles'
  BY <1>1, <1>2, RemovalKeepsEntries
<1>4. completed_receivers \in [Sessions -> Rounds \cup {NoRound}]
  BY DEF RuntimeTypeOK
<1>5. RuntimeTypeOK'
  BY <1>1, <1>2, <1>3, <1>4, TakenFacts DEF RuntimeTypeOK
<1>6. SaidOnce' /\ MessagesStayTrue' /\ TaskHistory'
  BY <1>1, TakenFacts, TakeKeepsMessages
<1>7. Awaited'
  <2>1. \A m : InQueue(m) /\ m.kind # "Abort" => \E i \in DOMAIN queue' : queue'[i] = m
    BY <1>1, TakenFacts, TakeKeepsOthers
  <2>2. \A u, x : ReceiverCompleted(u, x).kind # "Abort"
                  /\ SessionExited(u, x).kind # "Abort"
    BY DEF ReceiverCompleted, SessionExited
  <2>3. \A u \in Tasks : handle'[u] = "Running" => handle[u] = "Running"
    BY <1>1, <1>3, <1>2 DEF RuntimeTypeOK
  <2> QED
    BY <1>1, <2>1, <2>2, <2>3 DEF Awaited, InQueue
<1>8. StoredReplaysAreTrue' /\ ReplaysAreTrue'
  BY <1>1, <1>2, <1>4, ReplaysStay
<1> QED
  BY <1>3, <1>5, <1>6, <1>7, <1>8

LEMMA FinishKeepsInv ==
    ASSUME RuntimeInv, FinishEntry
    PROVE  RuntimeInv'
<1> USE DEF RuntimeInv
<1> DEFINE e == queue[1].task
           sid == SidOf[e]
           o == queue[1].outcome
           t == sessions[sid]
<1>1. /\ Received("SessionExited")
      /\ sessions' = [sessions EXCEPT ![sid] = NoTask]
      /\ handle' = IF t = NoTask THEN handle ELSE [handle EXCEPT ![t] = o]
      /\ completed_receivers' = [completed_receivers EXCEPT ![sid] =
                                    IF o = "Completed" THEN @ ELSE NoRound]
      /\ UNCHANGED <<blocked, replays, topology_ready, status, inbox, round, complete, outcome,
                     cancelled, delivers, asked>>
  BY DEF FinishEntry, taskVars, clientVars
<1>2. e \in Tasks /\ sid \in Sessions /\ o \in Outcomes
  BY <1>1, TakenFacts, MessageCases
<1> HIDE DEF e, o, sid
<1>3. /\ sessions' \in [Sessions -> Tasks \cup {NoTask}]
      /\ handle' \in [Tasks -> Outcomes \cup {"None", "Running"}]
      /\ \A u \in Tasks : u # t => handle'[u] = handle[u]
      /\ EntriesMatchHandles'
  BY <1>1, <1>2, RemovalKeepsEntries
<1>4. completed_receivers \in [Sessions -> Rounds \cup {NoRound}]
  BY DEF RuntimeTypeOK
<1>5. RuntimeTypeOK'
  BY <1>1, <1>2, <1>3, <1>4, TakenFacts DEF RuntimeTypeOK
<1>6. SaidOnce' /\ MessagesStayTrue' /\ TaskHistory'
  BY <1>1, TakenFacts, TakeKeepsMessages
\* The exit that was taken is that of a task which has no entry any more.
<1>7. Awaited'
  <2>1. \A m : InQueue(m) /\ (m.kind # "SessionExited" \/ m.task # e)
               => \E i \in DOMAIN queue' : queue'[i] = m
    BY <1>1, TakenFacts, TakeKeepsOthers DEF e
  <2>2. \A u, x : ReceiverCompleted(u, x).kind # "SessionExited"
                  /\ SessionExited(u, x).task = u
    BY DEF ReceiverCompleted, SessionExited
  <2>3. \A u \in Tasks : handle'[u] = "Running" => u # e /\ handle[u] = "Running"
    <3>1. sessions'[sid] = NoTask
      BY <1>1, <1>2 DEF RuntimeTypeOK
    <3>2. handle'[e] # "Running"
      BY <1>2, <1>3, <3>1 DEF EntriesMatchHandles, sid
    <3> QED
      BY <1>1, <1>2, <1>3, <3>2 DEF RuntimeTypeOK, Outcomes
  <2> QED
    BY <1>1, <2>1, <2>2, <2>3 DEF Awaited, InQueue
<1>8. StoredReplaysAreTrue' /\ ReplaysAreTrue'
  BY <1>1, <1>2, <1>4, ReplaysStay
<1> QED
  BY <1>3, <1>5, <1>6, <1>7, <1>8

\* Replay answers with what is stored, or not at all.
LEMMA ReplayFacts ==
    ASSUME RuntimeInv, NEW sid \in Sessions, NEW f \in Frames, Replay(sid, f)
    PROVE  /\ replays' \subseteq Sessions \X Rounds
           /\ \/ UNCHANGED replays
              \/ \E s \in Sessions : /\ completed_receivers[s] # NoRound
                                     /\ replays' = replays \cup {<<s, completed_receivers[s]>>}
<1>1. f # OtherFrame => f \in Rounds
  BY DEF Frames
<1>2. replays \subseteq Sessions \X Rounds
  BY DEF RuntimeInv, RuntimeTypeOK
<1> QED
  BY <1>1, <1>2 DEF Replay, OtherFrame, NoRound

LEMMA DeliverKeepsInv ==
    ASSUME RuntimeInv, DeliverFrame
    PROVE  RuntimeInv'
<1> USE DEF RuntimeInv
<1> DEFINE sid == queue[1].sid
           f == queue[1].frame
           t == sessions[sid]
<1>1. /\ Received("Deliver")
      /\ \/ Replay(sid, f) /\ UNCHANGED <<inbox, blocked>>
         \/ /\ Alive(t)
            /\ \/ /\ Len(inbox[t]) < InboxCapacity
                  /\ inbox' = [inbox EXCEPT ![t] = Append(@, f)] /\ UNCHANGED blocked
               \/ blocked' = [task |-> t, frame |-> f] /\ UNCHANGED inbox
            /\ UNCHANGED replays
      /\ UNCHANGED <<sessions, completed_receivers, topology_ready, status, round, complete,
                     outcome, cancelled, handle, delivers, asked>>
  BY DEF DeliverFrame, clientVars
<1>2. sid \in Sessions /\ f \in Frames
  BY <1>1, TakenFacts, MessageCases
<1> HIDE DEF sid, f
<1>3. t \in Tasks \cup {NoTask}
  BY <1>2 DEF RuntimeTypeOK
<1>4. /\ replays' \subseteq Sessions \X Rounds
      /\ \/ UNCHANGED replays
         \/ \E s \in Sessions : /\ completed_receivers[s] # NoRound
                                /\ replays' = replays \cup {<<s, completed_receivers[s]>>}
  BY <1>1, <1>2, ReplayFacts DEF RuntimeTypeOK
<1>5. /\ inbox' \in [Tasks -> Seq(Frames)]
      /\ \A u \in Tasks : Len(inbox'[u]) <= InboxCapacity
      /\ blocked' \in [task : Tasks, frame : Frames] \cup {NoDelivery}
  <2>1. /\ inbox \in [Tasks -> Seq(Frames)] /\ \A u \in Tasks : Len(inbox[u]) <= InboxCapacity
        /\ blocked \in [task : Tasks, frame : Frames] \cup {NoDelivery}
    BY DEF RuntimeTypeOK
  <2>2. CASE Replay(sid, f) /\ UNCHANGED <<inbox, blocked>>
    BY <2>1, <2>2
  <2>3. CASE /\ Alive(t) /\ Len(inbox[t]) < InboxCapacity
             /\ inbox' = [inbox EXCEPT ![t] = Append(@, f)] /\ UNCHANGED blocked
    <3>1. t \in Tasks /\ inbox[t] \in Seq(Frames)
      BY <1>3, <2>1, <2>3 DEF Alive
    <3>2. Append(inbox[t], f) \in Seq(Frames) /\ Len(Append(inbox[t], f)) <= InboxCapacity
      BY <1>2, <2>3, <3>1
    <3> QED
      BY <2>1, <2>3, <3>1, <3>2
  <2>4. CASE Alive(t) /\ blocked' = [task |-> t, frame |-> f] /\ UNCHANGED inbox
    BY <1>2, <1>3, <2>1, <2>4 DEF Alive
  <2> QED
    BY <1>1, <2>2, <2>3, <2>4
<1>6. RuntimeTypeOK'
  BY <1>1, <1>4, <1>5, TakenFacts DEF RuntimeTypeOK
<1>7. SaidOnce' /\ MessagesStayTrue' /\ TaskHistory'
  BY <1>1, TakenFacts, TakeKeepsMessages
<1>8. Awaited'
  <2>1. \A m : InQueue(m) /\ m.kind # "Deliver" => \E i \in DOMAIN queue' : queue'[i] = m
    BY <1>1, TakenFacts, TakeKeepsOthers
  <2>2. \A u, x : ReceiverCompleted(u, x).kind # "Deliver"
                  /\ SessionExited(u, x).kind # "Deliver"
    BY DEF ReceiverCompleted, SessionExited
  <2> QED
    BY <1>1, <2>1, <2>2 DEF Awaited, InQueue
<1>9. StoredReplaysAreTrue' /\ ReplaysAreTrue'
  BY <1>1, <1>4, ReplaysStay
<1>10. EntriesMatchHandles'
  BY <1>1 DEF EntriesMatchHandles
<1> QED
  BY <1>6, <1>7, <1>8, <1>9, <1>10

\* A step that leaves the queue and the tasks alone
LEMMA QuietKeepsMessages ==
    ASSUME RuntimeInv, UNCHANGED <<queue, status, round, complete, outcome, handle, asked>>
    PROVE  SaidOnce' /\ MessagesStayTrue' /\ TaskHistory' /\ Awaited'
BY DEF RuntimeInv, SaidOnce, MessagesStayTrue, StillTrue, TaskHistory, Awaited, InQueue

LEMMA ResumeKeepsInv ==
    ASSUME RuntimeInv, ResumeDelivery
    PROVE  RuntimeInv'
<1> USE DEF RuntimeInv
<1> DEFINE t == blocked.task
           f == blocked.frame
<1>1. /\ blocked # NoDelivery /\ blocked' = NoDelivery
      /\ \/ Replay(SidOf[t], f) /\ UNCHANGED inbox
         \/ /\ Len(inbox[t]) < InboxCapacity
            /\ inbox' = [inbox EXCEPT ![t] = Append(@, f)]
            /\ UNCHANGED replays
      /\ UNCHANGED <<queue, sessions, completed_receivers, topology_ready, status, round,
                     complete, outcome, cancelled, handle, delivers, asked>>
  BY DEF ResumeDelivery, clientVars
<1>2. t \in Tasks /\ f \in Frames /\ SidOf[t] \in Sessions
  BY <1>1 DEF RuntimeTypeOK
<1> HIDE DEF t, f
<1>3. /\ replays' \subseteq Sessions \X Rounds
      /\ \/ UNCHANGED replays
         \/ \E s \in Sessions : /\ completed_receivers[s] # NoRound
                                /\ replays' = replays \cup {<<s, completed_receivers[s]>>}
  BY <1>1, <1>2, ReplayFacts DEF RuntimeTypeOK
<1>4. /\ inbox' \in [Tasks -> Seq(Frames)]
      /\ \A u \in Tasks : Len(inbox'[u]) <= InboxCapacity
  <2>1. inbox \in [Tasks -> Seq(Frames)] /\ \A u \in Tasks : Len(inbox[u]) <= InboxCapacity
    BY DEF RuntimeTypeOK
  <2>2. CASE Len(inbox[t]) < InboxCapacity /\ inbox' = [inbox EXCEPT ![t] = Append(@, f)]
    <3>1. Append(inbox[t], f) \in Seq(Frames) /\ Len(Append(inbox[t], f)) <= InboxCapacity
      BY <1>2, <2>1, <2>2
    <3> QED
      BY <1>2, <2>1, <2>2, <3>1
  <2> QED
    BY <1>1, <2>1, <2>2
<1>5. RuntimeTypeOK'
  BY <1>1, <1>3, <1>4 DEF RuntimeTypeOK
<1>6. SaidOnce' /\ MessagesStayTrue' /\ TaskHistory' /\ Awaited'
  BY <1>1, QuietKeepsMessages
<1>7. StoredReplaysAreTrue' /\ ReplaysAreTrue'
  BY <1>1, <1>3, ReplaysStay
<1>8. EntriesMatchHandles'
  BY <1>1 DEF EntriesMatchHandles
<1> QED
  BY <1>5, <1>6, <1>7, <1>8

LEMMA GateKeepsInv ==
    ASSUME RuntimeInv, OpenTopologyGate
    PROVE  RuntimeInv'
<1> USE DEF RuntimeInv
<1>1. /\ Received("SetTopologyReady") /\ topology_ready' = TRUE
      /\ UNCHANGED <<blocked, sessions, completed_receivers, replays, status, inbox, round,
                     complete, outcome, cancelled, handle, delivers, asked>>
  BY DEF OpenTopologyGate, taskVars, clientVars
<1>2. RuntimeTypeOK'
  BY <1>1, TakenFacts DEF RuntimeTypeOK
<1>3. SaidOnce' /\ MessagesStayTrue' /\ TaskHistory'
  BY <1>1, TakenFacts, TakeKeepsMessages
<1>4. Awaited'
  <2>1. \A m : InQueue(m) /\ m.kind # "SetTopologyReady"
               => \E i \in DOMAIN queue' : queue'[i] = m
    BY <1>1, TakenFacts, TakeKeepsOthers
  <2>2. \A u, x : ReceiverCompleted(u, x).kind # "SetTopologyReady"
                  /\ SessionExited(u, x).kind # "SetTopologyReady"
    BY DEF ReceiverCompleted, SessionExited
  <2> QED
    BY <1>1, <2>1, <2>2 DEF Awaited, InQueue
<1>5. StoredReplaysAreTrue' /\ ReplaysAreTrue' /\ EntriesMatchHandles'
  BY <1>1, ReplaysStay DEF EntriesMatchHandles
<1> QED
  BY <1>2, <1>3, <1>4, <1>5

LEMMA RegisterKeepsInv ==
    ASSUME RuntimeInv, RegisterReplay
    PROVE  RuntimeInv'
<1> USE DEF RuntimeInv
<1> DEFINE t == queue[1].task
           r == queue[1].round
<1>1. /\ Received("ReceiverCompleted")
      /\ completed_receivers' = [completed_receivers EXCEPT ![SidOf[t]] = r]
      /\ status' = [status EXCEPT ![t] = IF @ = "registering" THEN "acked" ELSE @]
      /\ UNCHANGED <<blocked, sessions, replays, topology_ready, inbox, round, complete,
                     outcome, cancelled, handle, delivers, asked>>
  BY DEF RegisterReplay, clientVars
<1>2. /\ t \in Tasks /\ SidOf[t] \in Sessions /\ r \in Rounds
      /\ t \in complete /\ r = round[t] /\ status[t] \in {"registering", "returned", "gone"}
      /\ queue[1] = ReceiverCompleted(t, round[t])
  BY <1>1, TakenFacts, MessageCases DEF MessagesStayTrue, StillTrue
<1>3. /\ status \in [Tasks -> Statuses]
      /\ completed_receivers \in [Sessions -> Rounds \cup {NoRound}]
      /\ complete \subseteq Tasks
  BY DEF RuntimeTypeOK, Receivers
<1> HIDE DEF t, r
<1>4. /\ \A u \in Tasks : u # t => status'[u] = status[u]
      /\ status'[t] \in {"acked", "returned", "gone"}
      /\ status[t] # "registering" => status'[t] = status[t]
      /\ status[t] = "registering" => status'[t] = "acked"
  BY <1>1, <1>2, <1>3
<1>5. RuntimeTypeOK'
  <2>1. /\ status' \in [Tasks -> Statuses]
        /\ completed_receivers' \in [Sessions -> Rounds \cup {NoRound}]
    BY <1>1, <1>2, <1>3 DEF Statuses
  <2> QED
    BY <1>1, <2>1, TakenFacts DEF RuntimeTypeOK
<1>6. SaidOnce'
  BY <1>1, TakenFacts
<1>7. MessagesStayTrue'
  BY <1>1, <1>2, <1>4, TakenFacts, RestDiffers, MessageCases DEF MessagesStayTrue, StillTrue, t
<1>8. TaskHistory' /\ EntriesMatchHandles'
  BY <1>1, <1>2, <1>4 DEF TaskHistory, EntriesMatchHandles
\* The acknowledged receiver waits no more.
<1>9. Awaited'
  <2>1. \A m : InQueue(m) /\ (m.kind # "ReceiverCompleted" \/ m.task # t)
               => \E i \in DOMAIN queue' : queue'[i] = m
    BY <1>1, TakenFacts, TakeKeepsOthers DEF t
  <2>2. \A u, x : SessionExited(u, x).kind # "ReceiverCompleted"
                  /\ ReceiverCompleted(u, x).task = u
    BY DEF ReceiverCompleted, SessionExited
  <2> QED
    BY <1>1, <1>2, <1>4, <2>1, <2>2 DEF Awaited, InQueue
<1>10. StoredReplaysAreTrue'
  <2>1. ASSUME NEW s \in Sessions, completed_receivers'[s] # NoRound
        PROVE  \E u \in complete' : /\ SidOf[u] = s /\ round'[u] = completed_receivers'[s]
                                    /\ status'[u] \in {"acked", "returned", "gone"}
    <3>1. CASE s = SidOf[t]
      BY <1>1, <1>2, <1>3, <1>4, <3>1
    <3>2. CASE s # SidOf[t]
      <4>1. PICK u \in complete : /\ SidOf[u] = s /\ round[u] = completed_receivers[s]
                                  /\ status[u] \in {"acked", "returned", "gone"}
        BY <1>1, <1>3, <2>1, <3>2 DEF StoredReplaysAreTrue
      <4> QED
        BY <1>1, <1>3, <1>4, <3>2, <4>1
    <3> QED
      BY <3>1, <3>2
  <2> QED
    BY <2>1 DEF StoredReplaysAreTrue
<1>11. ReplaysAreTrue'
  <2>1. ASSUME NEW p \in replays
        PROVE  \E u \in complete' : SidOf[u] = p[1] /\ round'[u] = p[2]
                                    /\ status'[u] \notin {"running", "gated"}
    <3>1. PICK u \in complete : SidOf[u] = p[1] /\ round[u] = p[2]
                                /\ status[u] \notin {"running", "gated"}
      BY DEF ReplaysAreTrue
    <3> QED
      BY <1>1, <1>3, <1>4, <3>1
  <2> QED
    BY <1>1, <2>1 DEF ReplaysAreTrue
<1> QED
  BY <1>5, <1>6, <1>7, <1>8, <1>9, <1>10, <1>11

-----------------------------------------------------------------------------
(* Session tasks *)

LEMMA PassGateKeepsInv ==
    ASSUME RuntimeInv, NEW t \in Tasks, PassGate(t)
    PROVE  RuntimeInv'
<1> USE DEF RuntimeInv
<1>1. /\ status[t] = "gated" /\ status' = [status EXCEPT ![t] = "running"]
      /\ UNCHANGED <<queue, blocked, sessions, completed_receivers, replays, topology_ready,
                     inbox, round, complete, outcome, cancelled, handle, delivers, asked>>
  BY DEF PassGate, actorVars, clientVars
<1>2. status \in [Tasks -> Statuses] /\ complete \subseteq Tasks /\ queue \in Seq(Messages)
  BY DEF RuntimeTypeOK, Receivers
<1>3. status'[t] = "running" /\ \A u \in Tasks : u # t => status'[u] = status[u]
  BY <1>1, <1>2
<1>4. RuntimeTypeOK'
  <2>1. status' \in [Tasks -> Statuses]
    BY <1>1, <1>2 DEF Statuses
  <2> QED
    BY <1>1, <2>1 DEF RuntimeTypeOK
<1>5. SaidOnce'
  BY <1>1 DEF SaidOnce
<1>6. MessagesStayTrue'
  BY <1>1, <1>2, <1>3, MessageCases DEF MessagesStayTrue, StillTrue
<1>7. EntriesMatchHandles' /\ TaskHistory'
  BY <1>1, <1>3 DEF EntriesMatchHandles, TaskHistory
<1>8. Awaited'
  BY <1>1, <1>3 DEF Awaited, InQueue
<1>9. StoredReplaysAreTrue' /\ ReplaysAreTrue'
  BY <1>1, <1>2, <1>3, ReplaysStay
<1> QED
  BY <1>4, <1>5, <1>6, <1>7, <1>8, <1>9

\* The round of a receiver moves only while it runs, and then no message of its
\* is on the way.
LEMMA TakeFrameKeepsInv ==
    ASSUME RuntimeInv, NEW t \in Tasks, TakeFrame(t)
    PROVE  RuntimeInv'
<1> USE DEF RuntimeInv
<1> DEFINE f == inbox[t][1]
           new == t \in Receivers /\ f > round[t]
<1>1. /\ status[t] = "running" /\ inbox[t] # << >>
      /\ inbox' = [inbox EXCEPT ![t] = Tail(@)]
      /\ round' = [round EXCEPT ![t] = IF new THEN f ELSE @]
      /\ complete' = complete \/ (new /\ complete' = complete \cup {t})
      /\ UNCHANGED <<queue, blocked, sessions, completed_receivers, replays, topology_ready,
                     status, outcome, cancelled, handle, delivers, asked>>
  BY DEF TakeFrame, actorVars, clientVars
<1>2. /\ status \in [Tasks -> Statuses] /\ complete \subseteq Receivers
      /\ queue \in Seq(Messages) /\ inbox \in [Tasks -> Seq(Frames)]
      /\ \A u \in Tasks : Len(inbox[u]) <= InboxCapacity
      /\ round \in [Tasks -> Rounds \cup {NoRound}]
  BY DEF RuntimeTypeOK
<1>3. f \in Frames /\ Tail(inbox[t]) \in Seq(Frames) /\ Len(Tail(inbox[t])) <= InboxCapacity
  <2>1. inbox[t] \in Seq(Frames) /\ inbox[t] # << >> /\ Len(inbox[t]) <= InboxCapacity
    BY <1>1, <1>2
  <2> QED
    BY <2>1
<1>4. new => f \in Rounds
  <2>1. round[t] \in Int /\ round[t] >= -1
    <3>1. round[t] \in Nat \/ round[t] = -1
      BY <1>2 DEF NoRound
    <3> QED
      BY <3>1
  <2> QED
    BY <1>3, <2>1 DEF Frames, OtherFrame, NoRound
<1> HIDE DEF f, new
<1>5. /\ \A u \in Tasks : u # t => round'[u] = round[u]
      /\ round'[t] \in {round[t], f}
      /\ round'[t] = round[t] \/ round'[t] \in Rounds
      /\ new => round'[t] \in Rounds
  BY <1>1, <1>2, <1>4
<1>6. RuntimeTypeOK'
  <2>1. inbox' \in [Tasks -> Seq(Frames)]
    BY <1>1, <1>2, <1>3
  <2>2. \A u \in Tasks : Len(inbox'[u]) <= InboxCapacity
    BY <1>1, <1>2, <1>3
  <2>3. round' \in [Tasks -> Rounds \cup {NoRound}]
    BY <1>1, <1>2, <1>4
  <2>4. complete' \subseteq Receivers
    BY <1>1, <1>2 DEF new
  <2> QED
    BY <1>1, <2>1, <2>2, <2>3, <2>4 DEF RuntimeTypeOK
<1>7. SaidOnce'
  BY <1>1 DEF SaidOnce
<1>8. MessagesStayTrue'
  BY <1>1, <1>2, <1>5, MessageCases DEF MessagesStayTrue, StillTrue
<1>9. EntriesMatchHandles'
  BY <1>1 DEF EntriesMatchHandles
<1>10. TaskHistory'
  BY <1>1, <1>5 DEF TaskHistory
<1>11. Awaited'
  BY <1>1, <1>5 DEF Awaited, InQueue
<1>12. StoredReplaysAreTrue' /\ ReplaysAreTrue'
  BY <1>1, <1>2, <1>5, ReplaysStay DEF Receivers
<1> QED
  BY <1>6, <1>7, <1>8, <1>9, <1>10, <1>11, <1>12

\* A task that ends, in whatever way
LEMMA ReturnKeepsInv ==
    ASSUME RuntimeInv, NEW t \in Tasks, NEW o \in Outcomes, Alive(t), Return(t, o),
           UNCHANGED <<queue, actorVars, inbox, round, complete, cancelled, handle, clientVars>>
    PROVE  RuntimeInv'
<1> USE DEF RuntimeInv
<1>1. /\ status[t] \in {"gated", "running", "registering", "acked"}
      /\ status' = [status EXCEPT ![t] = "returned"]
      /\ outcome' = [outcome EXCEPT ![t] = o]
      /\ UNCHANGED <<queue, blocked, sessions, completed_receivers, replays, topology_ready,
                     inbox, round, complete, cancelled, handle, delivers, asked>>
  BY DEF Alive, Return, actorVars, clientVars
<1>2. /\ status \in [Tasks -> Statuses] /\ outcome \in [Tasks -> Outcomes \cup {"None"}]
      /\ complete \subseteq Tasks /\ queue \in Seq(Messages)
  BY DEF RuntimeTypeOK, Receivers
<1>3. /\ status'[t] = "returned" /\ outcome'[t] = o /\ o # "None"
      /\ \A u \in Tasks : u # t => status'[u] = status[u] /\ outcome'[u] = outcome[u]
  BY <1>1, <1>2 DEF Outcomes
<1>4. RuntimeTypeOK'
  <2>1. status' \in [Tasks -> Statuses] /\ outcome' \in [Tasks -> Outcomes \cup {"None"}]
    BY <1>1, <1>2 DEF Statuses
  <2> QED
    BY <1>1, <2>1 DEF RuntimeTypeOK
<1>5. SaidOnce'
  BY <1>1 DEF SaidOnce
<1>6. MessagesStayTrue'
  BY <1>1, <1>2, <1>3, MessageCases DEF MessagesStayTrue, StillTrue
<1>7. EntriesMatchHandles' /\ TaskHistory'
  BY <1>1, <1>3 DEF EntriesMatchHandles, TaskHistory
<1>8. Awaited'
  BY <1>1, <1>3 DEF Awaited, InQueue
<1>9. StoredReplaysAreTrue' /\ ReplaysAreTrue'
  BY <1>1, <1>2, <1>3, ReplaysStay
<1> QED
  BY <1>4, <1>5, <1>6, <1>7, <1>8, <1>9

LEMMA LeaveLoopKeepsInv ==
    ASSUME RuntimeInv, NEW t \in Tasks, LeaveLoop(t)
    PROVE  RuntimeInv'
<1> USE DEF RuntimeInv
<1>1. CASE t \notin complete
  <2>1. /\ "Completed" \in Outcomes /\ Alive(t) /\ Return(t, "Completed")
        /\ UNCHANGED <<queue, actorVars, inbox, round, complete, cancelled, handle, clientVars>>
    BY <1>1 DEF LeaveLoop, Alive, Outcomes
  <2> QED
    BY <2>1, ReturnKeepsInv
<1>2. CASE t \in complete
  <2> DEFINE m == ReceiverCompleted(t, round[t])
  <2>1. /\ status[t] = "running" /\ status' = [status EXCEPT ![t] = "registering"]
        /\ queue' = Append(queue, m)
        /\ UNCHANGED <<blocked, sessions, completed_receivers, replays, topology_ready,
                       inbox, round, complete, outcome, cancelled, handle, delivers, asked>>
    BY <1>2 DEF LeaveLoop, Send, actorVars, clientVars
  <2>2. /\ status \in [Tasks -> Statuses] /\ complete \subseteq Tasks
        /\ queue \in Seq(Messages)
    BY DEF RuntimeTypeOK, Receivers
  <2>3. m \in Messages /\ m.kind = "ReceiverCompleted" /\ m.task = t /\ m.round = round[t]
    BY <1>2, MessagesTyped DEF TaskHistory, ReceiverCompleted
  <2> HIDE DEF m
  <2>4. status'[t] = "registering" /\ \A u \in Tasks : u # t => status'[u] = status[u]
    BY <2>1, <2>2
  <2>5. RuntimeTypeOK'
    <3>1. status' \in [Tasks -> Statuses]
      BY <2>1, <2>2 DEF Statuses
    <3> QED
      BY <2>1, <2>2, <2>3, <3>1, AppendFacts DEF RuntimeTypeOK
  <2>6. SaidOnce'
    <3>1. \A i \in DOMAIN queue : queue[i].kind = m.kind => queue[i].task # t
      BY <2>1, <2>2, <2>3 DEF MessagesStayTrue, StillTrue
    <3> QED
      BY <2>1, <2>2, <2>3, <3>1, SaidOnceAppend
  <2>7. MessagesStayTrue'
    <3>1. ASSUME NEW n \in Messages, StillTrue(n) PROVE StillTrue(n)'
      BY <2>1, <2>2, <2>4, <3>1, MessageCases DEF StillTrue
    <3>2. \A n : n = m => StillTrue(n)'
      BY <1>2, <2>1, <2>3, <2>4 DEF StillTrue
    <3> QED
      BY <2>1, <2>2, <2>3, <3>1, <3>2, AppendFacts DEF MessagesStayTrue, StillTrue
  <2>8. EntriesMatchHandles' /\ TaskHistory'
    BY <1>2, <2>1, <2>4 DEF EntriesMatchHandles, TaskHistory
  <2>9. Awaited'
    <3>1. /\ \E i \in DOMAIN queue' : queue'[i] = m
          /\ \A x : InQueue(x) => \E i \in DOMAIN queue' : queue'[i] = x
      BY <2>1, <2>2, <2>3, InQueueAppend
    <3>2. ASSUME NEW u \in Tasks
          PROVE  /\ status'[u] = "registering" =>
                       \E i \in DOMAIN queue' : queue'[i] = ReceiverCompleted(u, round[u])
                 /\ status'[u] = "gone" /\ handle[u] = "Running" =>
                       \E i \in DOMAIN queue' : queue'[i] = SessionExited(u, outcome[u])
      BY <2>4, <3>1 DEF Awaited, m
    <3> QED
      BY <2>1, <3>2 DEF Awaited, InQueue
  <2>10. StoredReplaysAreTrue' /\ ReplaysAreTrue'
    BY <2>1, <2>2, <2>4, ReplaysStay
  <2> QED
    BY <2>5, <2>6, <2>7, <2>8, <2>9, <2>10
<1> QED
  BY <1>1, <1>2

LEMMA ReportExitKeepsInv ==
    ASSUME RuntimeInv, NEW t \in Tasks, ReportExit(t)
    PROVE  RuntimeInv'
<1> USE DEF RuntimeInv
<1> DEFINE m == SessionExited(t, outcome[t])
<1>1. /\ status[t] = "returned" /\ status' = [status EXCEPT ![t] = "gone"]
      /\ queue' = Append(queue, m)
      /\ UNCHANGED <<blocked, sessions, completed_receivers, replays, topology_ready,
                     inbox, round, complete, outcome, cancelled, handle, delivers, asked>>
  BY DEF ReportExit, Send, actorVars, clientVars
<1>2. /\ status \in [Tasks -> Statuses] /\ complete \subseteq Tasks
      /\ queue \in Seq(Messages) /\ outcome[t] \in Outcomes
  BY <1>1 DEF RuntimeTypeOK, Receivers, TaskHistory
<1>3. m \in Messages /\ m.kind = "SessionExited" /\ m.task = t /\ m.outcome = outcome[t]
  BY <1>2, MessagesTyped DEF SessionExited
<1> HIDE DEF m
<1>4. status'[t] = "gone" /\ \A u \in Tasks : u # t => status'[u] = status[u]
  BY <1>1, <1>2
<1>5. RuntimeTypeOK'
  <2>1. status' \in [Tasks -> Statuses]
    BY <1>1, <1>2 DEF Statuses
  <2> QED
    BY <1>1, <1>2, <1>3, <2>1, AppendFacts DEF RuntimeTypeOK
<1>6. SaidOnce'
  <2>1. \A i \in DOMAIN queue : queue[i].kind = m.kind => queue[i].task # t
    BY <1>1, <1>2, <1>3 DEF MessagesStayTrue, StillTrue
  <2> QED
    BY <1>1, <1>2, <1>3, <2>1, SaidOnceAppend
<1>7. MessagesStayTrue'
  <2>1. ASSUME NEW n \in Messages, StillTrue(n) PROVE StillTrue(n)'
    BY <1>1, <1>2, <1>4, <2>1, MessageCases DEF StillTrue
  <2>2. \A n : n = m => StillTrue(n)'
    BY <1>1, <1>3, <1>4 DEF StillTrue
  <2> QED
    BY <1>1, <1>2, <1>3, <2>1, <2>2, AppendFacts DEF MessagesStayTrue, StillTrue
<1>8. EntriesMatchHandles' /\ TaskHistory'
  BY <1>1, <1>4 DEF EntriesMatchHandles, TaskHistory
<1>9. Awaited'
  <2>1. /\ \E i \in DOMAIN queue' : queue'[i] = m
        /\ \A x : InQueue(x) => \E i \in DOMAIN queue' : queue'[i] = x
    BY <1>1, <1>2, <1>3, InQueueAppend
  <2>2. ASSUME NEW u \in Tasks
        PROVE  /\ status'[u] = "registering" =>
                     \E i \in DOMAIN queue' : queue'[i] = ReceiverCompleted(u, round[u])
               /\ status'[u] = "gone" /\ handle[u] = "Running" =>
                     \E i \in DOMAIN queue' : queue'[i] = SessionExited(u, outcome[u])
    BY <1>4, <2>1 DEF Awaited, m
  <2> QED
    BY <1>1, <2>2 DEF Awaited, InQueue
<1>10. StoredReplaysAreTrue' /\ ReplaysAreTrue'
  BY <1>1, <1>2, <1>4, ReplaysStay
<1> QED
  BY <1>5, <1>6, <1>7, <1>8, <1>9, <1>10

LEMMA TaskKeepsInv ==
    ASSUME RuntimeInv, NEW t \in Tasks, TaskStep(t)
    PROVE  RuntimeInv'
<1>1. CASE FinishReceiver(t)
  BY <1>1, ReturnKeepsInv DEF FinishReceiver, Alive, Outcomes
<1>2. CASE FinishSender(t)
  BY <1>2, ReturnKeepsInv DEF FinishSender, Alive
<1>3. CASE Die(t)
  BY <1>3, ReturnKeepsInv DEF Die, Outcomes
<1> QED
  BY <1>1, <1>2, <1>3, PassGateKeepsInv, TakeFrameKeepsInv, LeaveLoopKeepsInv,
     ReportExitKeepsInv DEF TaskStep

LEMMA NextKeepsInv ==
    ASSUME RuntimeInv, [RuntimeNext]_runtimeVars
    PROVE  RuntimeInv'
<1>1. CASE RequestTopologyReady
  BY <1>1, AskKeepsInv, MessagesTyped DEF RequestTopologyReady, SetTopologyReady
<1>2. ASSUME NEW t \in Tasks, RequestStart(t)
      PROVE  RuntimeInv'
  BY <1>2, AskKeepsInv, MessagesTyped DEF RequestStart, Start
<1>3. ASSUME NEW t \in Tasks, RequestAbort(t)
      PROVE  RuntimeInv'
  BY <1>3, AskKeepsInv, MessagesTyped DEF RequestAbort, AbortMsg
<1>4. CASE Actor
  BY <1>4, StartKeepsInv, AbortKeepsInv, DeliverKeepsInv, ResumeKeepsInv, RegisterKeepsInv,
     FinishKeepsInv, GateKeepsInv DEF Actor
<1>5. CASE UNCHANGED runtimeVars
  <2>1. UNCHANGED <<queue, blocked, sessions, completed_receivers, replays, topology_ready,
                    status, cancelled, inbox, round, complete, outcome, handle, asked>>
    BY <1>5 DEF runtimeVars, actorVars, taskVars, clientVars
  <2> QED
    BY <2>1, QuietKeepsMessages DEF RuntimeInv, RuntimeTypeOK, EntriesMatchHandles,
       StoredReplaysAreTrue, ReplaysAreTrue
<1> QED
  BY <1>1, <1>2, <1>3, <1>4, <1>5, FrameKeepsInv, TaskKeepsInv DEF RuntimeNext

-----------------------------------------------------------------------------
(* Entries and replays are owned, if aborted ids are not used again *)

\* A stored replay keeps its owner as long as the entry of its id is not given
\* to another task.
LEMMA OwnersStay ==
    ASSUME OwnedInv, complete \subseteq complete',
           \A u \in complete : status[u] \in {"acked", "returned", "gone"} =>
              round'[u] = round[u] /\ status'[u] \in {"acked", "returned", "gone"},
           \A s \in Sessions :
              \/ completed_receivers'[s] = NoRound
              \/ /\ completed_receivers'[s] = completed_receivers[s]
                 /\ sessions'[s] \in {sessions[s], NoTask}
    PROVE  ReplayHasOwner'
<1>1. ASSUME NEW s \in Sessions, completed_receivers'[s] # NoRound
      PROVE  \E u \in complete' : /\ SidOf[u] = s /\ round'[u] = completed_receivers'[s]
                                  /\ status'[u] \in {"acked", "returned", "gone"}
                                  /\ sessions'[s] \in {u, NoTask}
  <2>1. PICK u \in complete : /\ SidOf[u] = s /\ round[u] = completed_receivers[s]
                              /\ status[u] \in {"acked", "returned", "gone"}
                              /\ sessions[s] \in {u, NoTask}
    BY <1>1 DEF OwnedInv, ReplayHasOwner
  <2> QED
    BY <1>1, <2>1
<1> QED
  BY <1>1 DEF ReplayHasOwner

\* The entry of the id of a task that has ended is its own, or gone.
LEMMA EntryIsOwn ==
    ASSUME OwnedInv, AbortedIdsAreFresh, NEW t \in Tasks,
           handle[t] = "Running" \/ t \in cancelled
    PROVE  sessions[SidOf[t]] \in {t, NoTask}
<1>1. SidOf[t] \in Sessions /\ sessions[SidOf[t]] \in Tasks \cup {NoTask}
  BY DEF OwnedInv, RuntimeInv, RuntimeTypeOK
<1>2. CASE handle[t] = "Running"
  BY <1>2 DEF OwnedInv, RuntimeInv, EntriesMatchHandles
<1>3. CASE t \in cancelled
  <2>1. t \in MayAbort
    BY <1>3 DEF OwnedInv, EntriesLast
  <2>2. sessions[SidOf[t]] # NoTask => SidOf[sessions[SidOf[t]]] = SidOf[t]
    BY <1>1 DEF OwnedInv, RuntimeInv, EntriesMatchHandles
  <2> QED
    BY <1>1, <2>1, <2>2 DEF AbortedIdsAreFresh
<1> QED
  BY <1>2, <1>3

\* Requests and frames
LEMMA SendKeepsOwned ==
    ASSUME OwnedInv, NEW m \in Messages, m.kind \notin {"SessionExited", "ReceiverCompleted"},
           queue' = Append(queue, m), UNCHANGED <<actorVars, taskVars, cancelled, handle>>
    PROVE  EntriesLast' /\ ReplayHasOwner'
<1>1. queue \in Seq(Messages)
  BY DEF OwnedInv, RuntimeInv, RuntimeTypeOK
<1>2. \A i \in DOMAIN queue' : StillOwned(queue[i])'
  BY <1>1, AppendFacts DEF OwnedInv, EntriesLast, StillOwned, taskVars
<1>3. EntriesLast'
  BY <1>2 DEF OwnedInv, EntriesLast, taskVars
<1> QED
  BY <1>3 DEF OwnedInv, ReplayHasOwner, actorVars, taskVars

\* The messages behind the one that is taken
LEMMA RestIsOwned ==
    ASSUME OwnedInv, NEW kind, Received(kind), NEW i \in DOMAIN queue'
    PROVE  i + 1 \in DOMAIN queue /\ queue'[i] = queue[i + 1] /\ queue'[i] \in Messages
           /\ StillOwned(queue[i + 1]) /\ StillTrue(queue[i + 1])
<1>1. queue \in Seq(Messages) /\ queue # << >> /\ queue' = Tail(queue)
  BY TakenFacts DEF OwnedInv
<1>2. i + 1 \in DOMAIN queue /\ queue'[i] = queue[i + 1] /\ queue'[i] \in Messages
  BY <1>1, TailFacts
<1> QED
  BY <1>2 DEF OwnedInv, EntriesLast, RuntimeInv, MessagesStayTrue

LEMMA StartKeepsOwned ==
    ASSUME OwnedInv, AbortedIdsAreFresh, StartSession
    PROVE  EntriesLast' /\ ReplayHasOwner'
<1> USE DEF OwnedInv
<1> DEFINE t == queue[1].task
           sid == SidOf[t]
<1>1. /\ Received("Start")
      /\ UNCHANGED <<round, complete, outcome, cancelled>>
  BY DEF StartSession
<1>2. t \in Tasks /\ sid \in Sessions /\ status[t] = "new" /\ handle[t] = "None"
      /\ t \notin complete /\ complete \subseteq Tasks
  BY <1>1, TakenFacts, MessageCases
     DEF RuntimeInv, MessagesStayTrue, StillTrue, EntriesMatchHandles, TaskHistory,
         RuntimeTypeOK, Receivers
<1>3. /\ status \in [Tasks -> Statuses] /\ sessions \in [Sessions -> Tasks \cup {NoTask}]
      /\ handle \in [Tasks -> Outcomes \cup {"None", "Running"}]
      /\ completed_receivers \in [Sessions -> Rounds \cup {NoRound}]
  BY DEF RuntimeInv, RuntimeTypeOK
<1>4. /\ \A u \in Tasks : u # t => status'[u] = status[u] /\ handle'[u] = handle[u]
      /\ \/ status'[t] = "refused" /\ handle'[t] = "None"
         \/ status'[t] \in {"gated", "running"} /\ handle'[t] = "Running"
      /\ \A s \in Sessions : \/ completed_receivers'[s] = NoRound
                             \/ /\ completed_receivers'[s] = completed_receivers[s]
                                /\ sessions'[s] = sessions[s]
  BY <1>2, <1>3 DEF StartSession
<1>5. ReplayHasOwner'
  BY <1>1, <1>2, <1>4, OwnersStay
<1> HIDE DEF t, sid
<1>6. EntriesLast'
  <2>1. \A u \in Tasks \ cancelled' :
          /\ status'[u] \in {"gated", "running", "registering", "acked", "returned"}
                => handle'[u] = "Running"
          /\ handle'[u] \in Outcomes => status'[u] = "gone" /\ outcome'[u] = handle'[u]
    BY <1>1, <1>2, <1>4 DEF EntriesLast, Outcomes
  <2>2. ASSUME NEW i \in DOMAIN queue' PROVE StillOwned(queue[i])'
    <3>1. queue'[i] = queue[i + 1] /\ queue'[i] \in Messages /\ StillOwned(queue[i + 1])
          /\ StillTrue(queue[i + 1])
      BY <1>1, RestIsOwned
    <3> QED
      BY <1>1, <1>2, <1>4, <3>1, MessageCases DEF StillOwned, StillTrue
  <2> QED
    BY <1>1, <2>1, <2>2 DEF EntriesLast
<1> QED
  BY <1>5, <1>6

LEMMA AbortKeepsOwned ==
    ASSUME OwnedInv, AbortedIdsAreFresh, AbortSession
    PROVE  EntriesLast' /\ ReplayHasOwner'
<1> USE DEF OwnedInv
<1> DEFINE a == queue[1].task
           sid == SidOf[a]
           t == sessions[sid]
<1>1. /\ Received("Abort")
      /\ sessions' = [sessions EXCEPT ![sid] = NoTask]
      /\ completed_receivers' = [completed_receivers EXCEPT ![sid] = NoRound]
      /\ IF t = NoTask THEN UNCHANGED <<cancelled, handle>>
         ELSE /\ cancelled' = cancelled \cup {t}
              /\ handle' = [handle EXCEPT ![t] = "Aborted"]
      /\ UNCHANGED <<status, round, complete, outcome>>
  BY DEF AbortSession, taskVars
<1>2. a \in MayAbort /\ a \in Tasks /\ sid \in Sessions
  BY <1>1, TakenFacts, MessageCases
<1> HIDE DEF a, sid
<1>3. /\ sessions \in [Sessions -> Tasks \cup {NoTask}]
      /\ handle \in [Tasks -> Outcomes \cup {"None", "Running"}]
      /\ completed_receivers \in [Sessions -> Rounds \cup {NoRound}]
  BY DEF RuntimeInv, RuntimeTypeOK
\* Only the task the abort was meant for can have the entry.
<1>4. t # NoTask => t = a
  <2>1. t # NoTask => t \in Tasks /\ SidOf[t] = sid
    BY <1>2, <1>3 DEF RuntimeInv, EntriesMatchHandles
  <2> QED
    BY <1>2, <2>1 DEF AbortedIdsAreFresh, sid
<1>5. /\ cancelled' \subseteq MayAbort /\ cancelled \subseteq cancelled'
      /\ \A u \in Tasks \ cancelled' : handle'[u] = handle[u]
  BY <1>1, <1>2, <1>3, <1>4 DEF EntriesLast
<1>6. ReplayHasOwner'
  BY <1>1, <1>2, <1>3, OwnersStay
<1>7. EntriesLast'
  <2>1. ASSUME NEW i \in DOMAIN queue' PROVE StillOwned(queue[i])'
    <3>1. queue'[i] = queue[i + 1] /\ queue'[i] \in Messages /\ StillOwned(queue[i + 1])
      BY <1>1, RestIsOwned
    <3> QED
      BY <1>1, <1>5, <3>1, MessageCases DEF StillOwned
  <2> QED
    BY <1>1, <1>5, <2>1 DEF EntriesLast
<1> QED
  BY <1>6, <1>7

LEMMA FinishKeepsOwned ==
    ASSUME OwnedInv, AbortedIdsAreFresh, FinishEntry
    PROVE  EntriesLast' /\ ReplayHasOwner'
<1> USE DEF OwnedInv
<1> DEFINE e == queue[1].task
           sid == SidOf[e]
           o == queue[1].outcome
           t == sessions[sid]
<1>1. /\ Received("SessionExited")
      /\ sessions' = [sessions EXCEPT ![sid] = NoTask]
      /\ handle' = IF t = NoTask THEN handle ELSE [handle EXCEPT ![t] = o]
      /\ completed_receivers' = [completed_receivers EXCEPT ![sid] =
                                    IF o = "Completed" THEN @ ELSE NoRound]
      /\ UNCHANGED <<status, round, complete, outcome, cancelled>>
  BY DEF FinishEntry, taskVars
<1>2. e \in Tasks /\ sid \in Sessions /\ o \in Outcomes /\ status[e] = "gone" /\ o = outcome[e]
      /\ (e \notin cancelled => handle[e] = "Running")
  BY <1>1, TakenFacts, MessageCases
     DEF RuntimeInv, MessagesStayTrue, StillTrue, EntriesLast, StillOwned
<1>3. /\ sessions \in [Sessions -> Tasks \cup {NoTask}]
      /\ handle \in [Tasks -> Outcomes \cup {"None", "Running"}]
      /\ completed_receivers \in [Sessions -> Rounds \cup {NoRound}]
  BY DEF RuntimeInv, RuntimeTypeOK
\* The entry that is removed is that of the task that ended.
<1>4. t \in {e, NoTask}
  BY <1>2, EntryIsOwn
<1>5. ReplayHasOwner'
  BY <1>1, <1>2, <1>3, OwnersStay
<1>6. /\ \A u \in Tasks : u # e => handle'[u] = handle[u]
      /\ e \notin cancelled => handle'[e] = o
  <2>1. e \notin cancelled => t = e
    BY <1>2 DEF RuntimeInv, EntriesMatchHandles
  <2> QED
    BY <1>1, <1>2, <1>3, <1>4, <2>1
<1>7. EntriesLast'
  <2>1. ASSUME NEW i \in DOMAIN queue' PROVE StillOwned(queue[i])'
    <3>1. /\ queue'[i] = queue[i + 1] /\ queue'[i] \in Messages /\ StillOwned(queue[i + 1])
          /\ queue'[i].kind = "SessionExited" => queue'[i].task # e
      BY <1>1, RestIsOwned, RestDiffers
    <3> HIDE DEF e
    <3> QED
      BY <1>1, <1>6, <3>1, MessageCases DEF StillOwned
  <2> HIDE DEF e, o
  <2> QED
    BY <1>1, <1>2, <1>6, <2>1 DEF EntriesLast
<1> QED
  BY <1>5, <1>7

LEMMA RegisterKeepsOwned ==
    ASSUME OwnedInv, AbortedIdsAreFresh, RegisterReplay
    PROVE  EntriesLast' /\ ReplayHasOwner'
<1> USE DEF OwnedInv
<1> DEFINE t == queue[1].task
           r == queue[1].round
<1>1. /\ Received("ReceiverCompleted")
      /\ completed_receivers' = [completed_receivers EXCEPT ![SidOf[t]] = r]
      /\ status' = [status EXCEPT ![t] = IF @ = "registering" THEN "acked" ELSE @]
      /\ UNCHANGED <<sessions, round, complete, outcome, cancelled, handle>>
  BY DEF RegisterReplay
<1>2. /\ t \in Tasks /\ SidOf[t] \in Sessions
      /\ t \in complete /\ r = round[t] /\ status[t] \in {"registering", "returned", "gone"}
      /\ (t \notin cancelled => status[t] = "registering")
  BY <1>1, TakenFacts, MessageCases
     DEF RuntimeInv, MessagesStayTrue, StillTrue, EntriesLast, StillOwned
<1>3. /\ status \in [Tasks -> Statuses]
      /\ completed_receivers \in [Sessions -> Rounds \cup {NoRound}]
      /\ complete \subseteq Tasks
  BY DEF RuntimeInv, RuntimeTypeOK, Receivers
<1>4. /\ \A u \in Tasks : u # t => status'[u] = status[u]
      /\ status'[t] \in {"acked", "returned", "gone"}
      /\ status[t] # "registering" => status'[t] = status[t]
  BY <1>1, <1>2, <1>3
\* A receiver that was not aborted still has its entry; an aborted id is free.
<1>5. sessions[SidOf[t]] \in {t, NoTask}
  <2>1. t \notin cancelled => handle[t] = "Running"
    BY <1>2 DEF EntriesLast
  <2> QED
    BY <1>2, <2>1, EntryIsOwn
<1>6. ReplayHasOwner'
  <2>1. ASSUME NEW s \in Sessions, completed_receivers'[s] # NoRound
        PROVE  \E u \in complete' : /\ SidOf[u] = s /\ round'[u] = completed_receivers'[s]
                                    /\ status'[u] \in {"acked", "returned", "gone"}
                                    /\ sessions'[s] \in {u, NoTask}
    <3>1. CASE s = SidOf[t]
      BY <1>1, <1>2, <1>3, <1>4, <1>5, <3>1
    <3>2. CASE s # SidOf[t]
      <4>1. PICK u \in complete : /\ SidOf[u] = s /\ round[u] = completed_receivers[s]
                                  /\ status[u] \in {"acked", "returned", "gone"}
                                  /\ sessions[s] \in {u, NoTask}
        BY <1>1, <1>3, <2>1, <3>2 DEF ReplayHasOwner
      <4> QED
        BY <1>1, <1>3, <1>4, <3>2, <4>1
    <3> QED
      BY <3>1, <3>2
  <2> QED
    BY <2>1 DEF ReplayHasOwner
<1>7. EntriesLast'
  <2>1. ASSUME NEW i \in DOMAIN queue' PROVE StillOwned(queue[i])'
    <3>1. /\ queue'[i] = queue[i + 1] /\ queue'[i] \in Messages /\ StillOwned(queue[i + 1])
          /\ queue'[i].kind = "ReceiverCompleted" => queue'[i].task # t
      BY <1>1, RestIsOwned, RestDiffers
    <3> HIDE DEF t
    <3> QED
      BY <1>1, <1>4, <3>1, MessageCases DEF StillOwned
  <2> HIDE DEF t, r
  <2> QED
    BY <1>1, <1>2, <1>4, <2>1 DEF EntriesLast
<1> QED
  BY <1>6, <1>7

\* Frames and the topology gate leave entries, handles and tasks alone.
LEMMA DeliverKeepsOwned ==
    ASSUME OwnedInv, DeliverFrame \/ ResumeDelivery \/ OpenTopologyGate
    PROVE  EntriesLast' /\ ReplayHasOwner'
<1> USE DEF OwnedInv
<1>1. UNCHANGED <<sessions, completed_receivers, status, round, complete, outcome, cancelled,
                  handle>>
  BY DEF DeliverFrame, ResumeDelivery, OpenTopologyGate, taskVars
<1>2. \A i \in DOMAIN queue' : StillOwned(queue[i])'
  <2>1. CASE ResumeDelivery
    BY <1>1, <2>1 DEF ResumeDelivery, EntriesLast, StillOwned
  <2>2. ASSUME NEW kind, Received(kind), NEW i \in DOMAIN queue' PROVE StillOwned(queue[i])'
    BY <1>1, <2>2, RestIsOwned DEF StillOwned
  <2> QED
    BY <2>1, <2>2 DEF DeliverFrame, OpenTopologyGate
<1>3. EntriesLast'
  BY <1>1, <1>2 DEF EntriesLast
<1> QED
  BY <1>1, <1>3 DEF ReplayHasOwner

\* A step of a task that moves it on, ends it, or reports its end
LEMMA TaskKeepsOwned ==
    ASSUME OwnedInv, NEW t \in Tasks, TaskStep(t)
    PROVE  EntriesLast' /\ ReplayHasOwner'
<1> USE DEF OwnedInv
<1>1. UNCHANGED <<sessions, completed_receivers, cancelled, handle>>
  BY DEF TaskStep, PassGate, TakeFrame, LeaveLoop, FinishReceiver, FinishSender, Die, ReportExit,
         actorVars
<1>2. /\ status \in [Tasks -> Statuses] /\ outcome \in [Tasks -> Outcomes \cup {"None"}]
      /\ round \in [Tasks -> Rounds \cup {NoRound}]
      /\ complete \subseteq Tasks /\ queue \in Seq(Messages)
  BY DEF RuntimeInv, RuntimeTypeOK, Receivers
<1>3. /\ \A u \in Tasks : u # t => /\ status'[u] = status[u] /\ outcome'[u] = outcome[u]
                                   /\ round'[u] = round[u]
      /\ complete \subseteq complete'
      /\ status[t] # "running" => round'[t] = round[t]
      /\ \/ status'[t] = status[t] /\ outcome'[t] = outcome[t]
         \/ /\ status[t] \in {"gated", "running"} /\ status'[t] \in {"running", "registering"}
            /\ outcome'[t] = outcome[t]
         \/ /\ status[t] \in {"gated", "running", "registering", "acked"}
            /\ status[t] = "registering" => t \in cancelled
            /\ status'[t] = "returned"
         \/ status[t] = "returned" /\ status'[t] = "gone" /\ outcome'[t] = outcome[t]
  BY <1>2 DEF TaskStep, PassGate, TakeFrame, LeaveLoop, FinishReceiver, FinishSender, Die, Alive,
              Return, ReportExit
<1>4. ReplayHasOwner'
  BY <1>1, <1>2, <1>3, OwnersStay
<1>5. \A u \in Tasks \ cancelled' :
          /\ status'[u] \in {"gated", "running", "registering", "acked", "returned"}
                => handle'[u] = "Running"
          /\ handle'[u] \in Outcomes => status'[u] = "gone" /\ outcome'[u] = handle'[u]
  BY <1>1, <1>3 DEF EntriesLast, Outcomes
\* What was on the way is untouched: its task has ended, or waits.
<1>6. ASSUME NEW m \in Messages, StillOwned(m), StillTrue(m)
      PROVE  StillOwned(m)'
  BY <1>1, <1>3, <1>6, MessageCases DEF StillOwned, StillTrue
<1>7. ASSUME NEW i \in DOMAIN queue, queue[i] \in Messages
      PROVE  StillOwned(queue[i]) /\ StillTrue(queue[i])
  BY DEF EntriesLast, RuntimeInv, MessagesStayTrue
<1>8. EntriesLast'
  <2>1. CASE UNCHANGED queue
    <3>1. \A i \in DOMAIN queue' : StillOwned(queue[i])'
      BY <1>2, <1>6, <1>7, <2>1 DEF StillOwned
    <3> QED
      BY <1>1, <1>5, <3>1 DEF EntriesLast
  <2>2. ASSUME NEW m \in Messages, queue' = Append(queue, m), \A n : n = m => StillOwned(n)'
        PROVE  EntriesLast'
    <3>1. \A i \in DOMAIN queue' : StillOwned(queue[i])'
      BY <1>2, <1>6, <1>7, <2>2, AppendFacts DEF StillOwned
    <3> QED
      BY <1>1, <1>5, <3>1 DEF EntriesLast
  <2>3. CASE LeaveLoop(t) /\ t \in complete
    <3> DEFINE m == ReceiverCompleted(t, round[t])
    <3>1. m \in Messages /\ m.kind = "ReceiverCompleted" /\ m.task = t
      BY <2>3, MessagesTyped DEF RuntimeInv, TaskHistory, ReceiverCompleted
    <3>2. queue' = Append(queue, m) /\ status'[t] = "registering"
      BY <1>2, <2>3 DEF LeaveLoop, Send
    <3> HIDE DEF m
    <3>3. \A n : n = m => StillOwned(n)'
      BY <3>1, <3>2 DEF StillOwned
    <3> QED
      BY <2>2, <3>1, <3>2, <3>3
  <2>4. CASE ReportExit(t)
    <3> DEFINE m == SessionExited(t, outcome[t])
    <3>1. m \in Messages /\ m.kind = "SessionExited" /\ m.task = t
      BY <1>2, <2>4, MessagesTyped DEF ReportExit, RuntimeInv, TaskHistory, SessionExited
    <3>2. queue' = Append(queue, m) /\ (t \notin cancelled => handle[t] = "Running")
      BY <2>4 DEF ReportExit, Send, EntriesLast
    <3> HIDE DEF m
    <3>3. \A n : n = m => StillOwned(n)'
      BY <1>1, <3>1, <3>2 DEF StillOwned
    <3> QED
      BY <2>2, <3>1, <3>2, <3>3
  <2> QED
    BY <2>1, <2>3, <2>4
       DEF TaskStep, PassGate, TakeFrame, LeaveLoop, FinishReceiver, FinishSender, Die
<1> QED
  BY <1>4, <1>8

LEMMA NextKeepsOwned ==
    ASSUME OwnedInv, AbortedIdsAreFresh, [RuntimeNext]_runtimeVars
    PROVE  OwnedInv'
<1>1. RuntimeInv'
  BY NextKeepsInv DEF OwnedInv
<1>2. CASE RequestTopologyReady
  BY <1>1, <1>2, SendKeepsOwned, MessagesTyped
     DEF RequestTopologyReady, Ask, Send, SetTopologyReady, OwnedInv
<1>3. ASSUME NEW t \in Tasks, RequestStart(t) \/ RequestAbort(t)
      PROVE  OwnedInv'
  BY <1>1, <1>3, SendKeepsOwned, MessagesTyped
     DEF RequestStart, RequestAbort, Ask, Send, Start, AbortMsg, OwnedInv
<1>4. ASSUME NEW sid \in Sessions, NEW f \in Frames, FrameArrives(sid, f)
      PROVE  OwnedInv'
  BY <1>1, <1>4, SendKeepsOwned, MessagesTyped DEF FrameArrives, Send, Deliver, OwnedInv
<1>5. CASE Actor
  BY <1>1, <1>5, StartKeepsOwned, AbortKeepsOwned, DeliverKeepsOwned, RegisterKeepsOwned,
     FinishKeepsOwned DEF Actor, OwnedInv
<1>6. CASE UNCHANGED runtimeVars
  <2>1. UNCHANGED <<queue, sessions, completed_receivers, status, cancelled, round, complete,
                    outcome, handle>>
    BY <1>6 DEF runtimeVars, actorVars, taskVars
  <2> QED
    BY <1>1, <2>1 DEF OwnedInv, EntriesLast, StillOwned, ReplayHasOwner
<1> QED
  BY <1>1, <1>2, <1>3, <1>4, <1>5, <1>6, TaskKeepsOwned DEF RuntimeNext, OwnedInv

-----------------------------------------------------------------------------
(* Theorems *)

\* RuntimeInv holds in every state, for clients that start, abort and reuse
\* sessions as they like.
THEOREM RuntimeInductive == RuntimeSpec => []RuntimeInv
<1>1. RuntimeInit => RuntimeInv
  BY RuntimeInitInv DEF OwnedInv
<1>2. RuntimeInv /\ [RuntimeNext]_runtimeVars => RuntimeInv'
  BY NextKeepsInv
<1> QED
  BY <1>1, <1>2, PTL DEF RuntimeSpec

\* Whenever the actor has worked off its queue, no receiver waits for an
\* acknowledgement and the handle of every task that ended shows so: wait() has
\* returned (LosslessRuntime::run, finish_session, abort_session).
THEOREM IdleActorLeavesNobodyWaiting == RuntimeSpec => []SettledWhenIdle
<1>1. RuntimeInv => SettledWhenIdle
  <2> SUFFICES ASSUME RuntimeInv, queue = << >>, NEW t \in Tasks
               PROVE  /\ status[t] # "registering"
                      /\ status[t] = "gone" => handle[t] \in Outcomes
    BY DEF SettledWhenIdle
  <2>1. ~InQueue(ReceiverCompleted(t, round[t])) /\ ~InQueue(SessionExited(t, outcome[t]))
    BY DEF InQueue
  <2>2. handle[t] \in Outcomes \cup {"None", "Running"}
    BY DEF RuntimeInv, RuntimeTypeOK
  <2> QED
    BY <2>1, <2>2 DEF RuntimeInv, Awaited, EntriesMatchHandles
<1> QED
  BY <1>1, RuntimeInductive, PTL

\* The actor answers Complete in place of a receiver only for the last round of
\* a receiver of that session that ended complete, even when ids are used again
\* after an abort (replay_completed_receiver, register_completed_receiver).
THEOREM ReplaysAlwaysTrue == RuntimeSpec => []ReplaysAreTrue
<1>1. RuntimeInv => ReplaysAreTrue
  BY DEF RuntimeInv
<1> QED
  BY <1>1, RuntimeInductive, PTL

\* If no id is used again after an abort, what a handle shows became of its own
\* task, and every task that runs has the entry of its id (start_session,
\* abort_session, finish_session).
THEOREM EntriesAlwaysOwned ==
    ASSUME AbortedIdsAreFresh
    PROVE  RuntimeSpec => []EntriesOwned
<1>1. RuntimeInit => OwnedInv
  BY RuntimeInitInv
<1>2. OwnedInv /\ [RuntimeNext]_runtimeVars => OwnedInv'
  BY NextKeepsOwned
<1>3. OwnedInv => EntriesOwned
  BY DEF OwnedInv, RuntimeInv, EntriesLast, EntriesMatchHandles, EntriesOwned,
         HandleReportsOwnTask, LiveTaskHasEntry, Alive, Outcomes
<1> QED
  BY <1>1, <1>2, <1>3, PTL DEF RuntimeSpec

\* Under the same condition the stored replay of a session is that of its last
\* complete receiver, and none is left when a new session takes the id
\* (register_completed_receiver, start_session).
THEOREM ReplaysAlwaysSound ==
    ASSUME AbortedIdsAreFresh
    PROVE  RuntimeSpec => []ReplaysSound
<1>1. RuntimeInit => OwnedInv
  BY RuntimeInitInv
<1>2. OwnedInv /\ [RuntimeNext]_runtimeVars => OwnedInv'
  BY NextKeepsOwned
<1>3. OwnedInv => ReplaysSound
  BY DEF OwnedInv, RuntimeInv, ReplaysSound
<1> QED
  BY <1>1, <1>2, <1>3, PTL DEF RuntimeSpec
=============================================================================
