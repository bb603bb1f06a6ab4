--------------------------- MODULE LosslessRuntime ---------------------------
(***************************************************************************)
(* The background actor of a node that owns its lossless session tasks     *)
(* (dataplane/src/node/session/{runtime,api}.rs) and the end of a receiver *)
(* task as the actor sees it (receiver/mod.rs: run, register_completed_    *)
(* replay).  Clients, session tasks and the watchers of those tasks put    *)
(* messages on one unbounded queue; the actor handles them one at a time,  *)
(* and stands still while it waits for room in a session's bounded inbox.  *)
(*                                                                         *)
(* A task is one incarnation of a session: SidOf maps it to its session    *)
(* id, which later incarnations reuse.  What a session does with its       *)
(* frames is reduced to what the actor depends on: PlainSession has it.    *)
(***************************************************************************)
EXTENDS Integers, Sequences

CONSTANTS
    Tasks,          \* incarnations, each started at most once
    Senders,        \* the tasks that are senders, the others are receivers
    Sessions,       \* session ids
    SidOf,          \* [Tasks -> Sessions]
    NoTask,         \* no session entry
    MayAbort,       \* tasks whose handle's abort() may be called
    Rounds,         \* round ids of the SourceDone frames that arrive
    InboxCapacity,  \* mpsc::channel(1024)
    MaxDelivers     \* inbound frames explored

ASSUME TasksAssumption ==
    Senders \subseteq Tasks /\ MayAbort \subseteq Tasks /\ SidOf \in [Tasks -> Sessions]
    /\ NoTask \notin Tasks
ASSUME RoundsAssumption == Rounds \subseteq Nat
ASSUME CapacityAssumption == InboxCapacity \in Nat \ {0} /\ MaxDelivers \in Nat

NoRound == -1
Receivers == Tasks \ Senders

VARIABLES
    queue,                  \* message_receiver
    blocked,                \* the delivery the actor is awaiting, or NoDelivery
    sessions,               \* [Sessions -> Tasks \cup {NoTask}]
    completed_receivers,    \* [Sessions -> Rounds \cup {NoRound}]
    replays,                \* Needs the actor sent in place of a receiver
    topology_ready,
    status,                 \* where each task is
    cancelled,              \* tasks whose abort_handle.abort() was called
    inbox,                  \* [Tasks -> Seq(Frames)]
    round,                  \* last_source_done_round_id of a receiver
    complete,               \* tasks that have reported Complete
    outcome,                \* what the task returned: task.await
    handle,                 \* the SessionState its LosslessSessionHandle shows
    delivers, asked         \* frames and client calls so far

actorVars == <<blocked, sessions, completed_receivers, replays, topology_ready>>
taskVars == <<status, inbox, round, complete, outcome>>
clientVars == <<delivers, asked>>
runtimeVars == <<queue, actorVars, taskVars, cancelled, handle, clientVars>>

\* Any frame but SourceDone is the same to the actor.
OtherFrame == NoRound
Frames == Rounds \cup {OtherFrame}

Start(t) == [kind |-> "Start", task |-> t]
AbortMsg(t) == [kind |-> "Abort", task |-> t]
Deliver(sid, f) == [kind |-> "Deliver", sid |-> sid, frame |-> f]
ReceiverCompleted(t, r) == [kind |-> "ReceiverCompleted", task |-> t, round |-> r]
SessionExited(t, o) == [kind |-> "SessionExited", task |-> t, outcome |-> o]
SetTopologyReady == [kind |-> "SetTopologyReady"]
NoDelivery == [task |-> NoTask, frame |-> OtherFrame]

Outcomes == {"Completed", "Aborted"}
\* gated: a sender in wait_topology_ready; registering: a receiver that awaits
\* the ack of its ReceiverCompleted; returned: the task is over, its watcher
\* has not reported yet.
Statuses == {"new", "refused", "gated", "running", "registering", "acked", "returned", "gone"}

Messages ==
    [kind : {"Start"}, task : Tasks] \cup [kind : {"Abort"}, task : MayAbort]
    \cup [kind : {"Deliver"}, sid : Sessions, frame : Frames]
    \cup [kind : {"ReceiverCompleted"}, task : Tasks, round : Rounds]
    \cup [kind : {"SessionExited"}, task : Tasks, outcome : Outcomes]
    \cup {SetTopologyReady}

RuntimeTypeOK ==
    /\ queue \in Seq(Messages)
    /\ blocked \in [task : Tasks, frame : Frames] \cup {NoDelivery}
    /\ sessions \in [Sessions -> Tasks \cup {NoTask}]
    /\ completed_receivers \in [Sessions -> Rounds \cup {NoRound}]
    /\ replays \subseteq Sessions \X Rounds
    /\ topology_ready \in BOOLEAN
    /\ status \in [Tasks -> Statuses]
    /\ cancelled \subseteq Tasks /\ complete \subseteq Receivers
    /\ inbox \in [Tasks -> Seq(Frames)]
    /\ \A t \in Tasks : Len(inbox[t]) <= InboxCapacity
    /\ round \in [Tasks -> Rounds \cup {NoRound}]
    /\ outcome \in [Tasks -> Outcomes \cup {"None"}]
    /\ handle \in [Tasks -> Outcomes \cup {"None", "Running"}]

RuntimeInit ==
    /\ queue = << >>
    /\ blocked = NoDelivery
    /\ sessions = [sid \in Sessions |-> NoTask]
    /\ completed_receivers = [sid \in Sessions |-> NoRound]
    /\ replays = {}
    /\ topology_ready = FALSE
    /\ status = [t \in Tasks |-> "new"]
    /\ cancelled = {}
    /\ inbox = [t \in Tasks |-> << >>]
    /\ round = [t \in Tasks |-> NoRound]
    /\ complete = {}
    /\ outcome = [t \in Tasks |-> "None"]
    /\ handle = [t \in Tasks |-> "None"]
    /\ delivers = 0
    /\ asked = {}

Send(m) == queue' = Append(queue, m)

\* The task's end of the inbox is dropped with the task, the actor's end with
\* the session entry.
Alive(t) == t # NoTask /\ status[t] \in {"gated", "running", "registering", "acked"}
Disconnected(t) == sessions[SidOf[t]] # t

-----------------------------------------------------------------------------
(* Clients and the network: LosslessRuntimeHandle, LosslessSessionHandle *)

\* Each request is made at most once.
Ask(m) ==
    /\ m \notin asked
    /\ asked' = asked \cup {m}
    /\ Send(m)
    /\ UNCHANGED <<actorVars, taskVars, cancelled, handle, delivers>>

RequestStart(t) == Ask(Start(t))
RequestAbort(t) == t \in MayAbort /\ handle[t] # "None" /\ Ask(AbortMsg(t))
RequestTopologyReady == Ask(SetTopologyReady)

\* SourceDone travels to receivers only.
FrameArrives(sid, f) ==
    /\ f # OtherFrame => \E t \in Receivers : SidOf[t] = sid
    /\ delivers < MaxDelivers
    /\ delivers' = delivers + 1
    /\ Send(Deliver(sid, f))
    /\ UNCHANGED <<actorVars, taskVars, cancelled, handle, asked>>

-----------------------------------------------------------------------------
(* The actor: LosslessRuntime::run *)

Received(kind) ==
    /\ blocked = NoDelivery
    /\ queue # << >>
    /\ queue[1].kind = kind
    /\ queue' = Tail(queue)

\* Slip: an entry that is already there is overwritten
StartOver ==
    /\ Received("Start")
    /\ LET t == queue[1].task IN
       /\ completed_receivers' = [completed_receivers EXCEPT ![SidOf[t]] = NoRound]
       /\ sessions' = [sessions EXCEPT ![SidOf[t]] = t]
       /\ status' = [status EXCEPT ![t] = "running"]
       /\ handle' = [handle EXCEPT ![t] = "Running"]
    /\ UNCHANGED <<blocked, replays, topology_ready, inbox, round, complete, outcome,
                   cancelled, clientVars>>

\* A session id that still has an entry is refused; otherwise its replay is
\* dropped, and then a sender may fail its preflight checks.
StartSession ==
    /\ Received("Start")
    /\ LET t == queue[1].task
           sid == SidOf[t]
           refuse == status' = [status EXCEPT ![t] = "refused"] /\ UNCHANGED <<sessions, handle>>
       IN
       IF sessions[sid] # NoTask
       THEN refuse /\ UNCHANGED completed_receivers
       ELSE /\ completed_receivers' = [completed_receivers EXCEPT ![sid] = NoRound]
            /\ \/ t \in Senders /\ refuse
               \/ /\ sessions' = [sessions EXCEPT ![sid] = t]
                  /\ status' = [status EXCEPT ![t] =
                        IF t \in Senders /\ ~topology_ready THEN "gated" ELSE "running"]
                  /\ handle' = [handle EXCEPT ![t] = "Running"]
    /\ UNCHANGED <<blocked, replays, topology_ready, inbox, round, complete, outcome,
                   cancelled, clientVars>>

\* Slip: the entry is removed before its state is published
AbortSilently ==
    /\ Received("Abort")
    /\ LET sid == SidOf[queue[1].task]
           t == sessions[sid]
       IN
       /\ sessions' = [sessions EXCEPT ![sid] = NoTask]
       /\ completed_receivers' = [completed_receivers EXCEPT ![sid] = NoRound]
       /\ cancelled' = IF t = NoTask THEN cancelled ELSE cancelled \cup {t}
    /\ UNCHANGED <<blocked, replays, topology_ready, taskVars, handle, clientVars>>

\* abort_session, by session id
AbortSession ==
    /\ Received("Abort")
    /\ LET sid == SidOf[queue[1].task]
           t == sessions[sid]
       IN
       /\ sessions' = [sessions EXCEPT ![sid] = NoTask]
       /\ completed_receivers' = [completed_receivers EXCEPT ![sid] = NoRound]
       /\ IF t = NoTask THEN UNCHANGED <<cancelled, handle>>
          ELSE /\ cancelled' = cancelled \cup {t}
               /\ handle' = [handle EXCEPT ![t] = "Aborted"]
    /\ UNCHANGED <<blocked, replays, topology_ready, taskVars, clientVars>>

\* Slip: any SourceDone of a completed session is answered
ReplayAnyRound(sid, f) ==
    replays' = IF f # OtherFrame /\ completed_receivers[sid] # NoRound
               THEN replays \cup {<<sid, f>>} ELSE replays

\* replay_completed_receiver: the round of a completed receiver, and only that
\* one, is answered.
Replay(sid, f) ==
    replays' = IF f # OtherFrame /\ completed_receivers[sid] = f
               THEN replays \cup {<<sid, f>>} ELSE replays

\* deliver_frame: to the live session's inbox, waiting while it is full; a
\* session that is gone or whose task has ended is replayed for.
DeliverFrame ==
    /\ Received("Deliver")
    /\ LET sid == queue[1].sid
           f == queue[1].frame
           t == sessions[sid]
       IN
       \/ /\ ~Alive(t)
          /\ Replay(sid, f)
          /\ UNCHANGED <<inbox, blocked>>
       \/ /\ Alive(t)
          /\ IF Len(inbox[t]) < InboxCapacity
             THEN inbox' = [inbox EXCEPT ![t] = Append(@, f)] /\ UNCHANGED blocked
             ELSE blocked' = [task |-> t, frame |-> f] /\ UNCHANGED inbox
          /\ UNCHANGED replays
    /\ UNCHANGED <<sessions, completed_receivers, topology_ready, status, round, complete,
                   outcome, cancelled, handle, clientVars>>

\* The awaited inbox.send returns: there is room, or the task has ended.
ResumeDelivery ==
    LET t == blocked.task IN
    /\ blocked # NoDelivery
    /\ \/ ~Alive(t) /\ Replay(SidOf[t], blocked.frame) /\ UNCHANGED inbox
       \/ /\ Alive(t)
          /\ Len(inbox[t]) < InboxCapacity
          /\ inbox' = [inbox EXCEPT ![t] = Append(@, blocked.frame)]
          /\ UNCHANGED replays
    /\ blocked' = NoDelivery
    /\ UNCHANGED <<queue, sessions, completed_receivers, topology_ready, status, round,
                   complete, outcome, cancelled, handle, clientVars>>

RegisterReplay ==
    /\ Received("ReceiverCompleted")
    /\ LET t == queue[1].task IN
       /\ completed_receivers' = [completed_receivers EXCEPT ![SidOf[t]] = queue[1].round]
       /\ status' = [status EXCEPT ![t] = IF @ = "registering" THEN "acked" ELSE @]
    /\ UNCHANGED <<blocked, sessions, replays, topology_ready, inbox, round, complete,
                   outcome, cancelled, handle, clientVars>>

\* finish_session, by session id
FinishEntry ==
    /\ Received("SessionExited")
    /\ LET sid == SidOf[queue[1].task]
           o == queue[1].outcome
           t == sessions[sid]
       IN
       /\ sessions' = [sessions EXCEPT ![sid] = NoTask]
       /\ handle' = IF t = NoTask THEN handle ELSE [handle EXCEPT ![t] = o]
       /\ completed_receivers' = [completed_receivers EXCEPT ![sid] =
                                     IF o = "Completed" THEN @ ELSE NoRound]
    /\ UNCHANGED <<blocked, replays, topology_ready, taskVars, cancelled, clientVars>>

\* set_topology_ready(true), the only value the controller interface passes
OpenTopologyGate ==
    /\ Received("SetTopologyReady")
    /\ topology_ready' = TRUE
    /\ UNCHANGED <<blocked, sessions, completed_receivers, replays, taskVars, cancelled,
                   handle, clientVars>>

Actor ==
    \/ StartSession \/ AbortSession \/ DeliverFrame \/ ResumeDelivery
    \/ RegisterReplay \/ FinishEntry \/ OpenTopologyGate

-----------------------------------------------------------------------------
(* Session tasks *)

PassGate(t) ==
    /\ status[t] = "gated"
    /\ topology_ready
    /\ status' = [status EXCEPT ![t] = "running"]
    /\ UNCHANGED <<queue, actorVars, inbox, round, complete, outcome, cancelled, handle, clientVars>>

\* A frame is taken; a SourceDone that is not stale is a receiver's new round,
\* and a later round may find the object complete.
TakeFrame(t) ==
    LET f == inbox[t][1]
        new == t \in Receivers /\ f > round[t]
    IN
    /\ status[t] = "running"
    /\ inbox[t] # << >>
    /\ inbox' = [inbox EXCEPT ![t] = Tail(@)]
    /\ round' = [round EXCEPT ![t] = IF new THEN f ELSE @]
    /\ complete' \in {complete} \cup (IF new THEN {complete \cup {t}} ELSE {})
    /\ UNCHANGED <<queue, actorVars, status, outcome, cancelled, handle, clientVars>>

Return(t, o) ==
    /\ status' = [status EXCEPT ![t] = "returned"]
    /\ outcome' = [outcome EXCEPT ![t] = o]

\* The receive loop ends: session_finish_timeout in the passive state, or the
\* actor's end of the inbox is gone and the inbox drained.  A complete receiver
\* registers its replay and waits; from here on nobody reads its inbox.
LeaveLoop(t) ==
    /\ t \in Receivers
    /\ status[t] = "running"
    /\ t \in complete \/ (Disconnected(t) /\ inbox[t] = << >>)
    /\ IF t \in complete
       THEN /\ status' = [status EXCEPT ![t] = "registering"]
            /\ Send(ReceiverCompleted(t, round[t]))
            /\ UNCHANGED outcome
       ELSE Return(t, "Completed") /\ UNCHANGED queue
    /\ UNCHANGED <<actorVars, inbox, round, complete, cancelled, handle, clientVars>>

FinishReceiver(t) ==
    /\ status[t] = "acked"
    /\ Return(t, "Completed")
    /\ UNCHANGED <<queue, actorVars, inbox, round, complete, cancelled, handle, clientVars>>

FinishSender(t) ==
    /\ t \in Senders
    /\ status[t] = "running"
    /\ \E o \in Outcomes : Return(t, o)
    /\ UNCHANGED <<queue, actorVars, inbox, round, complete, cancelled, handle, clientVars>>

\* The task panics, or a cancelled task reaches an await: task.await is an Err.
Die(t) ==
    /\ Alive(t)
    /\ t \in cancelled \/ status[t] = "running"
    /\ Return(t, "Aborted")
    /\ UNCHANGED <<queue, actorVars, inbox, round, complete, cancelled, handle, clientVars>>

\* The spawned watcher reports the task's end.
ReportExit(t) ==
    /\ status[t] = "returned"
    /\ status' = [status EXCEPT ![t] = "gone"]
    /\ Send(SessionExited(t, outcome[t]))
    /\ UNCHANGED <<actorVars, inbox, round, complete, outcome, cancelled, handle, clientVars>>

TaskStep(t) ==
    PassGate(t) \/ TakeFrame(t) \/ LeaveLoop(t) \/ FinishReceiver(t) \/ FinishSender(t)
    \/ Die(t) \/ ReportExit(t)

RuntimeNext ==
    \/ RequestTopologyReady
    \/ \E t \in Tasks : RequestStart(t) \/ RequestAbort(t) \/ TaskStep(t)
    \/ \E sid \in Sessions, f \in Frames : FrameArrives(sid, f)
    \/ Actor

RuntimeSpec == RuntimeInit /\ [][RuntimeNext]_runtimeVars

\* The actor and the tasks are scheduled (tokio) and the timers fire; nothing
\* obliges a client to call, a frame to arrive or a task to fail.
FairRuntimeSpec ==
    /\ RuntimeSpec
    /\ WF_runtimeVars(Actor)
    /\ \A t \in Tasks :
          /\ WF_runtimeVars(PassGate(t))
          /\ WF_runtimeVars(TakeFrame(t))
          /\ WF_runtimeVars(FinishReceiver(t))
          /\ WF_runtimeVars(FinishSender(t))
          /\ WF_runtimeVars(ReportExit(t))
          /\ WF_runtimeVars(t \in cancelled /\ Die(t))

-----------------------------------------------------------------------------
(* Properties *)

\* "Public handle for one started lossless session": what a handle shows is
\* what became of its own task, never of another incarnation of its session id.
HandleReportsOwnTask ==
    \A t \in Tasks :
        /\ handle[t] = "Completed" => outcome[t] = "Completed"
        /\ handle[t] = "Aborted" => t \in cancelled \/ outcome[t] = "Aborted"

\* A running task is reachable: its entry is there, so frames and aborts find it.
LiveTaskHasEntry ==
    \A t \in Tasks : Alive(t) /\ t \notin cancelled => sessions[SidOf[t]] = t

\* The actor answers Complete for a round only if a receiver of that session
\* ended complete with that round as its last.
ReplaysAreTrue ==
    \A p \in replays :
        \E t \in complete : SidOf[t] = p[1] /\ round[t] = p[2]
                            /\ status[t] \notin {"running", "gated"}

\* The stored replay belongs to the session's last complete receiver, and no
\* session that may still be incomplete has one.
ReplayHasOwner ==
    \A sid \in Sessions : completed_receivers[sid] # NoRound =>
        \E t \in complete : /\ SidOf[t] = sid
                            /\ round[t] = completed_receivers[sid]
                            /\ status[t] \in {"acked", "returned", "gone"}
                            /\ sessions[sid] \in {t, NoTask}

\* "Before the receiver task exits ..., it transfers that cached replay state to
\* runtime handoff storage": a receiver that has started the handoff ends it.
HandoffCompletes ==
    \A t \in Receivers : status[t] = "registering" ~> status[t] # "registering"

\* When the actor has worked off its queue, nobody waits for it any more: no
\* receiver is left in its handoff, and the handle of every task that ended,
\* panicked or was aborted shows so, which is what wait() returns on.
SettledWhenIdle ==
    queue = << >> /\ blocked = NoDelivery =>
        \A t \in Tasks : /\ status[t] # "registering"
                         /\ status[t] = "gone" => handle[t] \in Outcomes

\* Entries, handles and tasks of a session id belong together over all its
\* incarnations (start_session, handle_exit, abort).
EntriesOwned == HandleReportsOwnTask /\ LiveTaskHasEntry

\* A replay is true when it is sent and has its owner while it is stored
\* (register_completed_receiver, replay_completed).
ReplaysSound == ReplaysAreTrue /\ ReplayHasOwner

-----------------------------------------------------------------------------
(* What makes them inductive.  LosslessRuntimeProofs has the argument.     *)

InQueue(m) == \E i \in DOMAIN queue : queue[i] = m

\* A task is started once and reports its completion and its end once.
SaidOnce ==
    \A i, j \in DOMAIN queue :
        /\ queue[i].kind \in {"Start", "ReceiverCompleted", "SessionExited"}
        /\ queue[j].kind = queue[i].kind /\ queue[j].task = queue[i].task
        => i = j

\* What a message says is still so when the actor reads it.
StillTrue(m) ==
    /\ m.kind = "Start" => m \in asked /\ status[m.task] = "new"
    /\ m.kind = "ReceiverCompleted" =>
          m.task \in complete /\ m.round = round[m.task]
          /\ status[m.task] \in {"registering", "returned", "gone"}
    /\ m.kind = "SessionExited" => status[m.task] = "gone" /\ m.outcome = outcome[m.task]
MessagesStayTrue == \A i \in DOMAIN queue : StillTrue(queue[i])

\* A handle shows Running exactly as long as its task has the entry of its id.
EntriesMatchHandles ==
    /\ \A sid \in Sessions : sessions[sid] # NoTask => SidOf[sessions[sid]] = sid
    /\ \A t \in Tasks :
          /\ handle[t] = "Running" <=> sessions[SidOf[t]] = t
          /\ handle[t] = "None" <=> status[t] \in {"new", "refused"}
          /\ t \in cancelled => handle[t] = "Aborted"

\* The message somebody waits for is on its way.
Awaited ==
    \A t \in Tasks :
        /\ status[t] = "registering" => InQueue(ReceiverCompleted(t, round[t]))
        /\ status[t] = "gone" /\ handle[t] = "Running" => InQueue(SessionExited(t, outcome[t]))

TaskHistory ==
    \A t \in Tasks :
        /\ status[t] # "new" => Start(t) \in asked
        /\ t \in complete => round[t] \in Rounds /\ status[t] \notin {"new", "refused"}
        /\ status[t] \in {"registering", "acked"} => t \in complete
        /\ outcome[t] # "None" <=> status[t] \in {"returned", "gone"}

\* A stored replay is that of a receiver of this session that ended complete.
StoredReplaysAreTrue ==
    \A sid \in Sessions : completed_receivers[sid] # NoRound =>
        \E t \in complete : /\ SidOf[t] = sid /\ round[t] = completed_receivers[sid]
                            /\ status[t] \in {"acked", "returned", "gone"}

RuntimeInv ==
    /\ RuntimeTypeOK /\ SaidOnce /\ MessagesStayTrue /\ EntriesMatchHandles /\ Awaited
    /\ TaskHistory /\ StoredReplaysAreTrue /\ ReplaysAreTrue

\* The condition on the clients of the runtime under which entries and replays
\* are owned: the id of a session that may be aborted is not used again.
AbortedIdsAreFresh == \A t \in MayAbort, u \in Tasks : SidOf[t] = SidOf[u] => t = u

\* Until the actor has read its exit, a task that was not aborted has its entry,
\* and a receiver that was not aborted waits while its completion is on the way.
StillOwned(m) ==
    m.task \notin cancelled =>
        /\ m.kind = "SessionExited" => handle[m.task] = "Running"
        /\ m.kind = "ReceiverCompleted" => status[m.task] = "registering"
EntriesLast ==
    /\ cancelled \subseteq MayAbort
    /\ \A t \in Tasks \ cancelled :
          /\ status[t] \in {"gated", "running", "registering", "acked", "returned"}
                => handle[t] = "Running"
          /\ handle[t] \in Outcomes => status[t] = "gone" /\ outcome[t] = handle[t]
    /\ \A i \in DOMAIN queue : StillOwned(queue[i])

OwnedInv == RuntimeInv /\ EntriesLast /\ ReplayHasOwner
=============================================================================
