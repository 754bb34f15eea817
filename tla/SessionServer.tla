---------------------------- MODULE SessionServer ----------------------------
(***************************************************************************)
(* Recording sessions and the server that owns them: internal/server's      *)
(* Server (HandlePubSubEvent, runSession, CloseSession, Close) and Session  *)
(* (StartRecording, StopRecording, Run, handleStartRecording,               *)
(* handleStopRecording), with the adapters reduced to the callbacks they    *)
(* make into a session.                                                     *)
(*                                                                          *)
(* Goroutines: the pubsub receive loop, which handles messages one at a     *)
(* time; one Run loop per session; the flow goroutines of each adapter      *)
(* (LiveKit's single event dispatcher, one per mediasoup track); connection *)
(* callbacks; and the shutdown handler.                                     *)
(***************************************************************************)
EXTENDS Naturals, Sequences, FiniteSets

CONSTANTS
  Requests,    \* startRecording requests; each makes at most one session
  Ids,         \* recording session ids
  IdOf,        \* the id a request names
  LiveKit,     \* the requests that use the LiveKit adapter; others: mediasoup
  Threads,     \* an adapter's flow goroutines
  Dispatcher,  \* the only one a LiveKit adapter has
  QueueCap,    \* capacity of a session's command channel (10 in the code)
  MaxStatus,   \* bound on the flow changes of one session
  LateIntake,  \* whether startRecording still arrives after the exit signal
  None

ASSUME RequestAssumption ==
  /\ IdOf \in [Requests -> Ids]
  /\ LiveKit \subseteq Requests
  /\ Dispatcher \in Threads
  /\ None \notin Requests
  /\ LateIntake \in BOOLEAN

\* One slot for the start command and one for a stop is what the session needs.
ASSUME QueueAssumption == QueueCap \in Nat /\ QueueCap >= 2

VARIABLES
  registry,    \* server.sessions: id -> the session's request, or None
  handler,     \* the request whose start command the receive loop still has to queue
  shutdown,    \* progress of app.shutdown
  visited,     \* ids that the Range of Server.Close has passed
  mustVisit,   \* sessions registered when that Range began
  pc,          \* where a session's Run goroutine is
  queue,       \* session.commands
  done,        \* session.done is closed
  startEvent,  \* session.startEvent is set
  startedOK,   \* session.startedSuccessfully
  callbacks,   \* the callbacks the adapter holds: none yet, the session's, no-ops
  media,       \* the adapter's connection and its recorder: "new", "open", "closed"
  flowStopped, \* LiveKit: stopFlowEvents was called
  lost,        \* the connection reached a terminal state
  flight,      \* a flow goroutine's callback, read but not yet run
  out          \* the messages published about a request's recording

serverVars == <<registry, handler, shutdown, visited, mustVisit>>
adapterVars == <<callbacks, media, flowStopped, lost, flight>>
sessionVars == <<pc, queue, done, startEvent, startedOK>>
vars == <<serverVars, sessionVars, adapterVars, out>>

Commands == {"start", "stop"}
Has(s, m) == \E k \in DOMAIN s : s[k] = m

PcValues == {"absent", "refused", "select", "init", "initclose", "answer",
             "reject", "reset", "close", "closing", "publish", "unregister",
             "finish", "gone"}

TypeOK ==
  /\ registry \in [Ids -> Requests \cup {None}]
  /\ handler \in Requests \cup {None}
  /\ shutdown \in {"running", "ranging", "waiting", "waited", "exited"}
  /\ visited \subseteq Ids
  /\ mustVisit \subseteq Requests
  /\ pc \in [Requests -> PcValues]
  /\ queue \in [Requests -> Seq(Commands)]
  /\ \A r \in Requests : Len(queue[r]) <= QueueCap
  /\ done \in [Requests -> BOOLEAN]
  /\ startEvent \in [Requests -> BOOLEAN]
  /\ startedOK \in [Requests -> BOOLEAN]
  /\ callbacks \in [Requests -> {"unset", "session", "noop"}]
  /\ media \in [Requests -> {"new", "open", "closed"}]
  /\ flowStopped \in [Requests -> BOOLEAN]
  /\ lost \in [Requests -> BOOLEAN]
  /\ flight \in [Requests -> [Threads -> {"idle", "status", "closed"}]]
  /\ out \in [Requests -> Seq({"ok", "fail", "status", "stopped"})]

Init ==
  /\ registry = [i \in Ids |-> None]
  /\ handler = None
  /\ shutdown = "running"
  /\ visited = {}
  /\ mustVisit = {}
  /\ pc = [r \in Requests |-> "absent"]
  /\ queue = [r \in Requests |-> <<>>]
  /\ done = [r \in Requests |-> FALSE]
  /\ startEvent = [r \in Requests |-> FALSE]
  /\ startedOK = [r \in Requests |-> FALSE]
  /\ callbacks = [r \in Requests |-> "unset"]
  /\ media = [r \in Requests |-> "new"]
  /\ flowStopped = [r \in Requests |-> FALSE]
  /\ lost = [r \in Requests |-> FALSE]
  /\ flight = [r \in Requests |-> [t \in Threads |-> "idle"]]
  /\ out = [r \in Requests |-> <<>>]

-----------------------------------------------------------------------------
(* Helpers *)

Publish(r, m) == out' = [out EXCEPT ![r] = Append(@, m)]

Goto(r, label) == pc' = [pc EXCEPT ![r] = label]

\* shutdownWg: the sessions whose Run has been started and has not returned.
Running == {r \in Requests : pc[r] \notin {"absent", "refused", "gone"}}

\* The non-blocking send on session.commands: a full queue refuses c.
Offer(q, c) == IF Len(q) < QueueCap THEN Append(q, c) ELSE q

\* Session.StopRecording: nothing to do once done, else a non-blocking send
\* whose failure every caller only logs.
SendStop(r) ==
  queue' = [queue EXCEPT ![r] = IF done[r] THEN @ ELSE Offer(@, "stop")]

InFlight(r) == \E t \in Threads : flight[r][t] # "idle"

StatusCount(r) ==
  Cardinality({k \in DOMAIN out[r] : out[r][k] = "status"}) +
  Cardinality({t \in Threads : flight[r][t] = "status"})

-----------------------------------------------------------------------------
(* The pubsub receive loop: Server.HandlePubSubEvent *)

Accepting == shutdown = "running" \/ LateIntake

\* A session id that is still registered is an error. The request's recording
\* never exists; the failure response is its only message.
RefuseDuplicate(r) ==
  /\ handler = None /\ Accepting
  /\ pc[r] = "absent" /\ registry[IdOf[r]] # None
  /\ Goto(r, "refused")
  /\ Publish(r, "fail")
  /\ UNCHANGED <<serverVars, queue, done, startEvent, startedOK, adapterVars>>

\* Validation, the recorder or the adapter type refuses the request.
RefuseInvalid(r) ==
  /\ handler = None /\ Accepting
  /\ pc[r] = "absent" /\ registry[IdOf[r]] = None
  /\ Goto(r, "refused")
  /\ Publish(r, "fail")
  /\ UNCHANGED <<serverVars, queue, done, startEvent, startedOK, adapterVars>>

\* The session is created, registered and its Run goroutine started. Nobody
\* else adds to the registry, so the collision check still holds here.
Register(r) ==
  /\ handler = None /\ Accepting
  /\ pc[r] = "absent" /\ registry[IdOf[r]] = None
  /\ registry' = [registry EXCEPT ![IdOf[r]] = r]
  /\ handler' = r
  /\ Goto(r, "select")
  /\ UNCHANGED <<shutdown, visited, mustVisit, queue, done, startEvent,
                 startedOK, adapterVars, out>>

\* Mutation: the start is sent again until the session is over.
QueueStartAgain(r) ==
  /\ handler = r
  /\ handler' = IF done[r] THEN None ELSE r
  /\ queue' = [queue EXCEPT ![r] = Offer(@, "start")]
  /\ UNCHANGED <<registry, shutdown, visited, mustVisit, pc, done, startEvent,
                 startedOK, adapterVars, out>>

\* Session.StartRecording. The session can already be over: Server.Close may
\* have stopped it since it was registered. A failure is answered, and the
\* session told to stop.
QueueStart(r) ==
  /\ handler = r
  /\ handler' = None
  /\ IF ~done[r] /\ Len(queue[r]) < QueueCap
       THEN /\ queue' = [queue EXCEPT ![r] = Offer(@, "start")]
            /\ UNCHANGED out
       ELSE SendStop(r) /\ Publish(r, "fail")
  /\ UNCHANGED <<registry, shutdown, visited, mustVisit, pc, done, startEvent,
                 startedOK, adapterVars>>

\* stopRecording for a registered id; for any other id it does nothing.
HandleStop(i) ==
  /\ handler = None /\ registry[i] # None
  /\ SendStop(registry[i])
  /\ UNCHANGED <<serverVars, pc, done, startEvent, startedOK, adapterVars, out>>

-----------------------------------------------------------------------------
(* A session's Run goroutine: Session.Run *)

Ready(r, command) ==
  /\ pc[r] = "select" /\ ~done[r]
  /\ queue[r] # <<>> /\ Head(queue[r]) = command

\* Mutation: the request is not kept.
TakeStartUnlisted(r) ==
  /\ Ready(r, "start")
  /\ queue' = [queue EXCEPT ![r] = Tail(@)]
  /\ callbacks' = [callbacks EXCEPT ![r] = "session"]
  /\ Goto(r, "init")
  /\ UNCHANGED <<serverVars, done, startEvent, startedOK, media, flowStopped, lost,
                 flight, out>>

\* Mutation: the start drops the commands queued behind it.
TakeStartDraining(r) ==
  /\ Ready(r, "start")
  /\ queue' = [queue EXCEPT ![r] = <<>>]
  /\ startEvent' = [startEvent EXCEPT ![r] = TRUE]
  /\ callbacks' = [callbacks EXCEPT ![r] = "session"]
  /\ Goto(r, "init")
  /\ UNCHANGED <<serverVars, done, startedOK, media, flowStopped, lost, flight, out>>

\* The start command: the request is kept for getRecordings, the session's
\* callbacks are given to the adapter, and the adapter's Init begins.
TakeStart(r) ==
  /\ Ready(r, "start")
  /\ queue' = [queue EXCEPT ![r] = Tail(@)]
  /\ startEvent' = [startEvent EXCEPT ![r] = TRUE]
  /\ callbacks' = [callbacks EXCEPT ![r] = "session"]
  /\ Goto(r, "init")
  /\ UNCHANGED <<serverVars, done, startedOK, media, flowStopped, lost, flight, out>>

TakeStop(r) ==
  /\ Ready(r, "stop")
  /\ queue' = [queue EXCEPT ![r] = Tail(@)]
  /\ Goto(r, "reset")
  /\ UNCHANGED <<serverVars, done, startEvent, startedOK, adapterVars, out>>

\* After a failed start, done ends the loop, and also when select happens to
\* take a command that is still queued.
LeaveLoop(r) ==
  /\ pc[r] = "select" /\ done[r]
  /\ \/ UNCHANGED queue
     \/ queue[r] # <<>> /\ queue' = [queue EXCEPT ![r] = Tail(@)]
  /\ Goto(r, "gone")
  /\ UNCHANGED <<serverVars, done, startEvent, startedOK, adapterVars, out>>

-----------------------------------------------------------------------------
(* Session.handleStartRecording, from the adapter's Init on *)

\* Within Init the peer connection exists (mediasoup), or the room is joined
\* (LiveKit): from here on the adapter can call back.
Connect(r) ==
  /\ pc[r] = "init" /\ media[r] = "new"
  /\ media' = [media EXCEPT ![r] = "open"]
  /\ UNCHANGED <<serverVars, sessionVars, callbacks, flowStopped, lost, flight, out>>

ConnectFails(r) ==
  /\ pc[r] = "init" /\ media[r] = "new"
  /\ Goto(r, "reject")
  /\ UNCHANGED <<serverVars, queue, done, startEvent, startedOK, adapterVars, out>>

InitSucceeds(r) ==
  /\ pc[r] = "init" /\ media[r] = "open"
  /\ Goto(r, "answer")
  /\ UNCHANGED <<serverVars, queue, done, startEvent, startedOK, adapterVars, out>>

\* LiveKit joined the room but not every track: Init closes the adapter itself.
SubscribeFails(r) ==
  /\ r \in LiveKit
  /\ pc[r] = "init" /\ media[r] = "open"
  /\ flowStopped' = [flowStopped EXCEPT ![r] = TRUE]
  /\ Goto(r, "initclose")
  /\ UNCHANGED <<serverVars, queue, done, startEvent, startedOK, callbacks,
                 media, lost, flight, out>>

FinishInitClose(r) ==
  /\ pc[r] = "initclose" /\ ~InFlight(r)
  /\ media' = [media EXCEPT ![r] = "closed"]
  /\ Goto(r, "reject")
  /\ UNCHANGED <<serverVars, queue, done, startEvent, startedOK, callbacks,
                 flowStopped, lost, flight, out>>

AnswerOK(r) ==
  /\ pc[r] = "answer"
  /\ Publish(r, "ok")
  /\ startedOK' = [startedOK EXCEPT ![r] = TRUE]
  /\ Goto(r, "select")
  /\ UNCHANGED <<serverVars, queue, done, startEvent, adapterVars>>

\* Mutation: a failed Init is not answered.
AnswerFailedSilently(r) ==
  /\ pc[r] = "reject"
  /\ Goto(r, "reset")
  /\ UNCHANGED <<serverVars, queue, done, startEvent, startedOK, adapterVars, out>>

AnswerFailed(r) ==
  /\ pc[r] = "reject"
  /\ Publish(r, "fail")
  /\ Goto(r, "reset")
  /\ UNCHANGED <<serverVars, queue, done, startEvent, startedOK, adapterVars>>

-----------------------------------------------------------------------------
(* Session.handleStopRecording *)

\* Mutation: the session is unregistered before it is closed.
ResetAndUnregister(r) ==
  /\ pc[r] = "reset"
  /\ callbacks' = [callbacks EXCEPT ![r] = "noop"]
  /\ registry' = [registry EXCEPT ![IdOf[r]] = None]
  /\ Goto(r, "close")
  /\ UNCHANGED <<handler, shutdown, visited, mustVisit, queue, done, startEvent,
                 startedOK, media, flowStopped, lost, flight, out>>

ResetCallbacks(r) ==
  /\ pc[r] = "reset"
  /\ callbacks' = [callbacks EXCEPT ![r] = "noop"]
  /\ Goto(r, "close")
  /\ UNCHANGED <<serverVars, queue, done, startEvent, startedOK, media,
                 flowStopped, lost, flight, out>>

\* The adapter's Close begins; LiveKit's stops its flow events first.
BeginClose(r) ==
  /\ pc[r] = "close"
  /\ flowStopped' = [flowStopped EXCEPT ![r] = @ \/ r \in LiveKit]
  /\ Goto(r, "closing")
  /\ UNCHANGED <<serverVars, queue, done, startEvent, startedOK, callbacks,
                 media, lost, flight, out>>

\* Mutation: Close does not wait for the dispatcher.
FlowIgnored(r) == TRUE

\* Close returns with the recording final. Only LiveKit's waits for the event
\* its dispatcher is delivering.
FlowDrained(r) == r \in LiveKit => ~InFlight(r)

FinishClose(r) ==
  /\ pc[r] = "closing" /\ FlowDrained(r)
  /\ media' = [media EXCEPT ![r] = "closed"]
  /\ Goto(r, "publish")
  /\ UNCHANGED <<serverVars, queue, done, startEvent, startedOK, callbacks,
                 flowStopped, lost, flight, out>>

\* recordingStopped, for a recording the client was told had started.
PublishStopped(r) ==
  /\ pc[r] = "publish"
  /\ IF startedOK[r] THEN Publish(r, "stopped") ELSE UNCHANGED out
  /\ Goto(r, "unregister")
  /\ UNCHANGED <<serverVars, queue, done, startEvent, startedOK, adapterVars>>

\* Server.CloseSession
Unregister(r) ==
  /\ pc[r] = "unregister"
  /\ registry' = [registry EXCEPT ![IdOf[r]] = None]
  /\ Goto(r, "finish")
  /\ UNCHANGED <<handler, shutdown, visited, mustVisit, queue, done, startEvent,
                 startedOK, adapterVars, out>>

\* done is closed. A stop taken from the queue also returns from Run; a
\* failed start goes back to the loop, which done then ends.
FinishStop(r) ==
  /\ pc[r] = "finish"
  /\ done' = [done EXCEPT ![r] = TRUE]
  /\ Goto(r, IF startEvent[r] /\ ~startedOK[r] THEN "select" ELSE "gone")
  /\ UNCHANGED <<serverVars, queue, startEvent, startedOK, adapterVars, out>>

-----------------------------------------------------------------------------
(* What the adapters call back with *)

\* A flow goroutine reads the callback under the adapter's lock; it runs it
\* after the lock is released. LiveKit has one dispatcher, which also checks
\* that flow events are not stopped. A no-op callback ends here.
ReadFlow(r, t, event) ==
  /\ media[r] # "new" /\ callbacks[r] = "session" /\ flight[r][t] = "idle"
  /\ r \in LiveKit => t = Dispatcher /\ ~flowStopped[r]
  /\ flight' = [flight EXCEPT ![r][t] = event]
  /\ UNCHANGED <<serverVars, sessionVars, callbacks, media, flowStopped, lost, out>>

ReadFlowChange(r, t) == StatusCount(r) < MaxStatus /\ ReadFlow(r, t, "status")

\* LiveKit queues a closed event behind the flow changes once disconnected. A
\* mediasoup track's closed event does nothing in the session.
ReadFlowClosed(r, t) == r \in LiveKit /\ lost[r] /\ ReadFlow(r, t, "closed")

\* The session's flow callback runs.
RunFlow(r, t) ==
  /\ flight[r][t] # "idle"
  /\ flight' = [flight EXCEPT ![r][t] = "idle"]
  /\ IF flight[r][t] = "status"
       THEN Publish(r, "status") /\ UNCHANGED queue
       ELSE SendStop(r) /\ UNCHANGED out
  /\ UNCHANGED <<serverVars, pc, done, startEvent, startedOK, callbacks, media,
                 flowStopped, lost>>

\* A terminal connection state, or a LiveKit track reader that ends: each
\* report asks the session to stop.
ConnectionLost(r) ==
  /\ media[r] = "open" /\ callbacks[r] = "session"
  /\ lost' = [lost EXCEPT ![r] = TRUE]
  /\ SendStop(r)
  /\ UNCHANGED <<serverVars, pc, done, startEvent, startedOK, callbacks, media,
                 flowStopped, flight, out>>

-----------------------------------------------------------------------------
(* The shutdown handler: app.shutdown and Server.Close *)

\* Server.Close starts to range over the sessions. Closing the pubsub before it
\* does not end the receive loop, which uses a connection of its own.
BeginShutdown ==
  /\ shutdown = "running"
  /\ shutdown' = "ranging"
  /\ mustVisit' = {r \in Requests : registry[IdOf[r]] = r}
  /\ UNCHANGED <<registry, handler, visited, sessionVars, adapterVars, out>>

\* Mutation: shutdown passes over the sessions that have not started yet.
VisitStarted(i) ==
  /\ shutdown = "ranging" /\ registry[i] # None /\ i \notin visited
  /\ visited' = visited \cup {i}
  /\ IF startEvent[registry[i]] THEN SendStop(registry[i]) ELSE UNCHANGED queue
  /\ UNCHANGED <<registry, handler, shutdown, mustVisit, pc, done, startEvent,
                 startedOK, adapterVars, out>>

VisitSession(i) ==
  /\ shutdown = "ranging" /\ registry[i] # None /\ i \notin visited
  /\ visited' = visited \cup {i}
  /\ SendStop(registry[i])
  /\ UNCHANGED <<registry, handler, shutdown, mustVisit, pc, done, startEvent,
                 startedOK, adapterVars, out>>

\* Range passes every session registered throughout, and may or may not pass
\* one that is registered while it runs.
EndRange ==
  /\ shutdown = "ranging"
  /\ \A r \in mustVisit : registry[IdOf[r]] = r => IdOf[r] \in visited
  /\ shutdown' = "waiting"
  /\ UNCHANGED <<registry, handler, visited, mustVisit, sessionVars, adapterVars, out>>

\* shutdownWg.Wait returns
EndWait ==
  /\ shutdown = "waiting" /\ Running = {}
  /\ shutdown' = "waited"
  /\ UNCHANGED <<registry, handler, visited, mustVisit, sessionVars, adapterVars, out>>

\* os.Exit
Exit ==
  /\ shutdown = "waited"
  /\ shutdown' = "exited"
  /\ UNCHANGED <<registry, handler, visited, mustVisit, sessionVars, adapterVars, out>>

-----------------------------------------------------------------------------

ReceiveLoop ==
  \/ \E r \in Requests : RefuseDuplicate(r) \/ RefuseInvalid(r) \/ Register(r) \/ QueueStart(r)
  \/ \E i \in Ids : HandleStop(i)

Run(r) ==
  \/ TakeStart(r) \/ TakeStop(r) \/ LeaveLoop(r)
  \/ Connect(r) \/ ConnectFails(r) \/ InitSucceeds(r)
  \/ SubscribeFails(r) \/ FinishInitClose(r)
  \/ AnswerOK(r) \/ AnswerFailed(r)
  \/ ResetCallbacks(r) \/ BeginClose(r) \/ FinishClose(r)
  \/ PublishStopped(r) \/ Unregister(r) \/ FinishStop(r)

Adapter(r) ==
  \/ ConnectionLost(r)
  \/ \E t \in Threads : ReadFlowChange(r, t) \/ ReadFlowClosed(r, t) \/ RunFlow(r, t)

CloseServer == (\E i \in Ids : VisitSession(i)) \/ EndRange \/ EndWait \/ Exit

\* The process ends with os.Exit, wherever its goroutines are.
Alive == shutdown # "exited"

Next ==
  \/ Alive /\ ReceiveLoop
  \/ \E r \in Requests : Alive /\ (Run(r) \/ Adapter(r))
  \/ Alive /\ BeginShutdown
  \/ Alive /\ CloseServer
  \/ ~Alive /\ UNCHANGED vars

Spec == Init /\ [][Next]_vars

\* The Go scheduler runs every goroutine that can go on. What the adapters wait
\* for in Init and Close is bounded by their own timeouts, and publishing by the
\* Redis client's. Messages, flow changes, lost connections and the exit signal
\* need never come.
Fairness ==
  /\ \A r \in Requests :
       /\ WF_vars(Alive /\ QueueStart(r))
       /\ WF_vars(Alive /\ Run(r))
       /\ \A t \in Threads : WF_vars(Alive /\ RunFlow(r, t))
  /\ WF_vars(Alive /\ CloseServer)

FairSpec == Spec /\ Fairness

-----------------------------------------------------------------------------
(* Safety *)

\* A queue that refuses a stop already holds one: at most one of the commands
\* a session is ever sent is not a stop. So the "session command queue is full"
\* error, which every caller only logs (server.go:146, 163, 247; the callbacks
\* drop it), never leaves a recording running that was told to stop.
FullQueueHoldsStop ==
  \A r \in Requests : Len(queue[r]) = QueueCap => Has(queue[r], "stop")

\* A session whose Run still works on a recording can be found under its id, by
\* stopRecording and by Server.Close: no recording is orphaned, and
\* CloseSession, which deletes by id, never removes a successor's entry.
RunningIsRegistered ==
  \A r \in Requests :
    pc[r] \notin {"absent", "refused", "finish", "gone"} /\ ~done[r]
      => registry[IdOf[r]] = r

\* At most one session of an id has its connection and recorder open: the
\* earlier one's recorder is final before the id, and with it usually the file
\* name, can be used again.
OneOpenRecordingPerId ==
  \A q, r \in Requests :
    /\ IdOf[q] = IdOf[r]
    /\ q \in Running /\ r \in Running
    /\ media[q] # "closed" /\ media[r] # "closed"
    => q = r

\* getRecordings lists what Range finds with its start event set.
Listed == {r \in Requests : registry[IdOf[r]] = r /\ startEvent[r]}

\* From the "ok" response to recordingStopped, getRecordings lists a recording.
LiveIsListed ==
  \A r \in Requests :
    Has(out[r], "ok") /\ ~Has(out[r], "stopped") => r \in Listed

\* The published messages follow the protocol the client relies on: one answer
\* to a start, a single recordingStopped and only for an accepted recording, at
\* most one live recording per id, and silence after a LiveKit recording stops.
P == INSTANCE ClientProtocol WITH Requests <- Requests, IdOf <- IdOf, LiveKit <- LiveKit, out <- out
ImplementsProtocol == P!Protocol

-----------------------------------------------------------------------------
(* The inductive invariant the safety properties follow from *)

Starting == {"init", "initclose", "answer", "reject"}

OneStart(q) == \A j, k \in DOMAIN q : q[j] = "start" /\ q[k] = "start" => j = k

\* A session is sent one start command, and none once it has begun to start.
CommandInv ==
  \A r \in Requests :
    /\ OneStart(queue[r])
    /\ handler = r \/ pc[r] = "absent" \/ startEvent[r] => ~Has(queue[r], "start")
    /\ handler = r \/ pc[r] \in {"absent", "refused"} => ~startEvent[r]
    /\ handler = r => pc[r] \notin {"absent", "refused"}
    /\ pc[r] \in Starting => startEvent[r]

\* A session is registered until its recording is final and reported.
RegistryInv ==
  \A r \in Requests :
    /\ done[r] => pc[r] \in {"select", "gone"}
    /\ done[r] \/ pc[r] \in {"publish", "unregister", "finish", "gone"} => media[r] = "closed"
    /\ pc[r] \notin {"absent", "refused", "finish", "gone"} /\ ~done[r] => registry[IdOf[r]] = r

\* What has been published follows where the session is.
AnswerInv ==
  \A r \in Requests :
    /\ Has(out[r], "ok") <=> startedOK[r]
    /\ \/ pc[r] = "absent" \/ pc[r] \in Starting
       \/ handler = r \/ Has(queue[r], "start")
       => ~Has(out[r], "ok") /\ ~Has(out[r], "fail")
    /\ startedOK[r] => startEvent[r] /\ ~Has(out[r], "fail")
    /\ Has(out[r], "stopped") => startedOK[r] /\ pc[r] \in {"unregister", "finish", "gone"}
    /\ startedOK[r] /\ ~Has(out[r], "stopped")
       => pc[r] \in {"select", "reset", "close", "closing", "publish"} /\ ~done[r]

\* Which callbacks can still be under way.
FlowInv ==
  \A r \in Requests :
    /\ ~startEvent[r] => callbacks[r] # "session" /\ ~InFlight(r)
    /\ done[r] \/ pc[r] \in {"close", "closing", "publish", "unregister", "finish", "gone"}
       => callbacks[r] # "session"
    /\ media[r] = "new" => ~InFlight(r)
    /\ r \in LiveKit /\ media[r] = "closed" => flowStopped[r] /\ ~InFlight(r)
    /\ pc[r] = "initclose" => r \in LiveKit /\ flowStopped[r]
    /\ pc[r] = "closing" /\ r \in LiveKit => flowStopped[r]
    /\ pc[r] = "reject" => media[r] = "new" \/ (r \in LiveKit /\ media[r] = "closed")
    /\ Has(out[r], "fail") =>
         /\ ~InFlight(r)
         /\ \/ callbacks[r] # "session" \/ media[r] = "new"
            \/ r \in LiveKit /\ media[r] = "closed"

SessionInv == TypeOK /\ CommandInv /\ RegistryInv /\ AnswerInv /\ FlowInv

-----------------------------------------------------------------------------
(* Liveness, under Fairness *)

\* A session that was told to stop, whoever asked, or whose connection is lost
\* ends: no lost stop, no wait of Close for the callback that waits for the
\* session.
StopEndsSession ==
  \A r \in Requests : Has(queue[r], "stop") \/ lost[r] ~> done[r] \/ ~Alive

\* Unless the recorder is shutting down, a start that got a session is answered.
StartIsAnswered ==
  \A r \in Requests :
    handler = r ~> Has(out[r], "ok") \/ Has(out[r], "fail") \/ shutdown # "running"

\* The exit signal ends the process (with no startRecording after it).
ShutdownExits == shutdown = "ranging" ~> shutdown = "exited"

-----------------------------------------------------------------------------
(* What the repository says and the code does not keep *)

\* No callback reaches the client once a session has stopped: session.go:322
\* resets a mediasoup adapter's callbacks "to avoid any potential race
\* conditions or duplicated events".
SilentAfterStopped ==
  \A r \in Requests : \A k \in DOMAIN out[r] :
    out[r][k] = "stopped" => k = Len(out[r])

\* On SIGINT or SIGTERM the process exits having closed its recordings
\* (app.go:251-254, tests/e2e/README.md:47).
ExitClosesRecordings ==
  shutdown = "exited" => \A r \in Running : media[r] = "closed"
=============================================================================
