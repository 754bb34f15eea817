----------------------------- MODULE FlowEvents -----------------------------
(***************************************************************************)
(* How a LiveKit adapter tells its session that media flows or stopped      *)
(* flowing: updateFlowState, watchFlow, handleReadRTPError, queueFlowEvent, *)
(* dispatchFlowEvents and stopFlowEvents of internal/webrtc/livekit.        *)
(*                                                                          *)
(* Goroutines: per track, a reader and a watcher; the dispatcher, started   *)
(* when an event is queued and gone once the queue is empty; lksdk's        *)
(* disconnect callback; the session's Run, which opens and closes the       *)
(* adapter. Each action is one critical section of the adapter's mutex m,   *)
(* or what a goroutine does between two of them.                            *)
(***************************************************************************)
EXTENDS Naturals, Sequences, SequencesExt, FiniteSets

CONSTANTS
  Tracks,
  Dispatchers,   \* the dispatchers that can exist at once; bounds the model
  MaxPackets,    \* bound on the media packets of one track
  MaxTimeouts,   \* bound on the read timeouts of one track
  None

ASSUME BoundAssumption == MaxPackets \in Nat /\ MaxTimeouts \in Nat
ASSUME NoneAssumption == None \notin Nat /\ None \notin Dispatchers

VARIABLES
  packets,      \* media packets each reader has had; the last one's number
  timeouts,     \* read timeouts each reader has had
  lastSeq,      \* flowState[t].lastSeqNum; None: the track has no state yet
  flowing,      \* flowState[t].isFlowing
  reader,       \* "reading", "ended", or the number a read timeout will report
  watcher,      \* the watcher: the last number it saw, and the one to report
  callback,     \* flowCallback: the session's, or the no-op
  events,       \* flowEvents
  dispatching,  \* flowDispatching
  current,      \* flowDispatched: the dispatcher that closes it
  dispatcher,   \* what each dispatcher does, and the event it delivers
  stopped,      \* flowStopped
  closer,       \* the session's goroutine
  awaited,      \* the dispatcher that stopFlowEvents waits for, or None
  connected,    \* lksdk has not reported the disconnect yet
  changes,      \* history: the events queued, in order
  delivered     \* history: the events that reached the session, in order

trackVars == <<packets, timeouts, lastSeq, flowing, reader, watcher>>
queueVars == <<events, dispatching, current, dispatcher, changes>>
closeVars == <<callback, stopped, closer, awaited, connected>>
vars == <<trackVars, queueVars, closeVars, delivered>>

Events == {"flowing", "not flowing", "closed"}

Idle == [at |-> "idle", event |-> None]
Looping == [at |-> "loop", event |-> None]
Closing == [at |-> "closing", event |-> None]

TypeOK ==
  /\ packets \in [Tracks -> 0..MaxPackets]
  /\ timeouts \in [Tracks -> 0..MaxTimeouts]
  /\ lastSeq \in [Tracks -> Nat \cup {None}]
  /\ flowing \in [Tracks -> BOOLEAN]
  /\ reader \in [Tracks -> [at : {"reading", "timeout", "ended"}, seq : Nat]]
  /\ watcher \in [Tracks -> [at : {"waiting", "stale", "ended"}, seq : Nat]]
  /\ callback \in {"session", "noop"}
  /\ events \in Seq(Events)
  /\ dispatching \in BOOLEAN
  /\ current \in Dispatchers \cup {None}
  /\ dispatcher \in [Dispatchers ->
       {Idle, Looping, Closing} \cup [at : {"deliver"}, event : Events]
                                \cup [at : {"drop"}, event : Events]]
  /\ stopped \in BOOLEAN
  /\ closer \in {"open", "reset", "waiting", "returned"}
  /\ awaited \in Dispatchers \cup {None}
  /\ connected \in BOOLEAN
  /\ changes \in Seq(Events)
  /\ delivered \in Seq(Events)

Init ==
  /\ packets = [t \in Tracks |-> 0]
  /\ timeouts = [t \in Tracks |-> 0]
  /\ lastSeq = [t \in Tracks |-> None]
  /\ flowing = [t \in Tracks |-> FALSE]
  /\ reader = [t \in Tracks |-> [at |-> "reading", seq |-> 0]]
  /\ watcher = [t \in Tracks |-> [at |-> "waiting", seq |-> 0]]
  /\ callback = "session"
  /\ events = <<>>
  /\ dispatching = FALSE
  /\ current = None
  /\ dispatcher = [d \in Dispatchers |-> Idle]
  /\ stopped = FALSE
  /\ closer = "open"
  /\ awaited = None
  /\ connected = TRUE
  /\ changes = <<>>
  /\ delivered = <<>>

-----------------------------------------------------------------------------
(* Queueing: queueFlowEvent and updateFlowState *)

\* A dispatcher is started unless one runs.
StartDispatcher(d) ==
  IF dispatching
    THEN UNCHANGED <<dispatcher, dispatching, current>>
    ELSE /\ dispatcher[d] = Idle
         /\ dispatcher' = [dispatcher EXCEPT ![d] = Looping]
         /\ dispatching' = TRUE
         /\ current' = d

QueueEvent(e) ==
  IF stopped
    THEN UNCHANGED queueVars
    ELSE /\ events' = Append(events, e)
         /\ changes' = Append(changes, e)
         /\ \E d \in Dispatchers : StartDispatcher(d)

\* Mutation: a change to not flowing is queued each time it is reported.
UpdateFlowRepeats(t, seq) ==
  LET flows == lastSeq[t] # None /\ lastSeq[t] # seq IN
  /\ lastSeq' = [lastSeq EXCEPT ![t] = seq]
  /\ flowing' = [flowing EXCEPT ![t] = flows]
  /\ IF flows # flowing[t] \/ (lastSeq[t] # None /\ ~flows)
       THEN QueueEvent(IF flows THEN "flowing" ELSE "not flowing")
       ELSE UNCHANGED queueVars

\* updateFlowState: the first packet makes the track's state; after it, a track
\* flows if the number differs from the last, and a change is queued.
UpdateFlow(t, seq) ==
  LET flows == lastSeq[t] # None /\ lastSeq[t] # seq IN
  /\ lastSeq' = [lastSeq EXCEPT ![t] = seq]
  /\ flowing' = [flowing EXCEPT ![t] = flows]
  /\ IF flows # flowing[t]
       THEN QueueEvent(IF flows THEN "flowing" ELSE "not flowing")
       ELSE UNCHANGED queueVars

-----------------------------------------------------------------------------
(* A track's reader and watcher *)

\* A media packet, neither padding nor a duplicate.
ReadPacket(t) ==
  /\ reader[t].at = "reading" /\ packets[t] < MaxPackets
  /\ packets' = [packets EXCEPT ![t] = @ + 1]
  /\ UpdateFlow(t, packets'[t])
  /\ UNCHANGED <<timeouts, reader, watcher, closeVars, delivered>>

\* A read timeout of a flowing track: handleReadRTPError copies the state,
\* releases m, and only then reports that number again.
ReadTimeout(t) ==
  /\ reader[t].at = "reading" /\ timeouts[t] < MaxTimeouts
  /\ flowing[t]
  /\ timeouts' = [timeouts EXCEPT ![t] = @ + 1]
  /\ reader' = [reader EXCEPT ![t] = [at |-> "timeout", seq |-> lastSeq[t]]]
  /\ UNCHANGED <<packets, lastSeq, flowing, watcher, queueVars, closeVars, delivered>>

ReportTimeout(t) ==
  /\ reader[t].at = "timeout"
  /\ UpdateFlow(t, reader[t].seq)
  /\ reader' = [reader EXCEPT ![t] = [at |-> "reading", seq |-> 0]]
  /\ UNCHANGED <<packets, timeouts, watcher, closeVars, delivered>>

\* The track ends: readTrack returns and closes its watcher's done channel.
EndTrack(t) ==
  /\ reader[t].at = "reading"
  /\ reader' = [reader EXCEPT ![t].at = "ended"]
  /\ UNCHANGED <<packets, timeouts, lastSeq, flowing, watcher, queueVars, closeVars,
                 delivered>>

\* Mutation: the watcher never finds a number stale.
TickBlind(t) ==
  LET seq == IF lastSeq[t] = None THEN 0 ELSE lastSeq[t] IN
  /\ watcher[t].at = "waiting"
  /\ watcher' = [watcher EXCEPT ![t] = [at |-> "waiting", seq |-> seq]]
  /\ UNCHANGED <<packets, timeouts, lastSeq, flowing, reader, queueVars, closeVars,
                 delivered>>

\* A tick of watchFlow: reads the track's number; if it is the previous
\* tick's, it will be reported again, with m released in between.
Tick(t) ==
  LET seq == IF lastSeq[t] = None THEN 0 ELSE lastSeq[t]
      stale == lastSeq[t] # None /\ seq = watcher[t].seq
  IN
  /\ watcher[t].at = "waiting"
  /\ watcher' = [watcher EXCEPT ![t] =
                   [at |-> IF stale THEN "stale" ELSE "waiting", seq |-> seq]]
  /\ UNCHANGED <<packets, timeouts, lastSeq, flowing, reader, queueVars, closeVars,
                 delivered>>

ReportStale(t) ==
  /\ watcher[t].at = "stale"
  /\ UpdateFlow(t, watcher[t].seq)
  /\ watcher' = [watcher EXCEPT ![t].at = "waiting"]
  /\ UNCHANGED <<packets, timeouts, reader, closeVars, delivered>>

\* done is closed; a tick that is ready too may still be taken before it.
EndWatcher(t) ==
  /\ watcher[t].at = "waiting" /\ reader[t].at = "ended"
  /\ watcher' = [watcher EXCEPT ![t].at = "ended"]
  /\ UNCHANGED <<packets, timeouts, lastSeq, flowing, reader, queueVars, closeVars,
                 delivered>>

-----------------------------------------------------------------------------
(* The dispatcher: dispatchFlowEvents *)

\* Mutation: the newest event goes first.
TakeNewest(d) ==
  /\ dispatcher[d] = Looping /\ ~stopped /\ events # <<>>
  /\ dispatcher' = [dispatcher EXCEPT ![d] =
       [at |-> IF callback = "session" THEN "deliver" ELSE "drop", event |-> Last(events)]]
  /\ events' = Front(events)
  /\ UNCHANGED <<trackVars, dispatching, current, closeVars, changes, delivered>>

\* The next event and the callback are read together, under m.
TakeEvent(d) ==
  /\ dispatcher[d] = Looping /\ ~stopped /\ events # <<>>
  /\ dispatcher' = [dispatcher EXCEPT ![d] =
       [at |-> IF callback = "session" THEN "deliver" ELSE "drop", event |-> Head(events)]]
  /\ events' = Tail(events)
  /\ UNCHANGED <<trackVars, dispatching, current, closeVars, changes, delivered>>

\* With m released the callback runs: the session's publishes, or asks the
\* session to stop, and never waits for the session.
Deliver(d) ==
  /\ dispatcher[d].at \in {"deliver", "drop"}
  /\ dispatcher' = [dispatcher EXCEPT ![d] = Looping]
  /\ delivered' = IF dispatcher[d].at = "deliver"
                    THEN Append(delivered, dispatcher[d].event) ELSE delivered
  /\ UNCHANGED <<trackVars, events, dispatching, current, closeVars, changes>>

\* Mutation: the dispatcher returns without saying so.
ReturnDispatching(d) ==
  /\ dispatcher[d] = Looping /\ (stopped \/ events = <<>>)
  /\ dispatcher' = [dispatcher EXCEPT ![d] = Closing]
  /\ UNCHANGED <<trackVars, events, dispatching, current, closeVars, changes, delivered>>

\* Nothing left to deliver; flowDispatched is closed only after m is released.
StopDispatching(d) ==
  /\ dispatcher[d] = Looping /\ (stopped \/ events = <<>>)
  /\ dispatching' = FALSE
  /\ dispatcher' = [dispatcher EXCEPT ![d] = Closing]
  /\ UNCHANGED <<trackVars, events, current, closeVars, changes, delivered>>

\* Mutation: a dispatcher that finds the events stopped leaves it open.
CloseDispatchedUnlessStopped(d) ==
  /\ dispatcher[d] = Closing /\ ~stopped
  /\ dispatcher' = [dispatcher EXCEPT ![d] = Idle]
  /\ UNCHANGED <<trackVars, events, dispatching, current, closeVars, changes, delivered>>

CloseDispatched(d) ==
  /\ dispatcher[d] = Closing
  /\ dispatcher' = [dispatcher EXCEPT ![d] = Idle]
  /\ UNCHANGED <<trackVars, events, dispatching, current, closeVars, changes, delivered>>

-----------------------------------------------------------------------------
(* The room and the session *)

\* A terminal disconnect queues its closed event behind the flow changes.
Disconnect ==
  /\ connected
  /\ connected' = FALSE
  /\ QueueEvent("closed")
  /\ UNCHANGED <<trackVars, callback, stopped, closer, awaited, delivered>>

\* handleStopRecording installs the no-op, then closes the adapter. An Init
\* that could not subscribe closes it with the session's callback in place.
ResetCallback ==
  /\ closer = "open"
  /\ closer' = "reset"
  /\ callback' = "noop"
  /\ UNCHANGED <<trackVars, queueVars, stopped, awaited, connected, delivered>>

StopFlowEvents ==
  /\ closer \in {"open", "reset"}
  /\ stopped' = TRUE
  /\ events' = <<>>
  /\ awaited' = IF dispatching THEN current ELSE None
  /\ closer' = "waiting"
  /\ UNCHANGED <<trackVars, dispatching, current, dispatcher, changes, callback,
                 connected, delivered>>

\* Mutation: stopFlowEvents does not wait.
NothingAwaited == TRUE

\* The channel of the dispatcher that ran when flow events were stopped is
\* closed. None starts after that, so its place is not taken.
AwaitedReturned == awaited # None => dispatcher[awaited] = Idle

FlowEventsStopped ==
  /\ closer = "waiting" /\ AwaitedReturned
  /\ closer' = "returned"
  /\ UNCHANGED <<trackVars, queueVars, callback, stopped, awaited, connected, delivered>>

-----------------------------------------------------------------------------

Track(t) ==
  \/ ReadPacket(t) \/ ReadTimeout(t) \/ ReportTimeout(t) \/ EndTrack(t)
  \/ Tick(t) \/ ReportStale(t) \/ EndWatcher(t)

Dispatch(d) == TakeEvent(d) \/ Deliver(d) \/ StopDispatching(d) \/ CloseDispatched(d)

Next ==
  \/ \E t \in Tracks : Track(t)
  \/ \E d \in Dispatchers : Dispatch(d)
  \/ Disconnect \/ ResetCallback \/ StopFlowEvents \/ FlowEventsStopped

Spec == Init /\ [][Next]_vars

\* Goroutines go on running and tickers ticking. Packets, read timeouts, the
\* end of a track and of the session need not come; a session that has reset
\* the callback closes the adapter.
Fairness ==
  /\ \A t \in Tracks : WF_vars(ReportTimeout(t)) /\ WF_vars(Tick(t)) /\ WF_vars(ReportStale(t))
  /\ \A d \in Dispatchers : WF_vars(Dispatch(d))
  /\ WF_vars(closer = "reset" /\ StopFlowEvents)
  /\ WF_vars(FlowEventsStopped)

FairSpec == Spec /\ Fairness

-----------------------------------------------------------------------------
(* Safety *)

\* What is being delivered to the session.
UnderWay ==
  IF \E d \in Dispatchers : dispatcher[d].at = "deliver"
    THEN <<dispatcher[CHOOSE d \in Dispatchers : dispatcher[d].at = "deliver"].event>>
    ELSE <<>>

\* The session gets the flow changes one at a time (livekit.go:804), in the
\* order they happened, and until it stops it gets every one of them, once.
InOrder ==
  /\ Cardinality({d \in Dispatchers : dispatcher[d].at \in {"loop", "deliver", "drop"}}) <= 1
  /\ IsPrefix(delivered \o UnderWay, changes)
  /\ closer = "open" => changes = delivered \o UnderWay \o events

Count(e) == Cardinality({k \in DOMAIN changes : changes[k] = e})

\* Until the adapter closes, the changes queued account for the tracks that
\* flow: every start and every end of flow is queued, and none twice, though
\* readers and watchers report numbers that are no longer the last.
ChangesBalance ==
  ~stopped =>
    Count("flowing") = Count("not flowing") + Cardinality({t \in Tracks : flowing[t]})

\* Once stopFlowEvents has returned no event reaches the session
\* (livekit.go:830-832).
SilentOnceStopped == [][closer = "returned" => UNCHANGED delivered]_vars

-----------------------------------------------------------------------------
(* Liveness, under Fairness *)

\* As long as the session runs, what is queued reaches it: no event waits for
\* a dispatcher nobody starts.
ChangesArrive == []<>(delivered = changes \/ closer # "open")

\* A track whose packets cease is noticed, although a late report can set the
\* last number back and make the track look flowing once more.
SilenceIsNoticed ==
  \A t \in Tracks : flowing[t] ~> ~flowing[t] \/ reader[t].at = "ended"

\* Closing the adapter does not hang on the dispatcher it waits for.
CloseReturns == closer = "waiting" ~> closer = "returned"
=============================================================================
