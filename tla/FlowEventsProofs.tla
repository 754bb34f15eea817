-------------------------- MODULE FlowEventsProofs --------------------------
(***************************************************************************)
(* What is proved of the LiveKit adapter's flow events: the type invariant, *)
(* that the session gets the events in order, that the changes queued       *)
(* account for the tracks that flow, and that nothing is delivered once     *)
(* stopFlowEvents has returned; for any tracks, any dispatchers and any     *)
(* number of packets and read timeouts.                                     *)
(***************************************************************************)
EXTENDS FlowEvents, SequenceTheorems, FiniteSetTheorems, TLAPS

-----------------------------------------------------------------------------
(* The inductive invariant *)

\* Only a track that has had a packet flows.
FlowHasNumber == \A t \in Tracks : flowing[t] => lastSeq[t] # None

Busy == {d \in Dispatchers : dispatcher[d].at \in {"loop", "deliver", "drop"}}

\* A dispatcher that is at work is the one that flowDispatching and
\* flowDispatched tell of.
OneDispatcher == \A d \in Busy : dispatching /\ d = current

\* How far the session's goroutine is, and what it has set by then. Once it
\* waits, only the dispatcher it waits for is at work, and after it none.
CloseStages ==
  /\ closer = "open" => callback = "session" /\ ~stopped
  /\ closer = "reset" => callback = "noop" /\ ~stopped
  /\ closer \in {"waiting", "returned"} => stopped /\ \A d \in Busy : d = awaited
  /\ closer = "returned" => Busy = {}

\* What the session has, and has under way, is what happened first; as long as
\* it has not begun to close, the rest is queued.
Reached == delivered \o UnderWay
ReachedFirst == \E rest \in Seq(Events) : changes = Reached \o rest
RestIsQueued == closer = "open" => changes = Reached \o events

FlowingTracks == {t \in Tracks : flowing[t]}
FinitelyManyFlow == IsFiniteSet(FlowingTracks)

Inv ==
  /\ TypeOK /\ FlowHasNumber /\ OneDispatcher /\ CloseStages
  /\ ReachedFirst /\ RestIsQueued /\ FinitelyManyFlow /\ ChangesBalance

-----------------------------------------------------------------------------
(* What is under way *)

WayOf(disp) ==
  IF \E d \in Dispatchers : disp[d].at = "deliver"
    THEN <<disp[CHOOSE d \in Dispatchers : disp[d].at = "deliver"].event>>
    ELSE <<>>

LEMMA WayOne ==
  ASSUME NEW disp, NEW d \in Dispatchers, disp[d].at = "deliver",
         \A e \in Dispatchers : disp[e].at = "deliver" => e = d
  PROVE  WayOf(disp) = <<disp[d].event>>
BY DEF WayOf

LEMMA WayNone ==
  ASSUME NEW disp, \A e \in Dispatchers : disp[e].at # "deliver"
  PROVE  WayOf(disp) = <<>>
BY DEF WayOf

\* With one dispatcher at work, what is under way is its event.
LEMMA UnderWayIs ==
  ASSUME TypeOK, OneDispatcher
  PROVE  /\ \A d \in Dispatchers : dispatcher[d].at = "deliver" => UnderWay = <<dispatcher[d].event>>
         /\ \A d \in Busy : dispatcher[d].at # "deliver" => UnderWay = <<>>
         /\ Busy = {} => UnderWay = <<>>
         /\ UnderWay \in Seq(Events)
<1>1. UnderWay = WayOf(dispatcher)
  BY DEF UnderWay, WayOf
<1>2. \A d \in Dispatchers : dispatcher[d].at = "deliver" => dispatcher[d].event \in Events
  <2> SUFFICES ASSUME NEW d \in Dispatchers, dispatcher[d].at = "deliver"
               PROVE  dispatcher[d].event \in Events
    OBVIOUS
  <2>1. dispatcher[d] \in {Idle, Looping, Closing} \cup [at : {"deliver"}, event : Events]
                                                  \cup [at : {"drop"}, event : Events]
    BY DEF TypeOK
  <2>2. dispatcher[d] \notin {Idle, Looping, Closing}
    BY DEF Idle, Looping, Closing
  <2> QED BY <2>1, <2>2
<1>3. \A d, e \in Busy : d = e
  BY DEF OneDispatcher
<1>4. \A d \in Dispatchers : dispatcher[d].at = "deliver" => UnderWay = <<dispatcher[d].event>>
  BY <1>1, <1>3, WayOne DEF Busy
<1>5. \A d \in Busy : dispatcher[d].at # "deliver" => UnderWay = <<>>
  BY <1>1, <1>3, WayNone DEF Busy
<1>6. Busy = {} => UnderWay = <<>>
  BY <1>1, WayNone DEF Busy
<1>7. UnderWay \in Seq(Events)
  <2>1. CASE \E d \in Dispatchers : dispatcher[d].at = "deliver"
    <3>1. PICK d \in Dispatchers : dispatcher[d].at = "deliver"
      BY <2>1
    <3>2. PICK e \in Events : UnderWay = <<e>>
      BY <3>1, <1>2, <1>4
    <3> QED BY <3>2
  <2>2. CASE \A d \in Dispatchers : dispatcher[d].at # "deliver"
    <3>1. UnderWay = <<>>
      BY <2>2, <1>1, WayNone
    <3> QED BY <3>1, EmptySeq
  <2> QED BY <2>1, <2>2
<1> QED
  BY <1>4, <1>5, <1>6, <1>7

-----------------------------------------------------------------------------
(* Types *)

DispatcherStates ==
  {Idle, Looping, Closing} \cup [at : {"deliver"}, event : Events]
                           \cup [at : {"drop"}, event : Events]

QueueTypes ==
  /\ events \in Seq(Events) /\ changes \in Seq(Events)
  /\ dispatching \in BOOLEAN
  /\ current \in Dispatchers \cup {None}
  /\ dispatcher \in [Dispatchers -> DispatcherStates]

LEMMA QueueEventType ==
  ASSUME QueueTypes, NEW e \in Events, QueueEvent(e)
  PROVE  QueueTypes'
<1>1. CASE stopped
  BY <1>1 DEF QueueEvent, QueueTypes, queueVars
<1>2. CASE ~stopped
  <2>1. events' \in Seq(Events) /\ changes' \in Seq(Events)
    <3>1. events \in Seq(Events) /\ changes \in Seq(Events)
      BY DEF QueueTypes
    <3>2. events' = Append(events, e) /\ changes' = Append(changes, e)
      BY <1>2 DEF QueueEvent
    <3> QED BY <3>1, <3>2
  <2>2. PICK d \in Dispatchers : StartDispatcher(d)
    BY <1>2 DEF QueueEvent
  <2>3. Looping \in DispatcherStates
    BY DEF DispatcherStates
  <2>4. /\ dispatching' \in BOOLEAN /\ current' \in Dispatchers \cup {None}
        /\ dispatcher' \in [Dispatchers -> DispatcherStates]
    BY <2>2, <2>3 DEF StartDispatcher, QueueTypes
  <2> QED BY <2>1, <2>4 DEF QueueTypes
<1> QED BY <1>1, <1>2

\* updateFlowState keeps the track's state typed.
LEMMA UpdateFlowType ==
  ASSUME TypeOK, NEW t \in Tracks, NEW seq \in Nat, UpdateFlow(t, seq)
  PROVE  /\ lastSeq' \in [Tracks -> Nat \cup {None}]
         /\ flowing' \in [Tracks -> BOOLEAN]
         /\ QueueTypes'
         /\ FlowHasNumber => FlowHasNumber'
<1> DEFINE flows == lastSeq[t] # None /\ lastSeq[t] # seq
<1>1. lastSeq' = [lastSeq EXCEPT ![t] = seq] /\ flowing' = [flowing EXCEPT ![t] = flows]
  BY DEF UpdateFlow
<1>2. QueueTypes
  BY DEF TypeOK, QueueTypes, DispatcherStates
<1>3. UNCHANGED queueVars \/ \E e \in Events : QueueEvent(e)
  <2>1. CASE flows = flowing[t]
    BY <2>1 DEF UpdateFlow
  <2>2. CASE flows # flowing[t]
    <3>1. QueueEvent("flowing") \/ QueueEvent("not flowing")
      BY <2>2 DEF UpdateFlow
    <3> QED BY <3>1 DEF Events
  <2> QED BY <2>1, <2>2
<1>4. QueueTypes'
  <2>1. CASE UNCHANGED queueVars
    BY <2>1, <1>2 DEF queueVars, QueueTypes
  <2> QED BY <1>2, <1>3, <2>1, QueueEventType
<1>5. lastSeq' \in [Tracks -> Nat \cup {None}] /\ flowing' \in [Tracks -> BOOLEAN]
  BY <1>1 DEF TypeOK
<1>6. FlowHasNumber => FlowHasNumber'
  BY <1>1, NoneAssumption DEF TypeOK, FlowHasNumber
<1> QED BY <1>4, <1>5, <1>6

ReaderStates == [at : {"reading", "timeout", "ended"}, seq : Nat]
WatcherStates == [at : {"waiting", "stale", "ended"}, seq : Nat]

\* A reader or a watcher may go to any of its places, with any number.
LEMMA StatesGoOn ==
  ASSUME TypeOK, NEW t \in Tracks
  PROVE  /\ \A x \in ReaderStates : [reader EXCEPT ![t] = x] \in [Tracks -> ReaderStates]
         /\ \A x \in WatcherStates : [watcher EXCEPT ![t] = x] \in [Tracks -> WatcherStates]
         /\ [reader[t] EXCEPT !.at = "ended"] \in ReaderStates
         /\ \A p \in {"waiting", "ended"} : [watcher[t] EXCEPT !.at = p] \in WatcherStates
         /\ reader \in [Tracks -> ReaderStates] /\ watcher \in [Tracks -> WatcherStates]
<1>1. reader \in [Tracks -> ReaderStates] /\ watcher \in [Tracks -> WatcherStates]
  BY DEF TypeOK, ReaderStates, WatcherStates
<1>2. reader[t] \in ReaderStates /\ watcher[t] \in WatcherStates
  BY <1>1
<1>3. [reader[t] EXCEPT !.at = "ended"] \in ReaderStates
  BY <1>2 DEF ReaderStates
<1>4. \A p \in {"waiting", "ended"} : [watcher[t] EXCEPT !.at = p] \in WatcherStates
  BY <1>2 DEF WatcherStates
<1> QED BY <1>1, <1>3, <1>4

\* The steps in which a reader or a watcher reports a number, and what else
\* these change.
Reports(t, seq) ==
  /\ UpdateFlow(t, seq)
  /\ packets' \in [Tracks -> 0..MaxPackets]
  /\ reader' \in [Tracks -> ReaderStates]
  /\ watcher' \in [Tracks -> WatcherStates]
  /\ UNCHANGED <<timeouts, closeVars, delivered>>

Watches ==
  /\ timeouts' \in [Tracks -> 0..MaxTimeouts]
  /\ reader' \in [Tracks -> ReaderStates]
  /\ watcher' \in [Tracks -> WatcherStates]
  /\ UNCHANGED <<packets, lastSeq, flowing, queueVars, closeVars, delivered>>

\* Every step of a track is one or the other: readTrack and watchFlow touch the
\* queue only through updateFlowState, and never the close.
LEMMA TrackSteps ==
  ASSUME TypeOK, FlowHasNumber, NEW t \in Tracks, Track(t)
  PROVE  Watches \/ \E seq \in Nat : Reports(t, seq)
<1> USE BoundAssumption
<1>1. CASE ReadPacket(t)
  <2>1. packets' \in [Tracks -> 0..MaxPackets] /\ packets'[t] \in Nat
    BY <1>1 DEF ReadPacket, TypeOK
  <2>2. PICK seq \in Nat : seq = packets'[t]
    BY <2>1
  <2>3. UpdateFlow(t, seq)
    BY <1>1, <2>2 DEF ReadPacket, UpdateFlow
  <2> QED BY <1>1, <2>1, <2>3, StatesGoOn DEF ReadPacket, Reports, TypeOK
<1>2. CASE ReportTimeout(t)
  <2>1. reader[t].seq \in Nat
    BY DEF TypeOK
  <2>2. UpdateFlow(t, reader[t].seq)
    BY <1>2 DEF ReportTimeout
  <2>3. reader' \in [Tracks -> ReaderStates]
    <3>1. [at |-> "reading", seq |-> 0] \in ReaderStates
      BY DEF ReaderStates
    <3> QED BY <1>2, <3>1, StatesGoOn DEF ReportTimeout
  <2> QED BY <1>2, <2>1, <2>2, <2>3, StatesGoOn DEF ReportTimeout, Reports, TypeOK
<1>3. CASE ReportStale(t)
  <2>1. watcher[t].seq \in Nat
    BY DEF TypeOK
  <2>2. UpdateFlow(t, watcher[t].seq)
    BY <1>3 DEF ReportStale
  <2>3. watcher' \in [Tracks -> WatcherStates]
    BY <1>3, StatesGoOn DEF ReportStale
  <2> QED BY <1>3, <2>1, <2>2, <2>3, StatesGoOn DEF ReportStale, Reports, TypeOK
<1>4. CASE ReadTimeout(t)
  <2>1. lastSeq[t] \in Nat
    BY <1>4 DEF ReadTimeout, TypeOK, FlowHasNumber
  <2>2. reader' \in [Tracks -> ReaderStates]
    <3>1. [at |-> "timeout", seq |-> lastSeq[t]] \in ReaderStates
      BY <2>1 DEF ReaderStates
    <3> QED BY <1>4, <3>1, StatesGoOn DEF ReadTimeout
  <2>3. timeouts' \in [Tracks -> 0..MaxTimeouts]
    BY <1>4 DEF ReadTimeout, TypeOK
  <2> QED BY <1>4, <2>2, <2>3, StatesGoOn DEF ReadTimeout, Watches, TypeOK
<1>5. CASE EndTrack(t)
  <2>1. reader' \in [Tracks -> ReaderStates]
    BY <1>5, StatesGoOn DEF EndTrack
  <2> QED BY <1>5, <2>1, StatesGoOn DEF EndTrack, Watches, TypeOK
<1>6. CASE Tick(t)
  <2>1. watcher' \in [Tracks -> WatcherStates]
    <3> DEFINE seq == IF lastSeq[t] = None THEN 0 ELSE lastSeq[t]
               stale == lastSeq[t] # None /\ seq = watcher[t].seq
               x == [at |-> IF stale THEN "stale" ELSE "waiting", seq |-> seq]
    <3>1. seq \in Nat
      BY DEF TypeOK
    <3>2. x \in WatcherStates
      BY <3>1 DEF WatcherStates
    <3>3. watcher' = [watcher EXCEPT ![t] = x]
      BY <1>6 DEF Tick
    <3> HIDE DEF x
    <3> QED BY <3>2, <3>3, StatesGoOn
  <2> QED BY <1>6, <2>1, StatesGoOn DEF Tick, Watches, TypeOK
<1>7. CASE EndWatcher(t)
  <2>1. watcher' \in [Tracks -> WatcherStates]
    BY <1>7, StatesGoOn DEF EndWatcher
  <2> QED BY <1>7, <2>1, StatesGoOn DEF EndWatcher, Watches, TypeOK
<1> QED
  BY <1>1, <1>2, <1>3, <1>4, <1>5, <1>6, <1>7 DEF Track

LEMMA TypeStep ==
  ASSUME TypeOK, FlowHasNumber, Next
  PROVE  TypeOK' /\ FlowHasNumber'
<1>0. QueueTypes
  BY DEF TypeOK, QueueTypes, DispatcherStates
<1>1. ASSUME NEW t \in Tracks, Track(t)
      PROVE  TypeOK' /\ FlowHasNumber'
  <2>1. CASE Watches
    BY <2>1
    DEF Watches, TypeOK, FlowHasNumber, ReaderStates, WatcherStates, queueVars, closeVars
  <2>2. ASSUME NEW seq \in Nat, Reports(t, seq)
        PROVE  TypeOK' /\ FlowHasNumber'
    <3>1. /\ lastSeq' \in [Tracks -> Nat \cup {None}]
          /\ flowing' \in [Tracks -> BOOLEAN]
          /\ QueueTypes'
          /\ FlowHasNumber'
      BY <2>2, UpdateFlowType DEF Reports
    <3>2. UNCHANGED <<timeouts, closeVars, delivered>>
          /\ packets' \in [Tracks -> 0..MaxPackets]
          /\ reader' \in [Tracks -> ReaderStates]
          /\ watcher' \in [Tracks -> WatcherStates]
      BY <2>2 DEF Reports
    <3> QED
      BY <3>1, <3>2
      DEF TypeOK, QueueTypes, DispatcherStates, ReaderStates, WatcherStates, closeVars
  <2> QED BY <1>1, <2>1, <2>2, TrackSteps
<1>2. ASSUME Disconnect
      PROVE  TypeOK' /\ FlowHasNumber'
  <2>1. QueueTypes'
    BY <1>0, <1>2, QueueEventType DEF Disconnect, Events
  <2> QED
    BY <1>2, <2>1 DEF Disconnect, TypeOK, FlowHasNumber, QueueTypes, DispatcherStates, trackVars
<1>3. ASSUME NEW d \in Dispatchers, Dispatch(d)
      PROVE  TypeOK' /\ FlowHasNumber'
  <2>1. events' \in Seq(Events) /\ dispatcher' \in [Dispatchers -> DispatcherStates]
    <3>1. CASE TakeEvent(d)
      <4>1. Head(events) \in Events /\ Tail(events) \in Seq(Events)
        BY <1>0, <3>1, HeadTailProperties DEF TakeEvent, QueueTypes
      <4>2. [at |-> IF callback = "session" THEN "deliver" ELSE "drop", event |-> Head(events)]
              \in DispatcherStates
        BY <4>1 DEF DispatcherStates
      <4> QED BY <1>0, <3>1, <4>1, <4>2 DEF TakeEvent, QueueTypes
    <3>2. CASE Deliver(d) \/ StopDispatching(d) \/ CloseDispatched(d)
      <4>1. Idle \in DispatcherStates /\ Looping \in DispatcherStates /\ Closing \in DispatcherStates
        BY DEF DispatcherStates
      <4> QED
        BY <1>0, <3>2, <4>1 DEF Deliver, StopDispatching, CloseDispatched, QueueTypes
    <3> QED BY <1>3, <3>1, <3>2 DEF Dispatch
  <2>2. delivered' \in Seq(Events)
    <3>1. CASE Deliver(d) /\ dispatcher[d].at = "deliver"
      <4>1. dispatcher[d].event \in Events
        <5>1. dispatcher[d] \in DispatcherStates
          BY <1>0 DEF QueueTypes
        <5>2. dispatcher[d] \notin {Idle, Looping, Closing}
          BY <3>1 DEF Idle, Looping, Closing
        <5> QED BY <5>1, <5>2 DEF DispatcherStates
      <4>2. delivered' = Append(delivered, dispatcher[d].event) /\ delivered \in Seq(Events)
        BY <3>1 DEF Deliver, TypeOK
      <4> QED BY <4>1, <4>2
    <3>2. CASE ~(Deliver(d) /\ dispatcher[d].at = "deliver")
      BY <1>3, <3>2 DEF Dispatch, Deliver, TakeEvent, StopDispatching, CloseDispatched, TypeOK
    <3> QED BY <3>1, <3>2
  <2>3. /\ UNCHANGED <<trackVars, closeVars, changes, current>>
        /\ dispatching' \in BOOLEAN
    BY <1>0, <1>3
    DEF Dispatch, Deliver, TakeEvent, StopDispatching, CloseDispatched, QueueTypes
  <2> QED
    BY <2>1, <2>2, <2>3 DEF TypeOK, FlowHasNumber, DispatcherStates, trackVars, closeVars
<1>4. ASSUME ResetCallback \/ FlowEventsStopped
      PROVE  TypeOK' /\ FlowHasNumber'
  BY <1>4 DEF ResetCallback, FlowEventsStopped, TypeOK, FlowHasNumber, trackVars, queueVars
<1>5. ASSUME StopFlowEvents
      PROVE  TypeOK' /\ FlowHasNumber'
  <2>1. events' \in Seq(Events)
    BY <1>5, EmptySeq DEF StopFlowEvents
  <2> QED
    BY <1>5, <2>1 DEF StopFlowEvents, TypeOK, FlowHasNumber, trackVars
<1> QED
  BY <1>1, <1>2, <1>3, <1>4, <1>5 DEF Next

-----------------------------------------------------------------------------
(* The dispatcher at work, and the close *)

\* queueFlowEvent starts a dispatcher only if none is at work, and does nothing
\* once flow events are stopped; what is under way stays so.
LEMMA QueueEventStarts ==
  ASSUME QueueTypes, OneDispatcher, NEW e \in Events, QueueEvent(e)
  PROVE  /\ OneDispatcher'
         /\ UnderWay' = UnderWay
         /\ IF stopped THEN UNCHANGED queueVars
            ELSE events' = Append(events, e) /\ changes' = Append(changes, e)
<1>1. CASE stopped \/ dispatching
  <2>1. UNCHANGED <<dispatcher, dispatching, current>>
    BY <1>1 DEF QueueEvent, StartDispatcher, queueVars
  <2> QED
    BY <2>1 DEF QueueEvent, OneDispatcher, Busy, UnderWay
<1>2. CASE ~stopped /\ ~dispatching
  <2>1. PICK d \in Dispatchers : StartDispatcher(d)
    BY <1>2 DEF QueueEvent
  <2>2. Busy = {}
    BY <1>2 DEF OneDispatcher
  <2>3. dispatching' /\ current' = d
        /\ \A c \in Dispatchers : dispatcher'[c] = IF c = d THEN Looping ELSE dispatcher[c]
    BY <1>2, <2>1 DEF StartDispatcher, QueueTypes
  <2>4. Busy' = {d}
    BY <2>2, <2>3 DEF Busy, Looping
  <2>5. OneDispatcher'
    BY <2>3, <2>4 DEF OneDispatcher
  <2>6. WayOf(dispatcher) = <<>> /\ WayOf(dispatcher') = <<>>
    BY <2>2, <2>3, WayNone DEF Busy, Looping
  <2> QED
    BY <1>2, <2>5, <2>6 DEF QueueEvent, UnderWay, WayOf
<1> QED BY <1>1, <1>2

\* A step of a track or a disconnect queues an event or leaves the queue alone,
\* and never touches the close or what was delivered.
Queues ==
  /\ UNCHANGED queueVars \/ \E e \in Events : QueueEvent(e)
  /\ UNCHANGED <<callback, stopped, closer, awaited, delivered>>

LEMMA QueueSteps ==
  ASSUME TypeOK, FlowHasNumber
  PROVE  /\ Disconnect => Queues
         /\ \A t \in Tracks : Track(t) => Queues
<1>1. Disconnect => Queues
  BY DEF Disconnect, Queues, Events
<1>2. ASSUME NEW t \in Tracks, NEW seq \in Nat, Reports(t, seq)
      PROVE  Queues
  <2>1. UNCHANGED queueVars \/ QueueEvent("flowing") \/ QueueEvent("not flowing")
    BY <1>2 DEF Reports, UpdateFlow
  <2> QED
    BY <1>2, <2>1 DEF Reports, Queues, Events, closeVars
<1>3. Watches => Queues
  BY DEF Watches, Queues, closeVars
<1> QED BY <1>1, <1>2, <1>3, TrackSteps

LEMMA OneDispatcherStep ==
  ASSUME TypeOK, FlowHasNumber, OneDispatcher, Next
  PROVE  OneDispatcher'
<1>1. ASSUME Queues
      PROVE  OneDispatcher'
  <2>1. QueueTypes
    BY DEF TypeOK, QueueTypes, DispatcherStates
  <2>2. CASE UNCHANGED queueVars
    BY <2>2 DEF queueVars, OneDispatcher, Busy
  <2> QED BY <1>1, <2>1, <2>2, QueueEventStarts DEF Queues
<1>2. ASSUME NEW d \in Dispatchers, TakeEvent(d) \/ Deliver(d)
      PROVE  OneDispatcher'
  <2>1. d \in Busy
    BY <1>2 DEF TakeEvent, Deliver, Busy, Looping
  <2>2. UNCHANGED <<dispatching, current>>
        /\ \A c \in Dispatchers : c # d => dispatcher'[c] = dispatcher[c]
    BY <1>2 DEF TakeEvent, Deliver, TypeOK
  <2>3. Busy' \subseteq Busy
    BY <2>1, <2>2 DEF Busy
  <2> QED BY <2>2, <2>3 DEF OneDispatcher
<1>3. ASSUME NEW d \in Dispatchers, StopDispatching(d)
      PROVE  OneDispatcher'
  <2>1. Busy \subseteq {d}
    BY <1>3 DEF StopDispatching, OneDispatcher, Busy, Looping
  <2>2. \A c \in Dispatchers : dispatcher'[c] = IF c = d THEN Closing ELSE dispatcher[c]
    BY <1>3 DEF StopDispatching, TypeOK
  <2>3. Busy' = {}
    BY <2>1, <2>2 DEF Busy, Closing
  <2> QED BY <2>3 DEF OneDispatcher
<1>4. ASSUME NEW d \in Dispatchers, CloseDispatched(d)
      PROVE  OneDispatcher'
  <2>1. \A c \in Dispatchers : dispatcher'[c] = IF c = d THEN Idle ELSE dispatcher[c]
    BY <1>4 DEF CloseDispatched, TypeOK
  <2>2. Busy' \subseteq Busy
    BY <2>1 DEF Busy, Idle
  <2> QED BY <1>4, <2>2 DEF CloseDispatched, OneDispatcher
<1>5. ASSUME ResetCallback \/ StopFlowEvents \/ FlowEventsStopped
      PROVE  OneDispatcher'
  BY <1>5 DEF ResetCallback, StopFlowEvents, FlowEventsStopped, queueVars, OneDispatcher, Busy
<1> QED
  BY <1>1, <1>2, <1>3, <1>4, <1>5, QueueSteps DEF Next, Dispatch

LEMMA CloseStagesStep ==
  ASSUME TypeOK, FlowHasNumber, OneDispatcher, CloseStages, Next
  PROVE  CloseStages'
<1>1. ASSUME Queues
      PROVE  CloseStages'
  <2>1. UNCHANGED <<callback, stopped, closer, awaited>>
    BY <1>1 DEF Queues
  <2>2. stopped => UNCHANGED dispatcher
    BY <1>1 DEF Queues, QueueEvent, queueVars
  <2> QED
    BY <2>1, <2>2 DEF CloseStages, Busy
<1>2. ASSUME NEW d \in Dispatchers, Dispatch(d)
      PROVE  CloseStages'
  <2>1. UNCHANGED <<callback, stopped, closer, awaited>>
        /\ \A c \in Dispatchers : c # d => dispatcher'[c] = dispatcher[c]
    BY <1>2
    DEF Dispatch, TakeEvent, Deliver, StopDispatching, CloseDispatched, closeVars, TypeOK
  <2>2. d \in Busy \/ d \notin Busy'
    BY <1>2
    DEF Dispatch, TakeEvent, Deliver, StopDispatching, CloseDispatched, Busy, Looping,
        Closing, Idle, TypeOK
  <2>3. Busy' \subseteq Busy
    BY <2>1, <2>2 DEF Busy
  <2> QED
    BY <2>1, <2>3 DEF CloseStages
<1>3. ASSUME ResetCallback
      PROVE  CloseStages'
  BY <1>3 DEF ResetCallback, CloseStages, queueVars, Busy
<1>4. ASSUME StopFlowEvents
      PROVE  CloseStages'
  <2>1. UNCHANGED dispatcher /\ stopped' /\ closer' = "waiting"
        /\ awaited' = IF dispatching THEN current ELSE None
    BY <1>4 DEF StopFlowEvents
  <2>2. Busy' = Busy
    BY <2>1 DEF Busy
  <2> QED
    BY <2>1, <2>2 DEF CloseStages, OneDispatcher
<1>5. ASSUME FlowEventsStopped
      PROVE  CloseStages'
  <2>1. UNCHANGED <<dispatcher, stopped, awaited>> /\ closer' = "returned" /\ closer = "waiting"
    BY <1>5 DEF FlowEventsStopped, queueVars
  <2>2. \A d \in Busy : d = awaited /\ d # None /\ dispatcher[d] # Idle
    BY <2>1, NoneAssumption DEF CloseStages, Busy, Idle
  <2>3. Busy = {}
    BY <1>5, <2>2 DEF FlowEventsStopped, AwaitedReturned
  <2>4. Busy' = {}
    BY <2>1, <2>3 DEF Busy
  <2> QED
    BY <2>1, <2>4 DEF CloseStages
<1> QED
  BY <1>1, <1>2, <1>3, <1>4, <1>5, QueueSteps DEF Next

-----------------------------------------------------------------------------
(* The order of delivery *)

LEMMA AppendToConcat ==
  ASSUME NEW s \in Seq(Events), NEW t \in Seq(Events), NEW e \in Events
  PROVE  Append(s \o t, e) = s \o Append(t, e)
<1>1. s \o t \in Seq(Events) /\ <<e>> \in Seq(Events)
  BY ConcatProperties
<1>2. Append(s \o t, e) = (s \o t) \o <<e>> /\ Append(t, e) = t \o <<e>>
  BY <1>1, AppendIsConcat
<1>3. (s \o t) \o <<e>> = s \o (t \o <<e>>)
  BY <1>1, ConcatAssociative
<1> QED BY <1>2, <1>3

LEMMA ReachedType ==
  ASSUME TypeOK, OneDispatcher
  PROVE  Reached \in Seq(Events)
<1>1. delivered \in Seq(Events) /\ UnderWay \in Seq(Events)
  BY UnderWayIs DEF TypeOK
<1> QED BY <1>1, ConcatProperties DEF Reached

\* What the callback has had and what is under way are joined by no more than
\* the event that dispatchFlowEvents takes, in the session's callback's time.
LEMMA DispatchReaches ==
  ASSUME TypeOK, OneDispatcher, NEW d \in Dispatchers, Dispatch(d)
  PROVE  \/ Reached' = Reached /\ (UNCHANGED events \/ callback = "noop")
         \/ /\ callback = "session" /\ ~stopped /\ events # <<>>
            /\ Reached' = Reached \o <<Head(events)>> /\ events' = Tail(events)
<1>0. /\ delivered \in Seq(Events) /\ events \in Seq(Events)
      /\ \A c \in Dispatchers : c # d => dispatcher'[c] = dispatcher[c]
  BY DEF Dispatch, TakeEvent, Deliver, StopDispatching, CloseDispatched, TypeOK
<1>1. UnderWay' = WayOf(dispatcher') /\ UnderWay = WayOf(dispatcher)
  BY DEF UnderWay, WayOf
<1>2. ASSUME d \in Busy, dispatcher'[d].at # "deliver"
      PROVE  UnderWay' = <<>>
  <2>1. \A c \in Dispatchers : c # d => dispatcher[c].at # "deliver"
    BY <1>2 DEF OneDispatcher, Busy
  <2>2. \A c \in Dispatchers : dispatcher'[c].at # "deliver"
    BY <1>0, <1>2, <2>1
  <2> QED BY <1>1, <2>2, WayNone
<1>3. CASE TakeEvent(d)
  <2>1. d \in Busy /\ UnderWay = <<>> /\ UNCHANGED delivered
    BY <1>3, UnderWayIs DEF TakeEvent, Busy, Looping
  <2>2. Head(events) \in Events
    BY <1>0, <1>3, HeadTailProperties DEF TakeEvent
  <2>3. dispatcher'[d] = [at |-> IF callback = "session" THEN "deliver" ELSE "drop",
                          event |-> Head(events)]
    BY <1>3 DEF TakeEvent, TypeOK
  <2>4. CASE callback = "session"
    <3>1. \A c \in Dispatchers : dispatcher'[c].at = "deliver" => c = d
      BY <1>0, <2>1 DEF OneDispatcher, Busy
    <3>2. UnderWay' = <<Head(events)>>
      BY <1>1, <2>3, <2>4, <3>1, WayOne
    <3>3. Reached = delivered
      BY <1>0, <2>1, ConcatEmptySeq DEF Reached
    <3>4. Reached' = delivered \o <<Head(events)>>
      BY <2>1, <3>2 DEF Reached
    <3> QED BY <1>3, <2>4, <3>3, <3>4 DEF TakeEvent
  <2>5. CASE callback # "session"
    <3>1. UnderWay' = <<>>
      BY <1>2, <2>1, <2>3, <2>5
    <3>2. callback = "noop"
      BY <2>5 DEF TypeOK
    <3> QED BY <2>1, <3>1, <3>2 DEF Reached
  <2> QED BY <2>4, <2>5
<1>4. CASE Deliver(d)
  <2>1. d \in Busy /\ UNCHANGED events
    BY <1>4 DEF Deliver, Busy
  <2>2. dispatcher'[d] = Looping
    BY <1>4 DEF Deliver, TypeOK
  <2>3. UnderWay' = <<>>
    BY <1>2, <2>1, <2>2 DEF Looping
  <2>4. CASE dispatcher[d].at = "deliver"
    <3>1. UnderWay = <<dispatcher[d].event>> /\ UnderWay \in Seq(Events)
      BY <2>4, UnderWayIs
    <3>2. dispatcher[d].event \in Events
      BY <3>1, ElementOfSeq
    <3>3. delivered' = Append(delivered, dispatcher[d].event)
      BY <1>4, <2>4 DEF Deliver
    <3>4. delivered' = delivered \o UnderWay
      BY <1>0, <3>1, <3>2, <3>3, AppendIsConcat
    <3>5. Reached \in Seq(Events)
      BY ReachedType
    <3> QED BY <2>1, <2>3, <3>4, <3>5, ConcatEmptySeq DEF Reached
  <2>5. CASE dispatcher[d].at # "deliver"
    <3>1. UNCHANGED delivered /\ UnderWay = <<>>
      BY <1>4, <2>1, <2>5, UnderWayIs DEF Deliver
    <3> QED BY <2>1, <2>3, <3>1 DEF Reached
  <2> QED BY <2>4, <2>5
<1>5. CASE StopDispatching(d)
  <2>1. d \in Busy /\ UnderWay = <<>> /\ UNCHANGED <<events, delivered>>
    BY <1>5, UnderWayIs DEF StopDispatching, Busy, Looping
  <2>2. dispatcher'[d] = Closing
    BY <1>5 DEF StopDispatching, TypeOK
  <2>3. UnderWay' = <<>>
    BY <1>2, <2>1, <2>2 DEF Closing
  <2> QED BY <2>1, <2>3 DEF Reached
<1>6. CASE CloseDispatched(d)
  <2>1. UNCHANGED <<events, delivered>> /\ dispatcher[d] = Closing /\ dispatcher'[d] = Idle
    BY <1>6 DEF CloseDispatched, TypeOK
  <2>2. CASE \E c \in Dispatchers : dispatcher[c].at = "deliver"
    <3>1. PICK c \in Dispatchers : dispatcher[c].at = "deliver"
      BY <2>2
    <3>2. c # d /\ dispatcher'[c] = dispatcher[c]
      BY <1>0, <2>1, <3>1 DEF Closing
    <3>3. \A b \in Dispatchers : dispatcher'[b].at = "deliver" => b = c
      BY <1>0, <2>1, <3>1 DEF OneDispatcher, Busy, Idle
    <3>4. UnderWay = <<dispatcher[c].event>> /\ UnderWay' = <<dispatcher[c].event>>
      BY <1>1, <3>1, <3>2, <3>3, UnderWayIs, WayOne
    <3> QED BY <2>1, <3>4 DEF Reached
  <2>3. CASE \A c \in Dispatchers : dispatcher[c].at # "deliver"
    <3>1. \A c \in Dispatchers : dispatcher'[c].at # "deliver"
      BY <1>0, <2>1, <2>3 DEF Idle
    <3>2. UnderWay = <<>> /\ UnderWay' = <<>>
      BY <1>1, <2>3, <3>1, WayNone
    <3> QED BY <2>1, <3>2 DEF Reached
  <2> QED BY <2>2, <2>3
<1> QED
  BY <1>3, <1>4, <1>5, <1>6 DEF Dispatch

LEMMA OrderStep ==
  ASSUME TypeOK, FlowHasNumber, OneDispatcher, CloseStages, ReachedFirst, RestIsQueued, Next
  PROVE  ReachedFirst' /\ RestIsQueued'
<1>0. Reached \in Seq(Events) /\ events \in Seq(Events) /\ changes \in Seq(Events)
  BY ReachedType DEF TypeOK
<1>1. ASSUME Queues
      PROVE  ReachedFirst' /\ RestIsQueued'
  <2>1. UNCHANGED <<stopped, closer, delivered>>
    BY <1>1 DEF Queues
  <2>2. CASE UNCHANGED queueVars
    BY <2>1, <2>2 DEF queueVars, ReachedFirst, RestIsQueued, Reached, UnderWay
  <2>3. ASSUME NEW e \in Events, QueueEvent(e), ~stopped
        PROVE  ReachedFirst' /\ RestIsQueued'
    <3>1. QueueTypes
      BY DEF TypeOK, QueueTypes, DispatcherStates
    <3>2. UnderWay' = UnderWay /\ events' = Append(events, e) /\ changes' = Append(changes, e)
      BY <2>3, <3>1, QueueEventStarts
    <3>3. Reached' = Reached
      BY <2>1, <3>2 DEF Reached
    <3>4. PICK rest \in Seq(Events) : changes = Reached \o rest
      BY DEF ReachedFirst
    <3>5. Append(Reached \o rest, e) = Reached \o Append(rest, e)
          /\ Append(Reached \o events, e) = Reached \o Append(events, e)
      BY <1>0, AppendToConcat
    <3>6. ReachedFirst'
      <4>1. changes' = Reached' \o Append(rest, e)
        BY <3>2, <3>3, <3>4, <3>5
      <4>2. Append(rest, e) \in Seq(Events)
        OBVIOUS
      <4> QED BY <4>1, <4>2 DEF ReachedFirst
    <3>7. RestIsQueued'
      <4>1. closer = "open" => changes' = Reached' \o events'
        BY <3>2, <3>3, <3>5 DEF RestIsQueued
      <4> QED BY <2>1, <4>1 DEF RestIsQueued
    <3> QED BY <3>6, <3>7
  <2>4. ASSUME NEW e \in Events, QueueEvent(e), stopped
        PROVE  UNCHANGED queueVars
    BY <2>4 DEF QueueEvent
  <2> QED BY <1>1, <2>2, <2>3, <2>4 DEF Queues
<1>2. ASSUME NEW d \in Dispatchers, Dispatch(d)
      PROVE  ReachedFirst' /\ RestIsQueued'
  <2>1. UNCHANGED <<changes, closer>>
    BY <1>2 DEF Dispatch, TakeEvent, Deliver, StopDispatching, CloseDispatched, closeVars
  <2>2. CASE Reached' = Reached /\ (UNCHANGED events \/ callback = "noop")
    BY <2>1, <2>2 DEF ReachedFirst, RestIsQueued, CloseStages
  <2>3. CASE /\ callback = "session" /\ ~stopped /\ events # <<>>
             /\ Reached' = Reached \o <<Head(events)>> /\ events' = Tail(events)
    <3>1. closer = "open"
      BY <2>3 DEF CloseStages, TypeOK
    <3>2. Head(events) \in Events /\ Tail(events) \in Seq(Events)
      BY <1>0, <2>3, HeadTailProperties
    <3>3. events = <<Head(events)>> \o Tail(events)
      BY <1>0, <2>3, <3>2
    <3>4. <<Head(events)>> \in Seq(Events)
      BY <3>2
    <3>5. (Reached \o <<Head(events)>>) \o Tail(events)
            = Reached \o (<<Head(events)>> \o Tail(events))
      BY <1>0, <3>2, <3>4, ConcatAssociative
    <3>6. changes' = Reached' \o events'
      BY <2>1, <2>3, <3>1, <3>3, <3>5 DEF RestIsQueued
    <3> QED BY <2>3, <3>2, <3>6 DEF ReachedFirst, RestIsQueued
  <2> QED BY <1>2, <2>2, <2>3, DispatchReaches
<1>3. ASSUME ResetCallback \/ StopFlowEvents \/ FlowEventsStopped
      PROVE  ReachedFirst' /\ RestIsQueued'
  <2>1. Reached' = Reached /\ changes' = changes /\ closer' # "open"
    BY <1>3
    DEF ResetCallback, StopFlowEvents, FlowEventsStopped, queueVars, Reached, UnderWay
  <2> QED BY <2>1 DEF ReachedFirst, RestIsQueued
<1> QED
  BY <1>1, <1>2, <1>3, QueueSteps DEF Next

-----------------------------------------------------------------------------
(* The balance of the changes *)

Places(s, e) == {k \in DOMAIN s : s[k] = e}

LEMMA PlacesAppend ==
  ASSUME NEW s \in Seq(Events), NEW e \in Events, NEW f \in Events
  PROVE  /\ Cardinality(Places(s, f)) \in Nat
         /\ Cardinality(Places(Append(s, e), f))
              = Cardinality(Places(s, f)) + (IF f = e THEN 1 ELSE 0)
<1>1. Len(s) \in Nat /\ DOMAIN s = 1..Len(s) /\ DOMAIN Append(s, e) = 1..(Len(s) + 1)
  BY LenProperties, AppendProperties
<1>2. \A k \in 1..(Len(s) + 1) : Append(s, e)[k] = IF k \in 1..Len(s) THEN s[k] ELSE e
  BY <1>1, AppendProperties
<1>3. IsFiniteSet(Places(s, f))
  <2>1. IsFiniteSet(1..Len(s))
    BY <1>1, FS_Interval
  <2>2. Places(s, f) \in SUBSET (1..Len(s))
    BY <1>1 DEF Places
  <2> QED BY <2>1, <2>2, FS_Subset
<1>4. CASE f = e
  <2>1. Places(Append(s, e), f) = Places(s, f) \cup {Len(s) + 1}
    BY <1>1, <1>2, <1>4 DEF Places
  <2>2. Len(s) + 1 \notin Places(s, f)
    BY <1>1 DEF Places
  <2> QED BY <1>3, <1>4, <2>1, <2>2, FS_AddElement, FS_CardinalityType
<1>5. CASE f # e
  <2>1. Places(Append(s, e), f) = Places(s, f)
    BY <1>1, <1>2, <1>5 DEF Places
  <2>2. Cardinality(Places(s, f)) \in Nat
    BY <1>3, FS_CardinalityType
  <2> QED BY <1>5, <2>1, <2>2
<1> QED BY <1>4, <1>5

Starts == Cardinality(Places(changes, "flowing"))
Ends == Cardinality(Places(changes, "not flowing"))
Balance == ~stopped => Starts = Ends + Cardinality(FlowingTracks)

LEMMA BalanceMeans ==
  /\ ChangesBalance <=> Balance
  /\ ChangesBalance' <=> Balance'
BY DEF ChangesBalance, Balance, Starts, Ends, Count, Places, FlowingTracks

\* What an event queued does to the counts.
LEMMA CountQueued ==
  ASSUME TypeOK, ~stopped
  PROVE  /\ Starts \in Nat /\ Ends \in Nat
         /\ QueueEvent("flowing") => Starts' = Starts + 1 /\ Ends' = Ends
         /\ QueueEvent("not flowing") => Starts' = Starts /\ Ends' = Ends + 1
         /\ QueueEvent("closed") => Starts' = Starts /\ Ends' = Ends
<1>1. changes \in Seq(Events)
      /\ "flowing" \in Events /\ "not flowing" \in Events /\ "closed" \in Events
  BY DEF TypeOK, Events
<1>2. ASSUME NEW e \in Events, QueueEvent(e)
      PROVE  /\ Starts' = Starts + (IF "flowing" = e THEN 1 ELSE 0)
             /\ Ends' = Ends + (IF "not flowing" = e THEN 1 ELSE 0)
  <2>1. changes' = Append(changes, e)
    BY <1>2 DEF QueueEvent
  <2> QED BY <1>1, <2>1, PlacesAppend DEF Starts, Ends
<1>3. Starts \in Nat /\ Ends \in Nat
  BY <1>1, PlacesAppend DEF Starts, Ends
<1>4. QueueEvent("flowing") => Starts' = Starts + 1 /\ Ends' = Ends + 0
  BY <1>1, <1>2
<1>5. QueueEvent("not flowing") => Starts' = Starts + 0 /\ Ends' = Ends + 1
  BY <1>1, <1>2
<1>6. QueueEvent("closed") => Starts' = Starts + 0 /\ Ends' = Ends + 0
  BY <1>1, <1>2
<1>7. Starts + 0 = Starts /\ Ends + 0 = Ends
  BY <1>3
<1> QED BY <1>3, <1>4, <1>5, <1>6, <1>7, Zenon

\* updateFlowState moves one track, and queues just that change.
LEMMA UpdateFlowBalances ==
  ASSUME TypeOK, FinitelyManyFlow, ChangesBalance, UNCHANGED stopped,
         NEW t \in Tracks, NEW seq \in Nat, UpdateFlow(t, seq)
  PROVE  FinitelyManyFlow' /\ ChangesBalance'
<1> DEFINE flows == lastSeq[t] # None /\ lastSeq[t] # seq
<1>1. flows \in BOOLEAN /\ flowing[t] \in BOOLEAN
      /\ \A u \in Tracks : flowing'[u] = IF u = t THEN flows ELSE flowing[u]
  BY DEF UpdateFlow, TypeOK
<1>2. FlowingTracks' = IF flows THEN FlowingTracks \cup {t} ELSE FlowingTracks \ {t}
  BY <1>1 DEF FlowingTracks
<1>3. t \in FlowingTracks <=> flowing[t]
  BY DEF FlowingTracks
<1>4. FinitelyManyFlow'
  BY <1>2, FS_AddElement, FS_RemoveElement DEF FinitelyManyFlow
<1>5. IsFiniteSet(FlowingTracks) /\ Cardinality(FlowingTracks) \in Nat
  BY FS_CardinalityType DEF FinitelyManyFlow
<1>6. ChangesBalance'
  <2> SUFFICES ASSUME ~stopped
               PROVE  Starts' = Ends' + Cardinality(FlowingTracks')
    BY BalanceMeans DEF Balance
  <2>1. Starts = Ends + Cardinality(FlowingTracks)
    BY BalanceMeans DEF Balance
  <2>2. CASE flows = flowing[t]
    <3>1. UNCHANGED changes
      BY <2>2 DEF UpdateFlow, queueVars
    <3>2. FlowingTracks' = FlowingTracks
      BY <1>2, <1>3, <2>2
    <3>3. Starts' = Starts /\ Ends' = Ends
      BY <3>1 DEF Starts, Ends
    <3> QED BY <2>1, <3>2, <3>3
  <2>3. CASE flows /\ ~flowing[t]
    <3>1. QueueEvent("flowing")
      BY <2>3 DEF UpdateFlow
    <3>2. Cardinality(FlowingTracks') = Cardinality(FlowingTracks) + 1
      BY <1>2, <1>3, <1>5, <2>3, FS_AddElement
    <3>3. /\ Starts' = Starts + 1
          /\ Ends' = Ends
          /\ Starts \in Nat /\ Ends \in Nat
      BY <3>1, CountQueued
    <3> QED BY <1>5, <2>1, <3>2, <3>3
  <2>4. CASE ~flows /\ flowing[t]
    <3>1. QueueEvent("not flowing")
      BY <2>4 DEF UpdateFlow
    <3>2. Cardinality(FlowingTracks') = Cardinality(FlowingTracks) - 1
      BY <1>2, <1>3, <1>5, <2>4, FS_RemoveElement
    <3>3. /\ Starts' = Starts
          /\ Ends' = Ends + 1
          /\ Starts \in Nat /\ Ends \in Nat
      BY <3>1, CountQueued
    <3> QED BY <1>5, <2>1, <3>2, <3>3
  <2> QED BY <1>1, <2>2, <2>3, <2>4
<1> QED BY <1>4, <1>6

LEMMA BalanceStep ==
  ASSUME TypeOK, FlowHasNumber, FinitelyManyFlow, ChangesBalance, Next
  PROVE  FinitelyManyFlow' /\ ChangesBalance'
<1>1. ASSUME UNCHANGED <<flowing, changes>>, stopped => stopped'
      PROVE  FinitelyManyFlow' /\ ChangesBalance'
  BY <1>1 DEF FinitelyManyFlow, FlowingTracks, ChangesBalance, Count
<1>2. ASSUME NEW t \in Tracks, Track(t)
      PROVE  FinitelyManyFlow' /\ ChangesBalance'
  <2>1. CASE Watches
    BY <1>1, <2>1 DEF Watches, queueVars, closeVars
  <2>2. ASSUME NEW u \in Tracks, NEW seq \in Nat, Reports(u, seq)
        PROVE  FinitelyManyFlow' /\ ChangesBalance'
    BY <2>2, UpdateFlowBalances DEF Reports, closeVars
  <2> QED BY <1>2, <2>1, <2>2, TrackSteps
<1>3. ASSUME Disconnect
      PROVE  FinitelyManyFlow' /\ ChangesBalance'
  <2>1. UNCHANGED <<flowing, stopped>> /\ QueueEvent("closed")
    BY <1>3 DEF Disconnect, trackVars
  <2>2. CASE stopped
    BY <1>1, <2>1, <2>2 DEF QueueEvent, queueVars
  <2>3. CASE ~stopped
    <3>1. Starts' = Starts /\ Ends' = Ends
      BY <2>1, <2>3, CountQueued
    <3>2. FlowingTracks' = FlowingTracks
      BY <2>1 DEF FlowingTracks
    <3> QED
      BY <2>1, <3>1, <3>2, BalanceMeans DEF FinitelyManyFlow, Balance
  <2> QED BY <2>2, <2>3
<1>4. ASSUME NEW d \in Dispatchers, Dispatch(d)
      PROVE  FinitelyManyFlow' /\ ChangesBalance'
  BY <1>1, <1>4
  DEF Dispatch, TakeEvent, Deliver, StopDispatching, CloseDispatched, trackVars, closeVars
<1>5. ASSUME ResetCallback \/ StopFlowEvents \/ FlowEventsStopped
      PROVE  FinitelyManyFlow' /\ ChangesBalance'
  BY <1>1, <1>5 DEF ResetCallback, StopFlowEvents, FlowEventsStopped, trackVars, queueVars
<1> QED
  BY <1>2, <1>3, <1>4, <1>5 DEF Next

-----------------------------------------------------------------------------
(* The invariant *)

LEMMA InitInv == Init => Inv
<1> SUFFICES ASSUME Init PROVE Inv
  OBVIOUS
<1>1. TypeOK
  <2>1. <<>> \in Seq(Events)
    BY EmptySeq
  <2>2. /\ packets \in [Tracks -> 0..MaxPackets] /\ timeouts \in [Tracks -> 0..MaxTimeouts]
        /\ lastSeq \in [Tracks -> Nat \cup {None}] /\ flowing \in [Tracks -> BOOLEAN]
    BY BoundAssumption DEF Init
  <2>3. /\ reader \in [Tracks -> [at : {"reading", "timeout", "ended"}, seq : Nat]]
        /\ watcher \in [Tracks -> [at : {"waiting", "stale", "ended"}, seq : Nat]]
    BY DEF Init
  <2>4. dispatching \in BOOLEAN /\ stopped \in BOOLEAN /\ connected \in BOOLEAN
    BY DEF Init
  <2>5. dispatcher \in [Dispatchers ->
          {Idle, Looping, Closing} \cup [at : {"deliver"}, event : Events]
                                   \cup [at : {"drop"}, event : Events]]
    BY DEF Init
  <2> QED
    BY <2>1, <2>2, <2>3, <2>4, <2>5 DEF Init, TypeOK
<1>2. Busy = {} /\ UnderWay = <<>>
  <2>1. \A d \in Dispatchers : dispatcher[d].at = "idle"
    BY DEF Init, Idle
  <2> QED BY <2>1, WayNone DEF Busy, UnderWay, WayOf
<1>3. OneDispatcher /\ CloseStages
  BY <1>2 DEF Init, OneDispatcher, CloseStages
<1>4. FlowHasNumber /\ FlowingTracks = {}
  BY DEF Init, FlowHasNumber, FlowingTracks
<1>5. ReachedFirst /\ RestIsQueued
  <2>1. Reached = <<>> /\ changes = <<>> /\ events = <<>>
    <3>1. <<>> \o <<>> = <<>>
      BY EmptySeq, ConcatEmptySeq
    <3> QED BY <1>2, <3>1 DEF Init, Reached
  <2>2. <<>> \o <<>> = <<>> /\ <<>> \in Seq(Events)
    BY EmptySeq, ConcatEmptySeq
  <2> QED BY <2>1, <2>2 DEF ReachedFirst, RestIsQueued
<1>6. FinitelyManyFlow /\ ChangesBalance
  <2>1. Starts = 0 /\ Ends = 0
    <3>1. changes = <<>>
      BY DEF Init
    <3>2. Places(changes, "flowing") = {} /\ Places(changes, "not flowing") = {}
      BY <3>1 DEF Places
    <3> QED BY <3>2, FS_EmptySet DEF Starts, Ends
  <2>2. Cardinality(FlowingTracks) = 0 /\ FinitelyManyFlow
    BY <1>4, FS_EmptySet DEF FinitelyManyFlow
  <2> QED
    BY <2>1, <2>2, BalanceMeans DEF Balance
<1> QED
  BY <1>1, <1>3, <1>4, <1>5, <1>6 DEF Inv

LEMMA NextInv == Inv /\ [Next]_vars => Inv'
<1> SUFFICES ASSUME Inv, [Next]_vars PROVE Inv'
  OBVIOUS
<1>1. CASE Next
  BY <1>1, TypeStep, OneDispatcherStep, CloseStagesStep, OrderStep, BalanceStep DEF Inv
<1>2. CASE UNCHANGED vars
  <2> USE <1>2 DEF vars, trackVars, queueVars, closeVars
  <2>1. TypeOK' /\ FlowHasNumber'
    BY DEF Inv, TypeOK, FlowHasNumber
  <2>2. OneDispatcher' /\ CloseStages'
    BY DEF Inv, OneDispatcher, CloseStages, Busy
  <2>3. ReachedFirst' /\ RestIsQueued'
    BY DEF Inv, ReachedFirst, RestIsQueued, Reached, UnderWay
  <2>4. FinitelyManyFlow' /\ ChangesBalance'
    BY DEF Inv, FinitelyManyFlow, FlowingTracks, ChangesBalance, Count
  <2> QED BY <2>1, <2>2, <2>3, <2>4 DEF Inv
<1> QED BY <1>1, <1>2

\* The invariant holds in every state of an adapter's flow events.
LEMMA FlowInvariant == Spec => []Inv
BY InitInv, NextInv, PTL DEF Spec

-----------------------------------------------------------------------------
(* Theorems *)

LEMMA PrefixOfConcat ==
  ASSUME NEW s \in Seq(Events), NEW t \in Seq(Events)
  PROVE  IsPrefix(s, s \o t)
<1>1. Len(s) \in Nat /\ Len(t) \in Nat /\ Len(s \o t) = Len(s) + Len(t)
  BY LenProperties, ConcatProperties
<1>2. SubSeq(s \o t, 1, Len(s)) = SubSeq(s, 1, Len(s))
  <2>1. CASE Len(s) = 0
    BY <1>1, <2>1, SubSeqEmpty
  <2>2. CASE Len(s) # 0
    <3>1. 1 \in 1..Len(s) /\ Len(s) \in 1..Len(s)
      BY <1>1, <2>2
    <3> QED BY <3>1, SubSeqOfConcat1
  <2> QED BY <2>1, <2>2
<1> QED BY <1>1, <1>2 DEF IsPrefix

\* Every variable keeps its type; a read timeout only ever reports a number
\* that its track has had.
THEOREM FlowTypeCorrect == Spec => []TypeOK
<1>1. Inv => TypeOK
  BY DEF Inv
<1> QED BY <1>1, FlowInvariant, PTL

\* queueFlowEvent and dispatchFlowEvents: the session gets the flow changes one
\* at a time and in the order they happened, and every one until it stops.
THEOREM EventsArriveInOrder == Spec => []InOrder
<1>1. Inv => InOrder
  <2> SUFFICES ASSUME Inv PROVE InOrder
    OBVIOUS
  <2>1. Cardinality(Busy) <= 1
    <3>1. CASE Busy = {}
      BY <3>1, FS_EmptySet
    <3>2. CASE Busy # {}
      <4>1. Busy = {current}
        BY <3>2 DEF Inv, OneDispatcher
      <4>2. Cardinality({current}) = 1
        BY FS_Singleton
      <4> QED BY <4>1, <4>2
    <3> QED BY <3>1, <3>2
  <2>2. IsPrefix(Reached, changes)
    <3>1. PICK rest \in Seq(Events) : changes = Reached \o rest
      BY DEF Inv, ReachedFirst
    <3>2. Reached \in Seq(Events)
      BY ReachedType DEF Inv
    <3> QED BY <3>1, <3>2, PrefixOfConcat
  <2>3. closer = "open" => changes = Reached \o events
    BY DEF Inv, RestIsQueued
  <2> QED
    BY <2>1, <2>2, <2>3 DEF InOrder, Busy, Reached
<1> QED BY <1>1, FlowInvariant, PTL

\* updateFlowState queues every start and every end of a track's flow once,
\* whatever numbers readers and watchers report late.
THEOREM ChangesAreAccountedFor == Spec => []ChangesBalance
<1>1. Inv => ChangesBalance
  BY DEF Inv
<1> QED BY <1>1, FlowInvariant, PTL

\* After stopFlowEvents has returned no event reaches the session: the
\* dispatcher it waited for was the only one at work.
THEOREM NothingDeliveredOnceStopped == Spec => SilentOnceStopped
<1>1. Inv /\ [Next]_vars => [closer = "returned" => UNCHANGED delivered]_vars
  <2> SUFFICES ASSUME Inv, Next, closer = "returned" PROVE UNCHANGED delivered
    OBVIOUS
  <2>1. Busy = {}
    BY DEF Inv, CloseStages
  <2>2. ASSUME NEW d \in Dispatchers, Dispatch(d)
        PROVE  UNCHANGED delivered
    BY <2>1, <2>2
    DEF Busy, Dispatch, Deliver, TakeEvent, StopDispatching, CloseDispatched
  <2>3. Queues => UNCHANGED delivered
    BY DEF Queues
  <2>4. ResetCallback \/ StopFlowEvents \/ FlowEventsStopped => UNCHANGED delivered
    BY DEF ResetCallback, StopFlowEvents, FlowEventsStopped
  <2> QED
    BY <2>2, <2>3, <2>4, QueueSteps DEF Next, Inv
<1> QED BY <1>1, FlowInvariant, PTL DEF Spec, SilentOnceStopped
=============================================================================
