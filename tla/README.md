# A formal model of bbb-webrtc-recorder

TLA+ modules of the recorder's concurrent core and of the media path, the TLC
configurations that check them on small instances, and proofs, checked by
TLAPS, that most of what they promise holds for instances of any size. Paths
below are relative to the repository.

    tlc -workers 2 -config sessions.cfg MCSessionServer    # model-check a run
    tlapm SessionServerProofs.tla                          # check the proofs of
                                                           # a *Proofs module

Every run and the module and property it belongs to is listed in
`PROJECT.json`, with the source lines each definition models (`map`), the
mutations of the model that each property catches (`mutants`; in the modules
they are the operators marked *Mutation*), the hazards of the code and the
properties aimed at them, and the findings.

## The system

bbb-webrtc-recorder records WebRTC media for BigBlueButton. A client (the SFU)
publishes `startRecording` and `stopRecording` on a Redis channel; the recorder
answers on another, reports flow changes, and says when a recording has stopped.
A session captures either from mediasoup, as a WebRTC peer, or from LiveKit, as
a hidden participant of a room, and writes a WebM file.

| Component | Its state | Its operations | Interacts with |
|---|---|---|---|
| Server (`internal/server/server.go`) | registry of sessions by id, `shutdownWg` | `HandlePubSubEvent`, `runSession`, `CloseSession`, `Close` | sessions, pubsub, reconciler |
| Session (`internal/server/session.go`) | command channel (10), `done`, `startEvent`, `startedSuccessfully`, `stopped` | `StartRecording`, `StopRecording`, `Run`, `handleStartRecording`, `handleStopRecording` | server, one adapter, recorder |
| LiveKit adapter (`internal/webrtc/livekit/livekit.go`) | room, tracks, flow state per track, queue of flow events, callbacks | `Init`, `Close`, track readers and watchers, event dispatcher, keyframe requests, disconnects | session (callbacks), track buffers, recorder, constraints |
| Constraint book (`livekit/constraints.go`) | active reasons, quality per track, open intervals, records | `apply`, `lift`, `addTrack`, `stop` | LiveKit adapter, metrics |
| Reconciler (`internal/server/constraints.go`) | active constraints, reasons ever set, wake token | `SetConstraint`, `ClearConstraint`, passes, `stopReconciler` | guard, registry, sessions |
| Disk pressure guard (`internal/diskpressure`, levels in `internal/config/constraints.go`) | active, hung check, stop | `Start`, `run`, `timedStat`, `evaluate`, `Stop` | filesystem, reconciler |
| Track buffer (`livekit/trackbuffer.go`, `third_party/media-sdk/jitter`) | jitter buffer, duplicate window, gap list | `push`, `flush`, loss rate limit | readers, keyframe requests |
| Trace capture (`livekit/capture.go`, `internal/corpus`) | bounded record queue, file | `observe`, `run`, `finish` | readers |
| Mediasoup adapter (`internal/webrtc/webrtc.go`) | peer connection, per-track goroutines | `Init`, `Close`, reader, NACK, PLI and flow goroutines | session, recorder, packet path |
| Packet path (`internal/webrtc/utils`) | jitter buffer, receive log, unwrapper | add, pop, skip, missing numbers | mediasoup adapter |
| Media clock (`utils/mediaclock.go`) | offset history, jumps, sender reports | `Timestamp`, `SenderReport` | LiveKit readers |
| WebM recorder (`internal/webrtc/recorder`) | VP8 frame assembly, writers, stats | `PushVideo`, `PushAudio`, `Close` | adapters |
| Pubsub (`internal/pubsub`) | subscription, backoff | `Subscribe`, `Publish`, `Close` | server |
| Process (`internal/app/app.go`) | guard, pubsub, server | start-up, `shutdown` | all |

What is hard in it: commands, callbacks and shutdown reach a session while it
starts, runs or closes; callbacks are read under one lock and run after it is
released; Close waits for goroutines that call back into what is closing; one
token or one queue stands for many events; constraint changes, snapshots and
new sessions overlap; a disk check can hang for longer than its timeout; two
goroutines share a jitter buffer that locks each call but not a pair of calls;
and media arrives lost, late, duplicated and with wrapping numbers.
`PROJECT.json` lists each hazard at its line.

What makes each part correct: a session id has one open recording, every start
is answered, every stop ends a recording, and messages follow the protocol
(server, session); flow events are delivered once, in order and not after the
close (LiveKit adapter); what LiveKit was asked for is what the active
constraints say (book, reconciler); the guard follows the disk, however slow
(guard); whole frames reach the recorder in order, each once, and a loss is
answered with a request for a key frame (track buffer); no packet is pushed
twice or out of order and no frame is written after one it needs is missing
(packet path, recorder); timestamps never overlap and gaps cover losses (media
clock); a trace says what it lacks, and closing leaves nothing open (captures).

## The modules

| Module | What it is |
|---|---|
| `ClientProtocol` | abstract: the messages a client may see |
| `SessionServer`, `MCSessionServer`, `SessionServerProofs` | server, sessions, adapters' callbacks, shutdown; implements `ClientProtocol` |
| `FlowEvents`, `MCFlowEvents`, `FlowEventsProofs` | flow events of the LiveKit adapter |
| `ConstraintBook`, `MCConstraintBook`, `ConstraintBookProofs` | constraints of one capture |
| `ConstraintReconciler`, `MCConstraintReconciler`, `ConstraintReconcilerProofs` | constraints of the server and its sessions |
| `DiskPressure`, `MCDiskPressure`, `DiskPressureProofs` | the guard |
| `FrameDelivery` | abstract: what a track buffer promises the recorder |
| `FrameBuffer` | operators of media-sdk's jitter buffer |
| `TrackBuffer`, `MCTrackBuffer`, `TrackBufferProofs` | a LiveKit track's buffer; implements `FrameDelivery` |
| `MediaClock` | operators of a microphone's clock |
| `MicrophoneTrack` | a microphone, its network and its clock |
| `TraceCapture` | operators of one trace capture |
| `TrackReaders`, `MCTrackReaders`, `TrackReadersProofs` | a track's subscriptions, their dumps and captures, and the close |
| `JitterBuffer`, `ReceiveLog`, `WebmRecorder` | operators of the mediasoup packet path |
| `MediasoupTrack`, `MCMediasoupTrack`, `MediasoupTrackProofs` | a mediasoup video track: the three composed by its goroutines |

A component that is only ever used under a lock, call by call, is a module of
operators from one of its states to the next; the module that composes it has
the variables and one action per critical section.

### SessionServer and ClientProtocol

`ClientProtocol` is the abstract specification: per `startRecording` request,
the sequence of messages published about it. `ok` or `fail` once; no `ok` while
another recording of that id is live; flow changes never after a `fail`, and for
LiveKit never after `stopped`; `stopped` once, and only after `ok`.

`SessionServer` is the code. Its goroutines are the pubsub receive loop, one
`Run` per session, the adapters' flow goroutines and connection callbacks, and
the shutdown handler; each action is a step of one of them between points where
another can be noticed. The correspondence:

| Model | Code |
|---|---|
| `registry`, `Running` | `Server.sessions`, `shutdownWg` |
| `pc[r]` | where `Session.Run` is: `select` is its select, `init` .. `reject` are `handleStartRecording`, `reset` .. `finish` are `handleStopRecording` in its order |
| `queue`, `done`, `startEvent`, `startedOK` | the session's fields |
| `callbacks`, `flight` | the adapter's callback fields; a callback read under the lock and not yet run |
| `media`, `flowStopped`, `lost` | the connection with its recorder; LiveKit's `flowStopped`; a terminal connection state |
| `handler` | the receive loop between `runSession` and `Session.StartRecording` |
| `shutdown`, `visited`, `mustVisit` | `app.shutdown`, `Server.Close` and what `sync.Map.Range` guarantees |

Coarser than the code: `isDone` and the send after it are one step; the two
callbacks of an adapter are reset together; a connection callback is read and
run in one step (its only effect is a stop, which a finished session ignores);
`Publish` never fails, since the code only logs its errors. Left out: the
publishing of `getRecordings` (what it lists is `Listed`), `getRecorderStatus`,
start times, statistics. A mediasoup `Init` can only fail before its connection
can call back, so no callback is under way then.

`LateIntake` says whether `startRecording` is still handled after the exit
signal. It is in this code, since `Redis.Close` closes a connection that is not
the one `ListenChannels` reads from. `sessions`, which shows that sessions and
the process end, leaves it out; `late_start_exit` shows what goes wrong with it.
The theorems hold either way.

Fairness: weak fairness of each `Run`, of a callback that has been read, of the
receive loop's step from registering to queueing, and of `Server.Close`. The Go
scheduler runs what can run; `Init` and `Close` of the adapters end by their own
timeouts and errors; publishing by the Redis client's timeouts. Nothing makes
messages, flow changes, disconnects or the exit signal come.

### FlowEvents

The part of the LiveKit adapter that turns packets into flow events: readers
(`updateFlowState`, `handleReadRTPError`), watchers (`watchFlow`), the queue and
its dispatcher (`queueFlowEvent`, `dispatchFlowEvents`), and `stopFlowEvents`.
Each action is a critical section of the adapter's `m` or what happens between
two: a number reported late is a state of its own (`reader.at = "timeout"`,
`watcher.at = "stale"`), and a dispatcher that has cleared `flowDispatching` but
not yet closed its channel is one too, so that its successor can start meanwhile;
hence two `Dispatchers`. `changes` and `delivered` are history. Left out:
timestamps, track ids (events carry none), and a track subscribed a second time.

A late report can set a track's last number back, so that the next report makes
a silent track look flowing once. `ChangesBalance` shows that the events still
account for the tracks that flow, and `SilenceIsNoticed` that the track is
reported silent in the end. Each such turn needs a goroutine that was held up for
a whole tick between reading and reporting; `MaxTimeouts` bounds how many read
timeouts can do that. `InOrder` includes that no two dispatchers deliver at once.

Fairness: watchers tick, reports under way are finished, dispatchers go on, and
a session that reset its callback closes the adapter. Packets need not come.

### ConstraintBook

One adapter's constraint book and the calls into it. The book changes in one
critical section of `m`; the qualities are then sent with `m` released under
`constraintMu` (`change` is what its holder still has to do), and
`StopConstraints`, which takes only `m`, may come in between. Qualities are
0..2, a track has a source, a reason has one cap and its sources: a constraint
of an active reason has to be lifted before it can be changed, so one per reason
is enough. Tracks are added by the goroutine that later stops the constraints.
Times and the first-for-reason counter are left out. `MaxRecords` bounds the
intervals.

### ConstraintReconciler

`SetConstraint` and `ClearConstraint`, the single wake token, the pass over its
snapshot with a `Range` that may or may not see new sessions, `runSession`
applying what is active before it registers a session, sessions that stop and
unregister, and `stopReconciler`, which gives up on a stalled pass. A session's
capture is the set of its active reasons; `ConstraintBook` says what those do.
`closed` and the closing of `stop`, done together under the lock, are one step.
`MaxChanges` bounds the calls.

Fairness: the reconciler goes on, so a send to LiveKit does not stall for ever:
the signal connection fails a write in the end.

### DiskPressure

`Monitor`: the first check in `Start`, ticks, a check that times out and whose
result arrives later on `hung`, `evaluate` with its look at `stop`, and `Stop`
with its timeout; and `Normalize`, since hysteresis needs the release levels at
or above the engage levels. `statfs` is the environment: a call can fail, take
any time, or never return. A tick while a check is hung changes nothing and is
no action. `Stop` times out only on a check that is not back: everything else
the goroutine does takes far less than the timeout of at least a second. Space
is in MiB of a volume of `Total`; logs, counters and the flags only they use are
left out.

Fairness: timers fire, the goroutine goes on, a ready case of a `select` is
taken in the end (strong fairness, as Go picks among ready cases at random).
That the disk answers again and again is the premise of `PressureIsNoticed`
alone.

### FrameDelivery, FrameBuffer and TrackBuffer

`FrameDelivery` is the abstract specification of a LiveKit video track's buffer:
the recorder is handed whole frames, in the order they were sent, each at most
once, until the track ends. `TrackBuffer` implements it (`DeliversFrames`) with
the packets handed out as they are; what is missing, late or sent again shows
only as frames left out. A frame of the stream is what goes from a packet that
starts one to the next that ends one, without its padding, which is not handed on.

`FrameBuffer` is media-sdk's jitter buffer: where a packet is placed, when the
frame at the head is complete, what is given up once it is `Latency` old, and
the flush. The code's loops over its list are written as what they come to: how
many packets go from the head, and where a search stops. `TrackBuffer` is
`trackBuffer.push` around it: the window of bits that drops duplicates, the gap
list with its first-NACK and read times, `gapDue`, and `lossDue`, the rate limit
that the reader and the timer goroutine share.
`push` is three actions: until `gapDue` releases its lock to read what was
settled, the rest of `gapDue`, and `takeReady`. The timer (`Expire`) runs
between them, and at most `Slack` late. A push takes no time. `asked`, `opened`
and `keyAt` are history. Two things are asked of the stream: it has at most half
of the wire numbers, since farther than that the code's serial arithmetic tells
nothing; and a packet arrives with less than `WindowSize` newer ones before it
(the guard of `Push`), since `duplicate` lets an older one through whether it
has come or not (`trackbuffer.go:255`).

The recorder asks for a key frame in time: `GaveUpIsRequested` for what the
jitter buffer gives up on, `ForgottenIsCovered` for what the gap list forgets.
A loss is forgotten with its gap when a key frame that follows it is there or was
asked for in time. Else one of two things is so, and both are named in the
property since the code does them. A loss merged into a gap has the gap's age and
goes with it once the gap's first packet is `Latency` old, before its own time;
the jitter buffer still waits for it, and reports it when it gives up. And a jump
of `ResetDistance` empties the list as a new stream (`trackbuffer.go:336`).
`GapsAreExact` counts each open gap against the packets that are really missing,
across the wrap.

The code marks each packet that starts a frame as the start of a stream until
the first frame is released, so that such a frame is released over an open gap
and no loss is reported for what precedes it (`third_party/README.md:21-23`
describes the mark being cleared on recycled packets only). The model does as
the code does, and the properties ask for no report of what precedes the first
frame.

### MediaClock and MicrophoneTrack

`MediaClock` is `mediaclock.go` as operators: the unwrapping of timestamps, the
lateness of packets over the arrival window, `catchUp` with `reportedCap`,
`giveBack`, and `SenderReport` with its confirmation of realignments. Its
arithmetic is the code's, in ticks that are one of media and one of time; wire
timestamps are modulo `TSMod`, sequence numbers modulo `SeqMod`.
`MicrophoneTrack` is what feeds it: a sender that captures or loses audio, whose
timestamps LiveKit moves to the wall clock when it is unmuted, and a network that
delays, reorders and loses packets and reports. Left out: statistics, the clock
that only measures, wall clocks that step (`NTPStep` is there, the sender's clock
is true), and a timestamp that jumps back by more than ten seconds, which LiveKit
prevents.

`FramesApart` says that no two packets that arrived, late ones included, leave
closer than a frame, whatever was inserted before and given back after them;
`GapsCoverLosses` that a network delay alone never inserts a gap; and `CaughtUp`
that while no packet is late the track is less than a trigger behind what the
reports show. `Foreseen` allows for the loss the clock extrapolates between
reports, which the code bounds by its largest rate.

### TraceCapture and TrackReaders

`TraceCapture` is `trackCapture`: senders that queue without waiting and count
what they drop, and the writer goroutine with every way a trace ends: closed,
cut at the byte cap, or stopped by a failed write. `TrackReaders` is one track
of the adapter, subscribed any number of times: `onTrackSubscribed` with its
rtpdump (`openRTPDump`) and its capture (`openTraceCapture` in its three steps:
take the earlier capture and close it, truncate the file, store), `readTrack`,
sender reports captured beside it on lksdk's goroutine, and `Close`, which waits
a while for the readers, then closes dumps, recorder and captures.

`StopsFirst`, that a file is truncated only once the earlier traces of the track
have ended, has two exceptions, since the code orders neither: subscriptions
that crossed, from when two of them open their captures at once until each has
closed what it found, and a subscription that lands when `Close` has taken the
captures. The first excepts any third subscription too: two that crossed leave
one's capture open while the other's is the stored one, and a third closes only
that (TLC finds it with three subscriptions; `capture` has two). Left out: record contents (only its time is kept), dumps that cannot
be created, the removal of a trace whose subscription lands after `Close`, and
recordings to `os.DevNull`, which have none.

Fairness: `Close` and the writers go on, readers need not, since a reader can
hang in the recorder. A writer whose disk hangs would hang `Close`, which waits
for it without a timeout (`capture.go:294`).

### JitterBuffer, ReceiveLog, WebmRecorder and MediasoupTrack

`MediasoupTrack` is a video track in `OnTrack` of `webrtc.go`, composed of the
unwrapper and the receive log (`ReceiveLog`), the jitter buffer (`JitterBuffer`)
and the VP8 sampler and writers of the recorder (`WebmRecorder`):

| Model | Code |
|---|---|
| `reader.at` | `log` .. `push`: what the read loop still has to do with a packet; `ending` .. `gone`: its deferred sends of `done`, last goroutine first |
| `nacker` | the NACK goroutine: in its select, giving up on numbers, or between the check of `SkipPacket` and the assignment of `SetNextPacketsStart` |
| `pli`, `flow` | the two other goroutines, as far as the track's end waits for them |
| `su`, `jb`, `rl`, `rec` | the four objects, changed by one call at a time |
| `first`, `ignored`, `stale`, `rewound`, `pushed` | history |

Calls of the receive log are atomic. The NACK goroutine can empty a slot while
`NextPackets` runs; the reader then panics on a nil packet (`TakeNothing`), and
its deferred calls run. Every number past the wrap differs between the NACK
goroutine, which uses those on the wire, and the jitter buffer, which unwraps
them, so its skips only act before the first wrap; packets it gives up on later
are skipped by the buffer's own timeout.

Of the network the model assumes what the code's numbers can tell: a packet is
less than the log's length behind the newest, and fewer than half of the wire
numbers, 32768, are lost in a row. A longer loss cannot be told from a packet
that is late, and on a stream longer than a wrap the order would be lost (TLC
finds it with seven packets and six numbers). The log, of 1024 in the code, is
shorter than half of the numbers and divides them. Of the sender it assumes
(`InSequence`) that pictures are sent one after the other, each from the start of
its first partition, where a key frame shows, to its marker; a packet's picture
id is the count of pictures modulo `PicMod`.

The exceptions written into the properties are each a behaviour of the code:

- `Anchored`: a packet from a round of numbers before that of the first one is
  unwrapped a round too late (`sequence_unwrapper.go:88`).
- `~rewound`: `SetNextPacketsStart` assigned a start that the reader had passed
  since the check.
- `~stale`, of `MissingIsMissing`: the NACK goroutine works through the numbers of
  one tick while packets arrive, and `IgnoreSeqNum` does not look whether the log
  still covers the number (`receive_log.go:107`). If it does not, the slot marked
  is that of another packet, which then is not asked for when it is lost.
- Of `DeltaFollowsItsReference`, the frame after a picture of id 0, which the
  sampler takes for none (`webm.go:859`); one so far ahead that it is taken for
  late (`PicLate`); and a frame without its first partition. A key frame that
  loses a packet at a skip boundary is dropped, but `hasKeyFrame` stays set
  (`webm.go:765`): what is left of its picture, and the first frame of the file,
  can then be written without it.

Left out: SDP and ICE, the rate limit of key frame requests, the recover
in `OnTrack`, the builtin sampler, statistics, timestamps and bytes.

Fairness: the reader's calls, the giving up and the last call of the flow
goroutine go on; the flow and PLI goroutines take `done` when it is offered (weak
fairness), and so does the NACK goroutine, whose ticks can come between (strong
fairness: a `select` picks among ready cases at random).

## The runs

| Run | Instance | What it shows |
|---|---|---|
| `sessions` | two requests for one id, one on LiveKit and one on mediasoup, two flow goroutines, lost connections, failed starts, shutdown | no stop lost to a full queue, no orphaned recording, one open recording per id, live recordings listed, the protocol implemented; stops and lost connections end sessions, starts are answered, the process exits |
| `late_status` (violation) | one mediasoup session | a flow change published after `recordingStopped` |
| `late_start_exit` (violation) | one request after the exit signal | exit with an open recording |
| `flow` | one track, stale reports, two dispatchers | changes balance and are delivered in order, each once, none after the close; silence is noticed, closing returns |
| `constraints` | three overlapping reasons, three tracks | sent qualities, intervals and gauge agree |
| `reconciler` | two sessions, two reasons, three changes | agreement when quiet, no new pass after Close, constraints settle |
| `guard` | all combinations of 5 x 3 x 4 x 3 configured levels, a volume of 3 MiB | hysteresis, silence after Stop, lasting shortage and plenty noticed |
| `track` | six packets across the wrap of 15 numbers, one sent twice, one open gap, jumps from 3 on, latency 3, times up to 5 | frames whole and in order, gaps exact, key frames asked for, nothing forgotten that is not covered |
| `mediaclock` | a microphone over seven times, delays of one, three reports, wraps of timestamps | frames apart, gaps cover losses, lost audio is caught up with |
| `capture` | a track subscribed twice, a queue of one, one read and one report | honest ends, times in order, the tail recorded, nothing left open, Close returns |
| `mediasoup` | four streams of three to five packets across the wrap of 12 numbers, a log and a buffer of three, an audio track, one bad frame | packets in order, the right ones asked for, no delta frame without its reference, the goroutines end |
| `hole` (violation) | a key frame of three packets | a frame written with a hole |

Why the bounds are enough. Two requests for one id are what it takes for a
restart to meet the session it replaces. It takes two ids for the `Range` of
`Server.Close` to pass one session and not yet another: `TwoIds` of
`MCSessionServer` is that instance, on which `ShutdownExits` was checked by hand
(98 thousand states without flow changes, 678 thousand with one). `QueueCap` is 2 rather than 10: a queue of two is full with a
start and a stop, and the theorems hold for any capacity from 2 up. Two flow
goroutines let one run while the other has read its callback. One flow track is
enough for two goroutines to race for the queue, its reader and its watcher;
the safety properties were also checked with two tracks (5.7 million states).
Three reasons include two that overlap on a source and one that lowers nothing.
Two sessions let a pass be between them while one is born or ends; three changes
set, clear and set again during a pass. Six packets hold a key frame of two
packets across the wrap, a frame of one, and two key frames, the second of two
packets: enough for a loss to be merged into the one gap there can be, for that
gap to be past its latency before the loss is, for a jump, and for a key frame
after a loss. No alternative of `ForgottenIsCovered` can be left out on this
instance but one, a request at or after the time of the loss, which a seventh
packet and jumps from 4 on make necessary (2.8 million states, checked as well).
`track` was also checked with padding in the stream, with two open gaps, two
repeats and longer latencies. The arrival window and the delay of `mediaclock`
are of the same size, so a late packet can be the newest, inside or outside of
the window; it was also checked with longer delays (14 million states). A queue
of one is full with one record, while the reader and a report each bring one. A
log of three within twelve numbers wraps within its window and lets the buffer
jump past its size; an earlier capture, a report and a reader meet the close in
`capture` at each of its steps. `CHECK_DEADLOCK FALSE` is set where the modelled
part really ends (a closed adapter, a stopped monitor, a track that is over);
`SessionServer` has no such state but the exited process, which stutters.

## Findings

1. **A flow change after `recordingStopped`** (`late_status`). The flow goroutine
   of a mediasoup track copies `flowCallback` under the lock
   (`internal/webrtc/webrtc.go:381-383`) and calls it after. If the session is
   stopped between the two, it resets the callback "to avoid any potential race
   conditions or duplicated events" (`internal/server/session.go:322`), closes,
   publishes `recordingStopped`, and the change follows. LiveKit's dispatcher is
   waited for and does not do this.
2. **A recording open at exit** (`late_start_exit`). `app.shutdown` closes the
   pubsub before the server, but that does not end the receive loop, so a
   `startRecording` can be handled during or after `Server.Close`. Registered
   after the wait it is open when the process exits; registered between `Range`
   and the end of `shutdownWg.Wait` it is stopped by nobody, and the exit waits
   for it. The repository says of both signals that the recorder "must exit 0 by
   itself, having closed the WebM" (`tests/e2e/README.md:47`; see also
   `internal/app/app.go:251-254`).
3. **A frame written with a hole** (`hole`). A packet the NACK goroutine gives up
   on is skipped in the jitter buffer without the recorder being told, and so is
   a timeout skip when the packets after it are not there yet (`webrtc.go:289`,
   `:445`): the sampler only counts the gap in the sequence and completes the
   frame. The code says it signals skips "to handle potential frame boundary
   issues" (`webrtc.go:453`) and drops such a frame "to avoid stream corruption"
   (`recorder/webm.go:277`).

## The proofs

`SessionServerProofs` proves, from `RequestAssumption` and `QueueAssumption`
(ids are given to requests; the command queue holds at least two):

- `TypeCorrect`: `TypeOK` is invariant.
- `SessionInvariant`: `SessionInv` is. It is the induction the rest hangs on,
  and has four parts besides the types. `CommandInv`: a session is sent one
  `start` and none once it has begun to start, which is why a full queue holds
  a stop. `RegistryInv`: an id stays registered until its recording is final
  and reported, and `done` is set only then; without it nothing prevents two
  sessions of one id. `AnswerInv`: what has been published follows from where
  the session is. `FlowInv`: which callbacks can be under way, so that nothing
  follows a `fail` and, for LiveKit, nothing follows the close. None of the four
  is inductive alone: the answer depends on the commands, the registry on
  `done`, the callbacks on the answers. There is one lemma per part and in it
  one step per action.
- `RefusedStopIsQueued`, `NoOrphanedSession`, `ExclusiveRecording`,
  `LiveRecordingIsListed`: the four invariants of `sessions`, each a consequence
  of `SessionInv`.
- `ServerImplementsProtocol`: every step of the server is a step of
  `ClientProtocol` or leaves `out` alone.

`DiskPressureProofs` proves, from the assumptions of `DiskPressure` (the volume
has a size, levels are integers, the three marks are no samples):

- `GuardTypeCorrect`, `OneStatAtATime`, `GuardAgreesWithSample`,
  `GuardSilentOnceStopped`, for a volume of any size and any configured levels;
  the last two state properties of `guard`, the first two (the types, and that
  `timedStat` never has two calls of stat out) are only proved. The inductive
  invariant adds two parts. `LevelsOrdered` is what `Normalize` establishes;
  from it `TrippedIsNotCleared` follows, without which a guard that engages could
  be engaged on a sample that clears. `NoLateSample` says that once `Stop` has
  returned no sample is being evaluated: it times out only on a running check,
  whose result `evaluate` then refuses.

The next four modules assume of the constants only what their modules name:
bounds are naturals, qualities and caps are LiveKit's, and `None` is none of the
values it stands beside.

`ConstraintReconcilerProofs`, for any sessions and reasons and any number of
changes:

- `ReconcilerTypeCorrect`, `NoChangeIsLost` (`QuietMeansAgreed`) and
  `NoPassOnceClosed` (`NoPassAfterClose`). A pass works on a snapshot that may
  be older than the server's set, so that agreement while quiet is not inductive.
  `PassIsUpToDate` is what makes it so: with no token pending, the snapshot is
  still the server's set, and a live capture that the pass need not come to any
  more differs from it at most in the reasons it is just going through. A change
  puts the token back, a session born meanwhile starts with the server's set.
  `KnownReasons` bounds what a capture can have; `NothingWoken` says that `Close`
  has not returned while a token taken can still lead to a pass.

`FlowEventsProofs`, for any tracks, dispatchers and packets:

- `FlowTypeCorrect`, `EventsArriveInOrder` (`InOrder`),
  `ChangesAreAccountedFor` (`ChangesBalance`) and `NothingDeliveredOnceStopped`
  (`SilentOnceStopped`). `OneDispatcher` says that a dispatcher at work is the
  one `flowDispatching` and `flowDispatched` tell of, which is why a successor
  never overlaps it; `CloseStages` how far `stopFlowEvents` is, and that only the
  dispatcher it waits for is at work then. What is delivered or under way is a
  prefix of all changes (`ReachedFirst`), and what is queued is the rest until
  the close (`RestIsQueued`). The balance counts the tracks that flow, a finite
  set as each step changes one.

`ConstraintBookProofs`, for any reasons, caps, sources, tracks and preferred
quality:

- `BookTypeCorrect`, `LiveKitHasTheEffectiveQuality` (`SentIsEffective`),
  `IntervalsAreExact` (`IntervalIffLowered`) and `GaugeIsBalanced`
  (`GaugeCountsIntervals`). The book always has the quality its active reasons
  amount to (`QualityIsEffective`), and a track's last send is that quality or
  the right one is still to be sent (`SendsOutstanding`): `constraintMu` keeps a
  second change from computing sends in between. The least of a set of caps is
  reasoned about through lemmas on what one reason more or less does to it.

`TrackReadersProofs`, for any subscriptions, queue length and reads:

- `ReadersTypeCorrect`, `EndsAreHonest` (`EndIsHonest`), `TraceTimesInOrder`
  (`TimesInOrder`), `TailsAreRecorded` (`TailIsRecorded`), `NothingIsLeftOpen`
  (`NothingLeftOpen`) and `EarlierCapturesStopFirst` (`StopsFirst`).
  `GoodCaptures` adds up what a capture was offered, has written, queues and
  dropped, at each point of its writer. The rest is about who owns what:
  a reader started early is in the group `Close` waits for (`ReadersInGroup`), an
  open dump or capture is the stored one or held by one subscription or by
  `Close` (`DumpsOwned`, `CapturesOwned`), and a subscription that opens alone
  finds none stored (`Crossings`). `CapturesOwned` gives `NothingLeftOpen` whoever
  comes last; with `Crossings` it gives `StopsFirst`.

`MediasoupTrackProofs`, from `TrackAssumption` (sizes are positive, the log is
shorter than half of the wire numbers and divides them, at most that half is left
alone by the NACK goroutine, pictures are sent `InSequence`, and the two marks are
none of what they stand beside), for streams of any length and however often the
numbers wrap:

- `TrackTypeCorrect`: `TypeOK` is invariant. It is inductive only together with
  `BatchAtHand` and `DueAtHand`: no packet is pushed from an empty batch, and none
  is given up on from an empty set.
- `PacketsAreInOrder` (`InOrder`). The argument goes from the wire to the
  recorder. `HighestIsNewest`: the unwrapper's state is that of the newest packet,
  so the number it gives the next one is its position in the stream, up to a
  constant (`UnwrapIs`, from the guard that a packet is less than half of the
  numbers away). `SlotsAreTheWindow`: a slot of the jitter buffer holds the packet
  of the one number in the window that belongs there, whatever `Add` empties as
  the window slides. `StartInWindow`: the start is in that window, which only
  `SetNextPacketsStart` can break. Hence what `NextPackets` releases is of
  successive numbers from the start on (`NextPacketsInOrder`), and what the
  recorder got and gets next ascends and is before the start (`Released`).
  `NothingYet` says that nothing is anywhere before the first packet, from which
  the numbers count. Division and remainder, and the least and greatest of a set,
  are lemmas at the head of the module.
- `DeltasFollowTheirReferences` (`DeltaFollowsItsReference`). It rests on the order:
  `SamplerIsAt` says, against the last packet pushed (`LastPushed`), which packets
  the frame being assembled holds, which picture the sampler compares the next one
  with, and that once a picture is missed it waits for a key frame. There is one
  lemma per step of the sampler (`BeginIsSampled`, `ExtendIsSampled`,
  `CompleteIsSampled` and the ones that join them), since `PushVideo` goes through
  up to four of them in one call.
- `MissingIsWhatIsMissing` (`MissingIsMissing`). `LogKnows` places the log's state on
  the line of packets: its end is the newest, a slot is set if and only if the packet
  it stands for arrived or was ignored, and from the last consecutive number back to
  the first packet or the end of the window there is none missing. `LogAtHand` adds
  that this is so of all packets but the one the reader has not logged yet. Two
  packets of one window never share a slot (`SlotsApart`), and the comparisons of
  16-bit numbers decide which of two packets came first (`AheadTells`,
  `BehindTells`); these are where the sizes in `TrackAssumption` are needed.

`TrackBufferProofs`, from the assumptions of `TrackBuffer` (the packets of the
stream are numbered one after the other, at most half of the numbers; the window
divides the numbers and is no longer than a jump; `gapKeyframeDelay` is below the
latency, as else there is no gap list, and `lossKeyframeInterval` is not above it,
as `livekit.go:67` demands), for any frames, losses, repeats, delays and sizes within
these:

- `TypeCorrect`, and `DuplicatesAreKnown`: `duplicate` tells exactly what has
  arrived before. No run has a property for either. The proofs speak of places in
  the stream where the code has wire numbers; `SerialIs`, `BeforeIs` and `InIs`
  translate, from lemmas on remainders at the head of the module, and `Tracked`
  says what the window and the gaps are of the packets arrived: a bit stands for
  one place (`BitsApart`), and gaps are intervals of places one after the other.
- `GapsCount` (`GapsAreExact`). What makes it inductive is that everything missing
  since the first open gap is in one of them: then the span that a merge gives the
  newest gap takes in no packet but those it adds to its count (`MergedIs`), and a
  late packet is taken from the one gap that counts it (`FilledIs`).
- `LossesAreRequested` (`GaveUpIsRequested`). A call of the jitter buffer gives up
  only on what is past its latency, and then reports a loss (`GaveUp`). A report
  is refused within `lossKeyframeInterval` of the last one, or while an early one
  is recent (`lossDue`); both intervals are no longer than what is given up has
  waited, but for the slack. `Reported` ties `loss` to `asked`.
- `ForgettingIsCovered` (`ForgottenIsCovered`). The invariant `Timed` dates the gaps
  by the loss of their first packets, in order (`Dated`), and says what a report
  settles (`Answered`): a gap that was open before the last report is still open
  only until `gapDue` is over, and only the push before can have shown a loss or
  brought a key frame since, the key frame after what was lost. `SettledAt` is what
  `gapDue` read under the lock it has released, while the timer may report. What
  `fill`, `add` and `due` take from the list is one lemma each (`FillSheds`,
  `AddSheds`, `UnsettledIs`).
- `Delivers` (`DeliversFrames`): every step hands on whole frames after all that
  was handed on, or nothing. `Good` says what the jitter buffer's list is: packets
  of the stream, by place, after what was released. One lemma per call (`PushKeeps`,
  `PopReadyKeeps`, `FlushKeeps`) shows that it stays so and that what is released is
  whole frames that come after (`Gives`): a run of successive numbers from a start to
  an end is a frame of the stream (`FrameAt`). `Released` carries it from the jitter
  buffer to `ready` and to the recorder.

No run checks `TypeOK` where a theorem states it; it was checked by TLC on the
instances of the module's runs before it was proved, and so was each inductive
invariant.

Left to TLC: liveness in every module, which TLAPS cannot prove here; and
`MicrophoneTrack`, whose `FramesApart` is no theorem for every value of the
constants: the clock keeps the last few of its steps to tell a late packet its
offset (`mediaClockSteps`), so the property depends on how many steps fit into a
delay, and an argument about it has to bound the sum of what they insert and take
back.

## Not modelled, and the plan

Not modelled because there is nothing to check: metrics counters and file output
of statistics (nothing reads them back), the debugging web page and the start-up
connectivity probe (`internal/server/http.go`, `livekit/health.go`), the replay
corpus tools and the seed generator, and codec and container bytes. Not modelled
yet: the rules by which a request is validated (one refusing step in
`SessionServer`), the Redis subscription with its backoff (while it is
re-established Redis drops what is published, and nothing in the code recovers
it), the key frame request queue of the LiveKit adapter, and the wiring of the
guard to the reconciler.

In order:

1. `SessionServer` with `ClientProtocol`, and its proofs. Done.
2. `FlowEvents`, `ConstraintBook`, `ConstraintReconciler`, `DiskPressure`. Done.
3. `MediasoupTrack` with the packet path and the sampler. Done.
4. `TrackBuffer` with `FrameDelivery`. Done.
5. `MicrophoneTrack` with `MediaClock`. Done.
6. `TrackReaders` with `TraceCapture`. Done.
7. Theorems about `FlowEvents`, `ConstraintBook`, `ConstraintReconciler`,
   `TrackReaders`, `MediasoupTrack` and `TrackBuffer`. Done. Next: `FramesApart`
   of `MicrophoneTrack`, under a bound on the steps within a delay.
8. `GuardedServer`: `DiskPressure` composed with `ConstraintReconciler` through
   `onChange`, in the order of `app.shutdown`: a lasting shortage caps every
   LiveKit capture.
9. `Subscription`: the Redis subscription with its backoff; request validation.
