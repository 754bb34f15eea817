---------------------------- MODULE TrackReaders ----------------------------
(***************************************************************************)
(* The subscriptions of one LiveKit track and the close of the adapter      *)
(* (onTrackSubscribed, readTrack, Close of internal/webrtc/livekit): each   *)
(* subscription starts an rtpdump, a trace capture and a reader; sender     *)
(* reports are captured beside the reader; Close waits a while for readers, *)
(* closes the dump and the recorder, then the captures. A track subscribed  *)
(* again reuses both files.                                                 *)
(***************************************************************************)
EXTENDS TraceCapture

CONSTANTS
  Subs,      \* the track's subscriptions
  None,
  MaxReads,  \* bound on the reads
  MaxReports,\* bound on the sender reports
  MaxNow     \* bound on the time

ASSUME NoneAssumption == None \notin Subs
ASSUME BoundsAssumption == MaxReads \in Nat /\ MaxReports \in Nat /\ MaxNow \in Nat

VARIABLES
  now,
  reads,      \* the reads left
  sub,        \* what each subscription's goroutine does, and what it waits for
  capture,    \* the trace captures, by the subscription that started them
  stored,     \* traceCaptures of the track
  noCaptures, \* traceCapturesClosed
  dump,       \* the stored rtpdump, the open ones, and whether no more are
  readers,    \* the readers that Close waits for, and readersClosed
  rtcp,       \* the sender report being captured
  closer      \* what Close does, and whether it stopped waiting for readers

vars == <<now, reads, sub, capture, stored, noCaptures, dump, readers, rtcp, closer>>

NoSub == [at |-> "none", waits |-> None, uses |-> None, time |-> 0, early |-> FALSE,
          crossed |-> FALSE]

TypeOK ==
  /\ now \in 0..MaxNow /\ reads \in 0..MaxReads
  /\ sub \in [Subs -> [at : {"none", "dump", "take", "close earlier", "open", "store",
                              "close other", "start", "pick", "read", "send", "end", "gone"},
                       waits : Subs \cup {None}, uses : Subs \cup {None}, time : 0..MaxNow,
                       early : BOOLEAN, crossed : BOOLEAN]]
  /\ capture \in [Subs -> Captures]
  /\ stored \in Subs \cup {None} /\ noCaptures \in BOOLEAN
  /\ dump \in [stored : Subs \cup {None}, open : SUBSET Subs, closed : BOOLEAN]
  /\ readers \in [running : SUBSET Subs, closed : BOOLEAN]
  /\ rtcp \in [to : Subs \cup {None}, time : 0..MaxNow, left : 0..MaxReports]
  /\ closer \in [at : {"open", "wait readers", "dumps", "recorder", "captures",
                        "close captures", "wait captures", "closed"},
                  waits : Subs \cup {None}, late : BOOLEAN]

At(s, place) == sub[s].at = place
Goes(s, place) == sub' = [sub EXCEPT ![s].at = place]
Waits(s, place, c) == sub' = [sub EXCEPT ![s].at = place, ![s].waits = c]
Gone(c) == IF c = None THEN TRUE ELSE capture[c].at = "gone"
Close(c) == capture' = [capture EXCEPT ![c] = CloseCapture(@, now)]
CloseAny(c) == IF c = None THEN UNCHANGED capture ELSE Close(c)

Init ==
  /\ now = 0 /\ reads = MaxReads
  /\ sub = [s \in Subs |-> NoSub]
  /\ capture = [s \in Subs |-> NoCapture]
  /\ stored = None /\ noCaptures = FALSE
  /\ dump = [stored |-> None, open |-> {}, closed |-> FALSE]
  /\ readers = [running |-> {}, closed |-> FALSE]
  /\ rtcp = [to |-> None, time |-> 0, left |-> MaxReports]
  /\ closer = [at |-> "open", waits |-> None, late |-> FALSE]

-----------------------------------------------------------------------------
(* The rtpdump *)

\* closeRTPDump
CloseDump(d) == [d EXCEPT !.open = @ \ {d.stored}, !.stored = None]

\* onTrackSubscribed; openRTPDump closes the dump of an earlier subscription
\* and creates its own.
Subscribe(s) ==
  /\ At(s, "none") /\ Goes(s, "dump")
  /\ dump' = [CloseDump(dump) EXCEPT !.open = @ \cup {s}]
  /\ UNCHANGED <<now, reads, capture, stored, noCaptures, readers, rtcp, closer>>

\* A subscription can land after Close.
StoreDump(s) ==
  /\ At(s, "dump") /\ Goes(s, "take")
  /\ dump' = IF dump.closed THEN [dump EXCEPT !.open = @ \ {s}]
             ELSE [CloseDump(dump) EXCEPT !.stored = s]
  /\ UNCHANGED <<now, reads, capture, stored, noCaptures, readers, rtcp, closer>>

-----------------------------------------------------------------------------
(* openTraceCapture *)

Opening(s) == sub[s].at \in {"close earlier", "open", "store"}

\* Two subscriptions that open captures at a time have crossed.
Takes(s, c) ==
  LET others == {t \in Subs \ {s} : Opening(t)} IN
  sub' = [t \in Subs |->
    IF t \in others THEN [sub[t] EXCEPT !.crossed = TRUE]
    ELSE IF t = s THEN [sub[t] EXCEPT !.at = "close earlier", !.waits = c,
                                      !.crossed = others # {}]
    ELSE sub[t]]

\* Mutation: the earlier capture is left to its reader.
TakeNothing(s) ==
  /\ At(s, "take") /\ Takes(s, None)
  /\ stored' = None
  /\ UNCHANGED <<now, reads, capture, noCaptures, dump, readers, rtcp, closer>>

TakeEarlier(s) ==
  /\ At(s, "take") /\ Takes(s, stored)
  /\ stored' = None
  /\ UNCHANGED <<now, reads, capture, noCaptures, dump, readers, rtcp, closer>>

CloseEarlier(s) ==
  /\ At(s, "close earlier") /\ Goes(s, "open")
  /\ CloseAny(sub[s].waits)
  /\ UNCHANGED <<now, reads, stored, noCaptures, dump, readers, rtcp, closer>>

\* The file is truncated and the capture started, or cannot be.
Open(s) ==
  /\ At(s, "open") /\ Gone(sub[s].waits)
  /\ Waits(s, "store", None)
  /\ capture' = [capture EXCEPT ![s] = NewCapture]
  /\ UNCHANGED <<now, reads, stored, noCaptures, dump, readers, rtcp, closer>>

OpenFails(s) ==
  /\ At(s, "open") /\ Gone(sub[s].waits)
  /\ Waits(s, "start", None)
  /\ UNCHANGED <<now, reads, capture, stored, noCaptures, dump, readers, rtcp, closer>>

\* Mutation: a subscription after Close keeps its capture.
StoreAlways(s) ==
  /\ At(s, "store")
  /\ stored' = s /\ Waits(s, "close other", stored)
  /\ UNCHANGED <<now, reads, capture, noCaptures, dump, readers, rtcp, closer>>

\* The capture closed next is another subscription's or, after Close, its own.
Store(s) ==
  /\ At(s, "store")
  /\ IF noCaptures THEN Waits(s, "close other", s) /\ UNCHANGED stored
     ELSE Waits(s, "close other", stored) /\ stored' = s
  /\ UNCHANGED <<now, reads, capture, noCaptures, dump, readers, rtcp, closer>>

CloseOther(s) ==
  /\ At(s, "close other") /\ Goes(s, "start")
  /\ CloseAny(sub[s].waits)
  /\ UNCHANGED <<now, reads, stored, noCaptures, dump, readers, rtcp, closer>>

-----------------------------------------------------------------------------
(* The reader, readTrack *)

Starts(s) ==
  /\ At(s, "start") /\ Gone(sub[s].waits)
  /\ sub' = [sub EXCEPT ![s].at = "pick", ![s].waits = None, ![s].crossed = FALSE,
                         ![s].early = ~readers.closed]
  /\ UNCHANGED <<now, reads, capture, stored, noCaptures, dump, rtcp, closer>>

\* Mutation: the reader is not added to the group.
StartAlone(s) == Starts(s) /\ UNCHANGED readers

\* startReader
StartReader(s) ==
  /\ Starts(s)
  /\ readers' = [readers EXCEPT !.running = IF readers.closed THEN @ ELSE @ \cup {s}]

\* The reader takes whatever capture its track has.
Pick(s) ==
  /\ At(s, "pick")
  /\ sub' = [sub EXCEPT ![s].at = "read", ![s].uses = stored]
  /\ UNCHANGED <<now, reads, capture, stored, noCaptures, dump, readers, rtcp, closer>>

\* Time passes between records.
TimePasses == now' \in now .. MaxNow

\* ReadRTP returns, a packet or a timeout: observe stamps the record.
Read(s) ==
  /\ At(s, "read") /\ reads > 0 /\ reads' = reads - 1 /\ TimePasses
  /\ sub' = [sub EXCEPT ![s].at = "send", ![s].time = now']
  /\ UNCHANGED <<capture, stored, noCaptures, dump, readers, rtcp, closer>>

\* The record is queued and the packet goes to the recorder.
Observe(s) ==
  LET c == sub[s].uses IN
  /\ At(s, "send") /\ sub' = [sub EXCEPT ![s].at = "read", ![s].time = 0]
  /\ IF c = None THEN UNCHANGED capture
     ELSE capture' = [capture EXCEPT ![c] = Send(@, sub[s].time)]
  /\ UNCHANGED <<now, reads, stored, noCaptures, dump, readers, rtcp, closer>>

\* The track ends: what its buffer held is recorded, and the reader closes the
\* capture it uses.
EndRead(s) ==
  /\ At(s, "read") /\ Waits(s, "end", sub[s].uses)
  /\ CloseAny(sub[s].uses)
  /\ UNCHANGED <<now, reads, stored, noCaptures, dump, readers, rtcp, closer>>

EndReader(s) ==
  /\ At(s, "end") /\ Gone(sub[s].waits)
  /\ sub' = [sub EXCEPT ![s] = [NoSub EXCEPT !.at = "gone"]]
  /\ readers' = [readers EXCEPT !.running = @ \ {s}]
  /\ UNCHANGED <<now, reads, capture, stored, noCaptures, dump, rtcp, closer>>

-----------------------------------------------------------------------------
(* Sender reports, captured on lksdk's goroutine, and the writers *)

\* captureSenderReport finds the capture and stamps the record, then sends it.
FindCapture ==
  /\ rtcp.to = None /\ rtcp.left > 0 /\ stored # None
  /\ TimePasses
  /\ rtcp' = [to |-> stored, time |-> now', left |-> rtcp.left - 1]
  /\ UNCHANGED <<reads, sub, capture, stored, noCaptures, dump, readers, closer>>

SendReport ==
  /\ rtcp.to # None
  /\ capture' = [capture EXCEPT ![rtcp.to] = Send(@, rtcp.time)]
  /\ rtcp' = [rtcp EXCEPT !.to = None, !.time = 0]
  /\ UNCHANGED <<now, reads, sub, stored, noCaptures, dump, readers, closer>>

Writer(c) ==
  /\ \E next \in WriterSteps(capture[c]) : capture' = [capture EXCEPT ![c] = next]
  /\ UNCHANGED <<now, reads, sub, stored, noCaptures, dump, readers, rtcp, closer>>

-----------------------------------------------------------------------------
(* Close *)

CloserGoes(from, to) == closer.at = from /\ closer' = [closer EXCEPT !.at = to]

\* Room and requests are done; waitForReaders starts to wait.
BeginClose ==
  /\ CloserGoes("open", "wait readers")
  /\ readers' = [readers EXCEPT !.closed = TRUE]
  /\ UNCHANGED <<now, reads, sub, capture, stored, noCaptures, dump, rtcp>>

\* Mutation: readers are waited for however long they take.
WaitedForAll ==
  /\ CloserGoes("wait readers", "dumps") /\ readers.running = {}
  /\ UNCHANGED <<now, reads, sub, capture, stored, noCaptures, dump, readers, rtcp>>

\* waitForReaders: all have ended, or readersCloseTimeout has passed.
Waited ==
  /\ closer.at = "wait readers"
  /\ closer' = [closer EXCEPT !.at = "dumps", !.late = readers.running # {}]
  /\ UNCHANGED <<now, reads, sub, capture, stored, noCaptures, dump, readers, rtcp>>

CloseDumps ==
  /\ CloserGoes("dumps", "recorder")
  /\ dump' = [CloseDump(dump) EXCEPT !.closed = TRUE]
  /\ UNCHANGED <<now, reads, sub, capture, stored, noCaptures, readers, rtcp>>

CloseRecorder ==
  /\ CloserGoes("recorder", "captures")
  /\ UNCHANGED <<now, reads, sub, capture, stored, noCaptures, dump, readers, rtcp>>

\* closeTraceCaptures
TakeCaptures ==
  /\ closer.at = "captures" /\ closer' = [closer EXCEPT !.at = "close captures", !.waits = stored]
  /\ stored' = None /\ noCaptures' = TRUE
  /\ UNCHANGED <<now, reads, sub, capture, dump, readers, rtcp>>

CloseCaptures ==
  /\ CloserGoes("close captures", "wait captures")
  /\ CloseAny(closer.waits)
  /\ UNCHANGED <<now, reads, sub, stored, noCaptures, dump, readers, rtcp>>

EndClose ==
  /\ closer.at = "wait captures" /\ Gone(closer.waits)
  /\ closer' = [closer EXCEPT !.at = "closed", !.waits = None]
  /\ UNCHANGED <<now, reads, sub, capture, stored, noCaptures, dump, readers, rtcp>>

SubStep(s) ==
  \/ StoreDump(s) \/ TakeEarlier(s) \/ CloseEarlier(s) \/ Open(s) \/ OpenFails(s) \/ Store(s) \/ CloseOther(s)
  \/ StartReader(s) \/ Pick(s) \/ Observe(s) \/ EndReader(s)

CloseStep ==
  Waited \/ CloseDumps \/ CloseRecorder \/ TakeCaptures \/ CloseCaptures \/ EndClose

Next ==
  \/ \E s \in Subs : Subscribe(s) \/ SubStep(s) \/ Read(s) \/ EndRead(s)
  \/ FindCapture \/ SendReport
  \/ \E c \in Subs : Writer(c)
  \/ BeginClose \/ CloseStep

Spec == Init /\ [][Next]_vars

\* A reader may hang in the recorder; the writers and Close go on.
FairSpec == Spec /\ WF_vars(CloseStep \/ \E c \in Subs : Writer(c))

-----------------------------------------------------------------------------
(* Properties *)

\* A trace that ends as complete has every record offered before it was closed;
\* one cut or with records dropped says so.
EndIsHonest ==
  \A c \in Subs : capture[c].reason = "complete" => Len(capture[c].written) = capture[c].sent

\* A trace's times never go back, though its senders stamp records before they
\* queue them, and its end is the last.
TimesInOrder ==
  \A c \in Subs :
    LET w == capture[c].written IN
    /\ \A k \in 1 .. Len(w) - 1 : w[k] <= w[k + 1]
    /\ capture[c].reason # "none" => \A k \in DOMAIN w : w[k] <= capture[c].endAt

\* A subscription truncates the trace's file only once earlier captures of the
\* track have stopped writing, unless subscriptions that opened captures at the
\* same time have not yet closed each other's, or Close has begun to close the
\* captures.
StopsFirst ==
  [][\A s \in Subs :
       capture[s].at = "none" /\ capture'[s].at = "run" =>
         \/ \A c \in Subs : ~capture[c].open
         \/ \E t \in Subs : sub[t].crossed
         \/ noCaptures]_vars

\* Once the recorder is closed, no reader that started before Close still has a
\* packet or a tail for it, unless Close has waited for it in vain.
RecorderClosed == closer.at \in {"captures", "close captures", "wait captures", "closed"}
TailIsRecorded ==
  RecorderClosed /\ ~closer.late =>
    \A s \in Subs : sub[s].early => sub[s].at \notin {"pick", "read", "send"}

\* Nothing is left open by a closed adapter and its subscriptions.
SettingUp(s) ==
  sub[s].at \notin {"none", "gone", "pick", "read", "send", "end"}
NothingLeftOpen ==
  closer.at = "closed" /\ (\A s \in Subs : ~SettingUp(s)) =>
    dump.open = {} /\ \A c \in Subs : ~capture[c].open

\* Close returns, though a reader hangs.
CloseReturns == closer.at # "open" ~> closer.at = "closed"
=============================================================================
