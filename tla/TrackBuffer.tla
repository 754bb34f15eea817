---------------------------- MODULE TrackBuffer ----------------------------
(***************************************************************************)
(* The buffer of a LiveKit video track, trackBuffer of                      *)
(* internal/webrtc/livekit/trackbuffer.go: duplicates are kept from the     *)
(* jitter buffer, and a loss is answered with a request for a key frame:    *)
(* when the jitter buffer gives up, or early, when a gap outlives its NACK. *)
(* The reader's push goes on in steps between which the jitter buffer's     *)
(* timer goroutine may run. A push takes no time; times start at 1 and 0 is *)
(* Go's zero time.                                                          *)
(***************************************************************************)
EXTENDS Integers, Sequences, FiniteSets, FiniteSetsExt

CONSTANTS
  Stream,         \* what is sent: seq, start, end, media and key of each packet
  SeqMod, ResetDistance, Latency,
  WindowSize,     \* seqWindowSize; divides SeqMod
  MaxOpenGaps,    \* maxOpenGaps
  GapDelay,       \* gapKeyframeDelay
  FirstNACK,      \* gapFirstNACK
  RepairWindow,   \* gapRepairWindow
  LossInterval,   \* lossKeyframeInterval
  Slack,          \* lossReportSlack
  MaxRepeats,     \* bound on the packets that arrive a second time
  MaxNow          \* bound on the time

\* Packets are numbered one after the other, fewer than half of the numbers.
ASSUME StreamAssumption ==
  /\ Stream \in Seq([seq : 0 .. SeqMod - 1, start : BOOLEAN, end : BOOLEAN, media : BOOLEAN,
                     key : BOOLEAN])
  /\ \A i \in DOMAIN Stream : Stream[i].seq = (Stream[1].seq + i - 1) % SeqMod
  /\ Len(Stream) <= SeqMod \div 2

ASSUME SizesAssumption ==
  /\ SeqMod \in Nat \ {0} /\ ResetDistance \in Nat /\ ResetDistance <= SeqMod \div 2
  /\ WindowSize \in Nat \ {0} /\ SeqMod % WindowSize = 0 /\ WindowSize <= ResetDistance
  /\ MaxOpenGaps \in Nat \ {0}

ASSUME DelaysAssumption ==
  /\ {Latency, GapDelay, FirstNACK, RepairWindow, LossInterval, Slack, MaxRepeats, MaxNow}
       \subseteq Nat
  /\ GapDelay < Latency /\ LossInterval <= Latency

JB == INSTANCE FrameBuffer

VARIABLES
  now,
  copies,   \* how often each packet has arrived
  seen,     \* the duplicate window
  gaps,     \* the numbers missing behind the newest packet
  keyframe, \* the newest key frame's first packet
  request,  \* the last early request, and whether it is pending
  jb,       \* the jitter buffer
  ready,    \* released and not yet taken by the reader
  loss,     \* when the last loss report and the last early one were
  ended,
  reader,   \* what the reader does, and settled of gapDue
  handed,   \* history: packets handed to the recorder
  asked,    \* history: when onLoss was last called
  opened,   \* history: when each packet was first missed
  keyAt     \* history: when a newest key frame last began to arrive

pushVars == <<seen, gaps, keyframe, copies, opened, keyAt>>
bufferVars == <<jb, ready, loss, asked>>
vars == <<now, pushVars, request, bufferVars, ended, reader, handed>>

Wires == 0 .. SeqMod - 1
Ids == 1 .. Len(Stream)
Wire(i) == Stream[i].seq
Arrived == {i \in Ids : copies[i] > 0}

\* int16(a - b)
Serial(a, b) ==
  LET d == (a - b) % SeqMod IN IF d < SeqMod \div 2 THEN d ELSE d - SeqMod

Jump(d) == d >= ResetDistance \/ d <= -ResetDistance

SeqNewer(seq, ref) == Serial(seq, ref) > 0 \/ Serial(seq, ref) <= -ResetDistance

Init ==
  /\ now = 1
  /\ copies = [i \in Ids |-> 0] /\ opened = [i \in Ids |-> 0] /\ keyAt = 0
  /\ seen = [started |-> FALSE, head |-> 0, bits |-> {}]
  /\ gaps = [started |-> FALSE, head |-> 0, open |-> <<>>, lastRead |-> 0, prevRead |-> 0]
  /\ keyframe = [has |-> FALSE, seq |-> 0]
  /\ request = [seq |-> 0, pending |-> FALSE]
  /\ jb = JB!NewBuffer /\ ready = <<>>
  /\ loss = [last |-> 0, early |-> 0] /\ asked = 0
  /\ ended = FALSE
  /\ reader = [at |-> "reading", settled |-> 0]
  /\ handed = <<>>

-----------------------------------------------------------------------------
(* The duplicate window *)

\* Mutation: the newest packet again is new.
DuplicateAfterHead(w, seq) ==
  LET dist == Serial(seq, w.head)
      bit == seq % WindowSize
  IN  IF ~w.started \/ Jump(dist)
        THEN [yes |-> FALSE, window |-> [started |-> TRUE, head |-> seq, bits |-> {bit}]]
      ELSE IF dist >= 0
        THEN LET passed == {(w.head + i) % WindowSize : i \in 1 .. dist}
             IN  [yes |-> FALSE,
                  window |-> [w EXCEPT !.head = seq, !.bits = (@ \ passed) \cup {bit}]]
      ELSE IF -dist >= WindowSize THEN [yes |-> FALSE, window |-> w]
      ELSE [yes |-> bit \in w.bits, window |-> [w EXCEPT !.bits = @ \cup {bit}]]

\* duplicate, and the window with seq recorded. A number from before the
\* window is too old to tell.
Duplicate(w, seq) ==
  LET dist == Serial(seq, w.head)
      bit == seq % WindowSize
  IN  IF ~w.started \/ Jump(dist)
        THEN [yes |-> FALSE, window |-> [started |-> TRUE, head |-> seq, bits |-> {bit}]]
      ELSE IF dist > 0
        THEN LET passed == {(w.head + i) % WindowSize : i \in 1 .. dist}
             IN  [yes |-> FALSE,
                  window |-> [w EXCEPT !.head = seq, !.bits = (@ \ passed) \cup {bit}]]
      ELSE IF -dist >= WindowSize THEN [yes |-> FALSE, window |-> w]
      ELSE [yes |-> bit \in w.bits, window |-> [w EXCEPT !.bits = @ \cup {bit}]]

-----------------------------------------------------------------------------
(* The gaps *)

\* seqGaps.read: a gap old enough gets its first NACK with this read.
ReadAt(g, t) ==
  [g EXCEPT !.prevRead = g.lastRead, !.lastRead = t,
            !.open = [k \in DOMAIN @ |->
              IF @[k].nacked = 0 /\ t - @[k].since >= FirstNACK
                THEN [@[k] EXCEPT !.nacked = t] ELSE @[k]]]

In(gap, seq) == (seq - gap.first) % SeqMod <= gap.span

\* fill: a late packet is taken from the oldest gap with its number.
Fill(open, seq) ==
  LET hits == {k \in DOMAIN open : In(open[k], seq)} IN
  IF hits = {} THEN open
  ELSE LET k == Min(hits) IN
       IF open[k].missing = 1
         THEN SubSeq(open, 1, k - 1) \o SubSeq(open, k + 1, Len(open))
         ELSE [open EXCEPT ![k].missing = @ - 1]

\* Mutation: a merged loss adds no missing packets.
AddSeqUncounted(g, seq, t) ==
  LET dist == Serial(seq, g.head)
      n == Len(g.open)
      gap == [first |-> (g.head + 1) % SeqMod, span |-> dist - 2, missing |-> dist - 1,
              since |-> t, nacked |-> 0]
  IN  IF ~g.started \/ Jump(dist) THEN [g EXCEPT !.started = TRUE, !.head = seq, !.open = <<>>]
      ELSE IF dist > 1 /\ n < MaxOpenGaps
        THEN [g EXCEPT !.head = seq, !.open = Append(@, gap)]
      ELSE IF dist > 1
        THEN [g EXCEPT !.head = seq, !.open[n].span = (seq - 1 - g.open[n].first) % SeqMod]
      ELSE IF dist = 1 THEN [g EXCEPT !.head = seq]
      ELSE [g EXCEPT !.open = Fill(@, seq)]

\* add. With maxOpenGaps open, a new gap is merged into the newest.
AddSeq(g, seq, t) ==
  LET dist == Serial(seq, g.head)
      n == Len(g.open)
      gap == [first |-> (g.head + 1) % SeqMod, span |-> dist - 2, missing |-> dist - 1,
              since |-> t, nacked |-> 0]
  IN  IF ~g.started \/ Jump(dist) THEN [g EXCEPT !.started = TRUE, !.head = seq, !.open = <<>>]
      ELSE IF dist > 1 /\ n < MaxOpenGaps
        THEN [g EXCEPT !.head = seq, !.open = Append(@, gap)]
      ELSE IF dist > 1
        THEN [g EXCEPT !.head = seq,
                       !.open[n].span = (seq - 1 - g.open[n].first) % SeqMod,
                       !.open[n].missing = @ + dist - 1]
      ELSE IF dist = 1 THEN [g EXCEPT !.head = seq]
      ELSE [g EXCEPT !.open = Fill(@, seq)]

\* due: gaps opened at or before settled are forgotten; the oldest one left is
\* due once it is old enough and its first NACK could have been answered.
Unsettled(open, settled) ==
  LET after == {k \in DOMAIN open : open[k].since > settled}
  IN  IF after = {} THEN <<>> ELSE SubSeq(open, Min(after), Len(open))

Due(g, t) ==
  /\ g.open # <<>>
  /\ LET gap == Head(g.open) IN
       /\ t - gap.since >= GapDelay
       /\ gap.nacked # 0 /\ g.prevRead - gap.nacked >= RepairWindow

-----------------------------------------------------------------------------
(* Loss reports *)

\* lossDue. A report of the jitter buffer is not repeated while the key frame
\* of an early one follows what it gives up on.
LossDue(early) ==
  /\ ~ended
  /\ loss.last = 0 \/ now - loss.last >= LossInterval
  /\ early \/ loss.early = 0 \/ now - loss.early >= Latency + Slack

Report(early) ==
  /\ loss' = [last |-> now, early |-> IF early THEN now ELSE loss.early]
  /\ asked' = now

\* A call of the jitter buffer: enqueue what it releases, and its loss handler.
Use(b) ==
  /\ jb' = [b EXCEPT !.out = <<>>, !.loss = FALSE]
  /\ ready' = ready \o b.out
  /\ IF b.loss /\ LossDue(FALSE) THEN Report(FALSE) ELSE UNCHANGED <<loss, asked>>

-----------------------------------------------------------------------------
(* Push *)

At(step) == reader.at = step
Goes(step) == reader' = [reader EXCEPT !.at = step]

Packet(i) ==
  [id |-> i, seq |-> Wire(i), start |-> Stream[i].start, end |-> Stream[i].end,
   media |-> Stream[i].media, at |-> now, discont |-> FALSE]

\* Mutation: what expires is counted from gapKeyframeDelay.
SettledEarly(l) == Max({l.last, now - GapDelay})

\* What gapDue takes as answered, read under the lock it then releases.
Settled(l) == Max({l.last, now - Latency})

\* A packet arrives, late, out of order or again: push, until gapDue releases
\* the lock. The timer has nothing to do between PushAt and that.
Push(i) ==
  LET check == Duplicate(seen, Wire(i))
      read == ReadAt(gaps, now)
      newKey == Stream[i].key /\ (~keyframe.has \/ SeqNewer(Wire(i), keyframe.seq))
      missed == IF Arrived = {} THEN {} ELSE Max(Arrived) + 1 .. i - 1
  IN
  /\ At("reading")
  /\ \/ copies[i] = 0
     \/ copies[i] = 1 /\ Cardinality({j \in Ids : copies[j] = 2}) < MaxRepeats
  /\ \A j \in Arrived : j - i < WindowSize
  /\ copies' = [copies EXCEPT ![i] = @ + 1]
  /\ opened' = [j \in Ids |-> IF j \in missed THEN now ELSE opened[j]]
  /\ seen' = check.window
  /\ IF check.yes
       THEN gaps' = read /\ UNCHANGED <<keyframe, keyAt, bufferVars>>
       ELSE /\ gaps' = AddSeq(read, Wire(i), now)
            /\ keyframe' = IF newKey THEN [has |-> TRUE, seq |-> Wire(i)] ELSE keyframe
            /\ keyAt' = IF newKey THEN now ELSE keyAt
            /\ Use(JB!PushAt(jb, Packet(i), now))
  /\ reader' = [at |-> "due", settled |-> Settled(loss')]
  /\ UNCHANGED <<now, request, ended, handed>>

\* The rest of gapDue. A request stays pending until a newer key frame comes.
GapDue ==
  LET open == Unsettled(gaps.open, reader.settled)
      kept == [gaps EXCEPT !.open = open]
      pending == request.pending /\ ~(keyframe.has /\ SeqNewer(keyframe.seq, request.seq))
      newest == open[Len(open)]
  IN
  /\ At("due")
  /\ gaps' = kept
  /\ IF (Due(kept, now) \/ pending) /\ LossDue(TRUE)
       THEN /\ Report(TRUE)
            /\ request' = IF open = <<>> THEN [request EXCEPT !.pending = pending]
                          ELSE [seq |-> (newest.first + newest.span) % SeqMod, pending |-> TRUE]
       ELSE /\ request' = [request EXCEPT !.pending = pending]
            /\ UNCHANGED <<loss, asked>>
  /\ reader' = [at |-> "take", settled |-> 0]
  /\ UNCHANGED <<now, seen, keyframe, copies, opened, keyAt, jb, ready, ended, handed>>

\* takeReady; the reader writes what it takes.
TakeReady ==
  /\ At("take")
  /\ handed' = handed \o [k \in DOMAIN ready |-> ready[k].id]
  /\ ready' = <<>>
  /\ Goes("reading")
  /\ UNCHANGED <<now, pushVars, request, jb, loss, asked, ended>>

\* flush, at the end of the track. It leaves the timer nothing to release, and
\* asks for no key frame.
EndTrack ==
  /\ At("reading") /\ ended' = TRUE
  /\ Goes("flush")
  /\ UNCHANGED <<now, pushVars, request, bufferVars, handed>>

Flush ==
  LET b == JB!Flush(jb)
      last == ready \o b.out IN
  /\ At("flush")
  /\ jb' = [b EXCEPT !.out = <<>>, !.loss = FALSE]
  /\ handed' = handed \o [k \in DOMAIN last |-> last[k].id]
  /\ ready' = <<>>
  /\ Goes("over")
  /\ UNCHANGED <<now, pushVars, request, loss, asked, ended>>

-----------------------------------------------------------------------------
(* Time *)

HeadExpires == jb.list[1].at + Latency

\* The timer's goroutine, up to Slack late.
Expire ==
  /\ jb.list # <<>> /\ HeadExpires <= now
  /\ Use(JB!PopReady(jb, now))
  /\ UNCHANGED <<now, pushVars, request, ended, reader, handed>>

Tick ==
  /\ At("reading") /\ Arrived # {} /\ now < MaxNow
  /\ jb.list # <<>> => now < HeadExpires + Slack
  /\ now' = now + 1
  /\ UNCHANGED <<pushVars, request, bufferVars, ended, reader, handed>>

Next ==
  \/ \E i \in Ids : Push(i)
  \/ GapDue \/ TakeReady
  \/ EndTrack \/ Flush
  \/ Expire \/ Tick

Spec == Init /\ [][Next]_vars

-----------------------------------------------------------------------------
(* Types *)

Gap == [first : Wires, span : Nat, missing : Nat \ {0}, since : Nat, nacked : Nat]

TypeOK ==
  /\ now \in Nat \ {0} /\ ended \in BOOLEAN
  /\ copies \in [Ids -> 0 .. 2] /\ opened \in [Ids -> Nat] /\ keyAt \in Nat
  /\ seen \in [started : BOOLEAN, head : Wires, bits : SUBSET (0 .. WindowSize - 1)]
  /\ gaps \in [started : BOOLEAN, head : Wires, open : Seq(Gap), lastRead : Nat, prevRead : Nat]
  /\ keyframe \in [has : BOOLEAN, seq : Wires]
  /\ request \in [seq : Wires, pending : BOOLEAN]
  /\ jb \in JB!Buffers(Ids) /\ ready \in Seq(JB!Packets(Ids))
  /\ loss \in [last : Nat, early : Nat] /\ asked \in Nat
  /\ reader \in [at : {"reading", "due", "take", "flush", "over"}, settled : Nat]
  /\ handed \in Seq(Ids)

-----------------------------------------------------------------------------
(* Properties *)

\* Frames of the stream: a packet with start begins one, which goes on to the
\* next end; without its padding.
FrameStarts == {i \in Ids : Stream[i].start /\ \E j \in i .. Len(Stream) : Stream[j].end}
FrameFrom(i) == {j \in i .. Len(Stream) : Stream[j].media /\ \A k \in i .. j - 1 : ~Stream[k].end}
SentFrames == {FrameFrom(i) : i \in FrameStarts}

Delivery == INSTANCE FrameDelivery WITH
  Frames <- SentFrames,
  handed <- handed,
  over <- At("over")

\* The recorder gets whole frames, in order, each once, whatever is lost,
\* late, reordered or sent again, and whenever the timer runs.
DeliversFrames == Delivery!Spec

\* Whatever the jitter buffer gives up on, a key frame has been asked for since
\* it came, or so little before that the key frame follows it.
GaveUpIsRequested == ~ended => jb.gaveUp <= asked + Slack

\* Open gaps count what is missing in them, across wraps and merges.
Missing(gap) == {i \in Ids : copies[i] = 0 /\ In(gap, Wire(i))}
GapsAreExact ==
  \A k \in DOMAIN gaps.open : gaps.open[k].missing = Cardinality(Missing(gaps.open[k]))

\* A packet still missing leaves the gaps only when a key frame that follows
\* it has begun to arrive, or has been asked for: since the packet was missed,
\* or before, with the key frame of that request still to come. Else the first
\* packet of its gap has been missing for as long as the jitter buffer waits,
\* which reports what it gives up on; or a new stream has begun. So a loss
\* merged into a gap is never forgotten for a request that came before it and
\* is answered already.
InGaps(i, open) == \E k \in DOMAIN open : In(open[k], Wire(i))
OpenFor(gap, age) == \E j \in Ids : Wire(j) = gap.first /\ now - opened[j] >= age
NewStream == \E j \in Arrived' : j - Max(Arrived) >= ResetDistance
ForgottenIsCovered ==
  [][\A i \in Ids :
       copies'[i] = 0 /\ InGaps(i, gaps.open) /\ ~InGaps(i, gaps'.open) =>
         \/ keyframe.has /\ SeqNewer(keyframe.seq, Wire(i))
         \/ asked >= opened[i]
         \/ asked > 0 /\ keyAt <= asked
         \/ \E k \in DOMAIN gaps.open : In(gaps.open[k], Wire(i)) /\ OpenFor(gaps.open[k], Latency)
         \/ NewStream]_vars
=============================================================================
