---------------------------- MODULE WebmRecorder ----------------------------
(***************************************************************************)
(* The custom VP8 sampler of WebmRecorder, internal/webrtc/recorder/webm.go:*)
(* how the packets of a video track become the frames of the file. A packet *)
(* is a record of its number on the wire and what its VP8 descriptor says;  *)
(* a frame is the sequence of its packets' ids. Operators go from one       *)
(* recorder to the next; each is one critical section of its mutex m.       *)
(***************************************************************************)
EXTENDS Integers, Sequences

CONSTANTS
  SeqMod,      \* wire sequence numbers are modulo SeqMod
  PicMod,      \* picture ids are modulo PicMod, 2^15 in the code
  PicLate,     \* a picture id this far ahead is a late one, 0x7000 in the code
  NoInfo

\* What can befall a packet that reaches the sampler: nothing; its frame takes
\* longer than frameTimeout or exceeds maxFrameSize; its frame is invalid; the
\* writer fails.
Fates == {"fine", "overdue", "invalid", "unwritten"}

\* expectedNextSeq and lastPictureID are 0 before the first. file has the
\* frames written since the file was last opened, writers the opened writers.
NewRecorder ==
  [hasAudio |-> FALSE, hasValidAudio |-> FALSE, hasValidVideo |-> FALSE,
   closed |-> FALSE, writers |-> {}, file |-> <<>>,
   hasKeyFrame |-> FALSE, currentFrame |-> <<>>, currentFrameInfo |-> NoInfo,
   expectedNextSeq |-> 0, lastProcessedSeq |-> 0, lastPictureID |-> 0,
   lastSkippedSeq |-> 0, skipSignaled |-> FALSE]

FrameInfos == {NoInfo} \cup [start : 0 .. SeqMod - 1, pic : 0 .. PicMod - 1]

\* The recorders there can be, of packets with the given ids.
Recorders(ids) ==
  [hasAudio : BOOLEAN, hasValidAudio : BOOLEAN, hasValidVideo : BOOLEAN,
   closed : BOOLEAN, writers : SUBSET {"audio", "video"}, file : Seq(Seq(ids)),
   hasKeyFrame : BOOLEAN, currentFrame : Seq(ids),
   currentFrameInfo : FrameInfos,
   expectedNextSeq : 0 .. SeqMod - 1, lastProcessedSeq : 0 .. SeqMod - 1,
   lastPictureID : 0 .. PicMod - 1, lastSkippedSeq : 0 .. SeqMod - 1,
   skipSignaled : BOOLEAN]

Follows(seq, prev) == seq = (prev + 1) % SeqMod

DropFrame(r) == [r EXCEPT !.currentFrame = <<>>, !.currentFrameInfo = NoInfo]
AwaitKeyFrame(r) == [DropFrame(r) EXCEPT !.hasKeyFrame = FALSE]

\* isSequenceInRange
InRange(seq, start, end) ==
  IF start <= end THEN seq \in start .. end ELSE seq >= start \/ seq <= end

\* NotifySkippedPacket
NotifySkippedPacket(r, seq) ==
  LET told == [r EXCEPT !.lastSkippedSeq = seq, !.skipSignaled = TRUE]
      hit == /\ r.currentFrame # <<>>
             /\ \/ r.currentFrameInfo = NoInfo
                \/ InRange(seq, r.currentFrameInfo.start, r.lastProcessedSeq)
  IN  IF hit THEN AwaitKeyFrame(told) ELSE told

\* A gap that ends just after the skip that was signalled drops the frame in
\* progress; any other gap is only counted.
AtGap(r, p) ==
  LET gap == r.expectedNextSeq > 0 /\ p.seq # r.expectedNextSeq
      boundary == gap /\ r.skipSignaled /\ Follows(p.seq, r.lastSkippedSeq)
      cut == IF boundary /\ r.currentFrame # <<>> THEN DropFrame(r) ELSE r
  IN  [cut EXCEPT !.skipSignaled = @ /\ ~gap, !.lastProcessedSeq = p.seq,
                  !.expectedNextSeq = (p.seq + 1) % SeqMod]

\* Mutation: one missing picture is none.
PictureGapOfMany(r, p) ==
  LET diff == (p.pic - r.lastPictureID) % PicMod
  IN  r.lastPictureID > 0 /\ diff > 2 /\ diff < PicLate

\* The picture ids show that a frame is missing before the one p starts.
PictureGap(r, p) ==
  LET diff == (p.pic - r.lastPictureID) % PicMod
  IN  r.lastPictureID > 0 /\ diff > 1 /\ diff < PicLate

\* The start of a frame: a frame still in progress is incomplete, and dropped.
\* After a picture gap only a key frame is accepted.
StartFrame(r, p) ==
  LET cut == IF r.currentFrame # <<>> THEN AwaitKeyFrame(r) ELSE r
      begun == [cut EXCEPT !.currentFrameInfo = [start |-> p.seq, pic |-> p.pic]]
  IN  IF PictureGap(r, p) THEN [begun EXCEPT !.hasKeyFrame = p.key] ELSE begun

\* initWriter: opens the file anew, empty, with a writer for each track.
OpenFile(r) ==
  [r EXCEPT !.file = <<>>, !.writers = {"video"} \cup (IF r.hasAudio THEN {"audio"} ELSE {})]

\* The writers are opened by the first frame, and again by each one until
\* there are valid samples of both tracks.
NeedsWriters(r) ==
  \/ "video" \notin r.writers
  \/ r.hasAudio /\ ("audio" \notin r.writers \/ ~r.hasValidVideo \/ ~r.hasValidAudio)

WriteFrame(r, fate) ==
  LET open == IF NeedsWriters(r) THEN OpenFile(r) ELSE r
  IN  DropFrame([open EXCEPT
        !.file = IF fate = "unwritten" THEN @ ELSE Append(@, r.currentFrame),
        !.hasKeyFrame = fate # "unwritten",
        !.hasValidVideo = TRUE])

\* A frame whose last packet has come.
CompleteFrame(r, fate) ==
  LET named == IF r.currentFrameInfo = NoInfo THEN r
               ELSE [r EXCEPT !.lastPictureID = r.currentFrameInfo.pic]
  IN  IF fate = "invalid" THEN AwaitKeyFrame(named) ELSE WriteFrame(named, fate)

\* A packet joins the frame in progress, unless the sampler waits for a key
\* frame, the frame's start is not there, or the frame is overdue.
Assemble(r, p, fate) ==
  IF fate = "overdue" /\ r.currentFrame # <<>> THEN AwaitKeyFrame(r)
  ELSE IF ~r.hasKeyFrame /\ ~p.key THEN DropFrame(r)
  ELSE IF r.currentFrame = <<>> /\ ~p.start THEN AwaitKeyFrame(r)
  ELSE LET grown == [r EXCEPT !.hasKeyFrame = TRUE, !.currentFrame = Append(@, p.id)]
       IN  IF p.marker THEN CompleteFrame(grown, fate) ELSE grown

\* pushVP8Custom. Padding is ignored, and after a payload that is not VP8 the
\* sampler waits for a key frame. A packet that starts a partition other than
\* the first joins the frame in progress and never ends it.
PushVideo(r, p, fate) ==
  LET at == AtGap(r, p) IN
  IF r.closed \/ p.payload = "none" THEN r
  ELSE IF p.payload = "broken" THEN [at EXCEPT !.hasKeyFrame = FALSE]
  ELSE IF p.start /\ p.partition > 0 /\ at.currentFrameInfo # NoInfo
    THEN [at EXCEPT !.currentFrame = Append(@, p.id)]
  ELSE IF ~p.start THEN Assemble(at, p, fate)
  ELSE IF PictureGap(at, p) /\ ~p.key THEN StartFrame(at, p)
  ELSE Assemble(StartFrame(at, p), p, fate)

\* writeAudioFrame, once the sample builder releases a frame that advances.
WriteAudio(r, written) ==
  IF r.closed \/ ~r.hasAudio \/ "audio" \notin r.writers THEN r
  ELSE [r EXCEPT !.hasValidAudio = written]

Close(r) == [r EXCEPT !.closed = TRUE]
=============================================================================
