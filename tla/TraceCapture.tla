---------------------------- MODULE TraceCapture ----------------------------
(***************************************************************************)
(* A trace capture, trackCapture of internal/webrtc/livekit/capture.go:     *)
(* senders queue the records of a track's reads without waiting, and a      *)
(* writer goroutine writes them until close, the byte cap or a write error. *)
(* Operators go from one capture to the next, each with the lock held. Of a *)
(* record, only the time it was stamped with is kept.                       *)
(***************************************************************************)
EXTENDS Integers, Sequences, FiniteSetsExt

CONSTANT QueueLen  \* captureQueueLen

ASSUME QueueAssumption == QueueLen \in Nat \ {0}

\* at: "none", "run", "cut" (the cap is passed), "stop" (a write failed),
\* "skip" (the trace has ended, what is queued is ignored), "drained" (told to
\* close, its queue empty), "eof" (about to write the end record), "gone".
\* written has the records' times, reason and endAt are the end record's, once
\* decided, and sent (history) counts the records offered before that; a trace
\* that has ended no longer has them.
Captures ==
  [at : {"none", "run", "cut", "stop", "skip", "drained", "eof", "gone"},
   queue : Seq(Nat), closed : BOOLEAN, stopped : BOOLEAN, dropped : Nat, closeAt : Nat,
   written : Seq(Nat), reason : {"none", "complete", "dropped", "truncated"}, endAt : Nat,
   open : BOOLEAN, sent : Nat]

NoCapture ==
  [at |-> "none", queue |-> <<>>, closed |-> FALSE, stopped |-> FALSE, dropped |-> 0,
   closeAt |-> 0, written |-> <<>>, reason |-> "none", endAt |-> 0, open |-> FALSE, sent |-> 0]

\* newTrackCapture
NewCapture == [NoCapture EXCEPT !.at = "run", !.open = TRUE]

\* Mutation: a dropped record is not counted.
SendUncounted(c, time) ==
  IF c.closed \/ c.stopped THEN c
  ELSE IF Len(c.queue) < QueueLen
    THEN [c EXCEPT !.queue = Append(@, time), !.sent = @ + 1]
  ELSE [c EXCEPT !.sent = @ + 1]

\* send: a full queue drops the record.
Send(c, time) ==
  IF c.closed \/ c.stopped THEN c
  ELSE IF Len(c.queue) < QueueLen
    THEN [c EXCEPT !.queue = Append(@, time), !.sent = @ + 1]
  ELSE [c EXCEPT !.dropped = @ + 1, !.sent = @ + 1]

\* close, up to the wait for the writer.
CloseCapture(c, time) ==
  IF c.closed THEN c ELSE [c EXCEPT !.closed = TRUE, !.closeAt = time]

-----------------------------------------------------------------------------
(* The writer goroutine, run *)

\* Mutation: records keep the times they were stamped with.
StampedAsSent(c, time) == time

\* A record never takes a time before its predecessor's.
Stamped(c, time) == Max({time} \cup {c.written[k] : k \in DOMAIN c.written})

Taken(c) == [c EXCEPT !.queue = Tail(@)]
Wrote(c) == [Taken(c) EXCEPT !.written = Append(@, Stamped(c, Head(c.queue)))]

\* The next record: written, written past the cap, failed, or ignored.
WriteNext(c) ==
  IF c.queue = <<>> THEN {}
  ELSE CASE c.at = "run" -> {Wrote(c), [Wrote(c) EXCEPT !.at = "cut"],
                             [Taken(c) EXCEPT !.at = "stop"]}
         [] c.at = "skip" -> {Taken(c)}
         [] OTHER -> {}

\* What is queued is ignored until close; done is closed at the end.
Ended(c) ==
  [NoCapture EXCEPT !.at = IF c.closed /\ c.queue = <<>> THEN "gone" ELSE "skip",
                    !.queue = c.queue, !.closed = c.closed, !.stopped = TRUE]

\* stop, and both closes, after a failed write.
StopWriting(c) == IF c.at = "stop" THEN {Ended(c)} ELSE {}

\* The loop ends once the channel is closed and empty.
Drained(c) ==
  IF ~c.closed \/ c.queue # <<>> THEN {}
  ELSE CASE c.at = "run" -> {[c EXCEPT !.at = "drained"]}
         [] c.at = "skip" -> {Ended(c)}
         [] OTHER -> {}

\* finish, until it has released the lock: why and when the trace ends.
Finish(c) ==
  IF c.at \notin {"cut", "drained"} THEN {}
  ELSE {[c EXCEPT !.at = "eof", !.stopped = TRUE,
                  !.endAt = Stamped(c, IF c.at = "drained" THEN c.closeAt ELSE 0),
                  !.reason = IF c.dropped > 0 THEN "dropped"
                             ELSE IF c.at = "cut" THEN "truncated" ELSE "complete"]}

\* The end record and both closes, whatever fails.
WriteEnd(c) == IF c.at = "eof" THEN {Ended(c)} ELSE {}

WriterSteps(c) == WriteNext(c) \cup StopWriting(c) \cup Drained(c) \cup Finish(c) \cup WriteEnd(c)
=============================================================================
