---------------------------- MODULE FrameBuffer ----------------------------
(***************************************************************************)
(* media-sdk's jitter buffer, third_party/media-sdk/jitter: a list of       *)
(* packets by sequence number that is released a frame (a sample) at a      *)
(* time, in order, once complete; what is late for Latency is given up on.  *)
(* Operators go from one buffer to the next, each with its lock held.       *)
(***************************************************************************)
EXTENDS Integers, Sequences, FiniteSetsExt

CONSTANTS
  SeqMod,         \* wire sequence numbers are modulo SeqMod, 2^16 in the code
  ResetDistance,  \* a jump this large is a new stream, 3000 in the code
  Latency

Packets(Ids) ==
  [id : Ids, seq : 0 .. SeqMod - 1, start : BOOLEAN, end : BOOLEAN, media : BOOLEAN,
   discont : BOOLEAN, at : Nat]

\* list is from head to tail. out has the packets released by the last call,
\* loss whether it reported a loss, and gaveUp (history) when the packet
\* arrived before which, or with which, packets were given up on; 0 for none.
Buffers(Ids) ==
  [initialized : BOOLEAN, prevSN : 0 .. SeqMod - 1, list : Seq(Packets(Ids)),
   out : Seq(Packets(Ids)), loss : BOOLEAN, gaveUp : Nat]

NewBuffer ==
  [initialized |-> FALSE, prevSN |-> 0, list |-> <<>>, out |-> <<>>,
   loss |-> FALSE, gaveUp |-> 0]

\* before: so is a number before itself.
Before(a, b) == (b - a) % SeqMod < SeqMod \div 2
WithinRange(a, b) == (a - b) % SeqMod < ResetDistance \/ (b - a) % SeqMod < ResetDistance

\* A packet with discont starts a new stream: it is not waited for.
With(p, discont) == [p EXCEPT !.discont = discont /\ p.start]

InsertAt(q, k, p) == SubSeq(q, 1, k - 1) \o <<p>> \o SubSeq(q, k, Len(q))

\* Where push puts p: at either end, or where a search from the nearer end
\* stops. A packet from another stream goes to the tail.
Place(b, p) ==
  LET q == b.list
      n == Len(q)
      far(k) == ~WithinRange(p.seq, q[k].seq)
      new == ~b.initialized \/ ~WithinRange(p.seq, b.prevSN)
      behind == {k \in 1 .. n - 1 : far(k) \/ ~Before(p.seq, q[k].seq)}
      ahead == {k \in 2 .. n : far(k) \/ Before(p.seq, q[k].seq)}
  IN  IF n = 0 THEN <<With(p, new)>>
      ELSE IF Before(p.seq, q[1].seq) /\ ~far(1) THEN <<With(p, new)>> \o q
      ELSE IF ~Before(p.seq, q[n].seq) /\ ~far(n) THEN Append(q, p)
      ELSE IF ~far(n)
        THEN IF behind = {} THEN q
             ELSE LET k == Max(behind) IN InsertAt(q, k + 1, With(p, far(k)))
      ELSE IF ~far(1)
        THEN IF ahead = {} THEN q ELSE InsertAt(q, Min(ahead), p)
      ELSE Append(q, With(p, TRUE))

Successive(p, q) == q.seq = (p.seq + 1) % SeqMod

\* isComplete, of the packet at k of a list: it starts a frame, and the list
\* goes on without a hole to an end.
IsComplete(q, k) ==
  /\ q[k].start
  /\ \E e \in k .. Len(q) : q[e].end /\ \A i \in k .. e - 1 : Successive(q[i], q[i + 1])

Expired(p, now) == p.at + Latency <= now

\* The packets of a list at some of its places, in order.
PacketsAt(q, places) ==
  LET place == CHOOSE f \in [1 .. Cardinality(places) -> places] :
                 \A i, j \in DOMAIN f : i < j => f[i] < f[j]
  IN  [i \in DOMAIN place |-> q[place[i]]]

\* Mutation: a frame that is dropped is not a loss.
DropIncompleteQuietly(b, due) ==
  LET q == b.list
      stays == {k \in 1 .. Len(q) : IsComplete(q, k) \/ q[k] \notin due}
      n == Min(stays \cup {Len(q) + 1}) - 1
  IN  IF n = 0 THEN b
      ELSE [b EXCEPT !.list = SubSeq(q, n + 1, Len(q)), !.prevSN = q[n].seq,
                     !.gaveUp = Max({@} \cup {q[k].at : k \in 1 .. n})]

\* dropIncomplete: packets go from the head on, up to one that is not due (past
\* its latency) or starts a complete frame.
DropIncomplete(b, due) ==
  LET q == b.list
      stays == {k \in 1 .. Len(q) : IsComplete(q, k) \/ q[k] \notin due}
      n == Min(stays \cup {Len(q) + 1}) - 1
  IN  IF n = 0 THEN b
      ELSE [b EXCEPT !.list = SubSeq(q, n + 1, Len(q)), !.prevSN = q[n].seq, !.loss = TRUE,
                     !.gaveUp = Max({@} \cup {q[k].at : k \in 1 .. n})]

\* A frame at place k of the list follows what was popped before it, or starts
\* a stream. Else something is missing before it.
Follows(b, k) ==
  LET q == b.list IN
  \/ q[k].discont
  \/ k = 1 /\ (~b.initialized \/ q[k].seq = (b.prevSN + 1) % SeqMod)
  \/ k > 1 /\ Successive(q[k - 1], q[k])

\* The first n packets are complete frames, each of which follows the one before
\* or is due: then what is missing before it is given up on.
Begins(q, k) == k = 1 \/ q[k - 1].end
Poppable(b, due, n) ==
  LET q == b.list IN
  /\ q[n].end
  /\ \A k \in 1 .. n :
       IF Begins(q, k) THEN q[k].start /\ (Follows(b, k) \/ q[k] \in due)
       ELSE Successive(q[k - 1], q[k])

\* popSample, for as long as there is one to pop. Padding is not passed on.
PopFrames(b, due) ==
  LET q == b.list
      n == Max({0} \cup {k \in 1 .. Len(q) : Poppable(b, due, k)})
      late == {k \in 1 .. n : Begins(q, k) /\ ~Follows(b, k)}
  IN  IF n = 0 THEN b
      ELSE [b EXCEPT !.initialized = TRUE, !.prevSN = q[n].seq,
                     !.list = SubSeq(q, n + 1, Len(q)),
                     !.out = PacketsAt(q, {k \in 1 .. n : q[k].media}),
                     !.loss = @ \/ late # {},
                     !.gaveUp = Max({@} \cup {q[k].at : k \in late})]

\* popReady, in the timer's goroutine and at the end of every push.
PopReady(b, now) ==
  LET due == {p \in {b.list[k] : k \in DOMAIN b.list} : Expired(p, now)}
      fresh == [b EXCEPT !.out = <<>>, !.loss = FALSE]
  IN  PopFrames(DropIncomplete(fresh, due), due)

\* PushAt. Padding before the first frame is ignored. A packet of what is
\* released already is dropped: a loss, unless it is padding.
PushAt(b, p, now) ==
  IF ~p.media /\ ~b.initialized
    THEN PopReady(b, now)
  ELSE IF b.initialized /\ Before(p.seq, b.prevSN)
    THEN LET ready == PopReady(b, now) IN [ready EXCEPT !.loss = @ \/ p.media]
  ELSE PopReady([b EXCEPT !.list = Place(b, p)], now)

\* Flush: complete frames are released, the rest is dropped.
Flush(b) ==
  LET q == b.list
      released == {k \in 1 .. Len(q) : \E s \in 1 .. k :
                     IsComplete(q, s) /\ \A i \in s .. k - 1 : ~q[i].end}
  IN  IF q = <<>> THEN b
      ELSE [b EXCEPT !.initialized = @ \/ released # {}, !.prevSN = q[Len(q)].seq,
                     !.list = <<>>, !.out = PacketsAt(q, {k \in released : q[k].media})]
=============================================================================
