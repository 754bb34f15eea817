------------------------- MODULE TrackReadersProofs -------------------------
(***************************************************************************)
(* What is proved of a LiveKit track's readers and trace captures, for any  *)
(* subscriptions, queue length and number of reads: the type invariant,     *)
(* that a trace says why it ends and its times are in order, that a trace's *)
(* file is truncated only once earlier captures have stopped, that no       *)
(* reader still has a packet for a closed recorder, and that nothing is     *)
(* left open.                                                               *)
(***************************************************************************)
EXTENDS TrackReaders, SequenceTheorems, TLAPS

-----------------------------------------------------------------------------
(* The inductive invariant *)

IsSorted(w) == \A i, j \in DOMAIN w : i <= j => w[i] <= w[j]

\* A capture has written, still queues or has dropped each record offered, until
\* a write fails or its cap is passed; it writes in order, and nothing is
\* offered once its end is decided.
Good(c) ==
  /\ c.at \in {"none", "run", "drained"} => Len(c.written) + Len(c.queue) + c.dropped = c.sent
  /\ c.at = "drained" => c.closed /\ c.queue = <<>>
  /\ c.reason # "none" => c.at = "eof"
  /\ c.at = "eof" => c.stopped
  /\ c.reason = "complete" => Len(c.written) = c.sent
  /\ IsSorted(c.written)
  /\ c.reason # "none" => \A k \in DOMAIN c.written : c.written[k] <= c.endAt
  /\ c.open => c.at \notin {"none", "skip", "gone"}

GoodCaptures == \A c \in Subs : Good(capture[c])

\* Close has begun once no more readers may start; the group has each reader
\* that started before, and is empty once Close has waited for it.
ReadersInGroup ==
  /\ \A s \in Subs : sub[s].early /\ sub[s].at \in {"pick", "read", "send", "end"}
                       => s \in readers.running
  /\ closer.at # "open" => readers.closed
  /\ closer.at \notin {"open", "wait readers"} /\ ~closer.late => readers.running = {}

\* An open dump is the stored one or its subscription is about to store it, and
\* Close leaves none stored.
DumpsOwned ==
  /\ dump.open \subseteq {dump.stored} \cup {s \in Subs : At(s, "dump")}
  /\ dump.closed => dump.stored = None
  /\ closer.at \notin {"open", "wait readers", "dumps"} => dump.closed

\* An open capture is the stored one, or a subscription or Close has it.
Owned(c) ==
  \/ c = stored \/ At(c, "store")
  \/ \E t \in Subs : /\ sub[t].waits = c
                     /\ sub[t].at \in {"close earlier", "open", "close other", "start"}
  \/ closer.waits = c /\ closer.at \in {"close captures", "wait captures"}

CapturesOwned ==
  /\ \A c \in Subs : capture[c].open => Owned(c)
  /\ noCaptures <=> closer.at \in {"close captures", "wait captures", "closed"}
  /\ noCaptures => stored = None

\* Two subscriptions that open captures have crossed, and one alone finds none
\* stored: what it closes later is its own, after Close, or one it crossed.
Crossings ==
  /\ \A s, t \in Subs : Opening(s) /\ Opening(t) /\ s # t => sub[s].crossed
  /\ \A s \in Subs : Opening(s) /\ ~sub[s].crossed => stored = None
  /\ \A s \in Subs : sub[s].at \in {"close other", "start"} /\ sub[s].waits # None
                       => noCaptures \/ sub[s].crossed

Inv ==
  TypeOK /\ GoodCaptures /\ ReadersInGroup /\ DumpsOwned /\ CapturesOwned /\ Crossings

-----------------------------------------------------------------------------
(* One capture *)

\* What is appended to times in order, and is no less than any, keeps the order.
LEMMA AppendSorted ==
  ASSUME NEW w \in Seq(Nat), IsSorted(w), NEW e \in Nat, \A k \in DOMAIN w : w[k] <= e
  PROVE  Append(w, e) \in Seq(Nat) /\ IsSorted(Append(w, e))
<1> DEFINE v == Append(w, e)
<1>1. /\ v \in Seq(Nat) /\ Len(v) = Len(w) + 1 /\ v[Len(w) + 1] = e
      /\ \A i \in 1..Len(w) : v[i] = w[i]
  BY AppendProperties
<1>2. Len(w) \in Nat /\ DOMAIN w = 1..Len(w) /\ DOMAIN v = 1..(Len(w) + 1)
  BY <1>1, LenProperties
<1>3. \A i \in DOMAIN w : w[i] \in Nat
  BY <1>2, ElementOfSeq
<1> HIDE DEF v
<1>4. ASSUME NEW i \in DOMAIN v, NEW j \in DOMAIN v, i <= j
      PROVE  v[i] <= v[j]
  <2>1. CASE j \in 1..Len(w)
    <3>1. i \in 1..Len(w)
      BY <1>2, <1>4, <2>1
    <3> QED BY <1>1, <1>2, <1>4, <2>1, <3>1 DEF IsSorted
  <2>2. CASE j = Len(w) + 1
    <3>1. i \in 1..Len(w) \/ i = j
      BY <1>2, <1>4, <2>2
    <3>2. v[j] = e
      BY <1>1, <2>2
    <3>3. CASE i \in 1..Len(w)
      BY <1>1, <1>2, <3>2, <3>3
    <3>4. CASE i = j
      BY <3>2, <3>4
    <3> QED BY <3>1, <3>3, <3>4
  <2> QED BY <1>2, <2>1, <2>2
<1> QED BY <1>1, <1>4 DEF v, IsSorted

\* A record's time is no less than what it was stamped with, nor than any
\* written before.
LEMMA StampedIs ==
  ASSUME NEW c \in Captures, IsSorted(c.written), NEW time \in Nat
  PROVE  /\ Stamped(c, time) \in Nat /\ time <= Stamped(c, time)
         /\ \A k \in DOMAIN c.written : c.written[k] <= Stamped(c, time)
<1> DEFINE w == c.written
           S == {time} \cup {w[k] : k \in DOMAIN w}
<1>1. w \in Seq(Nat) /\ Len(w) \in Nat /\ DOMAIN w = 1..Len(w)
  BY LenProperties DEF Captures
<1>2. S \subseteq Nat
  BY <1>1, ElementOfSeq
<1>3. \E x \in S : \A y \in S : x >= y
  <2>1. CASE Len(w) = 0
    BY <1>1, <2>1
  <2>2. CASE Len(w) # 0
    <3> DEFINE l == w[Len(w)]
    <3>1. Len(w) \in DOMAIN w
      BY <1>1, <2>2
    <3>2. l \in S /\ l \in Nat
      BY <1>2, <3>1
    <3>3. \A k \in DOMAIN w : w[k] <= l
      BY <1>1, <3>1 DEF IsSorted
    <3>4. CASE time <= l
      BY <1>2, <3>2, <3>3, <3>4
    <3>5. CASE ~(time <= l)
      <4>1. \A y \in S : time >= y
        BY <1>2, <3>2, <3>3, <3>5
      <4> QED BY <4>1
    <3> QED BY <3>4, <3>5
  <2> QED BY <2>1, <2>2
<1>4. Max(S) \in S /\ \A y \in S : Max(S) >= y
  BY <1>3 DEF Max
<1>5. Stamped(c, time) = Max(S)
  BY DEF Stamped
<1>6. \A k \in DOMAIN w : w[k] \in S
  OBVIOUS
<1> HIDE DEF S
<1>7. time \in S
  BY DEF S
<1> QED BY <1>2, <1>4, <1>5, <1>6, <1>7

LEMMA NoneWritten == IsSorted(<<>>) /\ <<>> \in Seq(Nat) /\ Len(<<>>) = 0 /\ DOMAIN <<>> = {}
<1>1. <<>> \in Seq(Nat) /\ Len(<<>>) = 0
  BY EmptySeq
<1>2. DOMAIN <<>> = {}
  OBVIOUS
<1> QED BY <1>1, <1>2 DEF IsSorted

LEMMA NewIsGood ==
  /\ NoCapture \in Captures /\ Good(NoCapture) /\ ~NoCapture.open /\ NoCapture.at = "none"
  /\ NewCapture \in Captures /\ Good(NewCapture)
<1>1. NoCapture \in Captures
  BY NoneWritten DEF NoCapture, Captures
<1>2. Good(NoCapture) /\ ~NoCapture.open /\ NoCapture.at = "none"
  BY NoneWritten DEF NoCapture, Good
<1>3. NewCapture \in Captures
  BY NoneWritten DEF NoCapture, NewCapture, Captures
<1>4. /\ NewCapture.at = "run" /\ NewCapture.written = <<>> /\ NewCapture.queue = <<>>
      /\ NewCapture.dropped = 0 /\ NewCapture.sent = 0 /\ NewCapture.reason = "none"
  BY DEF NewCapture, NoCapture
<1>5. Good(NewCapture)
  BY <1>4, NoneWritten DEF Good
<1> QED BY <1>1, <1>2, <1>3, <1>5

LEMMA EndedIsGood ==
  ASSUME NEW c \in Captures
  PROVE  /\ Ended(c) \in Captures /\ Good(Ended(c)) /\ ~Ended(c).open
         /\ Ended(c).at \in {"skip", "gone"}
<1> DEFINE e == Ended(c)
<1>1. e \in Captures
  BY NoneWritten DEF Ended, NoCapture, Captures
<1>2. /\ e.at \in {"skip", "gone"} /\ e.written = <<>> /\ e.reason = "none" /\ e.open = FALSE
  BY DEF Ended, NoCapture
<1> HIDE DEF e
<1>3. Good(e)
  BY <1>2, NoneWritten DEF Good
<1> QED BY <1>1, <1>2, <1>3 DEF e

\* The counts of what is written, queued and dropped, and of what was offered.
Counted(c) == Len(c.written) + Len(c.queue) + c.dropped = c.sent

LEMMA OneMore ==
  ASSUME NEW c \in Captures, Counted(c)
  PROVE  /\ Len(c.written) + (Len(c.queue) + 1) + c.dropped = c.sent + 1
         /\ Len(c.written) + Len(c.queue) + (c.dropped + 1) = c.sent + 1
         /\ (Len(c.written) + 1) + (Len(c.queue) - 1) + c.dropped = c.sent
         /\ c.queue = <<>> /\ c.dropped = 0 => Len(c.written) = c.sent
<1> DEFINE w == c.written
           q == c.queue
           d == c.dropped
           n == c.sent
<1>1. Len(w) \in Nat /\ Len(q) \in Nat /\ d \in Nat /\ n \in Nat
  BY LenProperties DEF Captures
<1>2. Len(w) + Len(q) + d = n
  BY DEF Counted
<1>3. q = <<>> => Len(q) = 0
  BY NoneWritten
<1> HIDE DEF w, q, d, n
<1>4. /\ Len(w) + (Len(q) + 1) + d = n + 1 /\ Len(w) + Len(q) + (d + 1) = n + 1
      /\ (Len(w) + 1) + (Len(q) - 1) + d = n
      /\ Len(q) = 0 /\ d = 0 => Len(w) = n
  BY <1>1, <1>2
<1> QED BY <1>3, <1>4 DEF w, q, d, n

LEMMA SendIsGood ==
  ASSUME NEW c \in Captures, Good(c), NEW time \in Nat
  PROVE  /\ Send(c, time) \in Captures /\ Good(Send(c, time))
         /\ Send(c, time).open = c.open /\ Send(c, time).at = c.at
<1> DEFINE d == Send(c, time)
<1>0. c.queue \in Seq(Nat) /\ Len(c.queue) \in Nat /\ Len(c.written) \in Nat
      /\ c.dropped \in Nat /\ c.sent \in Nat /\ c.sent + 1 \in Nat /\ c.dropped + 1 \in Nat
  BY LenProperties DEF Captures
<1>a. c.at \in {"none", "run", "drained"} => Counted(c)
  BY DEF Good, Counted
<1>1. CASE c.closed \/ c.stopped
  BY <1>1 DEF Send
<1>2. CASE ~(c.closed \/ c.stopped) /\ Len(c.queue) < QueueLen
  <2>1. d = [c EXCEPT !.queue = Append(@, time), !.sent = @ + 1]
    BY <1>2 DEF Send
  <2>2. /\ d.queue = Append(c.queue, time) /\ d.sent = c.sent + 1
        /\ d.at = c.at /\ d.closed = c.closed /\ d.stopped = c.stopped /\ d.dropped = c.dropped
        /\ d.written = c.written /\ d.reason = c.reason /\ d.endAt = c.endAt /\ d.open = c.open
    BY <2>1 DEF Captures
  <2>3. Append(c.queue, time) \in Seq(Nat) /\ Len(Append(c.queue, time)) = Len(c.queue) + 1
    BY <1>0, AppendProperties
  <2>4. d \in Captures
    <3> DEFINE q == Append(c.queue, time)
               n == c.sent + 1
    <3>1. d = [c EXCEPT !.queue = q, !.sent = n] /\ q \in Seq(Nat) /\ n \in Nat
      BY <1>0, <2>1, <2>3 DEF Captures
    <3> HIDE DEF q, n, d
    <3> QED BY <3>1 DEF Captures
  <2> HIDE DEF d
  <2>5. c.at # "drained" /\ c.reason = "none" /\ c.at # "eof"
    BY <1>2 DEF Good
  <2>6. Len(d.queue) = Len(c.queue) + 1
    BY <2>2, <2>3
  <2>7. d.at \in {"none", "run", "drained"}
          => Len(d.written) + Len(d.queue) + d.dropped = d.sent
    <3>1. Len(d.written) = Len(c.written) /\ d.dropped = c.dropped /\ d.sent = c.sent + 1 /\ d.at = c.at
      BY <2>2
    <3>2. c.at \in {"none", "run", "drained"}
            => Len(c.written) + (Len(c.queue) + 1) + c.dropped = c.sent + 1
      BY <1>a, OneMore
    <3> QED BY <2>6, <3>1, <3>2
  <2>8. Good(d)
    BY <2>2, <2>5, <2>7 DEF Good
  <2> QED BY <2>2, <2>4, <2>8 DEF d
<1>3. CASE ~(c.closed \/ c.stopped) /\ ~(Len(c.queue) < QueueLen)
  <2>1. d = [c EXCEPT !.dropped = @ + 1, !.sent = @ + 1]
    BY <1>3 DEF Send
  <2>2. /\ d.dropped = c.dropped + 1 /\ d.sent = c.sent + 1 /\ d.queue = c.queue
        /\ d.at = c.at /\ d.closed = c.closed /\ d.stopped = c.stopped
        /\ d.written = c.written /\ d.reason = c.reason /\ d.endAt = c.endAt /\ d.open = c.open
    BY <2>1 DEF Captures
  <2>4. d \in Captures
    <3> DEFINE q == c.dropped + 1
               n == c.sent + 1
    <3>1. d = [c EXCEPT !.dropped = q, !.sent = n] /\ q \in Nat /\ n \in Nat
      BY <1>0, <2>1 DEF Captures
    <3> HIDE DEF q, n, d
    <3> QED BY <3>1 DEF Captures
  <2> HIDE DEF d
  <2>5. c.at # "drained" /\ c.reason = "none" /\ c.at # "eof"
    BY <1>3 DEF Good
  <2>7. d.at \in {"none", "run", "drained"}
          => Len(d.written) + Len(d.queue) + d.dropped = d.sent
    <3>1. Len(d.written) = Len(c.written) /\ Len(d.queue) = Len(c.queue)
          /\ d.dropped = c.dropped + 1 /\ d.sent = c.sent + 1 /\ d.at = c.at
      BY <2>2
    <3>2. c.at \in {"none", "run", "drained"}
            => Len(c.written) + Len(c.queue) + (c.dropped + 1) = c.sent + 1
      BY <1>a, OneMore
    <3> QED BY <3>1, <3>2
  <2>8. Good(d)
    BY <2>2, <2>5, <2>7 DEF Good
  <2> QED BY <2>2, <2>4, <2>8 DEF d
<1> QED BY <1>1, <1>2, <1>3

LEMMA CloseIsGood ==
  ASSUME NEW c \in Captures, Good(c), NEW time \in Nat
  PROVE  /\ CloseCapture(c, time) \in Captures /\ Good(CloseCapture(c, time))
         /\ CloseCapture(c, time).open = c.open /\ CloseCapture(c, time).at = c.at
<1> DEFINE d == CloseCapture(c, time)
<1>1. CASE c.closed
  BY <1>1 DEF CloseCapture
<1>2. CASE ~c.closed
  <2>1. d = [c EXCEPT !.closed = TRUE, !.closeAt = time]
    BY <1>2 DEF CloseCapture
  <2>2. /\ d.closed = TRUE /\ d.dropped = c.dropped /\ d.sent = c.sent /\ d.queue = c.queue
        /\ d.at = c.at /\ d.stopped = c.stopped /\ d.written = c.written
        /\ d.reason = c.reason /\ d.endAt = c.endAt /\ d.open = c.open
    BY <2>1 DEF Captures
  <2>3. d \in Captures
    BY <2>1 DEF Captures
  <2> HIDE DEF d
  <2>4. Good(d)
    BY <2>2 DEF Good
  <2> QED BY <2>2, <2>3, <2>4 DEF d
<1> QED BY <1>1, <1>2

\* The writer takes what is queued first, and writes it.
LEMMA WroteIs ==
  ASSUME NEW c \in Captures, IsSorted(c.written), c.queue # <<>>
  PROVE  /\ Taken(c) \in Captures /\ Taken(c) = [c EXCEPT !.queue = Tail(c.queue)]
         /\ Wrote(c) \in Captures
         /\ Wrote(c).written \in Seq(Nat) /\ IsSorted(Wrote(c).written)
         /\ Len(Wrote(c).written) = Len(c.written) + 1
         /\ Len(Wrote(c).queue) = Len(c.queue) - 1
         /\ Wrote(c).at = c.at /\ Wrote(c).closed = c.closed /\ Wrote(c).stopped = c.stopped
         /\ Wrote(c).dropped = c.dropped /\ Wrote(c).sent = c.sent
         /\ Wrote(c).reason = c.reason /\ Wrote(c).endAt = c.endAt /\ Wrote(c).open = c.open
<1> DEFINE e == Stamped(c, Head(c.queue))
           x == Taken(c)
           y == Wrote(c)
<1>1. c.queue \in Seq(Nat) /\ c.written \in Seq(Nat)
  BY DEF Captures
<1>2. Head(c.queue) \in Nat /\ Tail(c.queue) \in Seq(Nat) /\ Len(Tail(c.queue)) = Len(c.queue) - 1
  BY <1>1, HeadTailProperties
<1>3. e \in Nat /\ \A k \in DOMAIN c.written : c.written[k] <= e
  BY <1>2, StampedIs
<1>4. x = [c EXCEPT !.queue = Tail(c.queue)]
  BY DEF Taken
<1>5. x \in Captures /\ x.written = c.written
  BY <1>2, <1>4 DEF Captures
<1>6. y = [x EXCEPT !.written = Append(c.written, e)]
  BY <1>5 DEF Wrote
<1> HIDE DEF e
<1>7. Append(c.written, e) \in Seq(Nat) /\ IsSorted(Append(c.written, e))
      /\ Len(Append(c.written, e)) = Len(c.written) + 1
  BY <1>1, <1>3, AppendSorted, AppendProperties
<1>8. y \in Captures
  BY <1>5, <1>6, <1>7 DEF Captures
<1>9. /\ y.written = Append(c.written, e) /\ y.queue = Tail(c.queue)
      /\ y.at = c.at /\ y.closed = c.closed /\ y.stopped = c.stopped
      /\ y.dropped = c.dropped /\ y.sent = c.sent
      /\ y.reason = c.reason /\ y.endAt = c.endAt /\ y.open = c.open
  <2> HIDE DEF x, y
  <2>1. /\ y.written = Append(c.written, e) /\ y.queue = x.queue
        /\ y.at = x.at /\ y.closed = x.closed /\ y.stopped = x.stopped
        /\ y.dropped = x.dropped /\ y.sent = x.sent
        /\ y.reason = x.reason /\ y.endAt = x.endAt /\ y.open = x.open
    BY <1>5, <1>6 DEF Captures
  <2>2. /\ x.queue = Tail(c.queue)
        /\ x.at = c.at /\ x.closed = c.closed /\ x.stopped = c.stopped
        /\ x.dropped = c.dropped /\ x.sent = c.sent
        /\ x.reason = c.reason /\ x.endAt = c.endAt /\ x.open = c.open
    BY <1>4 DEF Captures
  <2> QED BY <2>1, <2>2
<1> QED BY <1>2, <1>4, <1>5, <1>7, <1>8, <1>9

\* Whatever the writer does next, its capture stays good.
LEMMA WriterIsGood ==
  ASSUME NEW c \in Captures, Good(c), NEW d \in WriterSteps(c)
  PROVE  d \in Captures /\ Good(d) /\ (d.open => c.open) /\ (d.at = "run" => c.at = "run")
<1>0. /\ c.written \in Seq(Nat) /\ c.queue \in Seq(Nat)
      /\ Len(c.queue) \in Nat /\ Len(c.written) \in Nat
      /\ c.dropped \in Nat /\ c.sent \in Nat /\ c.closeAt \in Nat
      /\ IsSorted(c.written)
  BY LenProperties DEF Captures, Good
<1>1. CASE d \in WriteNext(c)
  <2>0. c.queue # <<>> /\ c.at \in {"run", "skip"}
    BY <1>1 DEF WriteNext
  <2> DEFINE w == Wrote(c)
  <2>1. /\ Taken(c) \in Captures /\ Taken(c) = [c EXCEPT !.queue = Tail(c.queue)]
        /\ w \in Captures /\ w.written \in Seq(Nat) /\ IsSorted(w.written)
        /\ Len(w.written) = Len(c.written) + 1 /\ Len(w.queue) = Len(c.queue) - 1
        /\ w.at = c.at /\ w.closed = c.closed /\ w.stopped = c.stopped
        /\ w.dropped = c.dropped /\ w.sent = c.sent
        /\ w.reason = c.reason /\ w.endAt = c.endAt /\ w.open = c.open
    BY <1>0, <2>0, WroteIs
  <2> HIDE DEF w
  <2>2. CASE c.at = "run" /\ d = w
    <3>1. Len(c.written) + Len(c.queue) + c.dropped = c.sent /\ c.reason = "none"
      BY <2>2 DEF Good
    <3>2. Len(w.written) + Len(w.queue) + w.dropped = w.sent
      <4>1. (Len(c.written) + 1) + (Len(c.queue) - 1) + c.dropped = c.sent
        BY <3>1, OneMore DEF Counted
      <4> QED BY <2>1, <4>1
    <3>3. Good(w)
      BY <2>1, <2>2, <3>1, <3>2 DEF Good
    <3> QED BY <2>1, <2>2, <3>3
  <2>3. CASE c.at = "run" /\ d = [w EXCEPT !.at = "cut"]
    <3>1. /\ d \in Captures /\ d.at = "cut" /\ d.written = w.written /\ d.reason = w.reason
          /\ d.open = w.open
      BY <2>1, <2>3 DEF Captures
    <3>2. c.reason = "none"
      BY <2>3 DEF Good
    <3>3. Good(d)
      BY <2>1, <3>1, <3>2 DEF Good
    <3> QED BY <2>1, <2>3, <3>1, <3>3
  <2>4. CASE c.at = "run" /\ d = [Taken(c) EXCEPT !.at = "stop"]
    <3>1. /\ d \in Captures /\ d.at = "stop" /\ d.written = c.written /\ d.reason = c.reason
          /\ d.open = c.open
      BY <2>1, <2>4 DEF Captures
    <3>2. c.reason = "none"
      BY <2>4 DEF Good
    <3>3. Good(d)
      BY <1>0, <3>1, <3>2 DEF Good
    <3> QED BY <2>4, <3>1, <3>3
  <2>5. CASE c.at = "skip" /\ d = Taken(c)
    <3>1. /\ d \in Captures /\ d.at = "skip" /\ d.written = c.written /\ d.reason = c.reason
          /\ d.open = c.open
      BY <2>1, <2>5 DEF Captures
    <3>2. c.reason = "none" /\ ~c.open
      BY <2>5 DEF Good
    <3>3. Good(d)
      BY <1>0, <3>1, <3>2 DEF Good
    <3> QED BY <3>1, <3>2, <3>3
  <2> QED BY <1>1, <2>0, <2>2, <2>3, <2>4, <2>5 DEF WriteNext, w
<1>2. CASE d = Ended(c)
  BY <1>2, EndedIsGood
<1>3. CASE d \in Drained(c) /\ d # Ended(c)
  <2>1. c.closed /\ c.queue = <<>> /\ c.at = "run" /\ d = [c EXCEPT !.at = "drained"]
    BY <1>3 DEF Drained
  <2>2. /\ d \in Captures /\ d.at = "drained" /\ d.closed = c.closed /\ d.queue = c.queue
        /\ d.written = c.written /\ d.reason = c.reason /\ d.open = c.open
        /\ d.dropped = c.dropped /\ d.sent = c.sent
    BY <2>1 DEF Captures
  <2>3. Good(d)
    BY <2>1, <2>2 DEF Good
  <2> QED BY <2>1, <2>2, <2>3
<1>4. CASE d \in Finish(c)
  <2> DEFINE end == Stamped(c, IF c.at = "drained" THEN c.closeAt ELSE 0)
             why == IF c.dropped > 0 THEN "dropped"
                    ELSE IF c.at = "cut" THEN "truncated" ELSE "complete"
  <2>1. /\ c.at \in {"cut", "drained"}
        /\ d = [c EXCEPT !.at = "eof", !.stopped = TRUE, !.endAt = end, !.reason = why]
    BY <1>4 DEF Finish
  <2>2. end \in Nat /\ \A k \in DOMAIN c.written : c.written[k] <= end
    BY <1>0, StampedIs
  <2>3. why \in {"complete", "dropped", "truncated"}
    OBVIOUS
  <2>4. why = "complete" => Len(c.written) = c.sent
    <3>1. why = "complete" => c.at = "drained" /\ c.dropped = 0
      BY <1>0, <2>1
    <3>2. c.at = "drained" => Counted(c) /\ c.queue = <<>>
      BY DEF Good, Counted
    <3> HIDE DEF why
    <3>3. c.at = "drained" /\ c.dropped = 0 => Len(c.written) = c.sent
      BY <3>2, OneMore
    <3> QED BY <3>1, <3>3
  <2> HIDE DEF end, why
  <2>5. /\ d \in Captures /\ d.at = "eof" /\ d.stopped = TRUE /\ d.endAt = end /\ d.reason = why
        /\ d.written = c.written /\ d.sent = c.sent /\ d.open = c.open
    BY <2>1, <2>2, <2>3 DEF Captures
  <2>6. Good(d)
    BY <1>0, <2>2, <2>4, <2>5 DEF Good
  <2> QED BY <2>5, <2>6
<1> QED
  BY <1>1, <1>2, <1>3, <1>4 DEF WriterSteps, StopWriting, WriteEnd

-----------------------------------------------------------------------------
(* The captures of a track *)

\* What can become of a capture other than its start.
After(c) ==
  {c, CloseCapture(c, now)} \cup {Send(c, time) : time \in 0..MaxNow} \cup WriterSteps(c)

LEMMA AfterIsGood ==
  ASSUME now \in Nat, NEW c \in Captures, Good(c), NEW d \in After(c)
  PROVE  d \in Captures /\ Good(d) /\ (d.open => c.open) /\ (d.at = "run" => c.at = "run")
<1>1. CASE d = c
  BY <1>1
<1>2. CASE d = CloseCapture(c, now)
  BY <1>2, CloseIsGood
<1>3. CASE \E time \in 0..MaxNow : d = Send(c, time)
  <2>1. PICK time \in Nat : d = Send(c, time)
    BY <1>3
  <2> QED BY <2>1, SendIsGood
<1>4. CASE d \in WriterSteps(c)
  BY <1>4, WriterIsGood
<1> QED BY <1>1, <1>2, <1>3, <1>4 DEF After

\* At most one capture changes in a step, and only Open starts one.
LEMMA CaptureChanges ==
  ASSUME TypeOK, Next
  PROVE  \/ UNCHANGED capture
         \/ \E c \in Subs : \E d \in After(capture[c]) : capture' = [capture EXCEPT ![c] = d]
         \/ \E s \in Subs : Open(s) /\ capture' = [capture EXCEPT ![s] = NewCapture]
<1> DEFINE Changes == \E c \in Subs : \E d \in After(capture[c]) : capture' = [capture EXCEPT ![c] = d]
<1>1. ASSUME NEW c \in Subs \cup {None}, CloseAny(c)
      PROVE  UNCHANGED capture \/ Changes
  <2>1. c # None => capture' = [capture EXCEPT ![c] = CloseCapture(capture[c], now)]
    BY <1>1 DEF CloseAny, Close
  <2>2. CloseCapture(capture[c], now) \in After(capture[c])
    BY DEF After
  <2> QED BY <1>1, <2>1, <2>2 DEF CloseAny
<1>2. ASSUME NEW c \in Subs, NEW time \in 0..MaxNow,
             capture' = [capture EXCEPT ![c] = Send(@, time)]
      PROVE  Changes
  <2>1. Send(capture[c], time) \in After(capture[c])
    BY DEF After
  <2> QED BY <1>2, <2>1
<1>3. ASSUME NEW s \in Subs, CloseEarlier(s) \/ CloseOther(s) \/ EndRead(s)
      PROVE  UNCHANGED capture \/ Changes
  <2>1. sub[s].waits \in Subs \cup {None} /\ sub[s].uses \in Subs \cup {None}
    BY DEF TypeOK
  <2> QED BY <1>1, <1>3, <2>1 DEF CloseEarlier, CloseOther, EndRead
<1>4. ASSUME CloseCaptures
      PROVE  UNCHANGED capture \/ Changes
  <2>1. closer.waits \in Subs \cup {None}
    BY DEF TypeOK
  <2> QED BY <1>1, <1>4, <2>1 DEF CloseCaptures
<1>5. ASSUME NEW s \in Subs, Observe(s)
      PROVE  UNCHANGED capture \/ Changes
  <2>1. sub[s].uses \in Subs \cup {None} /\ sub[s].time \in 0..MaxNow
    BY DEF TypeOK
  <2> QED BY <1>2, <1>5, <2>1 DEF Observe
<1>6. ASSUME SendReport
      PROVE  Changes
  <2>1. rtcp.to \in Subs /\ rtcp.time \in 0..MaxNow
    BY <1>6 DEF SendReport, TypeOK
  <2> QED BY <1>2, <1>6, <2>1 DEF SendReport
<1>7. ASSUME NEW c \in Subs, Writer(c)
      PROVE  Changes
  BY <1>7 DEF Writer, After
<1>8. ASSUME NEW s \in Subs, Open(s)
      PROVE  Open(s) /\ capture' = [capture EXCEPT ![s] = NewCapture]
  BY <1>8 DEF Open
<1>9. ASSUME NEW s \in Subs,
             \/ Subscribe(s) \/ StoreDump(s) \/ TakeEarlier(s) \/ OpenFails(s) \/ Store(s)
             \/ StartReader(s) \/ Pick(s) \/ EndReader(s) \/ Read(s)
      PROVE  UNCHANGED capture
  BY <1>9
  DEF Subscribe, StoreDump, TakeEarlier, OpenFails, Store, StartReader, Starts, Pick, EndReader, Read
<1>10. ASSUME FindCapture \/ BeginClose \/ Waited \/ CloseDumps \/ CloseRecorder
              \/ TakeCaptures \/ EndClose
       PROVE  UNCHANGED capture
  BY <1>10 DEF FindCapture, BeginClose, Waited, CloseDumps, CloseRecorder, TakeCaptures, EndClose
<1> HIDE DEF Changes
<1>11. ASSUME NEW s \in Subs, Subscribe(s) \/ SubStep(s) \/ Read(s) \/ EndRead(s)
       PROVE  UNCHANGED capture \/ Changes
              \/ \E t \in Subs : Open(t) /\ capture' = [capture EXCEPT ![t] = NewCapture]
  BY <1>3, <1>5, <1>8, <1>9, <1>11 DEF SubStep
<1>12. ASSUME CloseStep
       PROVE  UNCHANGED capture \/ Changes
  BY <1>4, <1>10, <1>12 DEF CloseStep
<1>13. UNCHANGED capture \/ Changes
       \/ \E t \in Subs : Open(t) /\ capture' = [capture EXCEPT ![t] = NewCapture]
  BY <1>6, <1>7, <1>10, <1>11, <1>12 DEF Next
<1> QED BY <1>13 DEF Changes

LEMMA CaptureStep ==
  ASSUME TypeOK, GoodCaptures, Next
  PROVE  /\ capture' \in [Subs -> Captures] /\ GoodCaptures'
         /\ \A c \in Subs : capture'[c].open => capture[c].open \/ Open(c)
         /\ \A c \in Subs : capture[c].at = "none" /\ capture'[c].at = "run" => Open(c)
<1>0. capture \in [Subs -> Captures] /\ now \in Nat
  <2>1. capture \in [Subs -> Captures] /\ now \in 0..MaxNow
    BY DEF TypeOK
  <2> QED BY <2>1, BoundsAssumption
<1>1. CASE UNCHANGED capture
  BY <1>0, <1>1 DEF GoodCaptures
<1>2. ASSUME NEW c \in Subs, NEW d \in After(capture[c]), capture' = [capture EXCEPT ![c] = d]
      PROVE  /\ capture' \in [Subs -> Captures] /\ GoodCaptures'
             /\ \A x \in Subs : capture'[x].open => capture[x].open
             /\ \A x \in Subs : capture'[x].at = "run" => capture[x].at = "run"
  <2>1. capture[c] \in Captures /\ Good(capture[c])
    BY <1>0 DEF GoodCaptures
  <2>2. d \in Captures /\ Good(d) /\ (d.open => capture[c].open)
        /\ (d.at = "run" => capture[c].at = "run")
    BY <1>0, <2>1, AfterIsGood
  <2>3. capture' \in [Subs -> Captures]
    BY <1>0, <1>2, <2>2
  <2>4. \A x \in Subs : capture'[x] = IF x = c THEN d ELSE capture[x]
    BY <1>0, <1>2
  <2> QED BY <2>2, <2>3, <2>4 DEF GoodCaptures
<1>3. ASSUME NEW s \in Subs, Open(s), capture' = [capture EXCEPT ![s] = NewCapture]
      PROVE  /\ capture' \in [Subs -> Captures] /\ GoodCaptures'
             /\ \A x \in Subs : capture'[x] = capture[x] \/ Open(x)
  <2>1. capture' \in [Subs -> Captures]
    BY <1>0, <1>3, NewIsGood
  <2>2. \A x \in Subs : capture'[x] = IF x = s THEN NewCapture ELSE capture[x]
    BY <1>0, <1>3
  <2>3. GoodCaptures'
    BY <2>2, NewIsGood DEF GoodCaptures
  <2> QED BY <1>3, <2>1, <2>2, <2>3
<1>4. "none" # "run"
  OBVIOUS
<1>5. CASE \E c \in Subs : \E d \in After(capture[c]) : capture' = [capture EXCEPT ![c] = d]
  BY <1>2, <1>4, <1>5
<1>6. CASE \E s \in Subs : Open(s) /\ capture' = [capture EXCEPT ![s] = NewCapture]
  BY <1>3, <1>4, <1>6
<1> QED BY <1>1, <1>5, <1>6, <1>4, CaptureChanges

-----------------------------------------------------------------------------
(* What a subscription's steps do to it *)

Places == {"none", "dump", "take", "close earlier", "open", "store", "close other", "start",
           "pick", "read", "send", "end", "gone"}

Records == [at : Places, waits : Subs \cup {None}, uses : Subs \cup {None}, time : 0..MaxNow,
            early : BOOLEAN, crossed : BOOLEAN]

\* Only s moves, to a place where it waits for c.
Moved(s, place, c) ==
  /\ sub' \in [Subs -> Records]
  /\ \A t \in Subs \ {s} : sub'[t] = sub[t]
  /\ sub'[s].at = place /\ sub'[s].waits = c
  /\ sub'[s].early = sub[s].early /\ sub'[s].crossed = sub[s].crossed

LEMMA RecordMoves ==
  ASSUME NEW x \in Records, NEW place \in Places
  PROVE  /\ [x EXCEPT !.at = place] \in Records
         /\ \A c \in Subs \cup {None} : [x EXCEPT !.at = place, !.waits = c] \in Records
         /\ \A c \in Subs \cup {None} : [x EXCEPT !.at = place, !.uses = c] \in Records
         /\ \A time \in 0..MaxNow : [x EXCEPT !.at = place, !.time = time] \in Records
<1>1. [x EXCEPT !.at = place] \in Records
  BY DEF Records
<1>2. \A c \in Subs \cup {None} : [x EXCEPT !.at = place, !.waits = c] \in Records
  BY DEF Records
<1>3. \A c \in Subs \cup {None} : [x EXCEPT !.at = place, !.uses = c] \in Records
  BY DEF Records
<1>4. \A time \in 0..MaxNow : [x EXCEPT !.at = place, !.time = time] \in Records
  BY DEF Records
<1> QED BY <1>1, <1>2, <1>3, <1>4

LEMMA MovesAre ==
  ASSUME sub \in [Subs -> Records], NEW s \in Subs, NEW place \in Places
  PROVE  /\ Goes(s, place) => Moved(s, place, sub[s].waits)
         /\ \A c \in Subs \cup {None} : Waits(s, place, c) => Moved(s, place, c)
         /\ \A c \in Subs \cup {None} :
              sub' = [sub EXCEPT ![s].at = place, ![s].uses = c] => Moved(s, place, sub[s].waits)
         /\ \A time \in 0..MaxNow :
              sub' = [sub EXCEPT ![s].at = place, ![s].time = time] => Moved(s, place, sub[s].waits)
<1> DEFINE x == sub[s]
<1>0. x \in Records /\ x.waits \in Subs \cup {None}
  BY DEF Records
<1>1. ASSUME NEW y \in Records, sub' = [sub EXCEPT ![s] = y], y.at = place,
             y.early = x.early, y.crossed = x.crossed
      PROVE  Moved(s, place, y.waits)
  <2>1. sub' \in [Subs -> Records] /\ sub'[s] = y /\ \A t \in Subs \ {s} : sub'[t] = sub[t]
    BY <1>1
  <2> QED BY <1>1, <2>1 DEF Moved
<1>2. ASSUME Goes(s, place)
      PROVE  Moved(s, place, x.waits)
  <2> DEFINE y == [x EXCEPT !.at = place]
  <2>1. sub' = [sub EXCEPT ![s] = y]
    BY <1>2 DEF Goes
  <2>2. y \in Records
    BY <1>0, RecordMoves
  <2>3. y.at = place /\ y.waits = x.waits /\ y.early = x.early /\ y.crossed = x.crossed
    BY <1>0 DEF Records
  <2> HIDE DEF x, y
  <2> QED BY <1>1, <2>1, <2>2, <2>3
<1>3. ASSUME NEW c \in Subs \cup {None}, Waits(s, place, c)
      PROVE  Moved(s, place, c)
  <2> DEFINE y == [x EXCEPT !.at = place, !.waits = c]
  <2>1. sub' = [sub EXCEPT ![s] = y]
    BY <1>3 DEF Waits
  <2>2. y \in Records
    BY <1>0, RecordMoves
  <2>3. y.at = place /\ y.waits = c /\ y.early = x.early /\ y.crossed = x.crossed
    BY <1>0 DEF Records
  <2> HIDE DEF x, y
  <2> QED BY <1>1, <2>1, <2>2, <2>3
<1>4. ASSUME NEW c \in Subs \cup {None}, sub' = [sub EXCEPT ![s].at = place, ![s].uses = c]
      PROVE  Moved(s, place, x.waits)
  <2> DEFINE y == [x EXCEPT !.at = place, !.uses = c]
  <2>1. sub' = [sub EXCEPT ![s] = y]
    BY <1>4
  <2>2. y \in Records
    BY <1>0, RecordMoves
  <2>3. y.at = place /\ y.waits = x.waits /\ y.early = x.early /\ y.crossed = x.crossed
    BY <1>0 DEF Records
  <2> HIDE DEF x, y
  <2> QED BY <1>1, <2>1, <2>2, <2>3
<1>5. ASSUME NEW time \in 0..MaxNow, sub' = [sub EXCEPT ![s].at = place, ![s].time = time]
      PROVE  Moved(s, place, x.waits)
  <2> DEFINE y == [x EXCEPT !.at = place, !.time = time]
  <2>1. sub' = [sub EXCEPT ![s] = y]
    BY <1>5
  <2>2. y \in Records
    BY <1>0, RecordMoves
  <2>3. y.at = place /\ y.waits = x.waits /\ y.early = x.early /\ y.crossed = x.crossed
    BY <1>0 DEF Records
  <2> HIDE DEF x, y
  <2> QED BY <1>1, <2>1, <2>2, <2>3
<1> QED BY <1>2, <1>3, <1>4, <1>5

LEMMA SubMoves ==
  ASSUME TypeOK, NEW s \in Subs
  PROVE  /\ Subscribe(s) => Moved(s, "dump", sub[s].waits)
         /\ StoreDump(s) => Moved(s, "take", sub[s].waits)
         /\ CloseEarlier(s) => Moved(s, "open", sub[s].waits)
         /\ Open(s) => Moved(s, "store", None)
         /\ OpenFails(s) => Moved(s, "start", None)
         /\ Store(s) => Moved(s, "close other", IF noCaptures THEN s ELSE stored)
         /\ CloseOther(s) => Moved(s, "start", sub[s].waits)
         /\ Pick(s) => Moved(s, "read", sub[s].waits)
         /\ Read(s) => Moved(s, "send", sub[s].waits)
         /\ Observe(s) => Moved(s, "read", sub[s].waits)
         /\ EndRead(s) => Moved(s, "end", sub[s].uses)
<1>0. sub \in [Subs -> Records] /\ stored \in Subs \cup {None} /\ sub[s].uses \in Subs \cup {None}
  BY DEF TypeOK, Records, Places
<1>1. \A place \in Places : Goes(s, place) => Moved(s, place, sub[s].waits)
  BY <1>0, MovesAre
<1>2. \A place \in Places, c \in Subs \cup {None} : Waits(s, place, c) => Moved(s, place, c)
  BY <1>0, MovesAre
<1>3. /\ Subscribe(s) => Moved(s, "dump", sub[s].waits)
      /\ StoreDump(s) => Moved(s, "take", sub[s].waits)
      /\ CloseEarlier(s) => Moved(s, "open", sub[s].waits)
      /\ CloseOther(s) => Moved(s, "start", sub[s].waits)
  BY <1>1 DEF Subscribe, StoreDump, CloseEarlier, CloseOther, Places
<1>4. /\ Open(s) => Moved(s, "store", None)
      /\ OpenFails(s) => Moved(s, "start", None)
      /\ EndRead(s) => Moved(s, "end", sub[s].uses)
  BY <1>0, <1>2 DEF Open, OpenFails, EndRead, Places
<1>5. Store(s) => Moved(s, "close other", IF noCaptures THEN s ELSE stored)
  BY <1>0, <1>2 DEF Store, Places
<1>6. Pick(s) => Moved(s, "read", sub[s].waits)
  BY <1>0, MovesAre DEF Pick, Places
<1>7. Read(s) => Moved(s, "send", sub[s].waits)
  <2>1. now \in 0..MaxNow /\ (Read(s) => now' \in now..MaxNow)
    BY DEF Read, TimePasses, TypeOK
  <2>2. Read(s) => now' \in 0..MaxNow
    BY <2>1, BoundsAssumption
  <2> QED BY <1>0, <2>2, MovesAre DEF Read, Places
<1>8. Observe(s) => Moved(s, "read", sub[s].waits)
  <2>1. 0 \in 0..MaxNow
    BY BoundsAssumption
  <2> QED BY <1>0, <2>1, MovesAre DEF Observe, Places
<1> QED BY <1>3, <1>4, <1>5, <1>6, <1>7, <1>8

LEMMA TakeEarlierIs ==
  ASSUME TypeOK, NEW s \in Subs, TakeEarlier(s)
  PROVE  /\ sub' \in [Subs -> Records] /\ stored' = None /\ At(s, "take")
         /\ sub'[s].at = "close earlier" /\ sub'[s].waits = stored
         /\ sub'[s].crossed = (\E t \in Subs \ {s} : Opening(t))
         /\ \A t \in Subs \ {s} :
              /\ sub'[t].at = sub[t].at /\ sub'[t].waits = sub[t].waits
              /\ sub'[t].early = sub[t].early
              /\ sub'[t].crossed = (sub[t].crossed \/ Opening(t))
<1>0. sub \in [Subs -> Records] /\ stored \in Subs \cup {None} /\ TRUE \in BOOLEAN
  BY DEF TypeOK, Records, Places
<1> DEFINE others == {t \in Subs \ {s} : Opening(t)}
           f(t) == IF t \in others THEN [sub[t] EXCEPT !.crossed = TRUE]
                   ELSE IF t = s THEN [sub[t] EXCEPT !.at = "close earlier", !.waits = stored,
                                                     !.crossed = others # {}]
                   ELSE sub[t]
<1>1. sub' = [t \in Subs |-> f(t)] /\ stored' = None /\ At(s, "take")
  BY DEF TakeEarlier, Takes
<1>2. ASSUME NEW t \in Subs, t # s
      PROVE  /\ f(t) \in Records
             /\ f(t).at = sub[t].at /\ f(t).waits = sub[t].waits /\ f(t).early = sub[t].early
             /\ f(t).crossed = (sub[t].crossed \/ Opening(t))
  <2>1. sub[t] \in Records /\ sub[t].crossed \in BOOLEAN
    BY <1>0 DEF Records
  <2>2. CASE Opening(t)
    <3>1. f(t) = [sub[t] EXCEPT !.crossed = TRUE]
      BY <1>2, <2>2
    <3> QED BY <2>1, <2>2, <3>1 DEF Records
  <2>3. CASE ~Opening(t)
    <3>1. f(t) = sub[t]
      BY <1>2, <2>3
    <3> QED BY <2>1, <2>3, <3>1
  <2> QED BY <2>2, <2>3
<1>3. /\ f(s) \in Records /\ f(s).at = "close earlier" /\ f(s).waits = stored
      /\ f(s).crossed = (others # {})
  <2>1. sub[s] \in Records /\ (others # {}) \in BOOLEAN
    BY <1>0
  <2>2. f(s) = [sub[s] EXCEPT !.at = "close earlier", !.waits = stored, !.crossed = others # {}]
    OBVIOUS
  <2> DEFINE some == others # {}
  <2> HIDE DEF others
  <2> QED BY <1>0, <2>1, <2>2 DEF Records, Places
<1>4. others # {} <=> \E t \in Subs \ {s} : Opening(t)
  OBVIOUS
<1> HIDE DEF f, others
<1>5. sub' \in [Subs -> Records] /\ \A t \in Subs : sub'[t] = f(t)
  BY <1>1, <1>2, <1>3
<1> QED BY <1>1, <1>2, <1>3, <1>4, <1>5

LEMMA StartReaderIs ==
  ASSUME TypeOK, NEW s \in Subs, StartReader(s)
  PROVE  /\ sub' \in [Subs -> Records] /\ At(s, "start") /\ Gone(sub[s].waits)
         /\ sub'[s].at = "pick" /\ sub'[s].waits = None /\ sub'[s].early = ~readers.closed
         /\ \A t \in Subs \ {s} : sub'[t] = sub[t]
<1>0. sub \in [Subs -> Records] /\ readers.closed \in BOOLEAN
  BY DEF TypeOK, Records, Places
<1> DEFINE x == sub[s]
           b == ~readers.closed
           y == [x EXCEPT !.at = "pick", !.waits = None, !.crossed = FALSE, !.early = b]
<1>1. x \in Records /\ b \in BOOLEAN
  BY <1>0
<1>2. sub' = [sub EXCEPT ![s] = y] /\ At(s, "start") /\ Gone(x.waits)
  BY DEF StartReader, Starts
<1> HIDE DEF x, b
<1>3. y \in Records /\ y.at = "pick" /\ y.waits = None /\ y.early = b
  BY <1>1 DEF Records, Places
<1> HIDE DEF y
<1> QED BY <1>0, <1>2, <1>3 DEF x, b

LEMMA EndReaderIs ==
  ASSUME TypeOK, NEW s \in Subs, EndReader(s)
  PROVE  /\ sub' \in [Subs -> Records] /\ At(s, "end")
         /\ sub'[s].at = "gone" /\ sub'[s].waits = None /\ sub'[s].early = FALSE
         /\ \A t \in Subs \ {s} : sub'[t] = sub[t]
<1>0. sub \in [Subs -> Records] /\ 0 \in 0..MaxNow
  <2>1. sub \in [Subs -> Records]
    BY DEF TypeOK, Records, Places
  <2> QED BY <2>1, BoundsAssumption
<1> DEFINE y == [NoSub EXCEPT !.at = "gone"]
<1>1. y \in Records /\ y.at = "gone" /\ y.waits = None /\ y.early = FALSE
  BY <1>0 DEF NoSub, Records, Places
<1>2. sub' = [sub EXCEPT ![s] = y] /\ At(s, "end")
  BY DEF EndReader
<1> HIDE DEF y
<1> QED BY <1>0, <1>1, <1>2

-----------------------------------------------------------------------------
(* Types *)

Dumps == [stored : Subs \cup {None}, open : SUBSET Subs, closed : BOOLEAN]
Groups == [running : SUBSET Subs, closed : BOOLEAN]
Reports == [to : Subs \cup {None}, time : 0..MaxNow, left : 0..MaxReports]
Closers == [at : {"open", "wait readers", "dumps", "recorder", "captures", "close captures",
                  "wait captures", "closed"},
            waits : Subs \cup {None}, late : BOOLEAN]

LEMMA TypesAre ==
  ASSUME TypeOK
  PROVE  /\ now \in 0..MaxNow /\ reads \in 0..MaxReads /\ sub \in [Subs -> Records]
         /\ capture \in [Subs -> Captures] /\ stored \in Subs \cup {None}
         /\ noCaptures \in BOOLEAN
         /\ dump \in Dumps /\ readers \in Groups /\ rtcp \in Reports /\ closer \in Closers
BY DEF TypeOK, Records, Places, Dumps, Groups, Reports, Closers

LEMMA DumpOf ==
  \A o \in SUBSET Subs, x \in Subs \cup {None}, b \in BOOLEAN :
    [stored |-> x, open |-> o, closed |-> b] \in Dumps
BY DEF Dumps

LEMMA CloseDumpIs ==
  ASSUME dump \in Dumps
  PROVE  /\ CloseDump(dump) \in Dumps
         /\ CloseDump(dump) = [stored |-> None, open |-> dump.open \ {dump.stored},
                               closed |-> dump.closed]
<1>1. CloseDump(dump) = [stored |-> None, open |-> dump.open \ {dump.stored},
                         closed |-> dump.closed]
  <2>1. dump = [stored |-> dump.stored, open |-> dump.open, closed |-> dump.closed]
    BY DEF Dumps
  <2>2. CloseDump(dump) = [dump EXCEPT !.open = dump.open \ {dump.stored}, !.stored = None]
    BY DEF CloseDump
  <2> QED BY <2>1, <2>2
<1>2. dump.open \ {dump.stored} \in SUBSET Subs /\ dump.closed \in BOOLEAN
  BY DEF Dumps
<1> QED BY <1>1, <1>2, DumpOf

LEMMA DumpIs ==
  ASSUME TypeOK
  PROVE  /\ \A s \in Subs : Subscribe(s) =>
              dump' = [stored |-> None, open |-> (dump.open \ {dump.stored}) \cup {s},
                       closed |-> dump.closed]
         /\ \A s \in Subs : StoreDump(s) /\ dump.closed =>
              dump' = [stored |-> dump.stored, open |-> dump.open \ {s}, closed |-> dump.closed]
         /\ \A s \in Subs : StoreDump(s) /\ ~dump.closed =>
              dump' = [stored |-> s, open |-> dump.open \ {dump.stored}, closed |-> dump.closed]
         /\ CloseDumps =>
              dump' = [stored |-> None, open |-> dump.open \ {dump.stored}, closed |-> TRUE]
<1>0. dump \in Dumps
  BY TypesAre
<1> DEFINE d == CloseDump(dump)
<1>1. d = [stored |-> None, open |-> dump.open \ {dump.stored}, closed |-> dump.closed]
  BY <1>0, CloseDumpIs
<1>2. ASSUME NEW s \in Subs, Subscribe(s)
      PROVE  dump' = [stored |-> None, open |-> (dump.open \ {dump.stored}) \cup {s},
                      closed |-> dump.closed]
  <2>1. dump' = [d EXCEPT !.open = @ \cup {s}]
    BY <1>2 DEF Subscribe
  <2> HIDE DEF d
  <2> QED BY <1>1, <2>1
<1>3. ASSUME NEW s \in Subs, StoreDump(s), dump.closed
      PROVE  dump' = [stored |-> dump.stored, open |-> dump.open \ {s}, closed |-> dump.closed]
  <2>1. dump' = [dump EXCEPT !.open = @ \ {s}]
    BY <1>3 DEF StoreDump
  <2> QED BY <1>0, <2>1 DEF Dumps
<1>4. ASSUME NEW s \in Subs, StoreDump(s), ~dump.closed
      PROVE  dump' = [stored |-> s, open |-> dump.open \ {dump.stored}, closed |-> dump.closed]
  <2>1. dump' = [d EXCEPT !.stored = s]
    BY <1>4 DEF StoreDump
  <2> HIDE DEF d
  <2> QED BY <1>1, <2>1
<1>5. ASSUME CloseDumps
      PROVE  dump' = [stored |-> None, open |-> dump.open \ {dump.stored}, closed |-> TRUE]
  <2>1. dump' = [d EXCEPT !.closed = TRUE]
    BY <1>5 DEF CloseDumps
  <2> HIDE DEF d
  <2> QED BY <1>1, <2>1
<1> QED BY <1>2, <1>3, <1>4, <1>5

\* Where Close goes from, and what it waits for there.
LEMMA CloserIs ==
  ASSUME TypeOK
  PROVE  /\ BeginClose => /\ closer.at = "open" /\ closer'.at = "wait readers"
                          /\ closer'.waits = closer.waits /\ closer'.late = closer.late
         /\ Waited => /\ closer.at = "wait readers" /\ closer'.at = "dumps"
                      /\ closer'.waits = closer.waits /\ closer'.late = (readers.running # {})
         /\ CloseDumps => /\ closer.at = "dumps" /\ closer'.at = "recorder"
                          /\ closer'.waits = closer.waits /\ closer'.late = closer.late
         /\ CloseRecorder => /\ closer.at = "recorder" /\ closer'.at = "captures"
                             /\ closer'.waits = closer.waits /\ closer'.late = closer.late
         /\ TakeCaptures => /\ closer.at = "captures" /\ closer'.at = "close captures"
                            /\ closer'.waits = stored /\ closer'.late = closer.late
         /\ CloseCaptures => /\ closer.at = "close captures" /\ closer'.at = "wait captures"
                             /\ closer'.waits = closer.waits /\ closer'.late = closer.late
         /\ EndClose => /\ closer.at = "wait captures" /\ closer'.at = "closed"
                        /\ closer'.waits = None /\ closer'.late = closer.late
         /\ BeginClose \/ CloseStep => closer' \in Closers
<1>0. closer \in Closers /\ stored \in Subs \cup {None} /\ (readers.running # {}) \in BOOLEAN
  BY TypesAre
<1>1. BeginClose => /\ closer.at = "open" /\ closer'.at = "wait readers"
                    /\ closer'.waits = closer.waits /\ closer'.late = closer.late
                    /\ closer' \in Closers
  BY <1>0 DEF BeginClose, CloserGoes, Closers
<1>2. Waited => /\ closer.at = "wait readers" /\ closer'.at = "dumps"
                /\ closer'.waits = closer.waits /\ closer'.late = (readers.running # {})
                /\ closer' \in Closers
  <2> DEFINE late == readers.running # {}
  <2>1. Waited => closer.at = "wait readers" /\ closer' = [closer EXCEPT !.at = "dumps", !.late = late]
    BY DEF Waited
  <2>2. late \in BOOLEAN
    BY <1>0
  <2> HIDE DEF late
  <2>3. Waited => /\ closer.at = "wait readers" /\ closer'.at = "dumps"
                  /\ closer'.waits = closer.waits /\ closer'.late = late /\ closer' \in Closers
    BY <1>0, <2>1, <2>2 DEF Closers
  <2> QED BY <2>3 DEF late
<1>3. CloseDumps => /\ closer.at = "dumps" /\ closer'.at = "recorder"
                    /\ closer'.waits = closer.waits /\ closer'.late = closer.late
                    /\ closer' \in Closers
  BY <1>0 DEF CloseDumps, CloserGoes, Closers
<1>4. CloseRecorder => /\ closer.at = "recorder" /\ closer'.at = "captures"
                       /\ closer'.waits = closer.waits /\ closer'.late = closer.late
                       /\ closer' \in Closers
  BY <1>0 DEF CloseRecorder, CloserGoes, Closers
<1>5. TakeCaptures => /\ closer.at = "captures" /\ closer'.at = "close captures"
                      /\ closer'.waits = stored /\ closer'.late = closer.late
                      /\ closer' \in Closers
  BY <1>0 DEF TakeCaptures, Closers
<1>6. CloseCaptures => /\ closer.at = "close captures" /\ closer'.at = "wait captures"
                       /\ closer'.waits = closer.waits /\ closer'.late = closer.late
                       /\ closer' \in Closers
  BY <1>0 DEF CloseCaptures, CloserGoes, Closers
<1>7. EndClose => /\ closer.at = "wait captures" /\ closer'.at = "closed"
                  /\ closer'.waits = None /\ closer'.late = closer.late
                  /\ closer' \in Closers
  BY <1>0 DEF EndClose, Closers
<1> QED BY <1>1, <1>2, <1>3, <1>4, <1>5, <1>6, <1>7 DEF CloseStep

\* The readers that Close waits for.
LEMMA GroupIs ==
  ASSUME TypeOK
  PROVE  /\ \A s \in Subs : StartReader(s) =>
              /\ readers' \in Groups /\ readers'.closed = readers.closed
              /\ readers'.running = IF readers.closed THEN readers.running
                                    ELSE readers.running \cup {s}
         /\ \A s \in Subs : EndReader(s) =>
              /\ readers' \in Groups /\ readers'.closed = readers.closed
              /\ readers'.running = readers.running \ {s}
         /\ BeginClose =>
              /\ readers' \in Groups /\ readers'.closed = TRUE
              /\ readers'.running = readers.running
<1>0. readers \in Groups
  BY TypesAre
<1>1. ASSUME NEW s \in Subs, StartReader(s)
      PROVE  /\ readers' \in Groups /\ readers'.closed = readers.closed
             /\ readers'.running = IF readers.closed THEN readers.running
                                   ELSE readers.running \cup {s}
  <2> DEFINE run == IF readers.closed THEN readers.running ELSE readers.running \cup {s}
  <2>1. readers' = [readers EXCEPT !.running = run]
    BY <1>0, <1>1 DEF StartReader, Groups
  <2>2. run \in SUBSET Subs
    BY <1>0 DEF Groups
  <2> HIDE DEF run
  <2>3. readers' \in Groups /\ readers'.closed = readers.closed /\ readers'.running = run
    BY <1>0, <2>1, <2>2 DEF Groups
  <2> QED BY <2>3 DEF run
<1>2. ASSUME NEW s \in Subs, EndReader(s)
      PROVE  /\ readers' \in Groups /\ readers'.closed = readers.closed
             /\ readers'.running = readers.running \ {s}
  BY <1>0, <1>2 DEF EndReader, Groups
<1>3. ASSUME BeginClose
      PROVE  /\ readers' \in Groups /\ readers'.closed = TRUE
             /\ readers'.running = readers.running
  BY <1>0, <1>3 DEF BeginClose, Groups
<1> QED BY <1>1, <1>2, <1>3

\* The actions of a subscription that move it to a place.
Moving(s) ==
  \/ Subscribe(s) \/ StoreDump(s) \/ CloseEarlier(s) \/ Open(s) \/ OpenFails(s) \/ Store(s)
  \/ CloseOther(s) \/ Pick(s) \/ Observe(s) \/ Read(s) \/ EndRead(s)

\* Those of others leave the subscriptions alone.
Elsewhere == FindCapture \/ SendReport \/ (\E c \in Subs : Writer(c)) \/ BeginClose \/ CloseStep

LEMMA NextIs ==
  ASSUME Next
  PROVE  \/ \E s \in Subs : Moving(s) \/ TakeEarlier(s) \/ StartReader(s) \/ EndReader(s)
         \/ Elsewhere
BY DEF Next, SubStep, Moving, Elsewhere

LEMMA ElsewhereIs ==
  ASSUME Elsewhere
  PROVE  /\ UNCHANGED sub
         /\ (~BeginClose => UNCHANGED readers)
         /\ (~CloseDumps => UNCHANGED dump)
         /\ (~TakeCaptures => UNCHANGED <<stored, noCaptures>>)
         /\ (~BeginClose /\ ~CloseStep => UNCHANGED closer)
<1>1. CASE FindCapture \/ SendReport
  BY <1>1 DEF FindCapture, SendReport
<1>2. CASE \E c \in Subs : Writer(c)
  BY <1>2 DEF Writer
<1>3. CASE BeginClose
  BY <1>3 DEF BeginClose
<1>4. CASE CloseStep
  BY <1>4 DEF CloseStep, Waited, CloseDumps, CloseRecorder, TakeCaptures, CloseCaptures, EndClose
<1> QED BY <1>1, <1>2, <1>3, <1>4 DEF Elsewhere

LEMMA MovingIs ==
  ASSUME NEW s \in Subs, Moving(s)
  PROVE  /\ UNCHANGED <<readers, rtcp, closer, noCaptures>>
         /\ (~Subscribe(s) /\ ~StoreDump(s) => UNCHANGED dump)
         /\ (~Store(s) => UNCHANGED stored)
         /\ (~Read(s) => UNCHANGED <<now, reads>>)
BY DEF Moving, Subscribe, StoreDump, CloseEarlier, Open, OpenFails, Store, CloseOther, Pick,
       Observe, Read, EndRead

LEMMA TypeStep ==
  ASSUME TypeOK, GoodCaptures, Next
  PROVE  TypeOK'
<1>0. /\ now \in 0..MaxNow /\ reads \in 0..MaxReads /\ sub \in [Subs -> Records]
      /\ stored \in Subs \cup {None} /\ noCaptures \in BOOLEAN
      /\ dump \in Dumps /\ readers \in Groups /\ rtcp \in Reports /\ closer \in Closers
  BY TypesAre
<1>1. capture' \in [Subs -> Captures]
  BY CaptureStep
<1>2. ASSUME now' \in 0..MaxNow, reads' \in 0..MaxReads, sub' \in [Subs -> Records],
             stored' \in Subs \cup {None}, noCaptures' \in BOOLEAN, dump' \in Dumps,
             readers' \in Groups, rtcp' \in Reports, closer' \in Closers
      PROVE  TypeOK'
  BY <1>1, <1>2 DEF TypeOK, Records, Places, Dumps, Groups, Reports, Closers
<1>3. ASSUME NEW s \in Subs, Moving(s)
      PROVE  TypeOK'
  <2>1. sub' \in [Subs -> Records]
    BY <1>3, SubMoves DEF Moving, Moved
  <2>2. dump' \in Dumps
    <3>0. /\ dump.stored \in Subs \cup {None} /\ dump.closed \in BOOLEAN
          /\ dump.open \ {s} \in SUBSET Subs /\ dump.open \ {dump.stored} \in SUBSET Subs
          /\ (dump.open \ {dump.stored}) \cup {s} \in SUBSET Subs
      BY <1>0 DEF Dumps
    <3>1. CASE Subscribe(s)
      <4>1. dump' = [stored |-> None, open |-> (dump.open \ {dump.stored}) \cup {s},
                     closed |-> dump.closed]
        BY <3>1, DumpIs
      <4> QED BY <3>0, <4>1, DumpOf
    <3>2. CASE StoreDump(s) /\ dump.closed
      <4>1. dump' = [stored |-> dump.stored, open |-> dump.open \ {s}, closed |-> dump.closed]
        BY <3>2, DumpIs
      <4> QED BY <3>0, <4>1, DumpOf
    <3>3. CASE StoreDump(s) /\ ~dump.closed
      <4>1. dump' = [stored |-> s, open |-> dump.open \ {dump.stored}, closed |-> dump.closed]
        BY <3>3, DumpIs
      <4> QED BY <3>0, <4>1, DumpOf
    <3> QED BY <1>0, <1>3, <3>1, <3>2, <3>3, MovingIs
  <2>3. stored' \in Subs \cup {None}
    <3>1. Store(s) => stored' = s \/ UNCHANGED stored
      BY DEF Store
    <3> QED BY <1>0, <1>3, <3>1, MovingIs
  <2>4. now' \in 0..MaxNow /\ reads' \in 0..MaxReads
    <3>1. Read(s) => reads > 0 /\ reads' = reads - 1 /\ now' \in now..MaxNow
      BY DEF Read, TimePasses
    <3>2. Read(s) => now' \in 0..MaxNow /\ reads' \in 0..MaxReads
      BY <1>0, <3>1, BoundsAssumption
    <3> QED BY <1>0, <1>3, <3>2, MovingIs
  <2> QED BY <1>0, <1>2, <1>3, <2>1, <2>2, <2>3, <2>4, MovingIs
<1>4. ASSUME NEW s \in Subs, TakeEarlier(s)
      PROVE  TypeOK'
  <2>1. sub' \in [Subs -> Records] /\ stored' = None
    BY <1>4, TakeEarlierIs
  <2> QED BY <1>0, <1>2, <1>4, <2>1 DEF TakeEarlier
<1>5. ASSUME NEW s \in Subs, StartReader(s)
      PROVE  TypeOK'
  <2>1. sub' \in [Subs -> Records] /\ readers' \in Groups
    BY <1>5, StartReaderIs, GroupIs
  <2> QED BY <1>0, <1>2, <1>5, <2>1 DEF StartReader, Starts
<1>6. ASSUME NEW s \in Subs, EndReader(s)
      PROVE  TypeOK'
  <2>1. sub' \in [Subs -> Records] /\ readers' \in Groups
    BY <1>6, EndReaderIs, GroupIs
  <2> QED BY <1>0, <1>2, <1>6, <2>1 DEF EndReader
<1>7. ASSUME Elsewhere
      PROVE  TypeOK'
  <2>1. sub' \in [Subs -> Records]
    BY <1>0, <1>7, ElsewhereIs
  <2>2. readers' \in Groups
    BY <1>0, <1>7, ElsewhereIs, GroupIs
  <2>3. dump' \in Dumps
    <3>1. CASE CloseDumps
      <4>1. dump.open \ {dump.stored} \in SUBSET Subs
        BY <1>0 DEF Dumps
      <4>2. dump' = [stored |-> None, open |-> dump.open \ {dump.stored}, closed |-> TRUE]
        BY <3>1, DumpIs
      <4> QED BY <4>1, <4>2, DumpOf
    <3> QED BY <1>0, <1>7, <3>1, ElsewhereIs
  <2>4. stored' \in Subs \cup {None} /\ noCaptures' \in BOOLEAN
    <3>1. TakeCaptures => stored' = None /\ noCaptures' = TRUE
      BY DEF TakeCaptures
    <3> QED BY <1>0, <1>7, <3>1, ElsewhereIs
  <2>5. closer' \in Closers
    BY <1>0, <1>7, ElsewhereIs, CloserIs
  <2>6. reads' = reads
    BY <1>7 DEF Elsewhere, FindCapture, SendReport, Writer, BeginClose, CloseStep, Waited,
       CloseDumps, CloseRecorder, TakeCaptures, CloseCaptures, EndClose
  <2>7. now' \in 0..MaxNow /\ rtcp' \in Reports
    <3>1. CASE FindCapture
      <4>1. /\ now' \in now..MaxNow /\ rtcp.left > 0
            /\ rtcp' = [to |-> stored, time |-> now', left |-> rtcp.left - 1]
        BY <3>1 DEF FindCapture, TimePasses
      <4>2. now' \in 0..MaxNow
        BY <1>0, <4>1, BoundsAssumption
      <4>3. rtcp.left - 1 \in 0..MaxReports
        <5>1. rtcp.left \in 0..MaxReports
          BY <1>0 DEF Reports
        <5> QED BY <4>1, <5>1, BoundsAssumption
      <4> QED BY <1>0, <4>1, <4>2, <4>3 DEF Reports
    <3>2. CASE SendReport
      <4>1. 0 \in 0..MaxNow
        BY BoundsAssumption
      <4> QED BY <1>0, <3>2, <4>1 DEF SendReport, Reports
    <3>3. CASE (\E c \in Subs : Writer(c)) \/ BeginClose \/ CloseStep
      BY <1>0, <3>3 DEF Writer, BeginClose, CloseStep, Waited,
         CloseDumps, CloseRecorder, TakeCaptures, CloseCaptures, EndClose
    <3> QED BY <1>7, <3>1, <3>2, <3>3 DEF Elsewhere
  <2> QED BY <1>0, <1>2, <2>1, <2>2, <2>3, <2>4, <2>5, <2>6, <2>7
<1> QED BY <1>3, <1>4, <1>5, <1>6, <1>7, NextIs

-----------------------------------------------------------------------------
(* Readers *)

Reading == {"pick", "read", "send", "end"}

LEMMA ReadersStep ==
  ASSUME TypeOK, ReadersInGroup, Next
  PROVE  ReadersInGroup'
<1>0. /\ \A s \in Subs : sub[s].early /\ sub[s].at \in Reading => s \in readers.running
      /\ closer.at # "open" => readers.closed
      /\ closer.at \notin {"open", "wait readers"} /\ ~closer.late => readers.running = {}
      /\ closer.late \in BOOLEAN /\ readers.running \in SUBSET Subs
  BY TypesAre DEF ReadersInGroup, Reading, Closers, Groups
<1>1. ASSUME \A s \in Subs : sub'[s].early /\ sub'[s].at \in Reading => s \in readers'.running,
             closer'.at # "open" => readers'.closed,
             closer'.at \notin {"open", "wait readers"} /\ ~closer'.late => readers'.running = {}
      PROVE  ReadersInGroup'
  BY <1>1 DEF ReadersInGroup, Reading
<1>2. ASSUME NEW s \in Subs, Moving(s)
      PROVE  ReadersInGroup'
  <2>1. UNCHANGED <<readers, closer>>
    BY <1>2, MovingIs
  <2>2. /\ \A t \in Subs \ {s} : sub'[t] = sub[t]
        /\ sub'[s].early = sub[s].early
        /\ sub'[s].at \in Reading => sub[s].at \in Reading
    <3>1. ASSUME Pick(s) \/ Read(s) \/ Observe(s) \/ EndRead(s)
          PROVE  /\ \A t \in Subs \ {s} : sub'[t] = sub[t]
                 /\ sub'[s].early = sub[s].early /\ sub[s].at \in Reading
      <4>1. sub[s].at \in Reading
        BY <3>1 DEF Pick, Read, Observe, EndRead, At, Reading
      <4> QED BY <3>1, <4>1, SubMoves DEF Moved
    <3>2. ASSUME \/ Subscribe(s) \/ StoreDump(s) \/ CloseEarlier(s) \/ Open(s) \/ OpenFails(s)
                 \/ Store(s) \/ CloseOther(s)
          PROVE  /\ \A t \in Subs \ {s} : sub'[t] = sub[t]
                 /\ sub'[s].early = sub[s].early /\ sub'[s].at \notin Reading
      BY <3>2, SubMoves DEF Moved, Reading
    <3> QED BY <1>2, <3>1, <3>2 DEF Moving
  <2>3. \A t \in Subs : sub'[t].early /\ sub'[t].at \in Reading => t \in readers'.running
    BY <1>0, <2>1, <2>2
  <2> QED BY <1>0, <1>1, <2>1, <2>3
<1>3. ASSUME NEW s \in Subs, TakeEarlier(s)
      PROVE  ReadersInGroup'
  <2>1. UNCHANGED <<readers, closer>>
    BY <1>3 DEF TakeEarlier
  <2>2. /\ sub'[s].at = "close earlier"
        /\ \A t \in Subs \ {s} : sub'[t].at = sub[t].at /\ sub'[t].early = sub[t].early
    BY <1>3, TakeEarlierIs
  <2>3. \A t \in Subs : sub'[t].early /\ sub'[t].at \in Reading => t \in readers'.running
    BY <1>0, <2>1, <2>2 DEF Reading
  <2> QED BY <1>0, <1>1, <2>1, <2>3
<1>4. ASSUME NEW s \in Subs, StartReader(s)
      PROVE  ReadersInGroup'
  <2>1. /\ readers'.closed = readers.closed
        /\ readers'.running = IF readers.closed THEN readers.running ELSE readers.running \cup {s}
        /\ UNCHANGED closer
    BY <1>4, GroupIs DEF StartReader, Starts
  <2>2. /\ sub'[s].early = ~readers.closed
        /\ \A t \in Subs \ {s} : sub'[t] = sub[t]
    BY <1>4, StartReaderIs
  <2>3. \A t \in Subs : sub'[t].early /\ sub'[t].at \in Reading => t \in readers'.running
    BY <1>0, <2>1, <2>2
  <2> QED BY <1>0, <1>1, <2>1, <2>3
<1>5. ASSUME NEW s \in Subs, EndReader(s)
      PROVE  ReadersInGroup'
  <2>1. /\ readers'.closed = readers.closed /\ readers'.running = readers.running \ {s}
        /\ UNCHANGED closer
    BY <1>5, GroupIs DEF EndReader
  <2>2. sub'[s].at = "gone" /\ \A t \in Subs \ {s} : sub'[t] = sub[t]
    BY <1>5, EndReaderIs
  <2>3. \A t \in Subs : sub'[t].early /\ sub'[t].at \in Reading => t \in readers'.running
    BY <1>0, <2>1, <2>2 DEF Reading
  <2> QED BY <1>0, <1>1, <2>1, <2>3
<1>6. ASSUME Elsewhere
      PROVE  ReadersInGroup'
  <2>1. UNCHANGED sub
    BY <1>6, ElsewhereIs
  <2>2. CASE BeginClose
    <3>1. readers'.closed /\ readers'.running = readers.running /\ closer'.at = "wait readers"
      BY <2>2, GroupIs, CloserIs
    <3> QED BY <1>0, <1>1, <2>1, <3>1
  <2>3. CASE ~BeginClose /\ CloseStep
    <3>1. UNCHANGED readers
      BY <1>6, <2>3, ElsewhereIs
    <3>2. CASE Waited
      <4>1. closer.at = "wait readers" /\ closer'.late = (readers.running # {})
        BY <3>2, CloserIs
      <4> QED BY <1>0, <1>1, <2>1, <3>1, <4>1
    <3>3. CASE ~Waited
      <4>1. closer.at \notin {"open", "wait readers"} /\ closer'.late = closer.late
        BY <2>3, <3>3, CloserIs DEF CloseStep
      <4> QED BY <1>0, <1>1, <2>1, <3>1, <4>1
    <3> QED BY <3>2, <3>3
  <2>4. CASE ~BeginClose /\ ~CloseStep
    <3>1. UNCHANGED <<readers, closer>>
      BY <1>6, <2>4, ElsewhereIs
    <3> QED BY <1>0, <1>1, <2>1, <3>1
  <2> QED BY <2>2, <2>3, <2>4
<1> QED BY <1>2, <1>3, <1>4, <1>5, <1>6, NextIs

-----------------------------------------------------------------------------
(* Dumps *)

LEMMA DumpsStep ==
  ASSUME TypeOK, DumpsOwned, Next
  PROVE  DumpsOwned'
<1>0. /\ \A c \in dump.open : c = dump.stored \/ sub[c].at = "dump"
      /\ dump.closed => dump.stored = None
      /\ closer.at \notin {"open", "wait readers", "dumps"} => dump.closed
      /\ dump.open \in SUBSET Subs
  BY TypesAre DEF DumpsOwned, Dumps, At
<1>1. ASSUME \A c \in dump'.open : c \in Subs /\ (c = dump'.stored \/ sub'[c].at = "dump"),
             dump'.closed => dump'.stored = None,
             closer'.at \notin {"open", "wait readers", "dumps"} => dump'.closed
      PROVE  DumpsOwned'
  BY <1>1 DEF DumpsOwned, At
<1>2. ASSUME NEW s \in Subs, Moving(s)
      PROVE  DumpsOwned'
  <2>1. UNCHANGED closer
    BY <1>2, MovingIs
  <2>2. \A t \in Subs \ {s} : sub'[t] = sub[t]
    BY <1>2, SubMoves DEF Moving, Moved
  <2>3. CASE Subscribe(s)
    <3>1. /\ dump' = [stored |-> None, open |-> (dump.open \ {dump.stored}) \cup {s},
                      closed |-> dump.closed]
          /\ sub'[s].at = "dump"
      BY <2>3, DumpIs, SubMoves DEF Moved
    <3> QED BY <1>0, <1>1, <2>1, <2>2, <3>1
  <2>4. CASE StoreDump(s) /\ dump.closed
    <3>1. dump' = [stored |-> dump.stored, open |-> dump.open \ {s}, closed |-> dump.closed]
      BY <2>4, DumpIs
    <3> QED BY <1>0, <1>1, <2>1, <2>2, <3>1
  <2>5. CASE StoreDump(s) /\ ~dump.closed
    <3>1. dump' = [stored |-> s, open |-> dump.open \ {dump.stored}, closed |-> dump.closed]
      BY <2>5, DumpIs
    <3> QED BY <1>0, <1>1, <2>1, <2>2, <2>5, <3>1
  <2>6. CASE ~Subscribe(s) /\ ~StoreDump(s)
    <3>1. UNCHANGED dump
      BY <1>2, <2>6, MovingIs
    <3>2. sub[s].at # "dump"
      BY <1>2, <2>6 DEF Moving, CloseEarlier, Open, OpenFails, Store, CloseOther, Pick,
         Observe, Read, EndRead, At
    <3> QED BY <1>0, <1>1, <2>1, <2>2, <3>1, <3>2
  <2> QED BY <2>3, <2>4, <2>5, <2>6
<1>3. ASSUME NEW s \in Subs, TakeEarlier(s) \/ StartReader(s) \/ EndReader(s)
      PROVE  DumpsOwned'
  <2>1. UNCHANGED <<dump, closer>>
    BY <1>3 DEF TakeEarlier, StartReader, Starts, EndReader
  <2>2. sub[s].at # "dump" /\ \A t \in Subs \ {s} : sub'[t].at = sub[t].at
    BY <1>3, TakeEarlierIs, StartReaderIs, EndReaderIs DEF At
  <2> QED BY <1>0, <1>1, <2>1, <2>2
<1>4. ASSUME Elsewhere
      PROVE  DumpsOwned'
  <2>1. UNCHANGED sub
    BY <1>4, ElsewhereIs
  <2>2. CASE CloseDumps
    <3>1. dump' = [stored |-> None, open |-> dump.open \ {dump.stored}, closed |-> TRUE]
      BY <2>2, DumpIs
    <3> QED BY <1>0, <1>1, <2>1, <3>1
  <2>3. CASE ~CloseDumps
    <3>1. UNCHANGED dump
      BY <1>4, <2>3, ElsewhereIs
    <3>2. closer'.at \notin {"open", "wait readers", "dumps"}
            => closer.at \notin {"open", "wait readers", "dumps"}
      <4>1. CASE BeginClose \/ CloseStep
        BY <2>3, <4>1, CloserIs DEF CloseStep
      <4>2. CASE ~BeginClose /\ ~CloseStep
        BY <1>4, <4>2, ElsewhereIs
      <4> QED BY <4>1, <4>2
    <3> QED BY <1>0, <1>1, <2>1, <3>1, <3>2
  <2> QED BY <2>2, <2>3
<1> QED BY <1>2, <1>3, <1>4, NextIs

-----------------------------------------------------------------------------
(* Captures *)

\* Where a subscription has a capture that it is about to close.
Holding == {"close earlier", "open", "close other", "start"}
Taking == {"close captures", "wait captures"}

\* What Close waits for has stopped writing.
LEMMA GoneIsNotOpen ==
  ASSUME GoodCaptures, NEW c \in Subs, Gone(c)
  PROVE  ~capture[c].open
<1>1. capture[c].at = "gone"
  BY NoneAssumption DEF Gone
<1> QED BY <1>1 DEF GoodCaptures, Good

LEMMA OwnedMeans ==
  ASSUME NEW c \in Subs
  PROVE  /\ Owned(c) <=> \/ c = stored \/ sub[c].at = "store"
                         \/ \E t \in Subs : sub[t].waits = c /\ sub[t].at \in Holding
                         \/ closer.waits = c /\ closer.at \in Taking
         /\ Owned(c)' <=> \/ c = stored' \/ sub'[c].at = "store"
                          \/ \E t \in Subs : sub'[t].waits = c /\ sub'[t].at \in Holding
                          \/ closer'.waits = c /\ closer'.at \in Taking
BY DEF Owned, At, Holding, Taking

\* A capture that is open after a step is open before it, or is being started.
LEMMA OwnedStep ==
  ASSUME TypeOK, GoodCaptures, CapturesOwned, Next
  PROVE  CapturesOwned'
<1>0. /\ \A c \in Subs : capture[c].open => Owned(c)
      /\ noCaptures <=> closer.at \in {"close captures", "wait captures", "closed"}
      /\ noCaptures => stored = None
      /\ stored \in Subs \cup {None} /\ noCaptures \in BOOLEAN
      /\ None \notin Subs
  BY TypesAre, NoneAssumption DEF CapturesOwned
<1>1. \A c \in Subs : capture'[c].open => capture[c].open \/ Open(c)
  BY CaptureStep
<1>2. ASSUME \A c \in Subs : capture[c].open \/ Open(c) => Owned(c)',
             noCaptures' <=> closer'.at \in {"close captures", "wait captures", "closed"},
             noCaptures' => stored' = None
      PROVE  CapturesOwned'
  BY <1>1, <1>2 DEF CapturesOwned
<1>3. ASSUME NEW c \in Subs, Open(c)
      PROVE  Owned(c)'
  <2>1. sub'[c].at = "store"
    BY <1>3, SubMoves DEF Moved
  <2> QED BY <2>1, OwnedMeans
<1>4. ASSUME NEW s \in Subs, Moving(s)
      PROVE  CapturesOwned'
  <2>1. /\ UNCHANGED <<closer, noCaptures>> /\ (~Store(s) => UNCHANGED stored)
        /\ \A t \in Subs \ {s} : sub'[t] = sub[t]
    BY <1>4, MovingIs, SubMoves DEF Moving, Moved
  <2>2. noCaptures' => stored' = None
    BY <1>0, <2>1 DEF Store
  <2>3. ASSUME NEW c \in Subs, Owned(c), capture[c].open
        PROVE  Owned(c)'
    <3>1. CASE Store(s)
      <4>1. /\ sub[s].at = "store" /\ sub'[s].at = "close other"
            /\ sub'[s].waits = IF noCaptures THEN s ELSE stored
        BY <3>1, SubMoves DEF Moved, Store, At
      <4>2. stored' = IF noCaptures THEN stored ELSE s
        BY <3>1 DEF Store
      <4>3. CASE c = stored
        <5>1. ~noCaptures
          BY <1>0, <4>3
        <5>2. sub'[s].waits = c /\ sub'[s].at \in Holding
          BY <4>1, <4>3, <5>1 DEF Holding
        <5> QED BY <5>2, OwnedMeans
      <4>4. CASE c = s
        <5>1. CASE noCaptures
          <6>1. sub'[s].waits = c /\ sub'[s].at \in Holding
            BY <4>1, <4>4, <5>1 DEF Holding
          <6> QED BY <6>1, OwnedMeans
        <5>2. CASE ~noCaptures
          BY <4>2, <4>4, <5>2, OwnedMeans
        <5> QED BY <5>1, <5>2
      <4>5. CASE c # stored /\ c # s
        <5>1. "store" \notin Holding
          BY DEF Holding
        <5>2. \A t \in Subs : sub[t].waits = c /\ sub[t].at \in Holding => t # s
          BY <4>1, <5>1
        <5> QED BY <2>1, <2>3, <4>5, <5>2, OwnedMeans
      <4> QED BY <4>3, <4>4, <4>5
    <3>2. CASE Open(s) \/ OpenFails(s)
      <4>1. sub[s].at = "open" /\ Gone(sub[s].waits)
        BY <3>2 DEF Open, OpenFails, At
      <4>2. sub[s].waits # c
        BY <2>3, <4>1, GoneIsNotOpen
      <4>3. UNCHANGED stored
        BY <3>2 DEF Open, OpenFails
      <4> QED BY <2>1, <2>3, <4>1, <4>2, <4>3, OwnedMeans
    <3>3. CASE CloseEarlier(s) \/ CloseOther(s)
      <4>1. /\ sub'[s].at \in Holding /\ sub'[s].waits = sub[s].waits /\ sub[s].at # "store"
        BY <3>3, SubMoves DEF Moved, CloseEarlier, CloseOther, At, Holding
      <4>2. UNCHANGED stored
        BY <3>3 DEF CloseEarlier, CloseOther
      <4> QED BY <2>1, <2>3, <4>1, <4>2, OwnedMeans
    <3>4. CASE \/ Subscribe(s) \/ StoreDump(s) \/ Pick(s) \/ Observe(s) \/ Read(s) \/ EndRead(s)
      <4>1. sub[s].at \notin Holding /\ sub[s].at # "store"
        BY <3>4 DEF Subscribe, StoreDump, Pick, Observe, Read, EndRead, At, Holding
      <4>2. UNCHANGED stored
        BY <3>4 DEF Subscribe, StoreDump, Pick, Observe, Read, EndRead
      <4> QED BY <2>1, <2>3, <4>1, <4>2, OwnedMeans
    <3> QED BY <1>4, <3>1, <3>2, <3>3, <3>4 DEF Moving
  <2> QED BY <1>0, <1>2, <1>3, <2>1, <2>2, <2>3
<1>5. ASSUME NEW s \in Subs, TakeEarlier(s)
      PROVE  CapturesOwned'
  <2>1. /\ stored' = None /\ sub[s].at = "take"
        /\ sub'[s].at = "close earlier" /\ sub'[s].waits = stored
        /\ \A t \in Subs \ {s} : sub'[t].at = sub[t].at /\ sub'[t].waits = sub[t].waits
        /\ UNCHANGED <<closer, noCaptures>>
    BY <1>5, TakeEarlierIs DEF TakeEarlier, At
  <2>2. sub[s].at \notin Holding /\ sub[s].at # "store" /\ sub'[s].at \in Holding
    BY <2>1 DEF Holding
  <2>3. \A c \in Subs : Owned(c) => Owned(c)'
    <3> TAKE c \in Subs
    <3>1. CASE c = stored
      BY <2>1, <2>2, <3>1, OwnedMeans
    <3>2. CASE c # stored
      <4>1. sub[c].at = "store" => sub'[c].at = "store"
        BY <2>1, <2>2
      <4>2. \A t \in Subs : sub[t].waits = c /\ sub[t].at \in Holding
                           => sub'[t].waits = c /\ sub'[t].at \in Holding
        BY <2>1, <2>2
      <4> QED BY <2>1, <3>2, <4>1, <4>2, OwnedMeans
    <3> QED BY <3>1, <3>2
  <2> QED BY <1>0, <1>2, <1>3, <2>1, <2>3
<1>6. ASSUME NEW s \in Subs, StartReader(s)
      PROVE  CapturesOwned'
  <2>1. /\ sub[s].at = "start" /\ Gone(sub[s].waits)
        /\ \A t \in Subs \ {s} : sub'[t] = sub[t]
        /\ UNCHANGED <<closer, stored, noCaptures>>
    BY <1>6, StartReaderIs DEF StartReader, Starts, At
  <2>2. ASSUME NEW c \in Subs, Owned(c), capture[c].open
        PROVE  Owned(c)'
    <3>1. sub[s].waits # c
      BY <2>1, <2>2, GoneIsNotOpen
    <3> QED BY <2>1, <2>2, <3>1, OwnedMeans
  <2> QED BY <1>0, <1>2, <1>3, <2>1, <2>2
<1>7. ASSUME NEW s \in Subs, EndReader(s)
      PROVE  CapturesOwned'
  <2>1. /\ sub[s].at = "end" /\ \A t \in Subs \ {s} : sub'[t] = sub[t]
        /\ UNCHANGED <<closer, stored, noCaptures>>
    BY <1>7, EndReaderIs DEF EndReader, At
  <2>2. sub[s].at \notin Holding /\ sub[s].at # "store"
    BY <2>1 DEF Holding
  <2>3. \A c \in Subs : Owned(c) => Owned(c)'
    BY <2>1, <2>2, OwnedMeans
  <2> QED BY <1>0, <1>2, <1>3, <2>1, <2>3
<1>8. ASSUME Elsewhere
      PROVE  CapturesOwned'
  <2>1. UNCHANGED sub
    BY <1>8, ElsewhereIs
  <2>2. CASE TakeCaptures
    <3>1. /\ closer.at = "captures" /\ closer'.at = "close captures" /\ closer'.waits = stored
          /\ stored' = None /\ noCaptures' = TRUE
      BY <2>2, CloserIs DEF TakeCaptures
    <3>2. closer.at \notin Taking /\ closer'.at \in Taking
      BY <3>1 DEF Taking
    <3>3. \A c \in Subs : Owned(c) => Owned(c)'
      BY <2>1, <3>1, <3>2, OwnedMeans
    <3> QED BY <1>0, <1>2, <1>3, <3>1, <3>3
  <2>3. CASE EndClose
    <3>1. /\ closer.at = "wait captures" /\ closer'.at = "closed" /\ Gone(closer.waits)
          /\ UNCHANGED <<stored, noCaptures>>
      BY <2>3, CloserIs DEF EndClose
    <3>2. ASSUME NEW c \in Subs, Owned(c), capture[c].open
          PROVE  Owned(c)'
      <4>1. closer.waits # c
        BY <3>1, <3>2, GoneIsNotOpen
      <4> QED BY <2>1, <3>1, <3>2, <4>1, OwnedMeans
    <3> QED BY <1>0, <1>2, <1>3, <3>1, <3>2
  <2>4. CASE CloseCaptures
    <3>1. /\ closer.at = "close captures" /\ closer'.at = "wait captures"
          /\ closer'.waits = closer.waits /\ UNCHANGED <<stored, noCaptures>>
      BY <2>4, CloserIs DEF CloseCaptures
    <3>2. closer'.at \in Taking
      BY <3>1 DEF Taking
    <3>3. \A c \in Subs : Owned(c) => Owned(c)'
      BY <2>1, <3>1, <3>2, OwnedMeans
    <3> QED BY <1>0, <1>2, <1>3, <3>1, <3>3
  <2>5. CASE BeginClose \/ Waited \/ CloseDumps \/ CloseRecorder
    <3>1. /\ closer.at \in {"open", "wait readers", "dumps", "recorder"}
          /\ closer'.at \in {"wait readers", "dumps", "recorder", "captures"}
          /\ UNCHANGED <<stored, noCaptures>>
      BY <2>5, CloserIs DEF BeginClose, Waited, CloseDumps, CloseRecorder
    <3>2. closer.at \notin Taking /\ ~noCaptures
      BY <1>0, <3>1 DEF Taking
    <3>3. \A c \in Subs : Owned(c) => Owned(c)'
      BY <2>1, <3>1, <3>2, OwnedMeans
    <3> QED BY <1>0, <1>2, <1>3, <3>1, <3>2, <3>3
  <2>6. CASE ~BeginClose /\ ~CloseStep
    <3>1. UNCHANGED <<closer, stored, noCaptures>>
      BY <1>8, <2>6, ElsewhereIs DEF CloseStep
    <3>2. \A c \in Subs : Owned(c) => Owned(c)'
      BY <2>1, <3>1, OwnedMeans
    <3> QED BY <1>0, <1>2, <1>3, <3>1, <3>2
  <2> QED BY <2>2, <2>3, <2>4, <2>5, <2>6 DEF CloseStep
<1> QED BY <1>4, <1>5, <1>6, <1>7, <1>8, NextIs

-----------------------------------------------------------------------------
(* Crossing *)

OpeningPlaces == {"close earlier", "open", "store"}
ClosingPlaces == {"close other", "start"}

LEMMA CrossingsMean ==
  /\ Crossings <=>
       /\ \A s, t \in Subs : sub[s].at \in OpeningPlaces /\ sub[t].at \in OpeningPlaces /\ s # t
                               => sub[s].crossed
       /\ \A s \in Subs : sub[s].at \in OpeningPlaces /\ ~sub[s].crossed => stored = None
       /\ \A s \in Subs : sub[s].at \in ClosingPlaces /\ sub[s].waits # None
                            => noCaptures \/ sub[s].crossed
  /\ Crossings' <=>
       /\ \A s, t \in Subs : sub'[s].at \in OpeningPlaces /\ sub'[t].at \in OpeningPlaces /\ s # t
                               => sub'[s].crossed
       /\ \A s \in Subs : sub'[s].at \in OpeningPlaces /\ ~sub'[s].crossed => stored' = None
       /\ \A s \in Subs : sub'[s].at \in ClosingPlaces /\ sub'[s].waits # None
                            => noCaptures' \/ sub'[s].crossed
BY DEF Crossings, Opening, OpeningPlaces, ClosingPlaces

LEMMA CrossingsStep ==
  ASSUME TypeOK, CapturesOwned, Crossings, Next
  PROVE  Crossings'
<1>0. /\ \A s, t \in Subs : sub[s].at \in OpeningPlaces /\ sub[t].at \in OpeningPlaces /\ s # t
                              => sub[s].crossed
      /\ \A s \in Subs : sub[s].at \in OpeningPlaces /\ ~sub[s].crossed => stored = None
      /\ \A s \in Subs : sub[s].at \in ClosingPlaces /\ sub[s].waits # None
                           => noCaptures \/ sub[s].crossed
  BY CrossingsMean
<1>1. \A p \in OpeningPlaces : p \notin ClosingPlaces
  BY DEF OpeningPlaces, ClosingPlaces
<1>2. ASSUME NEW s \in Subs, Moving(s)
      PROVE  Crossings'
  <2>1. /\ UNCHANGED noCaptures /\ (~Store(s) => UNCHANGED stored)
        /\ \A t \in Subs \ {s} : sub'[t] = sub[t]
        /\ sub'[s].crossed = sub[s].crossed
    BY <1>2, MovingIs, SubMoves DEF Moving, Moved
  <2>2. CASE Store(s)
    <3>1. /\ sub[s].at \in OpeningPlaces /\ sub'[s].at \in ClosingPlaces
          /\ sub'[s].waits = IF noCaptures THEN s ELSE stored
          /\ noCaptures => stored' = stored
      BY <2>2, SubMoves DEF Moved, Store, At, OpeningPlaces, ClosingPlaces
    <3>2. \A t \in Subs : sub'[t].at \in OpeningPlaces => t # s /\ sub[t].crossed /\ sub'[t] = sub[t]
      BY <1>0, <1>1, <2>1, <3>1
    <3>3. sub'[s].waits # None => noCaptures \/ sub[s].crossed
      BY <1>0, <3>1
    <3>4. \A t \in Subs : sub'[t].at \in ClosingPlaces /\ sub'[t].waits # None
                            => noCaptures' \/ sub'[t].crossed
      BY <1>0, <2>1, <3>3
    <3> QED BY <3>2, <3>4, CrossingsMean
  <2>3. CASE ~Store(s)
    <3>1. sub'[s].at \in OpeningPlaces => sub[s].at \in OpeningPlaces
      <4>1. CASE CloseEarlier(s) \/ Open(s)
        BY <4>1 DEF CloseEarlier, Open, At, OpeningPlaces
      <4>2. CASE ~CloseEarlier(s) /\ ~Open(s)
        BY <1>2, <2>3, <4>2, SubMoves DEF Moving, Moved, OpeningPlaces
      <4> QED BY <4>1, <4>2
    <3>2. sub'[s].at \in ClosingPlaces /\ sub'[s].waits # None
            => sub[s].at \in ClosingPlaces /\ sub[s].waits = sub'[s].waits
      <4>1. CASE CloseOther(s)
        BY <4>1, SubMoves DEF Moved, CloseOther, At, ClosingPlaces
      <4>2. CASE ~CloseOther(s)
        BY <1>2, <2>3, <4>2, SubMoves DEF Moving, Moved, ClosingPlaces
      <4> QED BY <4>1, <4>2
    <3>3. \A t \in Subs : sub'[t].at \in OpeningPlaces => sub[t].at \in OpeningPlaces
      BY <2>1, <3>1
    <3>4. \A t \in Subs : sub'[t].crossed = sub[t].crossed
      BY <2>1
    <3>5. \A t \in Subs : sub'[t].at \in ClosingPlaces /\ sub'[t].waits # None
            => sub[t].at \in ClosingPlaces /\ sub[t].waits # None
      BY <2>1, <3>2
    <3>6. UNCHANGED stored
      BY <2>1, <2>3
    <3> QED BY <1>0, <2>1, <3>3, <3>4, <3>5, <3>6, CrossingsMean
  <2> QED BY <2>2, <2>3
<1>3. ASSUME NEW s \in Subs, TakeEarlier(s)
      PROVE  Crossings'
  <2>1. /\ stored' = None /\ sub'[s].at = "close earlier"
        /\ sub'[s].crossed = (\E t \in Subs \ {s} : Opening(t))
        /\ \A t \in Subs \ {s} :
             /\ sub'[t].at = sub[t].at /\ sub'[t].waits = sub[t].waits
             /\ sub'[t].crossed = (sub[t].crossed \/ Opening(t))
        /\ UNCHANGED noCaptures
    BY <1>3, TakeEarlierIs DEF TakeEarlier
  <2>2. sub'[s].at \in OpeningPlaces /\ sub'[s].at \notin ClosingPlaces
    BY <1>1, <2>1 DEF OpeningPlaces
  <2>3. \A t \in Subs : Opening(t) <=> sub[t].at \in OpeningPlaces
    BY DEF Opening, OpeningPlaces
  <2>4. ASSUME NEW t \in Subs, NEW u \in Subs, t # u,
               sub'[t].at \in OpeningPlaces, sub'[u].at \in OpeningPlaces
        PROVE  sub'[t].crossed
    <3>1. CASE t = s
      <4>1. u # s /\ Opening(u)
        BY <2>1, <2>3, <2>4, <3>1
      <4> QED BY <2>1, <3>1, <4>1
    <3>2. CASE t # s
      <4>1. Opening(t)
        BY <2>1, <2>3, <2>4, <3>2
      <4> QED BY <2>1, <3>2, <4>1
    <3> QED BY <3>1, <3>2
  <2>5. \A t \in Subs : sub'[t].at \in ClosingPlaces /\ sub'[t].waits # None
                          => noCaptures' \/ sub'[t].crossed
    BY <1>0, <2>1, <2>2
  <2> QED BY <2>1, <2>4, <2>5, CrossingsMean
<1>4. ASSUME NEW s \in Subs, StartReader(s) \/ EndReader(s)
      PROVE  Crossings'
  <2>1. /\ sub'[s].at \in {"pick", "gone"} /\ \A t \in Subs \ {s} : sub'[t] = sub[t]
        /\ UNCHANGED <<stored, noCaptures>>
    BY <1>4, StartReaderIs, EndReaderIs DEF StartReader, Starts, EndReader
  <2>2. sub'[s].at \notin OpeningPlaces /\ sub'[s].at \notin ClosingPlaces
    BY <2>1 DEF OpeningPlaces, ClosingPlaces
  <2> QED BY <1>0, <2>1, <2>2, CrossingsMean
<1>5. ASSUME Elsewhere
      PROVE  Crossings'
  <2>1. UNCHANGED sub
    BY <1>5, ElsewhereIs
  <2>2. stored' = stored \/ stored' = None
    BY <1>5, ElsewhereIs DEF TakeCaptures
  <2>3. noCaptures => noCaptures'
    BY <1>5, ElsewhereIs DEF TakeCaptures
  <2> QED BY <1>0, <2>1, <2>2, <2>3, CrossingsMean
<1> QED BY <1>2, <1>3, <1>4, <1>5, NextIs

-----------------------------------------------------------------------------

LEMMA InitInv == Init => Inv
<1> SUFFICES ASSUME Init PROVE Inv
  OBVIOUS
<1>0. 0 \in 0..MaxNow /\ MaxReads \in 0..MaxReads /\ MaxReports \in 0..MaxReports
  BY BoundsAssumption
<1>1. /\ \A s \in Subs : sub[s] = NoSub /\ capture[s] = NoCapture
      /\ NoSub.at = "none" /\ NoSub.waits = None /\ NoSub.early = FALSE /\ NoSub.crossed = FALSE
  BY DEF Init, NoSub
<1>2. TypeOK
  <2>1. NoSub \in Records
    BY <1>0 DEF NoSub, Records, Places
  <2>2. sub \in [Subs -> Records] /\ capture \in [Subs -> Captures]
    BY <2>1, NewIsGood DEF Init
  <2>3. dump \in Dumps /\ readers \in Groups /\ closer \in Closers
    BY DEF Init, Dumps, Groups, Closers
  <2>4. rtcp \in Reports
    BY <1>0 DEF Init, Reports
  <2> QED
    BY <1>0, <2>2, <2>3, <2>4 DEF Init, TypeOK, Records, Places, Dumps, Groups, Reports, Closers
<1>3. GoodCaptures
  BY <1>1, NewIsGood DEF GoodCaptures
<1>4. ReadersInGroup /\ DumpsOwned
  BY <1>1 DEF Init, ReadersInGroup, DumpsOwned
<1>5. CapturesOwned
  BY <1>1, NewIsGood DEF Init, CapturesOwned
<1>6. Crossings
  BY <1>1 DEF Crossings, Opening
<1> QED BY <1>2, <1>3, <1>4, <1>5, <1>6 DEF Inv

LEMMA NextInv == Inv /\ [Next]_vars => Inv'
<1> SUFFICES ASSUME Inv, [Next]_vars PROVE Inv'
  OBVIOUS
<1>1. CASE Next
  <2>1. GoodCaptures'
    BY <1>1, CaptureStep DEF Inv
  <2> QED
    BY <1>1, <2>1, TypeStep, ReadersStep, DumpsStep, OwnedStep, CrossingsStep DEF Inv
<1>2. CASE UNCHANGED vars
  <2>1. UNCHANGED <<now, reads, sub, capture, stored, noCaptures, dump, readers, rtcp, closer>>
    BY <1>2 DEF vars
  <2>2. TypeOK'
    <3>1. /\ now \in 0..MaxNow /\ reads \in 0..MaxReads /\ sub \in [Subs -> Records]
          /\ capture \in [Subs -> Captures] /\ stored \in Subs \cup {None}
          /\ noCaptures \in BOOLEAN
          /\ dump \in Dumps /\ readers \in Groups /\ rtcp \in Reports /\ closer \in Closers
      BY TypesAre DEF Inv
    <3>2. /\ now' \in 0..MaxNow /\ reads' \in 0..MaxReads /\ sub' \in [Subs -> Records]
          /\ capture' \in [Subs -> Captures] /\ stored' \in Subs \cup {None}
          /\ noCaptures' \in BOOLEAN
          /\ dump' \in Dumps /\ readers' \in Groups /\ rtcp' \in Reports /\ closer' \in Closers
      BY <2>1, <3>1
    <3> QED BY <3>2 DEF TypeOK, Records, Places, Dumps, Groups, Reports, Closers
  <2>6. GoodCaptures'
    BY <2>1 DEF Inv, GoodCaptures
  <2>3. ReadersInGroup' /\ DumpsOwned'
    BY <2>1 DEF Inv, ReadersInGroup, DumpsOwned, At
  <2>4. CapturesOwned'
    BY <2>1 DEF Inv, CapturesOwned, Owned, At
  <2>5. Crossings'
    BY <2>1 DEF Inv, Crossings, Opening
  <2> QED BY <2>2, <2>3, <2>4, <2>5, <2>6 DEF Inv
<1> QED BY <1>1, <1>2

\* The invariant holds in every state of the track's readers.
LEMMA ReadersInvariant == Spec => []Inv
BY InitInv, NextInv, PTL DEF Spec

-----------------------------------------------------------------------------
(* Theorems *)

\* Every variable keeps its type, and each capture is one that trackCapture can
\* be: what it has written, queues and dropped adds up.
THEOREM ReadersTypeCorrect == Spec => [](TypeOK /\ GoodCaptures)
<1>1. Inv => TypeOK /\ GoodCaptures
  BY DEF Inv
<1> QED BY <1>1, ReadersInvariant, PTL

\* finish of trackCapture: a trace that ends as complete has every record
\* offered before it was closed, however the queue filled meanwhile.
THEOREM EndsAreHonest == Spec => []EndIsHonest
<1>1. Inv => EndIsHonest
  BY DEF Inv, GoodCaptures, Good, EndIsHonest
<1> QED BY <1>1, ReadersInvariant, PTL

\* The writer of trackCapture: a trace's times never go back, though readers and
\* the goroutine of the sender reports stamp records before they queue them.
THEOREM TraceTimesInOrder == Spec => []TimesInOrder
<1>1. Inv => TimesInOrder
  <2> SUFFICES ASSUME Inv, NEW c \in Subs
               PROVE  /\ \A k \in 1 .. Len(capture[c].written) - 1 :
                           capture[c].written[k] <= capture[c].written[k + 1]
                      /\ capture[c].reason # "none" =>
                           \A k \in DOMAIN capture[c].written :
                             capture[c].written[k] <= capture[c].endAt
    BY DEF TimesInOrder
  <2> DEFINE w == capture[c].written
  <2>1. Good(capture[c]) /\ capture[c] \in Captures
    BY DEF Inv, GoodCaptures, TypeOK
  <2>2. w \in Seq(Nat) /\ IsSorted(w)
        /\ (capture[c].reason # "none" => \A k \in DOMAIN w : w[k] <= capture[c].endAt)
    BY <2>1 DEF Good, Captures
  <2> HIDE DEF w
  <2>3. DOMAIN w = 1..Len(w) /\ Len(w) \in Nat
    BY <2>2, LenProperties
  <2>4. \A k \in 1 .. Len(w) - 1 : k \in DOMAIN w /\ k + 1 \in DOMAIN w /\ k <= k + 1
    BY <2>3
  <2>5. \A k \in 1 .. Len(w) - 1 : w[k] <= w[k + 1]
    BY <2>2, <2>4 DEF IsSorted
  <2> QED BY <2>2, <2>5 DEF w
<1> QED BY <1>1, ReadersInvariant, PTL

\* startReader and waitForReaders: once the recorder is closed no reader that
\* started before Close has a packet for it, unless Close gave up waiting.
THEOREM TailsAreRecorded == Spec => []TailIsRecorded
<1>1. Inv => TailIsRecorded
  BY DEF Inv, ReadersInGroup, TailIsRecorded, RecorderClosed
<1> QED BY <1>1, ReadersInvariant, PTL

\* openRTPDump, openTraceCapture and Close: whichever comes last, a closed
\* adapter whose subscriptions are set up leaves no dump and no trace open.
THEOREM NothingIsLeftOpen == Spec => []NothingLeftOpen
<1>1. Inv => NothingLeftOpen
  <2> SUFFICES ASSUME Inv, closer.at = "closed", \A s \in Subs : ~SettingUp(s)
               PROVE  dump.open = {} /\ \A c \in Subs : ~capture[c].open
    BY DEF NothingLeftOpen
  <2>1. \A s \in Subs : sub[s].at \notin Holding /\ sub[s].at # "store" /\ sub[s].at # "dump"
    BY DEF SettingUp, Inv, TypeOK, Holding
  <2>2. dump.open = {}
    <3>1. dump.stored = None /\ dump.open \in SUBSET Subs
      BY TypesAre DEF Inv, DumpsOwned, Dumps
    <3> QED BY <2>1, <3>1, NoneAssumption DEF Inv, DumpsOwned, At
  <2>3. \A c \in Subs : ~Owned(c)
    <3>1. stored = None /\ closer.at \notin Taking
      BY DEF Inv, CapturesOwned, Taking
    <3> QED BY <2>1, <3>1, NoneAssumption, OwnedMeans
  <2> QED BY <2>2, <2>3 DEF Inv, CapturesOwned
<1> QED BY <1>1, ReadersInvariant, PTL

\* openTraceCapture, taking the track's capture and waiting for its writer
\* before it truncates the file: the earlier traces have stopped, except between
\* subscriptions that have crossed and once Close closes the captures.
THEOREM EarlierCapturesStopFirst == Spec => StopsFirst
<1>1. Inv /\ [Next]_vars
        => [\A s \in Subs :
              capture[s].at = "none" /\ capture'[s].at = "run" =>
                \/ \A c \in Subs : ~capture[c].open
                \/ \E t \in Subs : sub[t].crossed
                \/ noCaptures]_vars
  <2> SUFFICES ASSUME Inv, Next, NEW s \in Subs,
                      capture[s].at = "none", capture'[s].at = "run",
                      ~noCaptures, \A t \in Subs : ~sub[t].crossed,
                      NEW c \in Subs, capture[c].open
               PROVE  FALSE
    OBVIOUS
  <2>0. TypeOK /\ GoodCaptures /\ CapturesOwned /\ Crossings
    BY DEF Inv
  <2>1. Open(s)
    BY <2>0, CaptureStep
  <2>2. sub[s].at = "open" /\ Gone(sub[s].waits)
    BY <2>1 DEF Open, At
  <2>3. stored = None
    BY <2>0, <2>2, CrossingsMean DEF OpeningPlaces
  <2>4. \A t \in Subs \ {s} : sub[t].at \notin OpeningPlaces
    BY <2>0, <2>2, CrossingsMean DEF OpeningPlaces
  <2>5. \A t \in Subs : sub[t].at \in ClosingPlaces => sub[t].waits = None
    BY <2>0, CrossingsMean
  <2>6. sub[s].waits # c
    BY <2>0, <2>2, GoneIsNotOpen
  <2>7. ~(\E t \in Subs : sub[t].waits = c /\ sub[t].at \in Holding)
    <3>1. \A t \in Subs \ {s} : sub[t].at \in Holding => sub[t].waits = None
      BY <2>4, <2>5 DEF Holding, OpeningPlaces, ClosingPlaces
    <3> QED BY <2>6, <3>1, NoneAssumption
  <2>8. closer.at \notin Taking
    BY <2>0 DEF CapturesOwned, Taking
  <2>9. sub[c].at # "store"
    BY <2>2, <2>4 DEF OpeningPlaces
  <2>10. ~Owned(c)
    BY <2>3, <2>7, <2>8, <2>9, NoneAssumption, OwnedMeans
  <2> QED BY <2>0, <2>10 DEF CapturesOwned
<1> QED BY <1>1, ReadersInvariant, PTL DEF Spec, StopsFirst
=============================================================================
