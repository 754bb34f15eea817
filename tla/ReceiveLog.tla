----------------------------- MODULE ReceiveLog -----------------------------
(***************************************************************************)
(* What a mediasoup track knows of the sequence numbers received, from      *)
(* internal/webrtc/utils: the unwrapper that counts them past their wrap,   *)
(* and the log that says which to ask for again. Wire numbers are modulo    *)
(* SeqMod, 2^16 in the code.                                                *)
(***************************************************************************)
EXTENDS Integers, FiniteSetsExt

CONSTANTS
  SeqMod,   \* wire sequence numbers are 0 .. SeqMod - 1
  LogSize   \* numbers the log covers; divides SeqMod

Half == SeqMod \div 2
Minus(a, b) == (a - b) % SeqMod

-----------------------------------------------------------------------------
(* SequenceUnwrapper *)

Unwrappers == [started : BOOLEAN, wrapArounds : Nat, highest : 0 .. SeqMod - 1]

NewUnwrapper == [started |-> FALSE, wrapArounds |-> 0, highest |-> 0]

\* Unwrap: a number far below the highest has wrapped round, one far above it
\* is from before the wrap, and then never goes below zero.
Unwrap(su, n) ==
  IF ~su.started
    THEN [number |-> n, unwrapper |-> [su EXCEPT !.started = TRUE, !.highest = n]]
  ELSE IF su.highest - n > Half
    THEN [number |-> su.wrapArounds + SeqMod + n,
          unwrapper |-> [su EXCEPT !.wrapArounds = @ + SeqMod, !.highest = n]]
  ELSE IF n - su.highest > Half
    THEN LET wraps == su.wrapArounds + (IF su.wrapArounds - SeqMod + n <= 0 THEN SeqMod ELSE 0)
         IN  [number |-> wraps - SeqMod + n, unwrapper |-> [su EXCEPT !.wrapArounds = wraps]]
  ELSE [number |-> su.wrapArounds + n, unwrapper |-> [su EXCEPT !.highest = Max({@, n})]]

-----------------------------------------------------------------------------
(* ReceiveLog *)

Logs ==
  [started : BOOLEAN, end : 0 .. SeqMod - 1, lastConsecutive : 0 .. SeqMod - 1,
   bits : SUBSET (0 .. LogSize - 1)]

NewLog == [started |-> FALSE, end |-> 0, lastConsecutive |-> 0, bits |-> {}]

Get(rl, seq) == (seq % LogSize) \in rl.bits
Set(rl, seq) == [rl EXCEPT !.bits = @ \cup {seq % LogSize}]

\* fixLastConsecutive: on to the last of the numbers set without a gap.
FixLastConsecutive(rl) ==
  LET run == {k \in 0 .. Minus(rl.end, rl.lastConsecutive) :
                \A i \in 1 .. k : Get(rl, rl.lastConsecutive + i)}
  IN  [rl EXCEPT !.lastConsecutive = (@ + Max(run)) % SeqMod]

\* Mutation: newer is greater, whatever the wrap.
AddComparing(rl, seq) ==
  LET gap == Minus(seq, rl.lastConsecutive)
      ahead == [rl EXCEPT !.end = seq, !.bits = @ \ {i % LogSize : i \in rl.end + 1 .. seq - 1}]
  IN  IF ~rl.started
        THEN Set([rl EXCEPT !.started = TRUE, !.end = seq, !.lastConsecutive = seq], seq)
      ELSE IF seq > rl.end
        THEN Set(IF gap = 1 THEN [ahead EXCEPT !.lastConsecutive = seq] ELSE ahead, seq)
      ELSE IF gap = 1 THEN Set(FixLastConsecutive([rl EXCEPT !.lastConsecutive = seq]), seq)
      ELSE Set(rl, seq)

\* Add: the numbers between the newest and a newer one are cleared, and the
\* last consecutive one is at most LogSize behind the newest.
Add(rl, seq) ==
  LET diff == Minus(seq, rl.end)
      gap == Minus(seq, rl.lastConsecutive)
      ahead == [rl EXCEPT !.end = seq,
                          !.bits = @ \ {(rl.end + i) % LogSize : i \in 1 .. diff - 1}]
  IN  IF ~rl.started
        THEN Set([rl EXCEPT !.started = TRUE, !.end = seq, !.lastConsecutive = seq], seq)
      ELSE IF diff = 0 THEN rl
      ELSE IF diff < Half /\ gap = 1 THEN Set([ahead EXCEPT !.lastConsecutive = seq], seq)
      ELSE IF diff < Half /\ gap > LogSize
        THEN Set(FixLastConsecutive([ahead EXCEPT !.lastConsecutive = Minus(seq, LogSize)]), seq)
      ELSE IF diff < Half THEN Set(ahead, seq)
      ELSE IF gap = 1 THEN Set(FixLastConsecutive([rl EXCEPT !.lastConsecutive = seq]), seq)
      ELSE Set(rl, seq)

\* MissingSeqNumbers, as a set: those not set up to skipLastN before the end.
Missing(rl, skipLastN) ==
  LET until == Minus(rl.end, skipLastN)
      span == Minus(until, rl.lastConsecutive)
  IN  IF span >= Half THEN {}
      ELSE {s \in {(rl.lastConsecutive + i) % SeqMod : i \in 1 .. span} : ~Get(rl, s)}

\* IgnoreSeqNum: given up, and counted as received.
Ignore(rl, seq) ==
  LET set == Set(rl, seq) IN
  IF Minus(seq, rl.lastConsecutive) = 1
    THEN FixLastConsecutive([set EXCEPT !.lastConsecutive = seq])
    ELSE set
=============================================================================
