---------------------------- MODULE JitterBuffer ----------------------------
(***************************************************************************)
(* The jitter buffer of a mediasoup track, internal/webrtc/utils: a ring of *)
(* Size packets kept by unwrapped sequence number, as operators from one    *)
(* buffer to the next. A slot holds what identifies the packet in it.       *)
(***************************************************************************)
EXTENDS Integers, FiniteSetsExt

CONSTANTS
  Size,      \* config JitterBuffer
  NoPacket

Slots == 0 .. Size - 1

\* The buffers there can be, of packets with the given ids.
Buffers(ids) ==
  [nextStart : Nat, end : Nat, slot : [Slots -> {NoPacket} \cup ids],
   waiting : SUBSET Nat, overdue : SUBSET Nat, lastSkipped : Nat]

\* nextStart is 0 until the first packet. waiting are the numbers with an
\* entry in missingPacketTimers, overdue those whose entry is packetTimeout old.
NewBuffer ==
  [nextStart |-> 0, end |-> 0, slot |-> [i \in Slots |-> NoPacket],
   waiting |-> {}, overdue |-> {}, lastSkipped |-> 0]

Holds(jb, seq) == jb.slot[seq % Size] # NoPacket

\* A packet is refused when it is too old, or when its slot is taken.
Accepts(jb, seq) ==
  /\ jb.end - seq < Size
  /\ ~(seq <= jb.end /\ Holds(jb, seq))

\* Mutation: a packet from before the buffer's start moves the start back.
AddRewinding(jb, seq, p) ==
  IF ~Accepts(jb, seq) THEN jb
  ELSE LET passed == {i % Size : i \in jb.end + 1 .. seq - 1}
           end == Max({jb.end, seq})
       IN  [jb EXCEPT
             !.end = end,
             !.nextStart = Max({IF @ = 0 THEN seq ELSE Min({@, seq}), end - Size + 1}),
             !.slot = [i \in Slots |-> IF i = seq % Size THEN p
                                       ELSE IF i \in passed THEN NoPacket ELSE @[i]]]

\* Add: the slots passed over are emptied, a jump of Size or more empties
\* all, and the start slides so that the window ends at the newest packet.
Add(jb, seq, p) ==
  IF ~Accepts(jb, seq) THEN jb
  ELSE LET passed == IF seq - jb.end >= Size THEN Slots
                     ELSE {i % Size : i \in jb.end + 1 .. seq - 1}
           end == Max({jb.end, seq})
       IN  [jb EXCEPT
             !.end = end,
             !.nextStart = Max({IF @ = 0 THEN seq ELSE @, end - Size + 1}),
             !.slot = [i \in Slots |-> IF i = seq % Size THEN p
                                       ELSE IF i \in passed THEN NoPacket ELSE @[i]]]

\* Where NextPackets gets to: past every number at the start that is missing
\* and has been waited for long enough.
AfterSkips(jb) ==
  Min({n \in jb.nextStart .. jb.end + 1 :
         n > jb.end \/ Holds(jb, n) \/ n \notin jb.overdue})

\* The packets NextPackets returns from n on: up to the first one missing.
LastHeld(jb, n) ==
  Max({m \in n .. jb.end : \A i \in n .. m : Holds(jb, i)})

\* NextPackets: packets is the run it releases, <<>> for nil; skipped, whether
\* this call skipped a number. Asking for a missing one starts its timer.
NextPackets(jb) ==
  LET n == IF jb.nextStart > jb.end THEN jb.nextStart ELSE AfterSkips(jb)
      skips == jb.nextStart .. n - 1
      skipped == [jb EXCEPT !.nextStart = n, !.waiting = @ \ skips, !.overdue = @ \ skips,
                            !.lastSkipped = IF skips = {} THEN @ ELSE n - 1]
  IN  IF n > jb.end
        THEN [packets |-> <<>>, skipped |-> skips # {}, buffer |-> skipped]
      ELSE IF ~Holds(jb, n)
        THEN [packets |-> <<>>, skipped |-> skips # {},
              buffer |-> [skipped EXCEPT !.waiting = @ \cup {n}]]
      ELSE LET last == LastHeld(jb, n)
               out == {i % Size : i \in n .. last}
           IN  [packets |-> [k \in 1 .. last - n + 1 |-> jb.slot[(n + k - 1) % Size]],
                skipped |-> skips # {},
                buffer |-> [skipped EXCEPT
                  !.nextStart = last + 1, !.waiting = @ \ {n}, !.overdue = @ \ {n},
                  !.slot = [i \in Slots |-> IF i \in out THEN NoPacket ELSE @[i]]]]

\* SkipPacket, up to the call of SetNextPacketsStart: whether seq is at the
\* start, and the skip it notes there.
SkipPacket(jb, seq) ==
  IF seq = jb.nextStart THEN [jb EXCEPT !.lastSkipped = seq] ELSE jb

\* The rest of SetNextPacketsStart, once its check has passed: the slots from
\* wherever the start is now are emptied, and the start is set past seq.
SetNextPacketsStart(jb, seq) ==
  [jb EXCEPT !.nextStart = seq + 1,
             !.slot = IF jb.nextStart = seq THEN [@ EXCEPT ![seq % Size] = NoPacket] ELSE @]
=============================================================================
