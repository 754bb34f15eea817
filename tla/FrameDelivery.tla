--------------------------- MODULE FrameDelivery ---------------------------
(***************************************************************************)
(* What a track buffer promises the recorder: whole frames, in the order    *)
(* they were sent, each at most once, until the track ends.                 *)
(***************************************************************************)
EXTENDS Integers, Sequences

CONSTANT Frames  \* the frames sent: sets of packets, numbered as they are sent

VARIABLES handed,  \* packets handed to the recorder
          over     \* the track has ended

Ascending(s) == \A i, j \in DOMAIN s : i < j => s[i] < s[j]

Init == handed = <<>> /\ over = FALSE

\* The packets of some frames, or of none, after all those handed before.
Hand ==
  /\ handed' \in Seq(Nat) /\ Len(handed) <= Len(handed')
  /\ SubSeq(handed', 1, Len(handed)) = handed
  /\ Ascending(handed')
  /\ \E F \in SUBSET Frames :
       {handed'[i] : i \in Len(handed) + 1 .. Len(handed')} = UNION F

Next == ~over /\ Hand /\ over' \in BOOLEAN
Spec == Init /\ [][Next]_<<handed, over>>
=============================================================================
