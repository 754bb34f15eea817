-------------------------- MODULE MCMediasoupTrack --------------------------
(***************************************************************************)
(* Instances of MediasoupTrack for TLC.                                     *)
(***************************************************************************)
EXTENDS MediasoupTrack

P(start, partition, key, marker, pic) ==
  [payload |-> "vp8", start |-> start, partition |-> partition, key |-> key,
   marker |-> marker, pic |-> pic]

\* A key frame of two packets, and three delta frames of one:
\* their picture ids wrap, and with a base of 10 their wire numbers.
Short ==
  <<P(TRUE, 0, TRUE, FALSE, 6), P(FALSE, 0, FALSE, TRUE, 6),
    P(TRUE, 0, FALSE, TRUE, 7), P(TRUE, 0, FALSE, TRUE, 8), P(TRUE, 0, FALSE, TRUE, 9)>>

\* A key frame, padding or a payload that is not VP8, and a delta frame.
Broken(payload) ==
  <<P(TRUE, 0, TRUE, TRUE, 1), [P(FALSE, 0, FALSE, FALSE, 0) EXCEPT !.payload = payload],
    P(TRUE, 0, FALSE, TRUE, 2)>>

\* A key frame of two partitions.
Parted == <<P(TRUE, 0, TRUE, FALSE, 1), P(TRUE, 1, FALSE, FALSE, 1), P(FALSE, 0, FALSE, TRUE, 1)>>

\* A key frame of three packets.
Key ==
  <<P(TRUE, 0, TRUE, FALSE, 1), P(FALSE, 0, FALSE, FALSE, 1), P(FALSE, 0, FALSE, TRUE, 1)>>

OneKey == {Key}
ManyStreams == {Short, Broken("none"), Broken("broken"), Parted}
FirstBase == {1}
WrapBase == {10}
=============================================================================
