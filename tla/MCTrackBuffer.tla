--------------------------- MODULE MCTrackBuffer ---------------------------
(***************************************************************************)
(* An instance of TrackBuffer for TLC.                                      *)
(***************************************************************************)
EXTENDS TrackBuffer

P(seq, start, end, isKey) ==
  [seq |-> seq, start |-> start, end |-> end, media |-> TRUE, key |-> isKey]

\* A key frame of two packets across the wrap, a frame of one, and two key frames,
\* the second of two packets.
Wrapping == <<P(14, TRUE, FALSE, TRUE), P(0, FALSE, TRUE, FALSE), P(1, TRUE, TRUE, FALSE),
              P(2, TRUE, TRUE, TRUE), P(3, TRUE, FALSE, TRUE), P(4, FALSE, TRUE, FALSE)>>
=============================================================================
