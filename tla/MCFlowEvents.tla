---------------------------- MODULE MCFlowEvents ----------------------------
(***************************************************************************)
(* An instance of FlowEvents for TLC.                                       *)
(***************************************************************************)
EXTENDS FlowEvents

CONSTANTS video,         \* a track
          d1, d2         \* dispatchers

OneTrack == {video}
TwoDispatchers == {d1, d2}
=============================================================================
