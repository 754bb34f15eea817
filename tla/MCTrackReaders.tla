-------------------------- MODULE MCTrackReaders --------------------------
(***************************************************************************)
(* An instance of TrackReaders for TLC.                                     *)
(***************************************************************************)
EXTENDS TrackReaders

CONSTANTS first, again

Twice == {first, again}
=============================================================================
