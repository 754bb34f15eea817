--------------------------- MODULE MCDiskPressure ---------------------------
(***************************************************************************)
(* Instances of DiskPressure for TLC.                                       *)
(***************************************************************************)
EXTENDS DiskPressure

\* Levels out of range, disabled, below one another and ordinary.
AnyLevels ==
  [engageMiB : {-1, 0, 1, 2, 9}, releaseMiB : {0, 1, 3},
   engagePercent : {-1, 0, 30, 120}, releasePercent : {0, 30, 50}]
=============================================================================
