----------------------- MODULE MCConstraintReconciler -----------------------
(***************************************************************************)
(* Instances of ConstraintReconciler for TLC.                               *)
(***************************************************************************)
EXTENDS ConstraintReconciler

CONSTANTS s1, s2,      \* sessions
          disk, other  \* reasons

TwoSessions == {s1, s2}
TwoReasons == {disk, other}
=============================================================================
