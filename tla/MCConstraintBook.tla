-------------------------- MODULE MCConstraintBook --------------------------
(***************************************************************************)
(* An instance of ConstraintBook for TLC: a cap of cameras to low, a cap of *)
(* all video to medium and one to high, which lowers nothing.               *)
(***************************************************************************)
EXTENDS ConstraintBook

CONSTANTS cameras, all, idle,   \* reasons
          cam1, cam2, screen    \* tracks

AllReasons == {cameras, all, idle}
Caps == [r \in AllReasons |-> CASE r = cameras -> 0 [] r = all -> 1 [] OTHER -> 2]
Listed == [r \in AllReasons |-> IF r = cameras THEN {"camera"} ELSE {"camera", "screen"}]
AllTracks == {cam1, cam2, screen}
Source == [t \in AllTracks |-> IF t = screen THEN "screen" ELSE "camera"]
=============================================================================
