--------------------------- MODULE MCSessionServer ---------------------------
(***************************************************************************)
(* Instances of SessionServer for TLC.                                      *)
(***************************************************************************)
EXTENDS SessionServer

CONSTANTS first, again, other,  \* requests
          a, b,                 \* session ids
          t1, t2                \* flow goroutines

\* Two requests for one id, so that a restart meets the session it replaces.
SameIdRequests == {first, again}
SameId == {a}
SameIdOf == [r \in SameIdRequests |-> a]

\* Two sessions side by side, for the Range of Server.Close.
TwoIdsRequests == {first, other}
TwoIds == {a, b}
TwoIdsOf == [r \in TwoIdsRequests |-> IF r = first THEN a ELSE b]

\* A session on its own.
OneRequest == {first}
OneIdOf == [r \in OneRequest |-> a]

FirstOnLiveKit == {first}

OneThread == {t1}
TwoThreads == {t1, t2}
=============================================================================
