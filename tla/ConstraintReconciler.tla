------------------------ MODULE ConstraintReconciler ------------------------
(***************************************************************************)
(* How the server's capture constraints reach its sessions: SetConstraint,  *)
(* ClearConstraint, runSession, stopReconciler and the reconciler goroutine *)
(* of internal/server.                                                      *)
(*                                                                          *)
(* Only LiveKit sessions: on any other a constraint does nothing. What a    *)
(* capture does with a constraint is ConstraintBook's; here a capture has   *)
(* the set of its active reasons. A call into a capture can stall in its    *)
(* signal connection for as long as it likes.                               *)
(***************************************************************************)
EXTENDS Naturals, FiniteSets

CONSTANTS
  Sessions,
  Reasons,
  MaxChanges,  \* bound on the calls of SetConstraint and ClearConstraint
  None

ASSUME ChangesAssumption == MaxChanges \in Nat
ASSUME NoneAssumption == None \notin Sessions

VARIABLES
  constraints,  \* server.constraints: the reasons that are active
  reasons,      \* server.reasons: every reason ever set
  registered,   \* server.sessions
  unborn,       \* the sessions still to come
  applied,      \* the reasons active on each session's capture
  frozen,       \* captures whose constraints are stopped
  wake,         \* a token in reconciler.wake
  reconciler,   \* where the reconciler goroutine is
  pass,         \* its snapshot, and what its Range still has to do
  closer,       \* where Server.Close is
  changes       \* the number of changes so far

serverVars == <<constraints, reasons, changes>>
sessionVars == <<registered, unborn, applied, frozen>>
passVars == <<wake, reconciler, pass>>
vars == <<serverVars, sessionVars, passVars, closer>>

NoPass == [active |-> {}, reasons |-> {}, due |-> {}, passed |-> {}, at |-> None, todo |-> {}]

TypeOK ==
  /\ constraints \subseteq reasons
  /\ reasons \subseteq Reasons
  /\ registered \subseteq Sessions
  /\ unborn \subseteq Sessions \ registered
  /\ applied \in [Sessions -> SUBSET Reasons]
  /\ frozen \subseteq Sessions
  /\ wake \in BOOLEAN
  /\ reconciler \in {"none", "waiting", "woken", "pass", "done"}
  /\ pass \in [active : SUBSET Reasons, reasons : SUBSET Reasons, due : SUBSET Sessions,
               passed : SUBSET Sessions, at : Sessions \cup {None}, todo : SUBSET Reasons]
  /\ closer \in {"open", "closing", "closed"}
  /\ changes \in 0..MaxChanges

Init ==
  /\ constraints = {}
  /\ reasons = {}
  /\ registered = {}
  /\ unborn = Sessions
  /\ applied = [s \in Sessions |-> {}]
  /\ frozen = {}
  /\ wake = FALSE
  /\ reconciler = "none"
  /\ pass = NoPass
  /\ closer = "open"
  /\ changes = 0

-----------------------------------------------------------------------------
(* Changes of the set, under constraintsMu *)

\* Mutation: a reconciler that is at work is not woken.
WakeIdle ==
  IF closer # "open" \/ reconciler \in {"woken", "pass"}
    THEN UNCHANGED <<wake, reconciler>>
    ELSE /\ reconciler' = IF reconciler = "none" THEN "waiting" ELSE reconciler
         /\ wake' = TRUE

\* wakeReconciler: the goroutine starts with the first change; a token that is
\* already there stands for this change too. Once closed nothing is woken.
Wake ==
  IF closer # "open"
    THEN UNCHANGED <<wake, reconciler>>
    ELSE /\ reconciler' = IF reconciler = "none" THEN "waiting" ELSE reconciler
         /\ wake' = TRUE

SetConstraint(r) ==
  /\ changes < MaxChanges
  /\ changes' = changes + 1
  /\ constraints' = constraints \cup {r}
  /\ reasons' = reasons \cup {r}
  /\ Wake
  /\ UNCHANGED <<sessionVars, pass, closer>>

ClearConstraint(r) ==
  /\ changes < MaxChanges /\ r \in constraints
  /\ changes' = changes + 1
  /\ constraints' = constraints \ {r}
  /\ Wake
  /\ UNCHANGED <<reasons, sessionVars, pass, closer>>

-----------------------------------------------------------------------------
(* Sessions *)

\* runSession, also under constraintsMu: what is active applies to the new
\* capture before the session can be found.
RunSession(s) ==
  /\ s \in unborn
  /\ unborn' = unborn \ {s}
  /\ applied' = [applied EXCEPT ![s] = constraints]
  /\ registered' = registered \cup {s}
  /\ UNCHANGED <<serverVars, frozen, passVars, closer>>

\* StopConstraints, when a session stops; it is unregistered later.
StopCapture(s) ==
  /\ s \in registered \ frozen
  /\ frozen' = frozen \cup {s}
  /\ UNCHANGED <<serverVars, registered, unborn, applied, passVars, closer>>

Unregister(s) ==
  /\ s \in registered \cap frozen
  /\ registered' = registered \ {s}
  /\ UNCHANGED <<serverVars, unborn, applied, frozen, passVars, closer>>

-----------------------------------------------------------------------------
(* The reconciler: runReconciler and reconcileConstraints *)

StopClosed == closer # "open"

\* Mutation: a token is always worth a pass.
TakeWakeUnchecked ==
  /\ reconciler = "waiting" /\ wake
  /\ wake' = FALSE
  /\ reconciler' = "woken"
  /\ UNCHANGED <<serverVars, sessionVars, pass, closer>>

\* The token is taken; a stop that came before it ends the goroutine.
TakeWake ==
  /\ reconciler = "waiting" /\ wake
  /\ wake' = FALSE
  /\ reconciler' = IF StopClosed THEN "done" ELSE "woken"
  /\ UNCHANGED <<serverVars, sessionVars, pass, closer>>

TakeStop ==
  /\ reconciler = "waiting" /\ StopClosed
  /\ reconciler' = "done"
  /\ UNCHANGED <<serverVars, sessionVars, wake, pass, closer>>

\* The pass takes its snapshot under constraintsMu and works from it. due is
\* what is registered then.
BeginPass ==
  /\ reconciler = "woken"
  /\ reconciler' = "pass"
  /\ pass' = [active |-> constraints, reasons |-> reasons, due |-> registered,
              passed |-> {}, at |-> None, todo |-> {}]
  /\ UNCHANGED <<serverVars, sessionVars, wake, closer>>

\* Range comes to a session. One registered since it began may be passed too.
Visit(s) ==
  /\ reconciler = "pass" /\ pass.at = None
  /\ s \in registered \ pass.passed
  /\ pass' = [pass EXCEPT !.at = s, !.todo = pass.reasons, !.passed = @ \cup {s}]
  /\ UNCHANGED <<serverVars, sessionVars, wake, reconciler, closer>>

\* Mutation: a capture that was constrained is not lifted.
ReconcileApplying(r) ==
  /\ reconciler = "pass" /\ r \in pass.todo
  /\ pass' = [pass EXCEPT !.todo = @ \ {r}, !.at = IF pass.todo = {r} THEN None ELSE @]
  /\ applied' = IF pass.at \in frozen THEN applied
                ELSE [applied EXCEPT ![pass.at] = @ \cup (pass.active \cap {r})]
  /\ UNCHANGED <<serverVars, registered, unborn, frozen, wake, reconciler, closer>>

\* The reason is applied or lifted, as the snapshot has it. A capture already
\* there, or stopped, ignores it.
Reconcile(r) ==
  /\ reconciler = "pass" /\ r \in pass.todo
  /\ pass' = [pass EXCEPT !.todo = @ \ {r}, !.at = IF pass.todo = {r} THEN None ELSE @]
  /\ applied' = IF pass.at \in frozen THEN applied
                ELSE [applied EXCEPT ![pass.at] = IF r \in pass.active THEN @ \cup {r} ELSE @ \ {r}]
  /\ UNCHANGED <<serverVars, registered, unborn, frozen, wake, reconciler, closer>>

EndPass ==
  /\ reconciler = "pass" /\ pass.at = None
  /\ pass.due \cap registered \subseteq pass.passed
  /\ reconciler' = "waiting"
  /\ pass' = NoPass
  /\ UNCHANGED <<serverVars, sessionVars, wake, closer>>

-----------------------------------------------------------------------------
(* stopReconciler *)

BeginClose ==
  /\ closer = "open"
  /\ closer' = "closing"
  /\ UNCHANGED <<serverVars, sessionVars, passVars>>

\* It waits for the goroutine, or gives up on one that a stalled send holds.
EndClose ==
  /\ closer = "closing"
  /\ reconciler \in {"none", "done", "pass"}
  /\ closer' = "closed"
  /\ UNCHANGED <<serverVars, sessionVars, passVars>>

-----------------------------------------------------------------------------

Pass ==
  \/ TakeWake \/ TakeStop \/ BeginPass \/ EndPass
  \/ (\E s \in Sessions : Visit(s)) \/ (\E r \in Reasons : Reconcile(r))

Next ==
  \/ \E r \in Reasons : SetConstraint(r) \/ ClearConstraint(r)
  \/ \E s \in Sessions : RunSession(s) \/ StopCapture(s) \/ Unregister(s)
  \/ Pass
  \/ BeginClose \/ EndClose

Spec == Init /\ [][Next]_vars

\* The reconciler goes on, so its sends do not stall for ever: LiveKit's
\* signal connection fails a write in the end.
FairSpec == Spec /\ WF_vars(Pass) /\ WF_vars(EndClose)

-----------------------------------------------------------------------------
(* Safety *)

Live == registered \ frozen

\* With no pass pending or under way, every live capture has exactly the
\* server's constraints: no change is lost between the single token, the
\* snapshot and a session registered while the pass runs.
QuietMeansAgreed ==
  reconciler \in {"none", "waiting"} /\ ~wake /\ closer = "open"
    => \A s \in Live : applied[s] = constraints

\* After Close has returned, nothing but the pass it gave up on touches a
\* capture.
NoPassAfterClose ==
  [][closer = "closed" /\ reconciler # "pass" => reconciler' # "pass"]_vars

-----------------------------------------------------------------------------
(* Liveness, under WF_vars(Pass) *)

\* A constraint that stays set reaches every live capture, and one that stays
\* cleared leaves it.
Settled(s, r) ==
  \/ r \in applied[s] <=> r \in constraints
  \/ s \notin Live
  \/ closer # "open"

CapturesSettle == \A s \in Sessions, r \in Reasons : []<>Settled(s, r)
=============================================================================
