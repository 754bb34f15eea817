---------------------- MODULE ConstraintReconcilerProofs ----------------------
(***************************************************************************)
(* What is proved of the constraint reconciler: the type invariant, that    *)
(* every live capture has the server's constraints once no pass is pending  *)
(* or under way, and that no pass begins after Close has returned; for any  *)
(* sessions, reasons and number of changes.                                 *)
(***************************************************************************)
EXTENDS ConstraintReconciler, TLAPS

-----------------------------------------------------------------------------
(* The inductive invariant *)

\* A capture, like a snapshot, only ever has reasons the server has seen, and
\* these are the reasons a pass goes through.
KnownReasons ==
  /\ \A s \in Sessions : applied[s] \subseteq reasons
  /\ pass.active \subseteq reasons
  /\ pass.reasons \subseteq reasons
  /\ pass.todo \subseteq pass.reasons
  /\ pass.at = None => pass.todo = {}

\* What is left of the pass for a session that it need not come to any more.
Left(s) == IF s = pass.at THEN pass.todo ELSE {}

\* With no token pending, the snapshot of a pass is still the server's set, and
\* a live capture that it need not come to any more differs from that set in
\* what is left of the pass at most.
PassIsUpToDate ==
  reconciler = "pass" /\ ~wake /\ closer = "open"
    => /\ pass.active = constraints /\ pass.reasons = reasons
       /\ \A s \in Live :
            s \notin pass.due \ pass.passed =>
              \A r \in Reasons \ Left(s) : r \in applied[s] <=> r \in constraints

\* Close returns only past the point where a token taken leads to a pass.
NothingWoken == closer = "closed" => reconciler # "woken"

Inv == TypeOK /\ KnownReasons /\ PassIsUpToDate /\ QuietMeansAgreed /\ NothingWoken

-----------------------------------------------------------------------------
(* The conjuncts, each preserved by every step *)

LEMMA InitInv == Init => Inv
<1> SUFFICES ASSUME Init PROVE Inv
  OBVIOUS
<1>1. TypeOK
  <2>1. pass \in [active : SUBSET Reasons, reasons : SUBSET Reasons, due : SUBSET Sessions,
                  passed : SUBSET Sessions, at : Sessions \cup {None}, todo : SUBSET Reasons]
    BY DEF Init, NoPass
  <2>2. applied \in [Sessions -> SUBSET Reasons]
    BY DEF Init
  <2>3. changes \in 0..MaxChanges
    BY ChangesAssumption DEF Init
  <2>4. wake \in BOOLEAN
    BY DEF Init
  <2>5. unborn \subseteq Sessions \ registered /\ registered \subseteq Sessions
    BY DEF Init
  <2> QED
    BY <2>1, <2>2, <2>3, <2>4, <2>5 DEF Init, TypeOK
<1>2. KnownReasons
  BY DEF Init, KnownReasons, NoPass
<1>3. PassIsUpToDate /\ QuietMeansAgreed /\ NothingWoken
  BY DEF Init, PassIsUpToDate, QuietMeansAgreed, NothingWoken, Live
<1> QED
  BY <1>1, <1>2, <1>3 DEF Inv

LEMMA TypeStep ==
  ASSUME TypeOK, Next
  PROVE  TypeOK'
<1> USE ChangesAssumption DEF TypeOK, serverVars, sessionVars, passVars
<1>1. ASSUME NEW r \in Reasons, SetConstraint(r) \/ ClearConstraint(r)
      PROVE  TypeOK'
  <2>1. changes' \in 0..MaxChanges
    BY <1>1 DEF SetConstraint, ClearConstraint
  <2>2. constraints' \subseteq reasons' /\ reasons' \subseteq Reasons
    BY <1>1 DEF SetConstraint, ClearConstraint
  <2>3. wake' \in BOOLEAN /\ reconciler' \in {"none", "waiting", "woken", "pass", "done"}
    BY <1>1 DEF SetConstraint, ClearConstraint, Wake
  <2> QED
    BY <1>1, <2>1, <2>2, <2>3 DEF SetConstraint, ClearConstraint
<1>2. ASSUME NEW s \in Sessions, RunSession(s)
      PROVE  TypeOK'
  BY <1>2 DEF RunSession
<1>3. ASSUME NEW s \in Sessions, StopCapture(s) \/ Unregister(s)
      PROVE  TypeOK'
  BY <1>3 DEF StopCapture, Unregister
<1>4. ASSUME TakeWake \/ TakeStop
      PROVE  TypeOK'
  BY <1>4 DEF TakeWake, TakeStop
<1>5. ASSUME BeginPass
      PROVE  TypeOK'
  BY <1>5 DEF BeginPass
<1>6. ASSUME EndPass
      PROVE  TypeOK'
  BY <1>6 DEF EndPass, NoPass
<1>7. ASSUME NEW s \in Sessions, Visit(s)
      PROVE  TypeOK'
  BY <1>7 DEF Visit
<1>8. ASSUME NEW r \in Reasons, Reconcile(r)
      PROVE  TypeOK'
  <2>1. pass' \in [active : SUBSET Reasons, reasons : SUBSET Reasons, due : SUBSET Sessions,
                   passed : SUBSET Sessions, at : Sessions \cup {None}, todo : SUBSET Reasons]
    BY <1>8 DEF Reconcile
  <2>2. applied' \in [Sessions -> SUBSET Reasons]
    BY <1>8 DEF Reconcile
  <2> QED
    BY <1>8, <2>1, <2>2 DEF Reconcile
<1>9. ASSUME BeginClose \/ EndClose
      PROVE  TypeOK'
  BY <1>9 DEF BeginClose, EndClose
<1> QED
  BY <1>1, <1>2, <1>3, <1>4, <1>5, <1>6, <1>7, <1>8, <1>9 DEF Next, Pass

LEMMA KnownReasonsStep ==
  ASSUME TypeOK, KnownReasons, Next
  PROVE  KnownReasons'
<1> USE DEF TypeOK, KnownReasons, serverVars, sessionVars, passVars
<1>1. ASSUME NEW r \in Reasons, SetConstraint(r) \/ ClearConstraint(r)
      PROVE  KnownReasons'
  BY <1>1 DEF SetConstraint, ClearConstraint
<1>2. ASSUME NEW s \in Sessions, RunSession(s) \/ StopCapture(s) \/ Unregister(s)
      PROVE  KnownReasons'
  BY <1>2 DEF RunSession, StopCapture, Unregister
<1>3. ASSUME TakeWake \/ TakeStop \/ BeginClose \/ EndClose
      PROVE  KnownReasons'
  BY <1>3 DEF TakeWake, TakeStop, BeginClose, EndClose
<1>4. ASSUME BeginPass \/ EndPass
      PROVE  KnownReasons'
  BY <1>4 DEF BeginPass, EndPass, NoPass
<1>5. ASSUME NEW s \in Sessions, Visit(s)
      PROVE  KnownReasons'
  BY <1>5, NoneAssumption DEF Visit
<1>6. ASSUME NEW r \in Reasons, Reconcile(r)
      PROVE  KnownReasons'
  <2>1. pass'.active = pass.active /\ pass'.reasons = pass.reasons
        /\ pass'.todo = pass.todo \ {r}
        /\ pass'.at = (IF pass.todo = {r} THEN None ELSE pass.at)
    BY <1>6 DEF Reconcile
  <2>2. \A s \in Sessions : applied'[s] \subseteq applied[s] \cup pass.active
    BY <1>6 DEF Reconcile
  <2>3. reasons' = reasons /\ pass.todo # {}
    BY <1>6 DEF Reconcile
  <2> QED
    BY <2>1, <2>2, <2>3
<1> QED
  BY <1>1, <1>2, <1>3, <1>4, <1>5, <1>6 DEF Next, Pass

\* A change of the server's set leaves a token, unless Close has begun.
LEMMA ChangeWakes ==
  ASSUME NEW r \in Reasons, SetConstraint(r) \/ ClearConstraint(r), closer = "open"
  PROVE  wake'
BY DEF SetConstraint, ClearConstraint, Wake

LEMMA PassStep ==
  ASSUME TypeOK, KnownReasons, PassIsUpToDate, Next
  PROVE  PassIsUpToDate'
<1> USE DEF PassIsUpToDate, Live, Left, serverVars, sessionVars, passVars
<1>1. ASSUME NEW r \in Reasons, SetConstraint(r) \/ ClearConstraint(r)
      PROVE  PassIsUpToDate'
  BY <1>1, ChangeWakes DEF SetConstraint, ClearConstraint
<1>2. ASSUME NEW s \in Sessions, RunSession(s)
      PROVE  PassIsUpToDate'
  BY <1>2 DEF RunSession, TypeOK
<1>3. ASSUME NEW s \in Sessions, StopCapture(s) \/ Unregister(s)
      PROVE  PassIsUpToDate'
  BY <1>3 DEF StopCapture, Unregister
<1>4. ASSUME TakeWake \/ TakeStop \/ EndPass
      PROVE  PassIsUpToDate'
  BY <1>4 DEF TakeWake, TakeStop, EndPass
<1>5. ASSUME BeginPass
      PROVE  PassIsUpToDate'
  BY <1>5 DEF BeginPass, TypeOK
<1>6. ASSUME NEW s \in Sessions, Visit(s)
      PROVE  PassIsUpToDate'
  <2> SUFFICES ASSUME reconciler = "pass", ~wake, closer = "open",
                      NEW t \in Live, t \notin pass'.due \ pass'.passed,
                      NEW r \in Reasons \ Left(t)'
               PROVE  r \in applied[t] <=> r \in constraints
    BY <1>6 DEF Visit, TypeOK
  <2>1. pass'.at = s /\ pass'.todo = reasons /\ pass'.due = pass.due
        /\ pass'.passed = pass.passed \cup {s}
    BY <1>6 DEF Visit, TypeOK
  <2>2. CASE t = s
    <3>1. r \notin reasons
      BY <2>1, <2>2
    <3> QED BY <3>1 DEF KnownReasons, TypeOK
  <2>3. CASE t # s
    <3>1. t \notin pass.due \ pass.passed /\ Left(t) = {}
      BY <1>6, <2>1, <2>3, NoneAssumption DEF TypeOK, Visit
    <3> QED BY <3>1
  <2> QED BY <2>2, <2>3
<1>7. ASSUME NEW q \in Reasons, Reconcile(q)
      PROVE  PassIsUpToDate'
  <2> SUFFICES ASSUME reconciler = "pass", ~wake, closer = "open",
                      NEW t \in Live, t \notin pass.due \ pass.passed,
                      NEW r \in Reasons \ Left(t)'
               PROVE  r \in applied'[t] <=> r \in constraints
    BY <1>7 DEF Reconcile, TypeOK
  <2>1. pass.todo # {} /\ pass.at # None /\ pass'.todo = pass.todo \ {q}
        /\ pass'.at = (IF pass.todo = {q} THEN None ELSE pass.at)
    BY <1>7 DEF Reconcile, TypeOK, KnownReasons
  <2>2. t \in Sessions /\ t \notin frozen
    BY DEF TypeOK
  <2>3. CASE t = pass.at
    <3>1. applied'[t] = IF q \in constraints THEN applied[t] \cup {q} ELSE applied[t] \ {q}
      BY <1>7, <2>2, <2>3 DEF Reconcile, TypeOK
    <3>2. r \notin pass.todo \ {q}
      BY <2>1, <2>2, <2>3, NoneAssumption
    <3> QED BY <2>3, <3>1, <3>2
  <2>4. CASE t # pass.at
    <3>1. applied'[t] = applied[t]
      BY <1>7, <2>2, <2>4 DEF Reconcile, TypeOK
    <3>2. Left(t) = {}
      BY <2>4
    <3> QED BY <3>1, <3>2
  <2> QED BY <2>3, <2>4
<1>8. ASSUME BeginClose \/ EndClose
      PROVE  PassIsUpToDate'
  BY <1>8 DEF BeginClose, EndClose
<1> QED
  BY <1>1, <1>2, <1>3, <1>4, <1>5, <1>6, <1>7, <1>8 DEF Next, Pass

LEMMA QuietStep ==
  ASSUME TypeOK, KnownReasons, PassIsUpToDate, QuietMeansAgreed, Next
  PROVE  QuietMeansAgreed'
<1> USE DEF QuietMeansAgreed, Live, serverVars, sessionVars, passVars
<1>1. ASSUME NEW r \in Reasons, SetConstraint(r) \/ ClearConstraint(r)
      PROVE  QuietMeansAgreed'
  BY <1>1, ChangeWakes DEF SetConstraint, ClearConstraint
<1>2. ASSUME NEW s \in Sessions, RunSession(s)
      PROVE  QuietMeansAgreed'
  BY <1>2 DEF RunSession, TypeOK
<1>3. ASSUME NEW s \in Sessions, StopCapture(s) \/ Unregister(s)
      PROVE  QuietMeansAgreed'
  BY <1>3 DEF StopCapture, Unregister
<1>4. ASSUME TakeWake \/ TakeStop \/ BeginPass \/ BeginClose \/ EndClose
      PROVE  QuietMeansAgreed'
  BY <1>4 DEF TakeWake, TakeStop, BeginPass, BeginClose, EndClose
<1>5. ASSUME EndPass
      PROVE  QuietMeansAgreed'
  <2> SUFFICES ASSUME ~wake, closer = "open", NEW s \in Live
               PROVE  applied[s] = constraints
    BY <1>5 DEF EndPass
  <2>1. s \in Sessions /\ Left(s) = {} /\ s \notin pass.due \ pass.passed
    BY <1>5, NoneAssumption DEF EndPass, Left, TypeOK
  <2>2. \A r \in Reasons : r \in applied[s] <=> r \in constraints
    BY <1>5, <2>1 DEF EndPass, PassIsUpToDate
  <2> QED BY <2>1, <2>2 DEF TypeOK
<1>6. ASSUME NEW s \in Sessions, Visit(s)
      PROVE  QuietMeansAgreed'
  BY <1>6 DEF Visit
<1>7. ASSUME NEW r \in Reasons, Reconcile(r)
      PROVE  QuietMeansAgreed'
  BY <1>7 DEF Reconcile
<1> QED
  BY <1>1, <1>2, <1>3, <1>4, <1>5, <1>6, <1>7 DEF Next, Pass

LEMMA NothingWokenStep ==
  ASSUME NothingWoken, Next
  PROVE  NothingWoken'
<1> USE DEF NothingWoken, serverVars, sessionVars, passVars
<1>1. ASSUME NEW r \in Reasons, SetConstraint(r) \/ ClearConstraint(r)
      PROVE  NothingWoken'
  BY <1>1 DEF SetConstraint, ClearConstraint, Wake
<1>2. ASSUME NEW s \in Sessions, RunSession(s) \/ StopCapture(s) \/ Unregister(s) \/ Visit(s)
      PROVE  NothingWoken'
  BY <1>2 DEF RunSession, StopCapture, Unregister, Visit
<1>3. ASSUME Pass \/ BeginClose \/ EndClose
      PROVE  NothingWoken'
  BY <1>3
  DEF Pass, TakeWake, TakeStop, BeginPass, EndPass, Visit, Reconcile, StopClosed,
      BeginClose, EndClose
<1> QED
  BY <1>1, <1>2, <1>3 DEF Next

LEMMA NextInv == Inv /\ [Next]_vars => Inv'
<1> SUFFICES ASSUME Inv, [Next]_vars PROVE Inv'
  OBVIOUS
<1>1. CASE Next
  BY <1>1, TypeStep, KnownReasonsStep, PassStep, QuietStep, NothingWokenStep DEF Inv
<1>2. CASE UNCHANGED vars
  BY <1>2
  DEF Inv, TypeOK, KnownReasons, PassIsUpToDate, QuietMeansAgreed, NothingWoken, Live,
      Left, vars, serverVars, sessionVars, passVars
<1> QED BY <1>1, <1>2

\* The invariant holds in every state of the reconciler.
LEMMA ReconcilerInvariant == Spec => []Inv
BY InitInv, NextInv, PTL DEF Spec

-----------------------------------------------------------------------------
(* Theorems *)

\* Every variable keeps its type; a session's capture and the reconciler's
\* snapshot only have reasons the server was given.
THEOREM ReconcilerTypeCorrect == Spec => [](TypeOK /\ KnownReasons)
<1>1. Inv => TypeOK /\ KnownReasons
  BY DEF Inv
<1> QED BY <1>1, ReconcilerInvariant, PTL

\* Between wakeReconciler's single token, the snapshot of reconcileConstraints
\* and sessions that runSession registers meanwhile, no change is lost: when
\* nothing is pending, every live capture has the server's constraints.
THEOREM NoChangeIsLost == Spec => []QuietMeansAgreed
<1>1. Inv => QuietMeansAgreed
  BY DEF Inv
<1> QED BY <1>1, ReconcilerInvariant, PTL

\* After stopReconciler has returned no pass begins: a capture is touched only
\* by the pass it gave up on.
THEOREM NoPassOnceClosed == Spec => NoPassAfterClose
<1>1. Inv /\ [Next]_vars
        => [closer = "closed" /\ reconciler # "pass" => reconciler' # "pass"]_vars
  <2> SUFFICES ASSUME Inv, Next, closer = "closed", reconciler # "pass"
               PROVE  reconciler' # "pass"
    OBVIOUS
  <2>1. ~BeginPass
    BY DEF BeginPass, Inv, NothingWoken
  <2> QED
    BY <2>1
    DEF Next, Pass, SetConstraint, ClearConstraint, Wake, RunSession, StopCapture,
        Unregister, TakeWake, TakeStop, EndPass, Visit, Reconcile, BeginClose, EndClose,
        passVars
<1> QED BY <1>1, ReconcilerInvariant, PTL DEF Spec, NoPassAfterClose
=============================================================================
