--------------------------- MODULE ConstraintBook ---------------------------
(***************************************************************************)
(* The capture constraints of one LiveKit adapter: constraintBook and its   *)
(* callers ApplyConstraint, LiftConstraint, setSubscribeVideoQuality and    *)
(* StopConstraints of internal/webrtc/livekit.                              *)
(*                                                                          *)
(* The server (its reconciler, and the receive loop before the session is   *)
(* registered) applies and lifts constraints; the session's Run goroutine   *)
(* subscribes tracks and stops the constraints. The book changes under the  *)
(* adapter's m; constraintMu is kept from there until the qualities are     *)
(* sent and the gauge is updated, with m released. StopConstraints takes    *)
(* only m.                                                                  *)
(***************************************************************************)
EXTENDS Integers, Sequences, SequencesExt, FiniteSets, FiniteSetsExt

CONSTANTS
  Reasons,     \* reasons a constraint can have; one constraint for each
  Cap,         \* the video quality each reason caps to
  Sources,     \* the sources each reason lists
  Tracks,      \* the video tracks of the capture
  SourceOf,    \* each track's source
  Preferred,   \* the preferred quality: 0 low, 1 medium, 2 high
  MaxRecords,  \* bound on the intervals recorded
  None

Quality == 0..2

ASSUME ConstraintAssumption ==
  /\ Cap \in [Reasons -> Quality]
  /\ Preferred \in Quality
  /\ MaxRecords \in Nat
  /\ None \notin Quality

VARIABLES
  active,    \* book.active
  tracks,    \* book.tracks: the tracks subscribed
  quality,   \* book.quality
  openIdx,   \* book.openIdx; 0: no open interval
  records,   \* book.records
  stopped,   \* book.stopped
  change,    \* what the holder of constraintMu still has to do
  closing,   \* reasons StopConstraints still has to take off the gauge
  sent,      \* the quality last sent to LiveKit for a track
  gauge      \* ConstrainedCapturesActive, this capture's part, per reason

bookVars == <<active, tracks, quality, openIdx, records, stopped>>
vars == <<bookVars, change, closing, sent, gauge>>

Ends == {"open", "released", "captureStopped"}

Free == [by |-> None, sends |-> {}, up |-> {}, down |-> {}]

TypeOK ==
  /\ active \subseteq Reasons
  /\ tracks \subseteq Tracks
  /\ quality \in [Tracks -> Quality \cup {None}]
  /\ openIdx \in [Reasons -> 0..Len(records)]
  /\ records \in Seq([reason : Reasons, tracks : SUBSET Tracks, end : Ends])
  /\ stopped \in BOOLEAN
  /\ change \in [by : {None, "server", "run"}, sends : SUBSET (Tracks \X Quality),
                 up : SUBSET Reasons, down : SUBSET Reasons]
  /\ closing \subseteq Reasons
  /\ sent \in [Tracks -> Quality \cup {None}]
  /\ gauge \in [Reasons -> Int]

Init ==
  /\ active = {}
  /\ tracks = {}
  /\ quality = [t \in Tracks |-> None]
  /\ openIdx = [r \in Reasons |-> 0]
  /\ records = <<>>
  /\ stopped = FALSE
  /\ change = Free
  /\ closing = {}
  /\ sent = [t \in Tracks |-> None]
  /\ gauge = [r \in Reasons |-> 0]

-----------------------------------------------------------------------------
(* constraintBook *)

\* Reason r's constraint lowers t, whatever else is active.
Binds(r, t) == Cap[r] < Preferred /\ SourceOf[t] \in Sources[r]

\* The lowest cap among the reasons in rs, for t's source.
Effective(rs, t) ==
  Min({Preferred} \cup {Cap[r] : r \in {q \in rs : SourceOf[t] \in Sources[q]}})

Bound(r) == {t \in tracks : Binds(r, t)}

Requalify(rs, ts) ==
  quality' = [t \in Tracks |-> IF t \in ts THEN Effective(rs, t) ELSE quality[t]]

Changed(ts) == {<<t, quality'[t]>> : t \in {u \in ts : quality'[u] # quality[u]}}

\* openRecord, for each of the reasons rs over the tracks ts.
Opened(rs, ts) ==
  LET order == SetToSeq(rs)
  IN [k \in 1..Cardinality(rs) |-> [reason |-> order[k], tracks |-> ts, end |-> "open"]]

IndexIn(rs, r) == Len(records) + (CHOOSE k \in 1..Cardinality(rs) : SetToSeq(rs)[k] = r)

-----------------------------------------------------------------------------
(* The server's calls, under constraintMu *)

\* ApplyConstraint of a reason that is not active; of any other, and once
\* stopped, it does nothing. Nothing is sent when no track is bound yet.
Apply(r) ==
  /\ change = Free
  /\ ~stopped /\ r \notin active /\ Len(records) < MaxRecords
  /\ active' = active \cup {r}
  /\ Requalify(active', Bound(r))
  /\ IF Bound(r) = {}
       THEN UNCHANGED <<openIdx, records, change>>
       ELSE /\ records' = records \o Opened({r}, Bound(r))
            /\ openIdx' = [openIdx EXCEPT ![r] = Len(records')]
            /\ change' = [by |-> "server", sends |-> Changed(Bound(r)), up |-> {r}, down |-> {}]
  /\ UNCHANGED <<tracks, stopped, closing, sent, gauge>>

\* LiftConstraint of an active reason. Without an open interval it returns
\* before it sends anything.
Lift(r) ==
  /\ change = Free
  /\ ~stopped /\ r \in active
  /\ active' = active \ {r}
  /\ Requalify(active', Bound(r))
  /\ IF openIdx[r] = 0
       THEN UNCHANGED <<openIdx, records, change>>
       ELSE /\ records' = [records EXCEPT ![openIdx[r]].end = "released"]
            /\ openIdx' = [openIdx EXCEPT ![r] = 0]
            /\ change' = [by |-> "server", sends |-> Changed(Bound(r)), up |-> {}, down |-> {r}]
  /\ UNCHANGED <<tracks, stopped, closing, sent, gauge>>

-----------------------------------------------------------------------------
(* The session's Run goroutine *)

RunIsFree == change.by # "run" /\ closing = {}

\* Mutation: a later track opens no interval.
AddTrackUnrecorded(t) ==
  /\ change = Free /\ RunIsFree
  /\ ~stopped /\ t \notin tracks
  /\ tracks' = tracks \cup {t}
  /\ quality' = [quality EXCEPT ![t] = Effective(active, t)]
  /\ change' = [by |-> "run", sends |-> {<<t, quality'[t]>>}, up |-> {}, down |-> {}]
  /\ UNCHANGED <<active, openIdx, records, stopped, closing, sent, gauge>>

\* setSubscribeVideoQuality, within the adapter's Init: the quality to
\* subscribe t with is always sent. Each active reason that binds t has its
\* interval extended to t, or opened for it.
AddTrack(t) ==
  LET binding == {r \in active : Binds(r, t)}
      fresh == {r \in binding : openIdx[r] = 0}
  IN
  /\ change = Free /\ RunIsFree
  /\ ~stopped /\ t \notin tracks
  /\ tracks' = tracks \cup {t}
  /\ quality' = [quality EXCEPT ![t] = Effective(active, t)]
  /\ records' =
       [k \in DOMAIN records |->
          IF \E r \in binding : openIdx[r] = k
            THEN [records[k] EXCEPT !.tracks = @ \cup {t}] ELSE records[k]]
       \o Opened(fresh, {t})
  /\ openIdx' = [r \in Reasons |-> IF r \in fresh THEN IndexIn(fresh, r) ELSE openIdx[r]]
  /\ change' = [by |-> "run", sends |-> {<<t, quality'[t]>>}, up |-> fresh, down |-> {}]
  /\ UNCHANGED <<active, stopped, closing, sent, gauge>>

\* StopConstraints: only its first call acts. It may come while the server
\* still sends qualities or has not updated the gauge.
StopConstraints ==
  /\ RunIsFree /\ ~stopped
  /\ stopped' = TRUE
  /\ closing' = {r \in Reasons : openIdx[r] # 0}
  /\ records' = [k \in DOMAIN records |->
       IF \E r \in Reasons : openIdx[r] = k
         THEN [records[k] EXCEPT !.end = "captureStopped"] ELSE records[k]]
  /\ openIdx' = [r \in Reasons |-> 0]
  /\ UNCHANGED <<active, tracks, quality, change, sent, gauge>>

\* OnConstrainedCaptureStopped, for each interval that was open.
ReportStopped(r) ==
  /\ r \in closing
  /\ closing' = closing \ {r}
  /\ gauge' = [gauge EXCEPT ![r] = @ - 1]
  /\ UNCHANGED <<bookVars, change, sent>>

-----------------------------------------------------------------------------
(* The rest of a call, with m released *)

Send(t, q) ==
  /\ <<t, q>> \in change.sends
  /\ sent' = [sent EXCEPT ![t] = q]
  /\ change' = [change EXCEPT !.sends = @ \ {<<t, q>>}]
  /\ UNCHANGED <<bookVars, closing, gauge>>

\* Mutation: constraintMu is released before the qualities are sent.
ReleaseEarly ==
  /\ change # Free
  /\ gauge' = [r \in Reasons |-> gauge[r] + (IF r \in change.up THEN 1 ELSE 0)
                                         - (IF r \in change.down THEN 1 ELSE 0)]
  /\ change' = Free
  /\ UNCHANGED <<bookVars, closing, sent>>

\* Mutation: a lift leaves the gauge alone.
ReleaseRaised ==
  /\ change # Free /\ change.sends = {}
  /\ gauge' = [r \in Reasons |-> gauge[r] + (IF r \in change.up THEN 1 ELSE 0)]
  /\ change' = Free
  /\ UNCHANGED <<bookVars, closing, sent>>

\* OnCaptureConstrained or OnCaptureConstraintLifted; constraintMu is released.
Release ==
  /\ change # Free /\ change.sends = {}
  /\ gauge' = [r \in Reasons |-> gauge[r] + (IF r \in change.up THEN 1 ELSE 0)
                                         - (IF r \in change.down THEN 1 ELSE 0)]
  /\ change' = Free
  /\ UNCHANGED <<bookVars, closing, sent>>

-----------------------------------------------------------------------------

Next ==
  \/ \E r \in Reasons : Apply(r) \/ Lift(r) \/ ReportStopped(r)
  \/ \E t \in Tracks : AddTrack(t)
  \/ \E t \in Tracks, q \in Quality : Send(t, q)
  \/ StopConstraints \/ Release

Spec == Init /\ [][Next]_vars

-----------------------------------------------------------------------------
(* Safety *)

\* Unless a change is being sent, LiveKit was last asked for the lowest cap
\* that is active for each track, or for the preferred quality: whatever the
\* order in which reasons come, go and overlap, and tracks are subscribed.
SentIsEffective ==
  change = Free => \A t \in tracks : sent[t] = Effective(active, t)

Lowered(r) == {t \in tracks : Effective({r}, t) < Preferred}

\* A reason has an open interval exactly while it lowers a track, and the
\* interval lists those tracks. A lift without one returns early, which is
\* right only because there is then no quality to restore.
IntervalIffLowered ==
  ~stopped =>
    \A r \in Reasons :
      /\ openIdx[r] # 0 <=> r \in active /\ Lowered(r) # {}
      /\ openIdx[r] # 0 => records[openIdx[r]] = [reason |-> r, tracks |-> Lowered(r), end |-> "open"]

\* The gauge of constrained captures counts the open intervals: StopConstraints
\* can overtake the update of a change that is still being sent, and is
\* balanced by it.
GaugeCountsIntervals ==
  \A r \in Reasons :
    gauge[r] + (IF r \in change.up THEN 1 ELSE 0) - (IF r \in change.down THEN 1 ELSE 0)
             - (IF r \in closing THEN 1 ELSE 0)
      = IF openIdx[r] = 0 THEN 0 ELSE 1
=============================================================================
