------------------------ MODULE ConstraintBookProofs ------------------------
(***************************************************************************)
(* What is proved of a capture's constraints: the type invariant, that      *)
(* LiveKit was last asked for what the active constraints amount to, that   *)
(* intervals are open exactly while a reason lowers a track, and that the   *)
(* gauge counts them; for any reasons, caps, sources, tracks and preferred  *)
(* quality.                                                                 *)
(***************************************************************************)
EXTENDS ConstraintBook, SequenceTheorems, FiniteSetTheorems, TLAPS

-----------------------------------------------------------------------------
(* The inductive invariant *)

\* The book has the quality its active reasons amount to for each track.
QualityIsEffective == \A t \in tracks : quality[t] = Effective(active, t)

\* What was last sent for a track is its quality, or its quality is still to be
\* sent; nothing else is.
SendsOutstanding ==
  /\ \A t \in tracks : sent[t] = quality[t] \/ <<t, quality[t]>> \in change.sends
  /\ \A t \in Tracks, q \in Quality :
       <<t, q>> \in change.sends => t \in tracks /\ q = quality[t]

\* Reasons become active one at a time.
FinitelyManyActive == IsFiniteSet(active)

Inv ==
  /\ TypeOK /\ FinitelyManyActive /\ QualityIsEffective /\ SendsOutstanding
  /\ IntervalIffLowered /\ GaugeCountsIntervals

-----------------------------------------------------------------------------
(* The effective quality *)

\* Some quality of any set of them is the least.
LEMMA MinOfQualities ==
  ASSUME NEW S \in SUBSET Quality, S # {}
  PROVE  Min(S) \in S /\ \A q \in S : Min(S) <= q
<1>1. \E x \in S : \A y \in S : x <= y
  <2>1. CASE 0 \in S
    BY <2>1 DEF Quality
  <2>2. CASE 0 \notin S /\ 1 \in S
    BY <2>2 DEF Quality
  <2>3. CASE 0 \notin S /\ 1 \notin S
    <3>1. PICK x \in S : TRUE
      OBVIOUS
    <3>2. \A y \in S : y = 2
      BY <2>3 DEF Quality
    <3> QED BY <3>1, <3>2
  <2> QED BY <2>1, <2>2, <2>3
<1> QED BY <1>1 DEF Min

\* effectiveQuality is the preferred quality or the cap of a reason that lists
\* the track's source, and no higher than any of them.
LEMMA EffectiveIs ==
  ASSUME NEW rs \in SUBSET Reasons, NEW t
  PROVE  /\ Effective(rs, t) \in Quality
         /\ Effective(rs, t) <= Preferred
         /\ \A r \in rs : SourceOf[t] \in Sources[r] => Effective(rs, t) <= Cap[r]
         /\ \/ Effective(rs, t) = Preferred
            \/ \E r \in rs : SourceOf[t] \in Sources[r] /\ Effective(rs, t) = Cap[r]
<1> DEFINE S == {Preferred} \cup {Cap[r] : r \in {q \in rs : SourceOf[t] \in Sources[q]}}
<1>1. S \in SUBSET Quality /\ S # {}
  BY ConstraintAssumption
<1>2. Effective(rs, t) = Min(S)
  BY DEF Effective
<1>3. Min(S) \in S /\ \A q \in S : Min(S) <= q
  BY <1>1, MinOfQualities
<1> QED BY <1>1, <1>2, <1>3

\* A reason that does not bind a track makes no difference to it.
LEMMA UnboundMakesNoDifference ==
  ASSUME NEW rs \in SUBSET Reasons, NEW r \in Reasons, NEW t, ~Binds(r, t)
  PROVE  /\ Effective(rs \cup {r}, t) = Effective(rs, t)
         /\ Effective(rs \ {r}, t) = Effective(rs, t)
<1>1. ASSUME NEW ps \in SUBSET Reasons, NEW qs \in SUBSET Reasons,
             ps \subseteq qs, qs \subseteq ps \cup {r}
      PROVE  Effective(ps, t) = Effective(qs, t)
  <2> DEFINE a == Effective(ps, t)
             b == Effective(qs, t)
  <2>1. a \in Quality /\ b \in Quality /\ a <= Preferred /\ b <= Preferred
    BY EffectiveIs
  <2>2. b <= a
    <3>1. CASE a = Preferred
      BY <2>1, <3>1
    <3>2. CASE \E p \in ps : SourceOf[t] \in Sources[p] /\ a = Cap[p]
      BY <1>1, <3>2, EffectiveIs
    <3> QED BY <3>1, <3>2, EffectiveIs
  <2>3. a <= b
    <3>1. CASE b = Preferred
      BY <2>1, <3>1
    <3>2. ASSUME NEW q \in qs, SourceOf[t] \in Sources[q], b = Cap[q]
          PROVE  a <= b
      <4>1. CASE q \in ps
        BY <3>2, <4>1, EffectiveIs
      <4>2. CASE q = r
        <5>1. ~(Cap[r] < Preferred)
          BY <3>2, <4>2 DEF Binds
        <5> QED BY <2>1, <3>2, <4>2, <5>1, ConstraintAssumption DEF Quality
      <4> QED BY <1>1, <4>1, <4>2
    <3> QED BY <3>1, <3>2, EffectiveIs
  <2> QED BY <2>1, <2>2, <2>3 DEF Quality
<1>2. rs \cup {r} \in SUBSET Reasons /\ rs \ {r} \in SUBSET Reasons
  OBVIOUS
<1> QED BY <1>1, <1>2

\* A reason lowers a track on its own just if it binds it.
LEMMA LoweredIsBound ==
  ASSUME NEW r \in Reasons, NEW t
  PROVE  Effective({r}, t) < Preferred <=> Binds(r, t)
<1>1. Effective({r}, t) \in Quality /\ Cap[r] \in Quality /\ Preferred \in Quality
  BY EffectiveIs, ConstraintAssumption
<1>2. /\ SourceOf[t] \in Sources[r] => Effective({r}, t) <= Cap[r]
      /\ \/ Effective({r}, t) = Preferred
         \/ SourceOf[t] \in Sources[r] /\ Effective({r}, t) = Cap[r]
  BY EffectiveIs
<1> QED BY <1>1, <1>2 DEF Binds, Quality

-----------------------------------------------------------------------------
(* Records *)

Records == [reason : Reasons, tracks : SUBSET Tracks, end : Ends]

LEMMA RecordGoesOn ==
  ASSUME NEW x \in Records
  PROVE  /\ \A e \in Ends : [x EXCEPT !.end = e] \in Records
         /\ \A t \in Tracks : [x EXCEPT !.tracks = @ \cup {t}] \in Records
<1>1. \A e \in Ends : [x EXCEPT !.end = e] \in Records
  BY DEF Records
<1>2. \A t \in Tracks : [x EXCEPT !.tracks = @ \cup {t}] \in Records
  BY DEF Records
<1> QED BY <1>1, <1>2

\* The order in which openRecord is called for several reasons names each once.
LEMMA OrderOf ==
  ASSUME NEW S, IsFiniteSet(S)
  PROVE  /\ Cardinality(S) \in Nat
         /\ SetToSeq(S) \in [1..Cardinality(S) -> S]
         /\ \A x \in S : \E k \in 1..Cardinality(S) : SetToSeq(S)[k] = x
<1> DEFINE n == Cardinality(S)
<1>1. n \in Nat /\ ExistsBijection(1..n, S)
  BY FS_CardinalityType
<1>2. PICK f \in [1..n -> S] : IsInjective(f)
  BY <1>1 DEF ExistsBijection, Bijection, Injection
<1>3. SetToSeq(S) \in [1..n -> S] /\ IsInjective(SetToSeq(S))
  BY <1>2 DEF SetToSeq
<1>4. SetToSeq(S) \in Injection(1..n, S)
  BY <1>3 DEF Injection
<1>5. IsFiniteSet(1..n) /\ Cardinality(1..n) = n
  BY <1>1, FS_Interval
<1>6. SetToSeq(S) \in Surjection(1..n, S)
  BY <1>4, <1>5, FS_Injection
<1> QED BY <1>1, <1>3, <1>6 DEF Surjection

\* openRecord appends an open record for each of the reasons.
LEMMA OpenedIs ==
  ASSUME NEW rec \in Seq(Records), NEW rs \in SUBSET Reasons, IsFiniteSet(rs),
         NEW ts \in SUBSET Tracks
  PROVE  /\ Cardinality(rs) \in Nat
         /\ rec \o Opened(rs, ts) \in Seq(Records)
         /\ Len(rec \o Opened(rs, ts)) = Len(rec) + Cardinality(rs)
         /\ \A k \in 1..Len(rec) : (rec \o Opened(rs, ts))[k] = rec[k]
         /\ \A k \in 1..Cardinality(rs) :
              (rec \o Opened(rs, ts))[Len(rec) + k]
                = [reason |-> SetToSeq(rs)[k], tracks |-> ts, end |-> "open"]
<1> DEFINE n == Cardinality(rs)
           new == Opened(rs, ts)
<1>1. n \in Nat /\ SetToSeq(rs) \in [1..n -> rs]
  BY OrderOf
<1>2. new = [k \in 1..n |-> [reason |-> SetToSeq(rs)[k], tracks |-> ts, end |-> "open"]]
  BY DEF Opened
<1>3. \A k \in 1..n : [reason |-> SetToSeq(rs)[k], tracks |-> ts, end |-> "open"] \in Records
  BY <1>1 DEF Records, Ends
<1>4. new \in Seq(Records) /\ Len(new) = n /\ DOMAIN new = 1..n
  <2>1. new \in [1..n -> Records]
    BY <1>2, <1>3
  <2> HIDE DEF new
  <2> QED BY <1>1, <2>1
<1>5. \A k \in 1..n : new[k] = [reason |-> SetToSeq(rs)[k], tracks |-> ts, end |-> "open"]
  BY <1>2
<1> HIDE DEF new, n
<1>6. /\ rec \o new \in Seq(Records) /\ Len(rec \o new) = Len(rec) + n
      /\ \A i \in 1..(Len(rec) + n) :
           (rec \o new)[i] = IF i <= Len(rec) THEN rec[i] ELSE new[i - Len(rec)]
  BY <1>4, ConcatProperties
<1>7. Len(rec) \in Nat
  OBVIOUS
<1>8. \A k \in 1..Len(rec) : (rec \o new)[k] = rec[k]
  BY <1>1, <1>6, <1>7
<1>9. \A k \in 1..n : (rec \o new)[Len(rec) + k] = new[k]
  <2> TAKE k \in 1..n
  <2>1. Len(rec) + k \in 1..(Len(rec) + n) /\ ~(Len(rec) + k <= Len(rec))
        /\ (Len(rec) + k) - Len(rec) = k
    BY <1>1, <1>7
  <2> QED BY <1>6, <2>1
<1> QED
  BY <1>1, <1>5, <1>6, <1>8, <1>9 DEF new, n

\* The book's index for a reason whose record is opened is that record's.
LEMMA IndexIs ==
  ASSUME NEW rs \in SUBSET Reasons, IsFiniteSet(rs), NEW r \in rs, Len(records) \in Nat
  PROVE  \E k \in 1..Cardinality(rs) :
           IndexIn(rs, r) = Len(records) + k /\ SetToSeq(rs)[k] = r
<1>1. \E k \in 1..Cardinality(rs) : SetToSeq(rs)[k] = r
  BY OrderOf
<1> QED BY <1>1 DEF IndexIn

\* For one reason alone that is the last.
LEMMA OneOpened ==
  ASSUME NEW rec \in Seq(Records), NEW r \in Reasons, NEW ts \in SUBSET Tracks
  PROVE  /\ rec \o Opened({r}, ts) \in Seq(Records)
         /\ Len(rec \o Opened({r}, ts)) = Len(rec) + 1
         /\ \A k \in 1..Len(rec) : (rec \o Opened({r}, ts))[k] = rec[k]
         /\ (rec \o Opened({r}, ts))[Len(rec) + 1]
              = [reason |-> r, tracks |-> ts, end |-> "open"]
<1>1. IsFiniteSet({r}) /\ Cardinality({r}) = 1 /\ {r} \in SUBSET Reasons
  BY FS_Singleton
<1>2. SetToSeq({r})[1] = r
  BY <1>1, OrderOf
<1>3. 1 \in 1..Cardinality({r})
  BY <1>1
<1> QED BY <1>1, <1>2, <1>3, OpenedIs

-----------------------------------------------------------------------------
(* Types *)

Changes == [by : {None, "server", "run"}, sends : SUBSET (Tracks \X Quality),
            up : SUBSET Reasons, down : SUBSET Reasons]

\* Requalifying the tracks that a reason binds gives every track its quality
\* with the reason, or without it.
LEMMA RequalifyIs ==
  ASSUME TypeOK, NEW r \in Reasons, NEW rs \in SUBSET Reasons,
         rs = active \cup {r} \/ rs = active \ {r}, Requalify(rs, Bound(r))
  PROVE  /\ quality' \in [Tracks -> Quality \cup {None}]
         /\ QualityIsEffective => \A t \in tracks : quality'[t] = Effective(rs, t)
         /\ \A t \in Tracks : quality'[t] # quality[t] => t \in Bound(r)
         /\ Changed(Bound(r)) \in SUBSET (Tracks \X Quality)
         /\ \A t \in Tracks : quality'[t] # quality[t] => <<t, quality'[t]>> \in Changed(Bound(r))
         /\ \A t, q : <<t, q>> \in Changed(Bound(r)) => t \in Bound(r) /\ q = quality'[t]
<1>1. /\ quality' = [t \in Tracks |-> IF t \in Bound(r) THEN Effective(rs, t) ELSE quality[t]]
      /\ Bound(r) \subseteq tracks /\ tracks \subseteq Tracks
      /\ active \in SUBSET Reasons
  BY DEF Requalify, Bound, TypeOK
<1>2. \A t \in Tracks : Effective(rs, t) \in Quality
  BY EffectiveIs
<1>3. quality' \in [Tracks -> Quality \cup {None}]
  BY <1>1, <1>2 DEF TypeOK
<1>4. \A t \in tracks \ Bound(r) : Effective(rs, t) = Effective(active, t)
  BY <1>1, UnboundMakesNoDifference DEF Bound
<1>5. QualityIsEffective => \A t \in tracks : quality'[t] = Effective(rs, t)
  BY <1>1, <1>4 DEF QualityIsEffective
<1>6. \A t \in Tracks : quality'[t] # quality[t] => t \in Bound(r)
  BY <1>1
<1>7. \A t, q : <<t, q>> \in Changed(Bound(r)) => t \in Bound(r) /\ q = quality'[t]
  BY DEF Changed
<1>8. \A t \in Bound(r) : quality'[t] \in Quality
  BY <1>1, <1>2
<1>9. Changed(Bound(r)) \in SUBSET (Tracks \X Quality)
  BY <1>1, <1>8 DEF Changed
<1>10. \A t \in Tracks : quality'[t] # quality[t] => <<t, quality'[t]>> \in Changed(Bound(r))
  BY <1>6 DEF Changed
<1> QED BY <1>3, <1>5, <1>6, <1>7, <1>9, <1>10

\* A record that is extended or ended stays a record.
LEMMA RecordsStay ==
  ASSUME NEW rec \in Seq(Records), NEW x \in [DOMAIN rec -> Records]
  PROVE  /\ Len(rec) \in Nat /\ DOMAIN rec = 1..Len(rec)
         /\ x \in Seq(Records) /\ Len(x) = Len(rec)
OBVIOUS

Binding(t) == {r \in active : Binds(r, t)}
Fresh(t) == {r \in Binding(t) : openIdx[r] = 0}
Extended(t) ==
  [k \in DOMAIN records |->
     IF \E r \in Binding(t) : openIdx[r] = k
       THEN [records[k] EXCEPT !.tracks = @ \cup {t}] ELSE records[k]]

\* A track subscribed later extends the open records of the reasons that bind
\* it, and opens one for each of these that has none.
LEMMA AddTrackIs ==
  ASSUME TypeOK, FinitelyManyActive, NEW t \in Tracks, AddTrack(t)
  PROVE  /\ Fresh(t) \in SUBSET Reasons
         /\ records' \in Seq(Records) /\ Len(records) \in Nat
         /\ Len(records') = Len(records) + Cardinality(Fresh(t))
         /\ Cardinality(Fresh(t)) \in Nat
         /\ \A k \in 1..Len(records) : records'[k] = Extended(t)[k]
         /\ \A r \in Fresh(t) :
              /\ openIdx'[r] \in (Len(records) + 1)..Len(records')
              /\ records'[openIdx'[r]] = [reason |-> r, tracks |-> {t}, end |-> "open"]
         /\ \A r \in Reasons \ Fresh(t) : openIdx'[r] = openIdx[r]
         /\ DOMAIN openIdx' = Reasons
         /\ change' = [by |-> "run", sends |-> {<<t, Effective(active, t)>>},
                       up |-> Fresh(t), down |-> {}]
<1>0. records \in Seq(Records) /\ active \in SUBSET Reasons /\ quality \in [Tracks -> Quality \cup {None}]
  BY DEF TypeOK, Records
<1>1. IsFiniteSet(Fresh(t)) /\ Fresh(t) \in SUBSET Reasons
  <2>1. Fresh(t) \in SUBSET active
    BY DEF Fresh, Binding
  <2> QED BY <1>0, <2>1, FS_Subset DEF FinitelyManyActive
<1>2. Extended(t) \in [DOMAIN records -> Records]
  <2>1. \A k \in DOMAIN records : records[k] \in Records
    BY <1>0
  <2>2. \A k \in DOMAIN records : [records[k] EXCEPT !.tracks = @ \cup {t}] \in Records
    BY <2>1, RecordGoesOn
  <2> QED BY <2>1, <2>2 DEF Extended
<1>3. /\ Extended(t) \in Seq(Records) /\ Len(Extended(t)) = Len(records)
      /\ Len(records) \in Nat /\ DOMAIN records = 1..Len(records)
  BY <1>0, <1>2, RecordsStay
<1>4. {t} \in SUBSET Tracks
  OBVIOUS
<1>5. /\ records' = Extended(t) \o Opened(Fresh(t), {t})
      /\ openIdx' = [r \in Reasons |-> IF r \in Fresh(t) THEN IndexIn(Fresh(t), r) ELSE openIdx[r]]
      /\ quality' = [quality EXCEPT ![t] = Effective(active, t)]
      /\ change' = [by |-> "run", sends |-> {<<t, quality'[t]>>}, up |-> Fresh(t), down |-> {}]
  BY DEF AddTrack, Extended, Fresh, Binding
<1>6. quality'[t] = Effective(active, t)
  BY <1>0, <1>5
<1>7. /\ Cardinality(Fresh(t)) \in Nat
      /\ records' \in Seq(Records)
      /\ Len(records') = Len(records) + Cardinality(Fresh(t))
      /\ \A k \in 1..Len(records) : records'[k] = Extended(t)[k]
      /\ \A k \in 1..Cardinality(Fresh(t)) :
           records'[Len(records) + k]
             = [reason |-> SetToSeq(Fresh(t))[k], tracks |-> {t}, end |-> "open"]
  <2> DEFINE rec == Extended(t)
             all == rec \o Opened(Fresh(t), {t})
  <2>1. rec \in Seq(Records) /\ Len(rec) = Len(records)
    BY <1>3
  <2> HIDE DEF rec
  <2>2. /\ Cardinality(Fresh(t)) \in Nat
        /\ all \in Seq(Records)
        /\ Len(all) = Len(rec) + Cardinality(Fresh(t))
        /\ \A k \in 1..Len(rec) : all[k] = rec[k]
        /\ \A k \in 1..Cardinality(Fresh(t)) :
             all[Len(rec) + k] = [reason |-> SetToSeq(Fresh(t))[k], tracks |-> {t}, end |-> "open"]
    BY <1>1, <1>4, <2>1, OpenedIs
  <2>3. records' = all
    BY <1>5 DEF rec
  <2> HIDE DEF all
  <2> QED BY <2>1, <2>2, <2>3 DEF rec
<1>8. ASSUME NEW r \in Fresh(t)
      PROVE  /\ openIdx'[r] \in (Len(records) + 1)..Len(records')
             /\ records'[openIdx'[r]] = [reason |-> r, tracks |-> {t}, end |-> "open"]
  <2>1. openIdx'[r] = IndexIn(Fresh(t), r)
    BY <1>1, <1>5
  <2>2. PICK k \in 1..Cardinality(Fresh(t)) :
          openIdx'[r] = Len(records) + k /\ SetToSeq(Fresh(t))[k] = r
    BY <1>1, <1>3, <2>1, IndexIs
  <2> QED BY <1>3, <1>7, <2>2
<1> QED BY <1>1, <1>3, <1>5, <1>6, <1>7, <1>8

LEMMA TypeStep ==
  ASSUME TypeOK, FinitelyManyActive, Next
  PROVE  TypeOK' /\ FinitelyManyActive'
<1>0. /\ active \in SUBSET Reasons /\ tracks \in SUBSET Tracks
      /\ records \in Seq(Records) /\ Len(records) \in Nat
      /\ openIdx \in [Reasons -> 0..Len(records)]
      /\ change \in Changes /\ closing \in SUBSET Reasons
      /\ sent \in [Tracks -> Quality \cup {None}] /\ gauge \in [Reasons -> Int]
      /\ quality \in [Tracks -> Quality \cup {None}] /\ stopped \in BOOLEAN
  BY DEF TypeOK, Records, Changes
<1>1. ASSUME NEW r \in Reasons, Apply(r)
      PROVE  TypeOK' /\ FinitelyManyActive'
  <2>1. PICK rs \in SUBSET Reasons : rs = active \cup {r}
    BY <1>0
  <2>2. active' = rs /\ Requalify(rs, Bound(r))
    BY <1>1, <2>1 DEF Apply, Requalify
  <2>3. FinitelyManyActive'
    BY <2>1, <2>2, FS_AddElement DEF FinitelyManyActive
  <2>4. /\ quality' \in [Tracks -> Quality \cup {None}]
        /\ Changed(Bound(r)) \in SUBSET (Tracks \X Quality)
    BY <2>1, <2>2, RequalifyIs
  <2>5. Bound(r) \in SUBSET Tracks
    BY <1>0 DEF Bound
  <2>6. /\ records' \in Seq(Records) /\ openIdx' \in [Reasons -> 0..Len(records')]
        /\ change' \in Changes
    <3>1. CASE Bound(r) = {}
      BY <1>0, <1>1, <3>1 DEF Apply
    <3>2. CASE Bound(r) # {}
      <4>1. /\ records' = records \o Opened({r}, Bound(r))
            /\ openIdx' = [openIdx EXCEPT ![r] = Len(records')]
            /\ change' = [by |-> "server", sends |-> Changed(Bound(r)), up |-> {r}, down |-> {}]
        BY <1>1, <3>2 DEF Apply
      <4>2. records' \in Seq(Records) /\ Len(records') = Len(records) + 1
        BY <1>0, <2>5, <4>1, OneOpened
      <4>3. change' \in Changes
        BY <2>4, <4>1 DEF Changes
      <4>4. openIdx' \in [Reasons -> 0..Len(records')]
        BY <1>0, <4>1, <4>2
      <4> QED BY <4>2, <4>3, <4>4
    <3> QED BY <3>1, <3>2
  <2>7. UNCHANGED <<tracks, stopped, closing, sent, gauge>>
    BY <1>1 DEF Apply
  <2> QED BY <1>0, <2>2, <2>3, <2>4, <2>6, <2>7 DEF TypeOK, Records, Changes
<1>2. ASSUME NEW r \in Reasons, Lift(r)
      PROVE  TypeOK' /\ FinitelyManyActive'
  <2>1. PICK rs \in SUBSET Reasons : rs = active \ {r}
    BY <1>0
  <2>2. active' = rs /\ Requalify(rs, Bound(r))
    BY <1>2, <2>1 DEF Lift, Requalify
  <2>3. FinitelyManyActive'
    BY <2>1, <2>2, FS_RemoveElement DEF FinitelyManyActive
  <2>4. /\ quality' \in [Tracks -> Quality \cup {None}]
        /\ Changed(Bound(r)) \in SUBSET (Tracks \X Quality)
    BY <2>1, <2>2, RequalifyIs
  <2>5. /\ records' \in Seq(Records) /\ openIdx' \in [Reasons -> 0..Len(records')]
        /\ change' \in Changes
    <3>1. CASE openIdx[r] = 0
      BY <1>0, <1>2, <3>1 DEF Lift
    <3>2. CASE openIdx[r] # 0
      <4>1. openIdx[r] \in 1..Len(records)
        BY <1>0, <3>2
      <4>2. /\ records' = [records EXCEPT ![openIdx[r]].end = "released"]
            /\ openIdx' = [openIdx EXCEPT ![r] = 0]
            /\ change' = [by |-> "server", sends |-> Changed(Bound(r)), up |-> {}, down |-> {r}]
        BY <1>2, <3>2 DEF Lift
      <4>3. [records[openIdx[r]] EXCEPT !.end = "released"] \in Records
        <5>1. records[openIdx[r]] \in Records
          BY <1>0, <4>1
        <5>2. "released" \in Ends
          BY DEF Ends
        <5> QED BY <5>1, <5>2, RecordGoesOn
      <4>4. records' \in Seq(Records) /\ Len(records') = Len(records)
        BY <1>0, <4>1, <4>2, <4>3, ExceptSeq
      <4>5. change' \in Changes
        BY <2>4, <4>2 DEF Changes
      <4> QED BY <1>0, <4>2, <4>4, <4>5
    <3> QED BY <3>1, <3>2
  <2>6. UNCHANGED <<tracks, stopped, closing, sent, gauge>>
    BY <1>2 DEF Lift
  <2> QED BY <1>0, <2>2, <2>3, <2>4, <2>5, <2>6 DEF TypeOK, Records, Changes
<1>3. ASSUME NEW r \in Reasons, ReportStopped(r)
      PROVE  TypeOK' /\ FinitelyManyActive'
  <2>1. gauge' \in [Reasons -> Int] /\ closing' \in SUBSET Reasons
    BY <1>0, <1>3 DEF ReportStopped
  <2> QED BY <1>3, <2>1 DEF ReportStopped, bookVars, TypeOK, FinitelyManyActive
<1>4. ASSUME NEW t \in Tracks, AddTrack(t)
      PROVE  TypeOK' /\ FinitelyManyActive'
  <2>1. UNCHANGED <<active, stopped, closing, sent, gauge>> /\ tracks' = tracks \cup {t}
        /\ quality' = [quality EXCEPT ![t] = Effective(active, t)]
    BY <1>4 DEF AddTrack
  <2>2. Effective(active, t) \in Quality
    BY <1>0, EffectiveIs
  <2>3. quality' \in [Tracks -> Quality \cup {None}]
    BY <1>0, <2>1, <2>2
  <2>4. records' \in Seq(Records) /\ Len(records) <= Len(records') /\ Len(records') \in Nat
    BY <1>4, AddTrackIs
  <2>5. openIdx' \in [Reasons -> 0..Len(records')]
    <3>1. openIdx' = [r \in Reasons |-> openIdx'[r]]
      BY <1>4 DEF AddTrack
    <3>2. \A r \in Reasons : openIdx'[r] \in 0..Len(records')
      <4> TAKE r \in Reasons
      <4>1. CASE r \in Fresh(t)
        <5>1. openIdx'[r] \in (Len(records) + 1)..Len(records')
          BY <1>4, <4>1, AddTrackIs
        <5> QED BY <1>0, <2>4, <5>1
      <4>2. CASE r \notin Fresh(t)
        <5>1. openIdx'[r] = openIdx[r]
          BY <1>4, <4>2, AddTrackIs
        <5> QED BY <1>0, <2>4, <5>1
      <4> QED BY <4>1, <4>2
    <3> QED BY <3>1, <3>2
  <2>6. change' \in Changes
    BY <1>4, <2>2, AddTrackIs DEF Changes
  <2> QED
    BY <1>0, <2>1, <2>3, <2>4, <2>5, <2>6 DEF TypeOK, Records, Changes, FinitelyManyActive
<1>5. ASSUME StopConstraints
      PROVE  TypeOK' /\ FinitelyManyActive'
  <2>1. records' \in Seq(Records)
    <3> DEFINE x == [k \in DOMAIN records |->
                       IF \E r \in Reasons : openIdx[r] = k
                         THEN [records[k] EXCEPT !.end = "captureStopped"] ELSE records[k]]
    <3>1. \A k \in DOMAIN records :
            records[k] \in Records /\ [records[k] EXCEPT !.end = "captureStopped"] \in Records
      <4>1. \A k \in DOMAIN records : records[k] \in Records
        BY <1>0
      <4>2. "captureStopped" \in Ends
        BY DEF Ends
      <4> QED BY <4>1, <4>2, RecordGoesOn
    <3>2. x \in [DOMAIN records -> Records]
      BY <3>1
    <3>3. records' = x
      BY <1>5 DEF StopConstraints
    <3> HIDE DEF x
    <3> QED BY <1>0, <3>2, <3>3, RecordsStay
  <2>2. openIdx' \in [Reasons -> 0..Len(records')]
    BY <1>5, <2>1 DEF StopConstraints
  <2>3. UNCHANGED <<active, tracks, quality, change, sent, gauge>> /\ stopped' = TRUE
        /\ closing' \in SUBSET Reasons
    BY <1>5 DEF StopConstraints
  <2> QED
    BY <1>0, <2>1, <2>2, <2>3 DEF TypeOK, Records, Changes, FinitelyManyActive
<1>6. ASSUME NEW t \in Tracks, NEW q \in Quality, Send(t, q)
      PROVE  TypeOK' /\ FinitelyManyActive'
  <2>1. change' \in Changes /\ sent' \in [Tracks -> Quality \cup {None}]
    BY <1>0, <1>6 DEF Send, Changes
  <2> QED
    BY <1>6, <2>1 DEF Send, bookVars, TypeOK, FinitelyManyActive, Changes
<1>7. ASSUME Release
      PROVE  TypeOK' /\ FinitelyManyActive'
  <2>1. Free \in Changes
    BY DEF Free, Changes
  <2>2. gauge' \in [Reasons -> Int]
    BY <1>0, <1>7 DEF Release
  <2> QED
    BY <1>7, <2>1, <2>2 DEF Release, bookVars, TypeOK, FinitelyManyActive, Changes
<1> QED
  BY <1>1, <1>2, <1>3, <1>4, <1>5, <1>6, <1>7 DEF Next

-----------------------------------------------------------------------------
(* Qualities *)

LEMMA QualityStep ==
  ASSUME TypeOK, QualityIsEffective, Next
  PROVE  QualityIsEffective'
<1>0. active \in SUBSET Reasons /\ tracks \in SUBSET Tracks
      /\ quality \in [Tracks -> Quality \cup {None}]
  BY DEF TypeOK
<1>1. ASSUME NEW r \in Reasons, Apply(r) \/ Lift(r)
      PROVE  QualityIsEffective'
  <2>1. PICK rs \in SUBSET Reasons : rs = active'
    BY <1>0, <1>1 DEF Apply, Lift
  <2>2. (rs = active \cup {r} \/ rs = active \ {r}) /\ Requalify(rs, Bound(r)) /\ UNCHANGED tracks
    BY <1>1, <2>1 DEF Apply, Lift, Requalify
  <2>3. \A t \in tracks : quality'[t] = Effective(rs, t)
    BY <2>2, RequalifyIs
  <2> QED BY <2>1, <2>2, <2>3 DEF QualityIsEffective
<1>2. ASSUME NEW t \in Tracks, AddTrack(t)
      PROVE  QualityIsEffective'
  BY <1>0, <1>2 DEF AddTrack, QualityIsEffective
<1>3. ASSUME UNCHANGED <<active, tracks, quality>>
      PROVE  QualityIsEffective'
  BY <1>3 DEF QualityIsEffective
<1> QED
  BY <1>1, <1>2, <1>3 DEF Next, ReportStopped, StopConstraints, Send, Release, bookVars

\* An interval's tracks, by the constraint itself.
BoundOf(ts, r) == {t \in ts : Binds(r, t)}

Intervals ==
  ~stopped =>
    \A r \in Reasons :
      /\ openIdx[r] # 0 <=> r \in active /\ BoundOf(tracks, r) # {}
      /\ openIdx[r] # 0 => records[openIdx[r]] = [reason |-> r, tracks |-> BoundOf(tracks, r), end |-> "open"]

LEMMA IntervalsMean ==
  /\ IntervalIffLowered <=> Intervals
  /\ IntervalIffLowered' <=> Intervals'
<1>1. \A r \in Reasons : Lowered(r) = BoundOf(tracks, r)
  BY LoweredIsBound DEF Lowered, BoundOf
<1>2. \A r \in Reasons : {t \in tracks' : Effective({r}, t) < Preferred} = BoundOf(tracks', r)
  BY LoweredIsBound DEF BoundOf
<1>3. IntervalIffLowered <=> Intervals
  BY <1>1 DEF IntervalIffLowered, Intervals
<1>4. IntervalIffLowered' <=> Intervals'
  BY <1>2 DEF IntervalIffLowered, Intervals, Lowered
<1> QED BY <1>3, <1>4

\* An open interval's record is its reason's.
LEMMA RecordOfInterval ==
  ASSUME Intervals, ~stopped, NEW q \in Reasons, openIdx[q] # 0
  PROVE  records[openIdx[q]].reason = q
<1>1. records[openIdx[q]] = [reason |-> q, tracks |-> BoundOf(tracks, q), end |-> "open"]
  BY DEF Intervals
<1> QED BY <1>1

LEMMA SendsStep ==
  ASSUME TypeOK, FinitelyManyActive, SendsOutstanding, IntervalIffLowered, Next
  PROVE  SendsOutstanding'
<1>0. /\ active \in SUBSET Reasons /\ tracks \in SUBSET Tracks
      /\ quality \in [Tracks -> Quality \cup {None}] /\ sent \in [Tracks -> Quality \cup {None}]
  BY DEF TypeOK
<1>1. change = Free => \A t \in tracks : sent[t] = quality[t]
  BY DEF SendsOutstanding, Free
<1>2. ASSUME NEW r \in Reasons, Apply(r) \/ Lift(r)
      PROVE  SendsOutstanding'
  <2>1. PICK rs \in SUBSET Reasons : rs = active'
    BY <1>0, <1>2 DEF Apply, Lift
  <2>2. (rs = active \cup {r} \/ rs = active \ {r}) /\ Requalify(rs, Bound(r))
    BY <1>2, <2>1 DEF Apply, Lift, Requalify
  <2>3. UNCHANGED <<tracks, sent>> /\ change = Free /\ Bound(r) \subseteq tracks
    BY <1>2 DEF Apply, Lift, Bound
  <2>4. /\ \A t \in Tracks : quality'[t] # quality[t] => t \in Bound(r)
        /\ \A t \in Tracks : quality'[t] # quality[t] => <<t, quality'[t]>> \in Changed(Bound(r))
        /\ \A t, q : <<t, q>> \in Changed(Bound(r)) => t \in Bound(r) /\ q = quality'[t]
    BY <2>2, RequalifyIs
  <2>5. CASE change'.sends = Changed(Bound(r))
    BY <1>0, <1>1, <2>3, <2>4, <2>5 DEF SendsOutstanding
  <2>6. CASE Bound(r) = {} /\ UNCHANGED change
    <3>1. \A t \in Tracks : quality'[t] = quality[t]
      BY <2>4, <2>6
    <3> QED BY <1>0, <2>3, <2>6, <3>1 DEF SendsOutstanding
  <2>7. \/ change'.sends = Changed(Bound(r))
        \/ Bound(r) = {} /\ UNCHANGED change
    <3>1. CASE Apply(r)
      BY <3>1 DEF Apply
    <3>2. CASE Lift(r)
      <4>1. openIdx[r] = 0 => Bound(r) = {}
        BY <3>2, IntervalsMean DEF Lift, Intervals, BoundOf, Bound
      <4> QED BY <3>2, <4>1 DEF Lift
    <3> QED BY <1>2, <3>1, <3>2
  <2> QED BY <2>5, <2>6, <2>7
<1>3. ASSUME NEW t \in Tracks, AddTrack(t)
      PROVE  SendsOutstanding'
  <2>1. /\ change = Free /\ tracks' = tracks \cup {t} /\ UNCHANGED sent
        /\ quality'[t] = Effective(active, t)
        /\ \A u \in Tracks : u # t => quality'[u] = quality[u]
    BY <1>0, <1>3 DEF AddTrack
  <2>2. change'.sends = {<<t, quality'[t]>>}
    BY <1>3, <2>1, AddTrackIs
  <2> QED BY <1>0, <1>1, <2>1, <2>2 DEF SendsOutstanding
<1>4. ASSUME NEW t \in Tracks, NEW q \in Quality, Send(t, q)
      PROVE  SendsOutstanding'
  <2>1. /\ UNCHANGED <<tracks, quality>> /\ <<t, q>> \in change.sends
        /\ sent' = [sent EXCEPT ![t] = q]
        /\ change'.sends = change.sends \ {<<t, q>>}
    BY <1>4 DEF Send, bookVars, TypeOK
  <2>2. t \in tracks /\ q = quality[t]
    BY <2>1 DEF SendsOutstanding
  <2> QED BY <1>0, <2>1, <2>2 DEF SendsOutstanding
<1>5. ASSUME Release
      PROVE  SendsOutstanding'
  <2>1. UNCHANGED <<tracks, quality, sent>> /\ change.sends = {} /\ change'.sends = {}
    BY <1>5 DEF Release, bookVars, Free
  <2> QED BY <2>1 DEF SendsOutstanding
<1>6. ASSUME StopConstraints \/ \E r \in Reasons : ReportStopped(r)
      PROVE  SendsOutstanding'
  BY <1>6 DEF StopConstraints, ReportStopped, bookVars, SendsOutstanding
<1> QED
  BY <1>2, <1>3, <1>4, <1>5, <1>6 DEF Next

-----------------------------------------------------------------------------
(* Intervals *)

LEMMA IntervalStep ==
  ASSUME TypeOK, FinitelyManyActive, IntervalIffLowered, Next
  PROVE  IntervalIffLowered'
<1>0. /\ active \in SUBSET Reasons /\ tracks \in SUBSET Tracks
      /\ records \in Seq(Records) /\ Len(records) \in Nat
      /\ openIdx \in [Reasons -> 0..Len(records)]
      /\ Intervals
  BY IntervalsMean DEF TypeOK, Records
<1>1. ASSUME NEW r \in Reasons, Apply(r)
      PROVE  Intervals'
  <2>1. UNCHANGED <<tracks, stopped>> /\ ~stopped /\ active' = active \cup {r}
        /\ openIdx[r] = 0 /\ Bound(r) = BoundOf(tracks, r)
    BY <1>0, <1>1 DEF Apply, Intervals, Bound, BoundOf
  <2>2. CASE Bound(r) = {}
    <3>1. UNCHANGED <<openIdx, records>>
      BY <1>1, <2>2 DEF Apply
    <3> QED BY <1>0, <2>1, <2>2, <3>1 DEF Intervals
  <2>3. CASE Bound(r) # {}
    <3>1. /\ records' = records \o Opened({r}, Bound(r))
          /\ openIdx' = [openIdx EXCEPT ![r] = Len(records')]
      BY <1>1, <2>3 DEF Apply
    <3>2. Bound(r) \in SUBSET Tracks
      BY <1>0 DEF Bound
    <3>3. /\ Len(records') = Len(records) + 1
          /\ \A k \in 1..Len(records) : records'[k] = records[k]
          /\ records'[Len(records) + 1] = [reason |-> r, tracks |-> Bound(r), end |-> "open"]
      BY <1>0, <3>1, <3>2, OneOpened
    <3>4. openIdx'[r] = Len(records) + 1 /\ openIdx'[r] # 0
      BY <1>0, <3>1, <3>3
    <3>5. \A q \in Reasons \ {r} :
            openIdx'[q] = openIdx[q] /\ (openIdx[q] # 0 => records'[openIdx[q]] = records[openIdx[q]])
      BY <1>0, <3>1, <3>3
    <3> QED BY <1>0, <2>1, <2>3, <3>3, <3>4, <3>5 DEF Intervals
  <2> QED BY <2>2, <2>3
<1>2. ASSUME NEW r \in Reasons, Lift(r)
      PROVE  Intervals'
  <2>1. UNCHANGED <<tracks, stopped>> /\ ~stopped /\ active' = active \ {r} /\ r \in active
    BY <1>2 DEF Lift
  <2>2. CASE openIdx[r] = 0
    <3>1. UNCHANGED <<openIdx, records>>
      BY <1>2, <2>2 DEF Lift
    <3> QED BY <1>0, <2>1, <2>2, <3>1 DEF Intervals
  <2>3. CASE openIdx[r] # 0
    <3>1. /\ records' = [records EXCEPT ![openIdx[r]].end = "released"]
          /\ openIdx' = [openIdx EXCEPT ![r] = 0]
      BY <1>2, <2>3 DEF Lift
    <3>2. \A q \in Reasons \ {r} : openIdx'[q] = openIdx[q]
      BY <1>0, <3>1
    <3>3. \A q \in Reasons \ {r} : openIdx[q] # 0 => openIdx[q] # openIdx[r]
      BY <1>0, <2>1, <2>3, RecordOfInterval
    <3>4. \A q \in Reasons \ {r} : openIdx[q] # 0 => records'[openIdx[q]] = records[openIdx[q]]
      BY <1>0, <3>1, <3>3
    <3>5. openIdx'[r] = 0
      BY <1>0, <3>1
    <3> QED BY <1>0, <2>1, <3>2, <3>4, <3>5 DEF Intervals
  <2> QED BY <2>2, <2>3
<1>3. ASSUME NEW t \in Tracks, AddTrack(t)
      PROVE  Intervals'
  <2>1. /\ UNCHANGED <<active, stopped>> /\ ~stopped /\ t \notin tracks
        /\ tracks' = tracks \cup {t}
    BY <1>3 DEF AddTrack
  <2>2. \A q \in Reasons :
          BoundOf(tracks', q) = IF Binds(q, t) THEN BoundOf(tracks, q) \cup {t} ELSE BoundOf(tracks, q)
    BY <2>1 DEF BoundOf
  <2> SUFFICES ASSUME NEW q \in Reasons
               PROVE  /\ openIdx'[q] # 0 <=> q \in active /\ BoundOf(tracks', q) # {}
                      /\ openIdx'[q] # 0 => records'[openIdx'[q]] =
                            [reason |-> q, tracks |-> BoundOf(tracks', q), end |-> "open"]
    BY <2>1 DEF Intervals
  <2>3. /\ openIdx[q] # 0 <=> q \in active /\ BoundOf(tracks, q) # {}
        /\ openIdx[q] # 0 => records[openIdx[q]] =
              [reason |-> q, tracks |-> BoundOf(tracks, q), end |-> "open"]
    BY <1>0, <2>1 DEF Intervals
  <2>4. CASE q \in Fresh(t)
    <3>1. q \in active /\ Binds(q, t) /\ openIdx[q] = 0
      BY <2>4 DEF Fresh, Binding
    <3>2. BoundOf(tracks', q) = {t}
      BY <2>2, <2>3, <3>1
    <3>3. openIdx'[q] \in (Len(records) + 1)..Len(records')
          /\ records'[openIdx'[q]] = [reason |-> q, tracks |-> {t}, end |-> "open"]
      BY <1>3, <2>4, AddTrackIs
    <3>4. openIdx'[q] # 0
      BY <1>0, <3>3
    <3> QED BY <3>1, <3>2, <3>3, <3>4
  <2>5. CASE q \notin Fresh(t) /\ openIdx[q] = 0
    <3>1. openIdx'[q] = 0
      BY <1>3, <2>5, AddTrackIs
    <3>2. ~(q \in active /\ BoundOf(tracks', q) # {})
      BY <2>2, <2>3, <2>5 DEF Fresh, Binding
    <3> QED BY <3>1, <3>2
  <2>6. CASE q \notin Fresh(t) /\ openIdx[q] # 0
    <3>1. openIdx'[q] = openIdx[q] /\ openIdx[q] \in 1..Len(records)
          /\ records'[openIdx[q]] = Extended(t)[openIdx[q]]
      BY <1>0, <1>3, <2>6, AddTrackIs
    <3>2. DOMAIN records = 1..Len(records)
      BY <1>0
    <3>3. q \in active /\ BoundOf(tracks, q) # {}
          /\ records[openIdx[q]] = [reason |-> q, tracks |-> BoundOf(tracks, q), end |-> "open"]
      BY <2>3, <2>6
    <3>4. CASE Binds(q, t)
      <4>1. q \in Binding(t)
        BY <3>3, <3>4 DEF Binding
      <4>2. Extended(t)[openIdx[q]] = [records[openIdx[q]] EXCEPT !.tracks = @ \cup {t}]
        BY <3>1, <3>2, <4>1 DEF Extended
      <4>3. Extended(t)[openIdx[q]] =
              [reason |-> q, tracks |-> BoundOf(tracks, q) \cup {t}, end |-> "open"]
        BY <3>3, <4>2
      <4> QED BY <2>2, <2>6, <3>1, <3>3, <3>4, <4>3
    <3>5. CASE ~Binds(q, t)
      <4>1. \A r \in Binding(t) : openIdx[r] # openIdx[q]
        <5>1. \A r \in Binding(t) : r \in Reasons /\ r # q
          BY <1>0, <3>5 DEF Binding
        <5>2. \A r \in Reasons : openIdx[r] # 0 => records[openIdx[r]].reason = r
          BY <1>0, <2>1, RecordOfInterval
        <5>3. records[openIdx[q]].reason = q
          BY <3>3
        <5> QED BY <2>6, <5>1, <5>2, <5>3
      <4>2. Extended(t)[openIdx[q]] = records[openIdx[q]]
        BY <3>1, <3>2, <4>1 DEF Extended
      <4> QED BY <2>2, <2>6, <3>1, <3>3, <3>5, <4>2
    <3> QED BY <3>4, <3>5
  <2> QED BY <2>4, <2>5, <2>6
<1>4. ASSUME StopConstraints
      PROVE  Intervals'
  BY <1>4 DEF StopConstraints, Intervals
<1>5. ASSUME UNCHANGED bookVars
      PROVE  Intervals'
  BY <1>0, <1>5 DEF bookVars, Intervals
<1>6. Intervals'
  BY <1>1, <1>2, <1>3, <1>4, <1>5 DEF Next, ReportStopped, Send, Release
<1> QED BY <1>6, IntervalsMean

-----------------------------------------------------------------------------
(* The gauge *)

LEMMA GaugeStep ==
  ASSUME TypeOK, FinitelyManyActive, IntervalIffLowered, GaugeCountsIntervals, Next
  PROVE  GaugeCountsIntervals'
<1> DEFINE One(S, q) == IF q \in S THEN 1 ELSE 0
           Open(i) == IF i = 0 THEN 0 ELSE 1
<1>0. /\ active \in SUBSET Reasons /\ Len(records) \in Nat
      /\ openIdx \in [Reasons -> 0..Len(records)] /\ gauge \in [Reasons -> Int]
      /\ Intervals
  BY IntervalsMean DEF TypeOK
<1>1. \A q \in Reasons :
        gauge[q] + One(change.up, q) - One(change.down, q) - One(closing, q) = Open(openIdx[q])
  BY DEF GaugeCountsIntervals
<1>2. ASSUME \A q \in Reasons :
               gauge'[q] + One(change'.up, q) - One(change'.down, q) - One(closing', q)
                 = Open(openIdx'[q])
      PROVE  GaugeCountsIntervals'
  BY <1>2 DEF GaugeCountsIntervals
<1>3. change = Free => change.up = {} /\ change.down = {}
  BY DEF Free
<1>a. ASSUME change = Free, NEW q \in Reasons
      PROVE  gauge[q] \in Int /\ gauge[q] - One(closing, q) = Open(openIdx[q])
  <2>1. One(change.up, q) = 0 /\ One(change.down, q) = 0
    BY <1>3, <1>a
  <2>2. gauge[q] \in Int
    BY <1>0
  <2>3. gauge[q] + One(change.up, q) - One(change.down, q) - One(closing, q) = Open(openIdx[q])
    BY <1>1
  <2> HIDE DEF Open
  <2> QED BY <2>1, <2>2, <2>3
<1>4. ASSUME NEW r \in Reasons, Apply(r)
      PROVE  GaugeCountsIntervals'
  <2>1. change = Free /\ UNCHANGED <<closing, gauge>> /\ openIdx[r] = 0
    BY <1>0, <1>4 DEF Apply, Intervals
  <2>2. CASE Bound(r) = {}
    <3>1. UNCHANGED <<openIdx, change>>
      BY <1>4, <2>2 DEF Apply
    <3> QED BY <1>1, <1>2, <2>1, <3>1
  <2>3. CASE Bound(r) # {}
    <3>1. change'.up = {r} /\ change'.down = {} /\ openIdx' = [openIdx EXCEPT ![r] = Len(records')]
      BY <1>4, <2>3 DEF Apply
    <3>2. Len(records') # 0
      <4>1. Bound(r) \in SUBSET Tracks /\ records \in Seq(Records)
        BY DEF Bound, TypeOK, Records
      <4>2. records' = records \o Opened({r}, Bound(r))
        BY <1>4, <2>3 DEF Apply
      <4>3. Len(records') = Len(records) + 1
        BY <4>1, <4>2, OneOpened
      <4> QED BY <1>0, <4>3
    <3>3. openIdx'[r] # 0 /\ \A q \in Reasons \ {r} : openIdx'[q] = openIdx[q]
      BY <1>0, <3>1, <3>2
    <3> SUFFICES ASSUME NEW q \in Reasons
                 PROVE  gauge[q] + One({r}, q) - One({}, q) - One(closing, q) = Open(openIdx'[q])
      BY <1>2, <2>1, <3>1
    <3>4. gauge[q] \in Int /\ gauge[q] - One(closing, q) = Open(openIdx[q])
      BY <1>a, <2>1
    <3>5. CASE q = r
      <4>1. Open(openIdx[q]) = 0 /\ Open(openIdx'[q]) = 1 /\ One({r}, q) = 1 /\ One({}, q) = 0
        BY <2>1, <3>3, <3>5
      <4> QED BY <3>4, <4>1
    <3>6. CASE q # r
      <4>1. Open(openIdx'[q]) = Open(openIdx[q]) /\ One({r}, q) = 0 /\ One({}, q) = 0
        BY <3>3, <3>6
      <4> QED BY <3>4, <4>1
    <3> QED BY <3>5, <3>6
  <2> QED BY <2>2, <2>3
<1>5. ASSUME NEW r \in Reasons, Lift(r)
      PROVE  GaugeCountsIntervals'
  <2>1. change = Free /\ UNCHANGED <<closing, gauge>>
    BY <1>5 DEF Lift
  <2>2. CASE openIdx[r] = 0
    <3>1. UNCHANGED <<openIdx, change>>
      BY <1>5, <2>2 DEF Lift
    <3> QED BY <1>1, <1>2, <2>1, <3>1
  <2>3. CASE openIdx[r] # 0
    <3>1. change'.up = {} /\ change'.down = {r} /\ openIdx' = [openIdx EXCEPT ![r] = 0]
      BY <1>5, <2>3 DEF Lift
    <3>2. openIdx'[r] = 0 /\ \A q \in Reasons \ {r} : openIdx'[q] = openIdx[q]
      BY <1>0, <3>1
    <3> SUFFICES ASSUME NEW q \in Reasons
                 PROVE  gauge[q] + One({}, q) - One({r}, q) - One(closing, q) = Open(openIdx'[q])
      BY <1>2, <2>1, <3>1
    <3>4. gauge[q] \in Int /\ gauge[q] - One(closing, q) = Open(openIdx[q])
      BY <1>a, <2>1
    <3>5. CASE q = r
      <4>1. Open(openIdx[q]) = 1 /\ Open(openIdx'[q]) = 0 /\ One({}, q) = 0 /\ One({r}, q) = 1
        BY <2>3, <3>2, <3>5
      <4> QED BY <3>4, <4>1
    <3>6. CASE q # r
      <4>1. Open(openIdx'[q]) = Open(openIdx[q]) /\ One({}, q) = 0 /\ One({r}, q) = 0
        BY <3>2, <3>6
      <4> QED BY <3>4, <4>1
    <3> QED BY <3>5, <3>6
  <2> QED BY <2>2, <2>3
<1>6. ASSUME NEW r \in Reasons, ReportStopped(r)
      PROVE  GaugeCountsIntervals'
  <2>1. /\ r \in closing /\ closing' = closing \ {r} /\ UNCHANGED <<openIdx, change>>
        /\ gauge' = [gauge EXCEPT ![r] = @ - 1]
    BY <1>6 DEF ReportStopped, bookVars
  <2> QED BY <1>0, <1>1, <1>2, <2>1
<1>7. ASSUME NEW t \in Tracks, AddTrack(t)
      PROVE  GaugeCountsIntervals'
  <2>1. change = Free /\ UNCHANGED <<closing, gauge>>
    BY <1>7 DEF AddTrack
  <2>2. change'.up = Fresh(t) /\ change'.down = {}
    BY <1>7, AddTrackIs
  <2>3. \A q \in Fresh(t) : openIdx[q] = 0 /\ openIdx'[q] # 0
    <3>1. \A q \in Fresh(t) : openIdx'[q] \in (Len(records) + 1)..Len(records')
      BY <1>7, AddTrackIs
    <3> QED BY <1>0, <3>1 DEF Fresh
  <2>4. \A q \in Reasons \ Fresh(t) : openIdx'[q] = openIdx[q]
    BY <1>7, AddTrackIs
  <2> SUFFICES ASSUME NEW q \in Reasons
               PROVE  gauge[q] + One(Fresh(t), q) - One({}, q) - One(closing, q) = Open(openIdx'[q])
    BY <1>2, <2>1, <2>2
  <2>5. gauge[q] \in Int /\ gauge[q] - One(closing, q) = Open(openIdx[q])
    BY <1>a, <2>1
  <2>6. CASE q \in Fresh(t)
    <3>1. Open(openIdx[q]) = 0 /\ Open(openIdx'[q]) = 1
      BY <2>3, <2>6
    <3> HIDE DEF Open
    <3> QED BY <2>5, <2>6, <3>1
  <2>7. CASE q \notin Fresh(t)
    <3>1. Open(openIdx'[q]) = Open(openIdx[q])
      BY <2>4, <2>7
    <3> HIDE DEF Open
    <3> QED BY <2>5, <2>7, <3>1
  <2> QED BY <2>6, <2>7
<1>8. ASSUME StopConstraints
      PROVE  GaugeCountsIntervals'
  <2>1. /\ closing = {} /\ closing' = {q \in Reasons : openIdx[q] # 0}
        /\ openIdx' = [q \in Reasons |-> 0] /\ UNCHANGED <<change, gauge>>
    BY <1>8 DEF StopConstraints, RunIsFree
  <2> SUFFICES ASSUME NEW q \in Reasons
               PROVE  gauge[q] + One(change.up, q) - One(change.down, q) - One(closing', q) = 0
    BY <1>2, <2>1
  <2>2. gauge[q] + One(change.up, q) - One(change.down, q) - 0 = Open(openIdx[q])
    <3>1. One(closing, q) = 0
      BY <2>1
    <3>2. gauge[q] + One(change.up, q) - One(change.down, q) - One(closing, q) = Open(openIdx[q])
      BY <1>1
    <3> HIDE DEF One, Open
    <3> QED BY <3>1, <3>2
  <2>3. One(closing', q) = Open(openIdx[q])
    BY <2>1
  <2>4. gauge[q] \in Int /\ One(change.up, q) \in Int /\ One(change.down, q) \in Int
    BY <1>0
  <2> HIDE DEF One, Open
  <2> QED BY <2>2, <2>3, <2>4
<1>9. ASSUME NEW t \in Tracks, NEW q \in Quality, Send(t, q)
      PROVE  GaugeCountsIntervals'
  <2>1. UNCHANGED <<openIdx, closing, gauge>> /\ change'.up = change.up /\ change'.down = change.down
    BY <1>9 DEF Send, bookVars, TypeOK
  <2> QED BY <1>1, <1>2, <2>1
<1>10. ASSUME Release
       PROVE  GaugeCountsIntervals'
  <2>1. /\ UNCHANGED <<openIdx, closing>> /\ change'.up = {} /\ change'.down = {}
        /\ \A q \in Reasons : gauge'[q] = gauge[q] + One(change.up, q) - One(change.down, q)
    BY <1>10 DEF Release, bookVars, Free
  <2> QED BY <1>0, <1>1, <1>2, <2>1
<1> QED
  BY <1>4, <1>5, <1>6, <1>7, <1>8, <1>9, <1>10 DEF Next

-----------------------------------------------------------------------------

LEMMA InitInv == Init => Inv
<1> SUFFICES ASSUME Init PROVE Inv
  OBVIOUS
<1>1. TypeOK /\ FinitelyManyActive
  <2>1. <<>> \in Seq(Records) /\ Len(<<>>) = 0
    BY EmptySeq
  <2>2. records \in Seq(Records) /\ openIdx \in [Reasons -> 0..Len(records)]
    BY <2>1 DEF Init
  <2>3. /\ quality \in [Tracks -> Quality \cup {None}]
        /\ sent \in [Tracks -> Quality \cup {None}]
        /\ gauge \in [Reasons -> Int]
    BY DEF Init
  <2>4. change \in Changes
    BY DEF Init, Free, Changes
  <2>5. active = {} /\ tracks = {} /\ stopped = FALSE /\ closing = {}
    BY DEF Init
  <2>6. IsFiniteSet(active)
    BY <2>5, FS_EmptySet
  <2> QED
    BY <2>2, <2>3, <2>4, <2>5, <2>6 DEF TypeOK, FinitelyManyActive, Records, Changes
<1>2. QualityIsEffective /\ SendsOutstanding
  BY DEF Init, Free, QualityIsEffective, SendsOutstanding
<1>3. IntervalIffLowered
  BY DEF Init, IntervalIffLowered, Lowered
<1>4. GaugeCountsIntervals
  BY DEF Init, Free, GaugeCountsIntervals
<1> QED BY <1>1, <1>2, <1>3, <1>4 DEF Inv

LEMMA NextInv == Inv /\ [Next]_vars => Inv'
<1> SUFFICES ASSUME Inv, [Next]_vars PROVE Inv'
  OBVIOUS
<1>1. CASE Next
  BY <1>1, TypeStep, QualityStep, SendsStep, IntervalStep, GaugeStep DEF Inv
<1>2. CASE UNCHANGED vars
  <2>1. /\ UNCHANGED <<active, tracks, quality, openIdx, records, stopped>>
        /\ UNCHANGED <<change, closing, sent, gauge>>
    BY <1>2 DEF vars, bookVars
  <2>2. TypeOK' /\ FinitelyManyActive'
    BY <2>1 DEF Inv, TypeOK, FinitelyManyActive
  <2>3. QualityIsEffective' /\ SendsOutstanding'
    BY <2>1 DEF Inv, QualityIsEffective, SendsOutstanding
  <2>4. IntervalIffLowered'
    BY <2>1 DEF Inv, IntervalIffLowered, Lowered
  <2>5. GaugeCountsIntervals'
    BY <2>1 DEF Inv, GaugeCountsIntervals
  <2> QED BY <2>2, <2>3, <2>4, <2>5 DEF Inv
<1> QED BY <1>1, <1>2

\* The invariant holds in every state of the book.
LEMMA BookInvariant == Spec => []Inv
BY InitInv, NextInv, PTL DEF Spec

-----------------------------------------------------------------------------
(* Theorems *)

\* Every variable keeps its type: an index is always that of a record, and a
\* track's quality is one of LiveKit's.
THEOREM BookTypeCorrect == Spec => []TypeOK
<1>1. Inv => TypeOK
  BY DEF Inv
<1> QED BY <1>1, BookInvariant, PTL

\* constraintMu, from a change of the book until its qualities are sent: once
\* nothing is being sent, LiveKit was last asked for what the active constraints
\* amount to, whatever reasons came, went and overlapped as tracks subscribed.
THEOREM LiveKitHasTheEffectiveQuality == Spec => []SentIsEffective
<1>1. Inv => SentIsEffective
  <2> SUFFICES ASSUME Inv, change = Free, NEW t \in tracks
               PROVE  sent[t] = Effective(active, t)
    BY DEF SentIsEffective
  <2>1. change.sends = {}
    BY DEF Free
  <2>2. sent[t] = quality[t]
    BY <2>1 DEF Inv, SendsOutstanding
  <2>3. quality[t] = Effective(active, t)
    BY DEF Inv, QualityIsEffective
  <2> QED BY <2>2, <2>3
<1> QED BY <1>1, BookInvariant, PTL

\* apply, lift and addTrack of the book: a reason has an open interval exactly
\* while it lowers a track, over those tracks.
THEOREM IntervalsAreExact == Spec => []IntervalIffLowered
<1>1. Inv => IntervalIffLowered
  BY DEF Inv
<1> QED BY <1>1, BookInvariant, PTL

\* StopConstraints may overtake the update of a change that is still being sent:
\* the gauge counts the open intervals nevertheless.
THEOREM GaugeIsBalanced == Spec => []GaugeCountsIntervals
<1>1. Inv => GaugeCountsIntervals
  BY DEF Inv
<1> QED BY <1>1, BookInvariant, PTL
=============================================================================
