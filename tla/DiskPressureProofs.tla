------------------------- MODULE DiskPressureProofs -------------------------
(***************************************************************************)
(* What is proved of the disk pressure guard: the type invariant, that no   *)
(* two calls of stat are made at once, that the guard agrees with the last  *)
(* sample, and that it is silent once Stop has returned; for every volume,  *)
(* every level and every behaviour of the filesystem.                       *)
(***************************************************************************)
EXTENDS DiskPressure, TLAPS

-----------------------------------------------------------------------------
(* The inductive invariant *)

\* What Normalize establishes: no criterion is released below the level that
\* engages it.
LevelsOrdered ==
  cfg.engageMiB <= cfg.releaseMiB /\ cfg.engagePercent <= cfg.releasePercent

\* Stop returns only while no sample is being evaluated, and then none is.
NoLateSample == stopper = "returned" => checker \in {"waiting", "checking", "done"}

Inv == TypeOK /\ LevelsOrdered /\ OneCall /\ GuardFollowsSamples /\ NoLateSample

-----------------------------------------------------------------------------
(* Levels *)

\* clamp keeps a level between 0 and the most that is allowed.
LEMMA ClampBounds ==
  ASSUME NEW value \in Int, NEW most \in Nat
  PROVE  Clamp(value, most) \in 0..most
BY DEF Clamp

\* Of two levels in range, the release level is in range and not below the
\* engage level.
LEMMA ReleaseBounds ==
  ASSUME NEW most \in Nat, NEW engage \in 0..most, NEW release \in 0..most
  PROVE  /\ ReleaseLevel(engage, release) \in 0..most
         /\ engage <= ReleaseLevel(engage, release)
BY DEF ReleaseLevel, Larger

\* Normalize puts any configured levels in range and in order.
LEMMA NormalizeOrders ==
  ASSUME NEW given \in Configured
  PROVE  /\ Normalize(given) \in [engageMiB : 0..MaxMiB, releaseMiB : 0..MaxMiB,
                                  engagePercent : 0..100, releasePercent : 0..100]
         /\ Normalize(given).engageMiB <= Normalize(given).releaseMiB
         /\ Normalize(given).engagePercent <= Normalize(given).releasePercent
<1> DEFINE em == Clamp(given.engageMiB, MaxMiB)
           rm == Clamp(given.releaseMiB, MaxMiB)
           ep == Clamp(given.engagePercent, 100)
           rp == Clamp(given.releasePercent, 100)
<1>1. /\ given.engageMiB \in Int /\ given.releaseMiB \in Int
      /\ given.engagePercent \in Int /\ given.releasePercent \in Int
  BY ConfiguredAssumption
<1>2. MaxMiB \in Nat /\ 100 \in Nat
  BY TotalAssumption
<1>3. em \in 0..MaxMiB /\ rm \in 0..MaxMiB /\ ep \in 0..100 /\ rp \in 0..100
  BY <1>1, <1>2, ClampBounds
<1>4. ReleaseLevel(em, rm) \in 0..MaxMiB /\ em <= ReleaseLevel(em, rm)
  <2> HIDE DEF em, rm
  <2> QED BY <1>2, <1>3, ReleaseBounds
<1>5. ReleaseLevel(ep, rp) \in 0..100 /\ ep <= ReleaseLevel(ep, rp)
  <2> HIDE DEF ep, rp
  <2> QED BY <1>2, <1>3, ReleaseBounds
<1>6. Normalize(given) = [engageMiB |-> em, releaseMiB |-> ReleaseLevel(em, rm),
                          engagePercent |-> ep, releasePercent |-> ReleaseLevel(ep, rp)]
  BY DEF Normalize
<1> HIDE DEF em, rm, ep, rp
<1> QED BY <1>3, <1>4, <1>5, <1>6

\* A percentage of the volume grows with the percentage.
LEMMA PercentGrows ==
  ASSUME NEW low \in Nat, NEW high \in Nat, low <= high
  PROVE  low * Total <= high * Total
<1>1. Total \in Nat
  BY TotalAssumption
<1>2. PICK d \in Nat : high = low + d
  <2> WITNESS high - low \in Nat
  <2> QED OBVIOUS
<1>3. high * Total = low * Total + d * Total
  BY <1>1, <1>2
<1>4. d * Total \in Nat /\ low * Total \in Nat
  BY <1>1
<1> QED BY <1>3, <1>4

\* A sample that trips does not clear: with the levels in order the guard
\* never has reason both to engage and to release.
LEMMA TrippedIsNotCleared ==
  ASSUME TypeOK, LevelsOrdered, NEW sample \in Sample, Tripped(sample)
  PROVE  ~Cleared(sample)
<1>1. /\ Total \in Nat /\ sample \in Nat
      /\ cfg.engageMiB \in Nat /\ cfg.releaseMiB \in Nat
      /\ cfg.engagePercent \in Nat /\ cfg.releasePercent \in Nat
  BY TotalAssumption DEF TypeOK, Sample
<1>2. CASE BelowMiB(sample, cfg.engageMiB)
  BY <1>1, <1>2 DEF BelowMiB, Cleared, LevelsOrdered
<1>3. CASE BelowPercent(sample, cfg.engagePercent)
  <2>1. cfg.engagePercent * Total <= cfg.releasePercent * Total
    BY <1>1, PercentGrows DEF LevelsOrdered
  <2>2. 100 * sample < cfg.engagePercent * Total
    BY <1>3 DEF BelowPercent
  <2>3. /\ 100 * sample \in Int /\ cfg.engagePercent * Total \in Int
        /\ cfg.releasePercent * Total \in Int
    BY <1>1
  <2>4. 100 * sample < cfg.releasePercent * Total
    BY <2>1, <2>2, <2>3
  <2> QED BY <2>4 DEF BelowPercent, Cleared
<1> QED BY <1>2, <1>3 DEF Tripped

-----------------------------------------------------------------------------
(* The invariant holds *)

\* The values of a call are told apart.
LEMMA ValuesDistinct ==
  /\ None \notin Sample /\ Running \notin Sample /\ Failed \notin Sample
  /\ None # Running /\ None # Failed /\ Running # Failed
BY ValuesAssumption, TotalAssumption DEF Sample

\* The process starts in the invariant.
LEMMA InitInv == Init => Inv
<1> SUFFICES ASSUME Init PROVE Inv
  OBVIOUS
<1>1. PICK given \in Configured : cfg = Normalize(given)
  BY DEF Init
<1>2. LevelsOrdered
  BY <1>1, NormalizeOrders DEF LevelsOrdered
<1>3. TypeOK
  BY <1>1, NormalizeOrders, ValuesDistinct DEF Init, TypeOK, Call
<1> QED BY <1>2, <1>3 DEF Init, Inv, OneCall, GuardFollowsSamples, NoLateSample

\* Every step keeps the types, which say which of result and awaited the
\* goroutine holds at each place.
LEMMA TypeStep == Inv /\ [Next]_vars => TypeOK'
<1> SUFFICES ASSUME Inv, [Next]_vars PROVE TypeOK'
  OBVIOUS
<1> USE ValuesDistinct DEF Inv, TypeOK, Call
<1>1. CASE SpaceChanges
  BY <1>1 DEF SpaceChanges, callVars, checkVars
<1>2. ASSUME NEW with \in Sample \cup {Failed}, StatReturns(with) PROVE TypeOK'
  BY <1>2 DEF StatReturns, checkVars
<1>3. CASE Tick
  BY <1>3 DEF Tick
<1>4. CASE CheckReturns
  BY <1>4 DEF CheckReturns, Evaluate
<1>5. CASE CheckTimesOut
  BY <1>5 DEF CheckTimesOut
<1>6. CASE TakeHung
  BY <1>6 DEF TakeHung, Evaluate
<1>7. CASE Decide
  BY <1>7 DEF Decide, Tripped, Cleared, callVars
<1>8. CASE TakeStop
  BY <1>8 DEF TakeStop, callVars
<1>9. CASE BeginStop
  BY <1>9 DEF BeginStop, callVars, checkVars
<1>10. CASE EndStop
  BY <1>10 DEF EndStop, callVars, checkVars
<1>11. CASE UNCHANGED vars
  BY <1>11 DEF vars, callVars, checkVars
<1> QED
  BY <1>1, <1>2, <1>3, <1>4, <1>5, <1>6, <1>7, <1>8, <1>9, <1>10, <1>11
  DEF Next, Returns

\* The levels in force are never changed.
LEMMA LevelsFixed == [Next]_vars => cfg' = cfg
BY DEF Next, vars, SpaceChanges, Returns, StatReturns, Tick, CheckReturns, CheckTimesOut,
       TakeHung, Decide, TakeStop, BeginStop, EndStop

\* A call begins only while none is hung, and one is given up on only as
\* timedStat stops waiting for it.
LEMMA OneCallStep == Inv /\ [Next]_vars => OneCall'
<1> SUFFICES ASSUME Inv, [Next]_vars PROVE OneCall'
  OBVIOUS
<1> USE ValuesDistinct DEF Inv, TypeOK, OneCall
<1>1. CASE Returns \/ StatReturns(Failed)
  BY <1>1 DEF Returns, StatReturns
<1>2. CASE Tick \/ CheckReturns \/ CheckTimesOut \/ TakeHung
  BY <1>2 DEF Tick, CheckReturns, CheckTimesOut, TakeHung
<1>3. CASE SpaceChanges \/ Decide \/ TakeStop \/ BeginStop \/ EndStop \/ UNCHANGED vars
  BY <1>3 DEF SpaceChanges, Decide, TakeStop, BeginStop, EndStop, vars, callVars
<1> QED BY <1>1, <1>2, <1>3 DEF Next

\* Only Decide moves the guard, and it moves it to where the sample says.
LEMMA GuardStep == Inv /\ [Next]_vars => GuardFollowsSamples'
<1> SUFFICES ASSUME Inv, [Next]_vars PROVE GuardFollowsSamples'
  OBVIOUS
<1>1. cfg' = cfg
  BY LevelsFixed
<1>2. CASE Decide
  <2>1. result \in Sample
    BY <1>2 DEF Decide, Inv, TypeOK
  <2>2. Tripped(result) => ~Cleared(result)
    BY <2>1, TrippedIsNotCleared DEF Inv
  <2>3. latest' = result /\ active' = IF active THEN ~Cleared(result) ELSE Tripped(result)
    BY <1>2 DEF Decide
  <2>4. (Cleared(latest))' <=> Cleared(result)
    BY <1>1, <2>3 DEF Cleared, BelowMiB, BelowPercent
  <2>5. (Tripped(latest))' <=> Tripped(result)
    BY <1>1, <2>3 DEF Tripped, BelowMiB, BelowPercent
  <2>6. active' \in BOOLEAN
    BY TypeStep DEF TypeOK
  <2>7. IF active' THEN ~Cleared(result) ELSE ~Tripped(result)
    BY <2>2, <2>3, <2>6
  <2> QED BY <2>4, <2>5, <2>7 DEF GuardFollowsSamples
<1>3. CASE UNCHANGED <<active, latest>>
  BY <1>1, <1>3 DEF Inv, GuardFollowsSamples, Tripped, Cleared, BelowMiB, BelowPercent
<1> QED
  BY <1>2, <1>3
  DEF Next, vars, SpaceChanges, Returns, StatReturns, Tick, CheckReturns, CheckTimesOut,
      TakeHung, TakeStop, BeginStop, EndStop, checkVars

\* A sample is taken up only while the monitor is not stopping.
LEMMA NoLateSampleStep == Inv /\ [Next]_vars => NoLateSample'
<1> SUFFICES ASSUME Inv, [Next]_vars PROVE NoLateSample'
  OBVIOUS
<1> USE DEF Inv, NoLateSample
<1>1. CASE CheckReturns \/ TakeHung
  BY <1>1 DEF CheckReturns, TakeHung, Evaluate, Stopped
<1>2. CASE Tick \/ CheckTimesOut \/ Decide \/ TakeStop
  BY <1>2 DEF Tick, CheckTimesOut, Decide, TakeStop
<1>3. CASE BeginStop \/ EndStop
  BY <1>3 DEF BeginStop, EndStop, checkVars
<1>4. CASE SpaceChanges \/ Returns \/ StatReturns(Failed) \/ UNCHANGED vars
  BY <1>4 DEF SpaceChanges, Returns, StatReturns, vars, checkVars
<1> QED BY <1>1, <1>2, <1>3, <1>4 DEF Next

\* So every step keeps the invariant.
LEMMA NextInv == Inv /\ [Next]_vars => Inv'
<1> SUFFICES ASSUME Inv, [Next]_vars PROVE Inv'
  OBVIOUS
<1>1. LevelsOrdered'
  BY LevelsFixed DEF Inv, LevelsOrdered
<1> QED
  BY <1>1, TypeStep, OneCallStep, GuardStep, NoLateSampleStep DEF Inv

\* The invariant holds in every state of Monitor.
LEMMA GuardInvariant == Spec => []Inv
BY InitInv, NextInv, PTL DEF Spec

-----------------------------------------------------------------------------
(* Theorems *)

\* Every variable keeps its type, and the goroutine holds a sample or waits
\* for a call just where it should.
THEOREM GuardTypeCorrect == Spec => []TypeOK
<1>1. Inv => TypeOK
  BY DEF Inv
<1> QED BY <1>1, GuardInvariant, PTL

\* timedStat never has two calls of stat out, however long one hangs.
THEOREM OneStatAtATime == Spec => []OneCall
<1>1. Inv => OneCall
  BY DEF Inv
<1> QED BY <1>1, GuardInvariant, PTL

\* evaluate leaves the guard in agreement with its sample, for every
\* configuration that Normalize may be given.
THEOREM GuardAgreesWithSample == Spec => []GuardFollowsSamples
<1>1. Inv => GuardFollowsSamples
  BY DEF Inv
<1> QED BY <1>1, GuardInvariant, PTL

\* After Stop has returned, onChange is never called again.
THEOREM GuardSilentOnceStopped == Spec => SilentOnceStopped
<1>1. Inv /\ [Next]_vars => [stopper = "returned" => UNCHANGED active]_vars
  <2> SUFFICES ASSUME Inv, Next, stopper = "returned" PROVE UNCHANGED active
    OBVIOUS
  <2>1. ~Decide
    BY DEF Decide, Inv, NoLateSample
  <2> QED
    BY <2>1
    DEF Next, SpaceChanges, Returns, StatReturns, Tick, CheckReturns, CheckTimesOut,
        TakeHung, TakeStop, BeginStop, EndStop, checkVars
<1> QED BY <1>1, GuardInvariant, PTL DEF Spec, SilentOnceStopped
=============================================================================
