---------------------------- MODULE DiskPressure ----------------------------
(***************************************************************************)
(* The disk pressure guard: Monitor of internal/diskpressure, with the      *)
(* levels that Normalize of internal/config makes of the configured ones.   *)
(*                                                                          *)
(* Space is counted in MiB of a volume of Total. statfs is the environment: *)
(* it may fail, and a call of it may hang for ever. What the monitor logs   *)
(* and counts is left out, and with it the flags failing, stalled and       *)
(* timedOut.                                                                *)
(***************************************************************************)
EXTENDS Integers

CONSTANTS
  Total,      \* size of the volume, in MiB
  MaxMiB,     \* maxDiskPressureMiB
  Configured, \* the levels that may be configured
  None, Running, Failed

ASSUME TotalAssumption == Total \in Nat \ {0} /\ MaxMiB \in Nat \ {0}
ASSUME ConfiguredAssumption ==
  Configured \subseteq [engageMiB : Int, releaseMiB : Int, engagePercent : Int, releasePercent : Int]
ASSUME ValuesAssumption ==
  /\ {None, Running, Failed} \cap Int = {}
  /\ None # Running /\ None # Failed /\ Running # Failed

VARIABLES
  cfg,      \* the levels in force
  free,     \* space left, as the filesystem has it
  active,   \* Monitor.active, as last told to onChange
  latest,   \* the last sample that was evaluated
  awaited,  \* the check that timedStat waits for: still running, or its result
  hung,     \* Monitor.hung: the check that was given up on
  checker,  \* where the goroutine running checks is: at first in Start, then in run
  result,   \* the sample it is evaluating
  stopper   \* where Stop is: not called, stop closed and waiting, or returned

callVars == <<awaited, hung>>
checkVars == <<active, latest, checker, result>>
vars == <<cfg, free, callVars, checkVars, stopper>>

Sample == 0..Total
Call == Sample \cup {None, Running, Failed}

-----------------------------------------------------------------------------
(* Levels *)

Clamp(value, most) == IF value < 0 THEN 0 ELSE IF value > most THEN most ELSE value

Larger(a, b) == IF a > b THEN a ELSE b

\* Mutation: a release level below the engage level is kept.
ReleaseAsGiven(engage, release) == IF engage = 0 THEN 0 ELSE release

\* A criterion that is disabled has no release level; an enabled one is
\* released at its engage level or above.
ReleaseLevel(engage, release) == IF engage = 0 THEN 0 ELSE Larger(engage, release)

Normalize(given) ==
  LET engageMiB == Clamp(given.engageMiB, MaxMiB)
      engagePercent == Clamp(given.engagePercent, 100)
  IN [engageMiB |-> engageMiB,
      releaseMiB |-> ReleaseLevel(engageMiB, Clamp(given.releaseMiB, MaxMiB)),
      engagePercent |-> engagePercent,
      releasePercent |-> ReleaseLevel(engagePercent, Clamp(given.releasePercent, 100))]

\* With no criterion the guard is disabled.
Enabled(levels) == levels.engageMiB > 0 \/ levels.engagePercent > 0

BelowMiB(sample, level) == sample < level
BelowPercent(sample, level) == 100 * sample < level * Total

\* engageTripped: any criterion engages. A level of 0 trips on no sample.
Tripped(sample) ==
  BelowMiB(sample, cfg.engageMiB) \/ BelowPercent(sample, cfg.engagePercent)

\* releaseCleared: every enabled criterion must clear; a disabled one has the
\* release level 0.
Cleared(sample) ==
  ~BelowMiB(sample, cfg.releaseMiB) /\ ~BelowPercent(sample, cfg.releasePercent)

-----------------------------------------------------------------------------

TypeOK ==
  /\ cfg \in [engageMiB : 0..MaxMiB, releaseMiB : 0..MaxMiB,
              engagePercent : 0..100, releasePercent : 0..100]
  /\ free \in Sample
  /\ active \in BOOLEAN
  /\ latest \in Sample \cup {None}
  /\ awaited \in Call
  /\ hung \in Call
  /\ checker \in {"starting", "first", "waiting", "checking", "evaluating", "done"}
  /\ result \in Sample \cup {None}
  /\ result # None <=> checker \in {"first", "evaluating"}
  /\ awaited # None <=> checker \in {"starting", "checking"}
  /\ stopper \in {"none", "stopping", "returned"}

\* Start has made the first call of stat.
Init ==
  /\ cfg \in {levels \in {Normalize(given) : given \in Configured} : Enabled(levels)}
  /\ free \in Sample
  /\ active = FALSE
  /\ latest = None
  /\ awaited = Running
  /\ hung = None
  /\ checker = "starting"
  /\ result = None
  /\ stopper = "none"

Stopped == stopper # "none"

-----------------------------------------------------------------------------
(* The filesystem *)

\* Recordings and whatever else is on the volume come and go.
SpaceChanges ==
  /\ free' \in Sample \ {free}
  /\ UNCHANGED <<cfg, callVars, checkVars, stopper>>

\* A call of stat returns, with the space of that moment or an error: the
\* one that is awaited or the one that hung.
StatReturns(with) ==
  /\ \/ awaited = Running /\ awaited' = with /\ UNCHANGED hung
     \/ hung = Running /\ hung' = with /\ UNCHANGED awaited
  /\ UNCHANGED <<cfg, free, checkVars, stopper>>

-----------------------------------------------------------------------------
(* Checks: timedStat, run and check *)

\* Mutation: the stop is not looked at.
EvaluateStopped(r, to) ==
  IF r = Failed
    THEN checker' = "waiting" /\ UNCHANGED result
    ELSE checker' = to /\ result' = r

\* evaluate returns at once when the monitor is stopping, and an error keeps
\* the state.
Evaluate(r, to) ==
  IF Stopped \/ r = Failed
    THEN checker' = "waiting" /\ UNCHANGED result
    ELSE checker' = to /\ result' = r

\* A check begins. While one is hung none does: timedStat fails and the state
\* is kept, which changes nothing.
Tick ==
  /\ checker = "waiting" /\ hung = None
  /\ awaited' = Running
  /\ checker' = "checking"
  /\ UNCHANGED <<cfg, free, hung, active, latest, result, stopper>>

\* The check returns within its timeout.
CheckReturns ==
  /\ awaited \in Sample \cup {Failed}
  /\ awaited' = None
  /\ Evaluate(awaited, IF checker = "starting" THEN "first" ELSE "evaluating")
  /\ UNCHANGED <<cfg, free, hung, active, latest, stopper>>

\* The check is given up on, though its result may have just come; that is
\* an error, and in Start the guard begins disengaged.
CheckTimesOut ==
  /\ awaited # None
  /\ hung' = awaited
  /\ awaited' = None
  /\ checker' = "waiting"
  /\ UNCHANGED <<cfg, free, active, latest, result, stopper>>

\* Mutation: a late result is dropped.
TakeHungDropped ==
  /\ checker = "waiting" /\ hung \in Sample \cup {Failed}
  /\ hung' = None
  /\ UNCHANGED <<cfg, free, awaited, active, latest, checker, result, stopper>>

\* The result of the hung check comes in between ticks.
TakeHung ==
  /\ checker = "waiting" /\ hung \in Sample \cup {Failed}
  /\ hung' = None
  /\ Evaluate(hung, "evaluating")
  /\ UNCHANGED <<cfg, free, awaited, active, latest, stopper>>

\* evaluate, past its look at stop: engage, release, or neither.
Decide ==
  /\ checker \in {"first", "evaluating"}
  /\ active' = IF active THEN ~Cleared(result) ELSE Tripped(result)
  /\ latest' = result
  /\ result' = None
  /\ checker' = "waiting"
  /\ UNCHANGED <<cfg, free, callVars, stopper>>

TakeStop ==
  /\ checker = "waiting" /\ Stopped
  /\ checker' = "done"
  /\ UNCHANGED <<cfg, free, callVars, active, latest, result, stopper>>

-----------------------------------------------------------------------------
(* Stop, which the process calls once Start has returned *)

BeginStop ==
  /\ stopper = "none" /\ checker \notin {"starting", "first"}
  /\ stopper' = "stopping"
  /\ UNCHANGED <<cfg, free, callVars, checkVars>>

\* It waits for the goroutine, or times out on a check that is not back. What
\* else the goroutine does takes no such time.
EndStop ==
  /\ stopper = "stopping" /\ checker \in {"done", "checking"}
  /\ stopper' = "returned"
  /\ UNCHANGED <<cfg, free, callVars, checkVars>>

-----------------------------------------------------------------------------

Returns == StatReturns(free)

Next ==
  \/ SpaceChanges \/ Returns \/ StatReturns(Failed)
  \/ Tick \/ CheckReturns \/ CheckTimesOut \/ TakeHung \/ Decide \/ TakeStop
  \/ BeginStop \/ EndStop

Spec == Init /\ [][Next]_vars

\* Timers fire, the goroutine goes on, and a select whose case stays ready
\* takes it in the end. Of stat nothing is assumed.
FairSpec ==
  /\ Spec
  /\ WF_vars(Tick) /\ WF_vars(CheckReturns \/ CheckTimesOut) /\ WF_vars(Decide)
  /\ SF_vars(TakeHung) /\ SF_vars(TakeStop) /\ WF_vars(EndStop)

-----------------------------------------------------------------------------
(* Safety *)

\* A hung mount holds one blocked call of stat, not one per tick; and so no
\* sample is overtaken by an older one.
OneCall == awaited # None => hung = None

\* The guard agrees with the last sample: it is not engaged on one that
\* clears the release levels, nor disengaged on one that trips.
GuardFollowsSamples ==
  latest # None => IF active THEN ~Cleared(latest) ELSE ~Tripped(latest)

\* Once Stop has returned the guard no longer changes, so no constraint is
\* set or cleared on a server that is closing.
SilentOnceStopped == [][stopper = "returned" => UNCHANGED active]_vars

-----------------------------------------------------------------------------
(* Liveness *)

\* The volume answers again and again, at whatever speed.
DiskAnswers == SF_vars(Returns)

\* Space that stays short is noticed, however slow the mount, and so is space
\* that stays plentiful.
PressureIsNoticed ==
  DiskAnswers => /\ <>[]Tripped(free) => <>[](active \/ Stopped)
                 /\ <>[]Cleared(free) => <>[](~active \/ Stopped)
=============================================================================
