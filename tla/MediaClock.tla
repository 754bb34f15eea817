----------------------------- MODULE MediaClock -----------------------------
(***************************************************************************)
(* The media clock of a microphone, internal/webrtc/utils/mediaclock.go:    *)
(* when the sender loses captured audio, its timestamps fall behind the     *)
(* wall clock, and the clock moves them forward by gaps, up to what both    *)
(* the arrivals and the sender reports show. Operators go from one clock to *)
(* the next, each a call with the lock held. A tick of media is a tick of   *)
(* time; the stats are left out.                                            *)
(***************************************************************************)
EXTENDS Integers, Sequences, FiniteSetsExt

CONSTANTS
  TSMod,          \* timestamps are modulo TSMod, 2^32 in the code
  SeqMod,         \* sequence numbers are modulo SeqMod, 2^16 in the code
  ArrivalWindow,  \* mediaClockArrivalWindow
  Gap,            \* mediaClockGap
  Trigger,        \* mediaClockTrigger
  Frame,          \* mediaClockFrame
  RateWindow,     \* mediaClockRateWindow
  RateMinSpan,    \* mediaClockRateMinSpan
  MaxRateOf,      \* mediaClockMaxRate is one in MaxRateOf
  MaxReports,     \* mediaClockMaxReports
  MaxJumps,       \* mediaClockMaxJumps
  SeedWindow,     \* mediaClockSeedWindow
  ReportGap,      \* mediaClockReportGap
  Realign,        \* mediaClockRealign
  SameDeficit,    \* mediaClockSameDeficit
  NTPStep,        \* mediaClockNTPStep
  Jump,           \* mediaClockJump
  MaxSteps        \* mediaClockSteps

ASSUME ClockAssumption ==
  /\ Trigger \in 1 .. Gap /\ Frame >= 1 /\ RateMinSpan >= 1 /\ MaxRateOf >= 1
  /\ Jump < TSMod \div 2

NewClock ==
  [started |-> FALSE, firstAt |-> 0, highTS |-> 0, highExt |-> 0, highSeq |-> 0, lastAt |-> 0,
   window |-> <<>>, floor |-> 0, offset |-> 0, steps |-> <<>>, base |-> 0,
   jumps |-> <<>>, reportedAhead |-> 0, srs |-> <<>>,
   firstReport |-> 0, preLag |-> 0, preSpan |-> 0, seed |-> 0]

Newest(s) == s[Len(s)]
LastOf(s, n) == IF Len(s) <= n THEN s ELSE SubSeq(s, Len(s) - n + 1, Len(s))
Abs(v) == IF v < 0 THEN -v ELSE v

\* int32(ts - of)
Ahead(ts, of) ==
  LET d == (ts - of) % TSMod IN IF d < TSMod \div 2 THEN d ELSE d - TSMod

-----------------------------------------------------------------------------
(* Offsets *)

\* setOffset: the steps that are kept tell late packets their offset.
SetOffset(c, offset, fromExt) ==
  LET steps == Append(c.steps, [fromExt |-> fromExt, offset |-> offset]) IN
  [c EXCEPT !.offset = offset, !.steps = LastOf(steps, MaxSteps),
            !.base = IF Len(steps) > MaxSteps THEN steps[1].offset ELSE @]

OffsetFor(c, ext) ==
  LET from == {k \in DOMAIN c.steps : c.steps[k].fromExt <= ext}
  IN  IF from = {} THEN c.base ELSE c.steps[Max(from)].offset

\* Mutation: no room is left for the packets missing before a jump.
GiveBackAll(c, lag, prevExt, step, missing) ==
  LET over == c.offset - Max({lag, 0})
      room == step - Frame
  IN  IF over < Gap \/ room <= 0 \/ missing < 0 THEN c
      ELSE SetOffset(c, c.offset - Min({over, room}), prevExt + step \div 2 + 1)

\* giveBack takes off what a jump of the timestamps covers, and leaves room
\* for the packets missing before it.
GiveBack(c, lag, prevExt, step, missing) ==
  LET over == c.offset - Max({lag, 0})
      room == step - (2 * missing + 1) * Frame
  IN  IF over < Gap \/ room <= 0 \/ missing < 0 THEN c
      ELSE SetOffset(c, c.offset - Min({over, room}), prevExt + step \div 2 + 1)

\* reportedRate as [lost, of], where lost is at most one in MaxRateOf.
ReportedRate(srs) ==
  LET span == Newest(srs).at - srs[1].at
      lost == Max({Newest(srs).gained - srs[1].gained, 0})
  IN  IF span < RateMinSpan THEN [lost |-> 0, of |-> 1]
      ELSE IF lost * MaxRateOf > span THEN [lost |-> 1, of |-> MaxRateOf]
      ELSE [lost |-> lost, of |-> span]

\* reportedCap: the newest report's deficit, and the rate over twice the age
\* of its last change, halved.
ReportedCap(c, at) ==
  LET newest == Newest(c.srs)
      i == Min({k \in DOMAIN c.srs : newest.gained - c.srs[k].gained <= SameDeficit})
      before == IF i = 1 THEN 0 ELSE c.srs[i].at - c.srs[i - 1].at
      age2 == 2 * (at - c.srs[i].at) + before
      rate == ReportedRate(c.srs)
  IN  c.seed + newest.deficit
      + (IF age2 <= 2 * ReportGap THEN (rate.lost * age2) \div (2 * rate.of) ELSE 0)

\* Mutation: the arrivals alone decide.
CatchUpWithArrivals(c, lag, ext, at) ==
  IF c.srs = <<>> \/ lag - c.offset < Trigger THEN c
  ELSE SetOffset(c, c.offset + ((lag - c.offset - Trigger) \div Gap + 1) * Gap, ext)

\* Mutation: the gap is rounded down.
CatchUpLess(c, lag, ext, at) ==
  IF c.srs = <<>> THEN c
  ELSE LET behind == Min({lag, ReportedCap(c, at)}) - c.offset IN
       IF behind < Trigger THEN c
       ELSE SetOffset(c, c.offset + (behind \div Gap) * Gap, ext)

\* catchUp, of a clock that corrects.
CatchUp(c, lag, ext, at) ==
  IF c.srs = <<>> THEN c
  ELSE LET behind == Min({lag, ReportedCap(c, at)}) - c.offset IN
       IF behind < Trigger THEN c
       ELSE SetOffset(c, c.offset + ((behind - Trigger) \div Gap + 1) * Gap, ext)

-----------------------------------------------------------------------------
(* Calls *)

DropJumps(c, at) ==
  LET lastReport == IF c.srs = <<>> THEN 0 ELSE Newest(c.srs).at
      unconfirmed(j) == ~(at - j.at > ReportGap /\ j.at < lastReport)
  IN  [c EXCEPT !.jumps = LastOf(SelectSeq(@, unconfirmed), MaxJumps - 1)]

\* The lowest lateness from each packet of the window on.
Arrived(window, at, r) ==
  SelectSeq(window, LAMBDA l : l.r < r /\ l.at >= at - ArrivalWindow)
    \o <<[at |-> at, r |-> r]>>

\* A packet ahead of all before it.
Advance(c, ts, seq, ext, at) ==
  LET step == ext - c.highExt
      missing == ((seq - c.highSeq) % SeqMod) - 1
      jump == step - Max({missing, 0}) * Frame - (at - c.lastAt)
      noted == IF jump < Realign THEN c
               ELSE LET d == DropJumps(c, at)
                    IN [d EXCEPT !.jumps = Append(@, [at |-> at, ticks |-> jump])]
      r == (at - c.firstAt) - ext
      moved == [noted EXCEPT !.highTS = ts, !.highExt = ext, !.highSeq = seq, !.lastAt = at,
                             !.floor = Min({@, r}), !.window = Arrived(@, at, r)]
      lag == moved.window[1].r - moved.floor
  IN  CatchUp(GiveBack(moved, lag, c.highExt, step, missing), lag, ext, at)

\* Timestamp: the clock after it, and the timestamp it returns. A packet far
\* behind the newest carries on from it.
Timestamp(c, ts, seq, at) ==
  LET ahead == Ahead(ts, c.highTS)
      ext == c.highExt + ahead
      d == Advance(c, ts, seq, IF ahead > 0 THEN ext ELSE c.highExt + Frame, at)
  IN  IF ~c.started
        THEN [clock |-> [c EXCEPT !.started = TRUE, !.firstAt = at, !.lastAt = at,
                                  !.highTS = ts, !.highSeq = seq,
                                  !.window = <<[at |-> at, r |-> 0]>>],
              out |-> ts]
      ELSE IF ahead <= 0 /\ -ahead <= Jump
        THEN [clock |-> c, out |-> (ts + OffsetFor(c, ext)) % TSMod]
      ELSE [clock |-> d, out |-> (ts + d.offset) % TSMod]

\* largestJump, 0 for none.
LargestJump(c, limit) ==
  Max({0} \cup {c.jumps[k].ticks : k \in {n \in DOMAIN c.jumps : c.jumps[n].ticks <= limit}})

\* confirmRealignment
Confirm(c, ticks) == [c EXCEPT !.reportedAhead = @ + ticks, !.jumps = <<>>]

\* Reports are kept while they serve the rate: two of them always.
Recent(srs, at) ==
  LET kept == {k \in DOMAIN srs :
                 \/ k >= Len(srs) - 1
                 \/ Len(srs) - k < MaxReports /\ at - srs[k + 1].at < RateWindow}
  IN  SubSeq(srs, Min(kept), Len(srs))

\* The report added, and the loss before the first one estimated.
AddReport(c, sr, at) ==
  LET srs == Recent(Append(c.srs, sr), at)
      rate == ReportedRate(srs)
      before == Min({c.preLag, (rate.lost * c.preSpan) \div rate.of})
  IN  [c EXCEPT !.srs = srs,
                !.seed = IF at - c.firstReport <= SeedWindow THEN Max({@, before}) ELSE @]

\* SenderReport, with the sender's wall and media clocks.
SenderReport(c, ntp, rtp, at) ==
  LET ahead == Ahead(rtp, c.highTS)
      ext == c.highExt + ahead
      sr == [at |-> at, ntp |-> ntp, ext |-> ext, deficit |-> 0, gained |-> 0]
      first == [c EXCEPT !.firstReport = at, !.preLag = Max({c.window[1].r - c.floor, 0}),
                         !.preSpan = at - c.firstAt]
      last == Newest(c.srs)
      dropped == DropJumps(c, at)
      elapsed == ntp - last.ntp
      shown == elapsed - (ext - last.ext)
      bound == Abs(elapsed) + Jump
      jump == LargestJump(dropped, -4 * shown)
      realigned == jump > 0 /\ Abs(shown + jump) <= bound
      stepped == Abs(elapsed - (at - last.at)) > NTPStep \/ (Abs(shown) > bound /\ ~realigned)
      lost == IF stepped THEN 0 ELSE shown
  IN  IF ~c.started \/ Abs(ahead) > Jump THEN c
      ELSE IF c.srs = <<>> THEN AddReport(first, sr, at)
      ELSE IF ntp = last.ntp /\ ext = last.ext THEN c
      ELSE AddReport(IF ~stepped /\ jump > 0 THEN Confirm(dropped, jump) ELSE dropped,
                     [sr EXCEPT !.deficit = last.deficit + lost,
                                !.gained = last.gained + Max({lost, 0})], at)
=============================================================================
