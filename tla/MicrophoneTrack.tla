-------------------------- MODULE MicrophoneTrack --------------------------
(***************************************************************************)
(* A LiveKit microphone whose packets pass its MediaClock on arrival        *)
(* (packetPusher of internal/webrtc/livekit/livekit.go) while the sender    *)
(* loses captured audio, LiveKit realigns its timestamps, and the network   *)
(* delays, reorders and loses packets and reports.                          *)
(***************************************************************************)
EXTENDS MediaClock, FiniteSets

CONSTANTS
  FirstTS,      \* the first timestamp
  RealignFrom,  \* LiveKit realigns a track this far behind
  MaxDelay,     \* bound on the delay of packets and reports
  MaxSent,      \* bound on the reports
  MaxNow        \* bound on the time

VARIABLES
  now,
  media,    \* the sender's media time at each time
  kept,     \* the times whose audio is sent
  clock,    \* the media clock
  out,      \* the timestamp each packet left with, NoTime before it arrives
  reports   \* the times whose sender report has arrived after a packet

vars == <<now, media, kept, clock, out, reports>>

NoTime == -1
Wire(t) == (FirstTS + media[t]) % TSMod
Seqno(t) == Cardinality({s \in kept : s <= t}) % SeqMod
Behind(t) == t - media[t]
\* Audio ever lost: what a realignment covers was lost before it.
Lost(t) == Cardinality((1 .. t) \ kept)

Init ==
  /\ now = 1 /\ media = <<1>> /\ kept = {1}
  /\ clock = NewClock
  /\ out = [t \in 1 .. MaxNow |-> NoTime]
  /\ reports = {}

-----------------------------------------------------------------------------
(* The sender *)

Goes(m) ==
  /\ now < MaxNow /\ now' = now + 1
  /\ media' = Append(media, m)
  /\ UNCHANGED <<clock, out, reports>>

Capture == Goes(media[now] + 1) /\ kept' = kept \cup {now + 1}

Lose == Goes(media[now]) /\ UNCHANGED kept

\* The publisher unmutes, and LiveKit moves the timestamps to the wall clock.
Unmute ==
  /\ Behind(now) >= RealignFrom
  /\ Goes(now + 1)
  /\ kept' = kept \cup {now + 1}

-----------------------------------------------------------------------------
(* The network *)

\* A packet arrives: packetPusher.
Arrive(t) ==
  LET stamped == Timestamp(clock, Wire(t), Seqno(t), now) IN
  /\ out[t] = NoTime /\ t >= now - MaxDelay
  /\ clock' = stamped.clock
  /\ out' = [out EXCEPT ![t] = stamped.out]
  /\ UNCHANGED <<now, media, kept, reports>>

\* The sender's report of time t arrives: observeSenderReport.
Report(t) ==
  /\ Cardinality(reports) < MaxSent
  /\ t >= now - MaxDelay /\ \A s \in reports : s < t
  /\ clock' = SenderReport(clock, t, Wire(t), now)
  /\ reports' = IF clock.started THEN reports \cup {t} ELSE reports
  /\ UNCHANGED <<now, media, kept, out>>

Next ==
  \/ Capture \/ Lose \/ Unmute
  \/ \E t \in kept : Arrive(t)
  \/ \E t \in 1 .. now : Report(t)

Spec == Init /\ [][Next]_vars

-----------------------------------------------------------------------------
(* Properties *)

Done == {t \in kept : out[t] # NoTime}

\* Frames do not overlap: whatever gaps are inserted and given back, timestamps
\* are a frame apart, those of late packets included.
FramesApart ==
  \A s, t \in Done : s < t => Ahead(out[t], out[s]) >= Frame

\* A gap is inserted only once the sender has lost a trigger's worth more than
\* is inserted, however the network delays packets; what is foreseen between
\* reports and before the first is at most the largest rate.
Foreseen == IF Lost(now) = 0 THEN 0 ELSE (clock.preSpan + ReportGap) \div MaxRateOf
GapsCoverLosses ==
  [][clock'.offset > clock.offset => Lost(now) + Foreseen - clock.offset >= Trigger]_vars

\* While no packet is delayed, the newest packet leaves less than a trigger
\* behind what the reports have shown lost, once the arrivals show it too.
Shown == IF reports = {} THEN 0 ELSE Behind(Max(reports)) - Behind(Min(reports))
OnTime ==
  /\ clock.floor = 0
  /\ \A k \in DOMAIN clock.window : clock.window[k].r = Behind(clock.window[k].at)
  /\ \A t \in Max({1, now - ArrivalWindow}) .. now : Behind(t) >= Shown
CaughtUp ==
  [][out'[now] # out[now] /\ OnTime' => Shown - clock'.offset < Trigger]_vars
=============================================================================
