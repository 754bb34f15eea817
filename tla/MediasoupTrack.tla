--------------------------- MODULE MediasoupTrack ---------------------------
(***************************************************************************)
(* A video track of the mediasoup adapter, OnTrack of                       *)
(* internal/webrtc/webrtc.go: its reader takes packets through the          *)
(* unwrapper, the jitter buffer and the receive log into the recorder,      *)
(* while a NACK goroutine asks for the missing ones, gives up on them, and  *)
(* skips them in the jitter buffer the two share without a lock. The PLI    *)
(* and flow goroutines matter here for how the track ends: the reader's     *)
(* deferred calls hand each goroutine its done, last started first.         *)
(***************************************************************************)
EXTENDS Integers, Sequences, FiniteSets

CONSTANTS
  Streams,     \* what publishers send: sequences of what a packet says
  Bases,       \* wire numbers the first packet can have
  SeqMod, LogSize, Size, NoPacket, PicMod, PicLate, NoInfo,
  SkipLast,    \* newest numbers the NACK goroutine leaves alone, 10 in the code
  MaxNacks,    \* maxNackAttempts
  MaxFates,    \* bound on frames that are overdue, invalid or not written
  AudioTrack   \* whether the session has an audio track as well

\* What a packet says, as far as the recorder looks. pic counts the pictures
\* sent; a packet has that count modulo PicMod.
Descriptors ==
  [payload : {"vp8", "none", "broken"}, start : BOOLEAN, partition : Nat, key : BOOLEAN,
   marker : BOOLEAN, pic : Nat]

\* Pictures are sent one after the other, each from the start of its first
\* partition, where a key frame shows (isVP8KeyFrameStart), to its marker.
IsFirst(d) == d.start /\ d.partition = 0
InSequence(s) ==
  LET vp8 == {i \in DOMAIN s : s[i].payload = "vp8"} IN
  /\ \A i \in vp8 : s[i].key => IsFirst(s[i])
  /\ \A i, j \in vp8 : i < j =>
       /\ s[i].pic <= s[j].pic
       /\ s[i].marker \/ IsFirst(s[j]) => s[i].pic < s[j].pic

ASSUME TrackAssumption ==
  /\ SeqMod \in Nat \ {0} /\ Bases \subseteq 0 .. SeqMod - 1
  /\ LogSize \in Nat \ {0} /\ LogSize < SeqMod \div 2 /\ SeqMod % LogSize = 0
  /\ Size \in Nat \ {0} /\ NoPacket \notin Nat
  /\ PicMod \in Nat \ {0} /\ PicLate \in Nat
  /\ NoInfo \notin [start : 0 .. SeqMod - 1, pic : 0 .. PicMod - 1]
  /\ \A s \in Streams : s \in Seq(Descriptors) /\ InSequence(s)
  /\ SkipLast \in Nat /\ SkipLast <= SeqMod \div 2
  /\ MaxNacks \in Nat /\ MaxFates \in Nat

JB == INSTANCE JitterBuffer
RL == INSTANCE ReceiveLog
Rec == INSTANCE WebmRecorder

VARIABLES
  stream, base,  \* what is sent, and the wire number of its first packet
  arrived,       \* packets that have arrived
  first,         \* history: the first of them, 0 before
  su, jb, rl,    \* the unwrapper, the jitter buffer, the receive log
  reader,        \* what the reader does, and with which packet
  batch,         \* packets out of the jitter buffer, not yet pushed
  nacker,        \* what the NACK goroutine does, and the numbers to give up on
  attempts,      \* nackedPackets: how often each wire number was asked for
  ignored,       \* history: packets the receive log was told to ignore
  stale,         \* history: it was told of a number it no longer covers
  rewound,       \* history: the NACK goroutine set the buffer's start back
  pli, flow,     \* the other goroutines: "running", "closing" or "gone"
  rec,           \* the recorder
  fates,         \* bound: frames that met a bad fate
  pushed         \* history: packets pushed into the recorder, in order

readVars == <<su, jb, rl, batch, arrived, first>>
recVars == <<rec, fates, pushed>>
nackVars == <<nacker, attempts, ignored, stale, rewound>>
vars == <<stream, base, readVars, reader, recVars, nackVars, pli, flow>>

Wires == 0 .. SeqMod - 1
Ids == 1 .. Len(stream)
Wire(i) == (base + i - 1) % SeqMod

\* A packet as the recorder sees it.
Packet(i) ==
  LET s == stream[i] IN
  [id |-> i, seq |-> Wire(i), payload |-> s.payload, start |-> s.start,
   partition |-> s.partition, key |-> s.key, marker |-> s.marker, pic |-> s.pic % PicMod]

At(step) == reader.at = step
Goes(step) == reader' = [reader EXCEPT !.at = step]

Init ==
  /\ stream \in Streams /\ base \in Bases
  /\ arrived = {} /\ first = 0
  /\ su = RL!NewUnwrapper /\ jb = JB!NewBuffer /\ rl = RL!NewLog
  /\ reader = [at |-> "reading", id |-> 0]
  /\ batch = <<>>
  /\ nacker = [at |-> "select", due |-> {}, seq |-> 0]
  /\ attempts = [s \in Wires |-> 0]
  /\ ignored = {} /\ stale = FALSE /\ rewound = FALSE
  /\ pli = "running" /\ flow = "running"
  /\ rec = Rec!NewRecorder
  /\ fates = 0
  /\ pushed = <<>>

-----------------------------------------------------------------------------
(* The reader *)

\* A packet arrives, in any order and at most once: the SRTP session drops
\* replays, and what is LogSize or more behind the newest. Fewer than half of
\* the wire numbers, 32768 in the code, are lost in a row: the unwrapper cannot
\* tell more of them from a packet that is late.
Receive(i) ==
  /\ At("reading") /\ i \notin arrived
  /\ \A j \in arrived : j - i < LogSize
  /\ arrived # {} => \E j \in arrived : i - j < RL!Half
  /\ arrived' = arrived \cup {i}
  /\ first' = IF first = 0 THEN i ELSE first
  /\ LET unwrapped == RL!Unwrap(su, Wire(i)) IN
       /\ su' = unwrapped.unwrapper
       /\ jb' = JB!Add(jb, unwrapped.number, i)
  /\ reader' = [at |-> "log", id |-> i]
  /\ UNCHANGED <<rl, batch, stream, base, recVars, nackVars, pli, flow>>

LogPacket ==
  /\ At("log")
  /\ rl' = RL!Add(rl, Wire(reader.id))
  /\ Goes("next")
  /\ UNCHANGED <<su, jb, batch, arrived, first, stream, base, recVars, nackVars, pli, flow>>

\* NextPackets. With packets, and only then, the recorder is told of a skip.
TakePackets ==
  LET next == JB!NextPackets(jb) IN
  /\ At("next")
  /\ batch' = next.packets
  /\ jb' = next.buffer
  /\ Goes(IF next.packets = <<>> THEN "reading" ELSE IF next.skipped THEN "notify" ELSE "push")
  /\ UNCHANGED <<su, rl, arrived, first, stream, base, recVars, nackVars, pli, flow>>

\* The NACK goroutine empties a slot as NextPackets reads it: the packet it
\* returns is nil, and the reader panics.
TakeNothing ==
  LET next == JB!NextPackets(jb) IN
  /\ At("next") /\ nacker.at = "set"
  /\ next.packets # <<>> /\ jb.nextStart = nacker.seq
  /\ Goes("ending")
  /\ UNCHANGED <<readVars, stream, base, recVars, nackVars, pli, flow>>

\* GetAndClearLastSkipped and NotifySkippedPacket; 0 stands for no skip.
Notify ==
  /\ At("notify")
  /\ rec' = IF jb.lastSkipped = 0 THEN rec
            ELSE Rec!NotifySkippedPacket(rec, jb.lastSkipped % SeqMod)
  /\ jb' = [jb EXCEPT !.lastSkipped = 0]
  /\ Goes("push")
  /\ UNCHANGED <<su, rl, batch, arrived, first, stream, base, fates, pushed, nackVars, pli, flow>>

Push ==
  /\ At("push")
  /\ \E fate \in IF fates < MaxFates THEN Rec!Fates ELSE {"fine"} :
       /\ rec' = Rec!PushVideo(rec, Packet(Head(batch)), fate)
       /\ fates' = IF fate = "fine" THEN fates ELSE fates + 1
  /\ pushed' = Append(pushed, Head(batch))
  /\ batch' = Tail(batch)
  /\ Goes(IF Tail(batch) = <<>> THEN "reading" ELSE "push")
  /\ UNCHANGED <<su, jb, rl, arrived, first, stream, base, nackVars, pli, flow>>

\* The track ends, or a push panics because the file cannot be opened.
EndTrack ==
  /\ \/ At("reading")
     \/ At("push") /\ Rec!NeedsWriters(rec) /\ ~rec.closed
  /\ Goes("ending")
  /\ UNCHANGED <<readVars, stream, base, recVars, nackVars, pli, flow>>

\* The deferred sends of done, each taken by a goroutine at its select.
EndFlow ==
  /\ At("ending") /\ flow = "running"
  /\ flow' = "closing"
  /\ Goes("flow ended")
  /\ UNCHANGED <<readVars, stream, base, recVars, nackVars, pli>>

EndNacker ==
  /\ At("flow ended") /\ nacker.at = "select"
  /\ nacker' = [nacker EXCEPT !.at = "gone"]
  /\ Goes("nacker ended")
  /\ UNCHANGED <<readVars, stream, base, recVars, attempts, ignored, stale, rewound, pli, flow>>

EndPli ==
  /\ At("nacker ended") /\ pli = "running"
  /\ pli' = "gone"
  /\ Goes("gone")
  /\ UNCHANGED <<readVars, stream, base, recVars, nackVars, flow>>

-----------------------------------------------------------------------------
(* The other goroutines *)

\* Mutation: the goroutine returns when nothing is missing.
NackTickOnce ==
  /\ nacker.at = "select" /\ rl.started
  /\ nacker' = [nacker EXCEPT !.at = "gone"]
  /\ UNCHANGED <<readVars, reader, stream, base, recVars, attempts, ignored, stale, rewound, pli, flow>>

\* A tick of the NACK goroutine: numbers still missing are asked for once
\* more, those asked for MaxNacks times are due to be given up on. The others
\* are forgotten; the code keeps them for five seconds, far less than it takes
\* for their numbers to come again.
NackTick ==
  LET missing == RL!Missing(rl, SkipLast) IN
  /\ nacker.at = "select" /\ missing # {}
  /\ LET due == {s \in missing : attempts[s] = MaxNacks} IN
       nacker' = [nacker EXCEPT !.at = IF due = {} THEN "select" ELSE "giving up", !.due = due]
  /\ attempts' = [s \in Wires |->
       IF s \notin missing THEN 0 ELSE IF attempts[s] <= MaxNacks THEN attempts[s] + 1
       ELSE attempts[s]]
  /\ UNCHANGED <<readVars, reader, stream, base, recVars, ignored, stale, rewound, pli, flow>>

\* What the receive log has, and the packets it goes back to, LogSize from the
\* newest.
Logged == IF At("log") THEN arrived \ {reader.id} ELSE arrived
Newest == CHOOSE i \in Logged : \A j \in Logged : j <= i
Covered == {i \in Ids : Newest - LogSize < i /\ i <= Newest}

\* The oldest of the numbers due.
Oldest(due) == CHOOSE s \in due : \A t \in due : RL!Minus(s, rl.end) <= RL!Minus(t, rl.end)

\* IgnoreSeqNum, and SkipPacket up to its check of the buffer's start. The
\* number is the one on the wire; the buffer counts past the wrap.
GiveUp ==
  /\ nacker.at = "giving up"
  /\ LET s == Oldest(nacker.due)
         rest == nacker.due \ {s}
         back == IF rest = {} THEN "select" ELSE "giving up"
     IN  /\ rl' = RL!Ignore(rl, s)
         /\ ignored' = ignored \cup {i \in Covered : Wire(i) = s}
         /\ stale' = (stale \/ RL!Minus(rl.end, s) >= LogSize)
         /\ jb' = JB!SkipPacket(jb, s)
         /\ IF s = jb.nextStart
              THEN nacker' = [at |-> "set", due |-> rest, seq |-> s]
              ELSE nacker' = [nacker EXCEPT !.at = back, !.due = rest]
  /\ UNCHANGED <<su, batch, arrived, first, reader, stream, base, recVars, attempts, rewound, pli, flow>>

\* SetNextPacketsStart assigns, whatever the reader did since the check.
SetStart ==
  /\ nacker.at = "set"
  /\ jb' = JB!SetNextPacketsStart(jb, nacker.seq)
  /\ rewound' = (rewound \/ jb.nextStart > nacker.seq + 1)
  /\ nacker' = [nacker EXCEPT !.at = IF nacker.due = {} THEN "select" ELSE "giving up"]
  /\ UNCHANGED <<su, rl, batch, arrived, first, reader, stream, base, recVars, attempts, ignored, stale, pli, flow>>

\* The last call of the flow goroutine tells the session that the flow is
\* closed. The ticks of the PLI and flow goroutines change nothing here.
CloseFlow ==
  /\ flow = "closing"
  /\ flow' = "gone"
  /\ UNCHANGED <<readVars, reader, stream, base, recVars, nackVars, pli>>

\* Time passes: every number waited for has been for packetTimeout.
Timeout ==
  /\ jb.waiting # jb.overdue
  /\ jb' = [jb EXCEPT !.overdue = jb.waiting]
  /\ UNCHANGED <<su, rl, batch, arrived, first, reader, stream, base, recVars, nackVars, pli, flow>>

\* The session's audio track starts, and its frames reach the recorder.
StartAudio ==
  /\ AudioTrack /\ ~rec.hasAudio
  /\ rec' = [rec EXCEPT !.hasAudio = TRUE]
  /\ UNCHANGED <<readVars, reader, stream, base, fates, pushed, nackVars, pli, flow>>

PushAudio ==
  /\ AudioTrack
  /\ \E written \in BOOLEAN : rec' = Rec!WriteAudio(rec, written)
  /\ rec' # rec
  /\ UNCHANGED <<readVars, reader, stream, base, fates, pushed, nackVars, pli, flow>>

\* The session closes the recorder, whatever the track does.
CloseRecorder ==
  /\ ~rec.closed
  /\ rec' = Rec!Close(rec)
  /\ UNCHANGED <<readVars, reader, stream, base, fates, pushed, nackVars, pli, flow>>

Read == LogPacket \/ TakePackets \/ TakeNothing \/ Notify \/ Push
Ending == EndFlow \/ EndNacker \/ EndPli
Nack == NackTick \/ GiveUp \/ SetStart

Next ==
  \/ \E i \in Ids : Receive(i)
  \/ Read
  \/ EndTrack
  \/ Ending
  \/ Nack
  \/ CloseFlow
  \/ Timeout
  \/ StartAudio \/ PushAudio \/ CloseRecorder

\* Goroutines go on; a select with a tick and a done both ready takes either
\* one again and again, so a done that stays ready is taken in the end.
Fairness ==
  /\ WF_vars(Read)
  /\ WF_vars(GiveUp \/ SetStart)
  /\ WF_vars(CloseFlow)
  /\ WF_vars(EndFlow) /\ SF_vars(EndNacker) /\ WF_vars(EndPli)

Spec == Init /\ [][Next]_vars
FairSpec == Spec /\ Fairness

-----------------------------------------------------------------------------
(* Types *)

TypeOK ==
  /\ stream \in Streams /\ base \in Bases
  /\ arrived \in SUBSET Ids /\ first \in {0} \cup arrived
  /\ su \in RL!Unwrappers /\ jb \in JB!Buffers(Ids) /\ rl \in RL!Logs
  /\ reader \in [at : {"reading", "log", "next", "notify", "push", "ending", "flow ended",
                       "nacker ended", "gone"},
                 id : {0} \cup Ids]
  /\ batch \in Seq(Ids) /\ pushed \in Seq(Ids)
  /\ nacker \in [at : {"select", "giving up", "set", "gone"}, due : SUBSET Wires, seq : Wires]
  /\ attempts \in [Wires -> 0 .. MaxNacks + 1]
  /\ ignored \in SUBSET Ids /\ stale \in BOOLEAN /\ rewound \in BOOLEAN
  /\ pli \in {"running", "gone"} /\ flow \in {"running", "closing", "gone"}
  /\ rec \in Rec!Recorders(Ids)
  /\ fates \in 0 .. MaxFates

-----------------------------------------------------------------------------
(* Properties *)

\* No packet is from a round of wire numbers before the first one's. One that
\* is gets unwrapped to a number ahead of all: the unwrapper never goes below 0.
Round(i) == (base + i - 1) \div SeqMod
Anchored == \A i \in arrived : Round(i) >= Round(first)

\* The recorder gets the packets in the order they were sent, each once, with
\* losses, reordering, timeouts, skips by two goroutines, and the wrap of the
\* wire numbers between the unwrapper, the buffer and the NACK goroutine.
InOrder == Anchored /\ ~rewound => \A k \in 1 .. Len(pushed) - 1 : pushed[k] < pushed[k + 1]

\* The receive log asks for what has not come since the first packet and was
\* not given up on, and for nothing else, across wraps, as far as it goes back.
\* Not so once the NACK goroutine gave up on a number that LogSize packets or
\* more have come after since its tick: that marks another one as received.
MissingIsMissing ==
  ~stale /\ Logged # {} =>
    RL!Missing(rl, 0) = {Wire(i) : i \in {n \in Covered : first < n} \ (Logged \cup ignored)}

\* A delta frame in the file follows the frame it was coded against: after a
\* lost, dropped or unwritten picture the file goes on with a key frame. Not so
\* after one of picture id 0, which the sampler takes for none at all, after
\* so many that the next one seems late, nor for a frame without its first
\* partition, as the key frame before it may have been dropped.
Picture(k) == stream[Head(rec.file[k])]
Follows(d, before) ==
  \/ d.key \/ d.pic = before.pic + 1
  \/ \E n \in before.pic .. d.pic - 1 : n % PicMod = 0
  \/ d.pic - before.pic >= PicLate
  \/ ~IsFirst(d)
DeltaFollowsItsReference ==
  Anchored /\ ~rewound => \A k \in 2 .. Len(rec.file) : Follows(Picture(k), Picture(k - 1))

\* Once a track ends, its goroutines take their dones one after the other and
\* the reader gets to its end: no one is left waiting for another.
TrackEnds == At("ending") ~> At("gone") /\ nacker.at = "gone" /\ pli = "gone" /\ flow = "gone"

\* A frame in the file has all its packets, without a hole.
NoHoleWritten ==
  \A k \in 1 .. Len(rec.file) : LET f == rec.file[k] IN
    \A n \in 1 .. Len(f) - 1 : f[n + 1] = f[n] + 1
=============================================================================
