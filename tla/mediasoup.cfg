\* A video track whose wire numbers wrap, with lost and late packets, NACKs and
\* timeouts, bad frames, an audio track and a close at any time. The system
\* stops when the track has ended.
CONSTANTS
  Streams <- ManyStreams
  Bases <- WrapBase
  SeqMod = 12
  LogSize = 3
  Size = 3
  NoPacket = NoPacket
  PicMod = 8
  PicLate = 7
  NoInfo = NoInfo
  SkipLast = 1
  MaxNacks = 1
  MaxFates = 1
  AudioTrack = TRUE
SPECIFICATION FairSpec
INVARIANTS
  InOrder
  
  DeltaFollowsItsReference
PROPERTIES
  TrackEnds
CHECK_DEADLOCK FALSE
