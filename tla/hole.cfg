\* The packets of one key frame, one of which can get lost.
CONSTANTS
  Streams <- OneKey
  Bases <- FirstBase
  SeqMod = 12
  LogSize = 3
  Size = 3
  NoPacket = NoPacket
  PicMod = 8
  PicLate = 7
  NoInfo = NoInfo
  SkipLast = 1
  MaxNacks = 1
  MaxFates = 0
  AudioTrack = FALSE
SPECIFICATION Spec
INVARIANT
  NoHoleWritten
CHECK_DEADLOCK FALSE
