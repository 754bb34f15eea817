\* The flow events of a track, stale reports included, and the close.
\* The system stops when its track and its session have ended.
CONSTANTS
  video = video
  d1 = d1
  d2 = d2
  None = None
  Tracks <- OneTrack
  Dispatchers <- TwoDispatchers
  MaxPackets = 2
  MaxTimeouts = 1
SPECIFICATION FairSpec
INVARIANTS
  InOrder
  ChangesBalance
PROPERTIES
  SilentOnceStopped
  ChangesArrive
  SilenceIsNoticed
  CloseReturns
CHECK_DEADLOCK FALSE
