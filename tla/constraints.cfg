\* Three reasons over three tracks. The system stops when the capture has.
CONSTANTS
  cameras = cameras
  all = all
  idle = idle
  cam1 = cam1
  cam2 = cam2
  screen = screen
  None = None
  Reasons <- AllReasons
  Cap <- Caps
  Sources <- Listed
  Tracks <- AllTracks
  SourceOf <- Source
  Preferred = 2
  MaxRecords = 4
SPECIFICATION Spec
INVARIANTS
  SentIsEffective
  IntervalIffLowered
  GaugeCountsIntervals
CHECK_DEADLOCK FALSE
