CONSTANTS
  TSMod = 32
  SeqMod = 16
  ArrivalWindow = 1
  Gap = 2
  Trigger = 1
  Frame = 1
  RateWindow = 20
  RateMinSpan = 2
  MaxRateOf = 4
  MaxReports = 3
  MaxJumps = 2
  SeedWindow = 4
  ReportGap = 3
  Realign = 2
  SameDeficit = 0
  NTPStep = 3
  Jump = 10
  MaxSteps = 4
  FirstTS = 28
  RealignFrom = 2
  MaxDelay = 1
  MaxSent = 3
  MaxNow = 7
SPECIFICATION Spec
INVARIANTS
  FramesApart
PROPERTIES
  GapsCoverLosses
  CaughtUp
CHECK_DEADLOCK FALSE
