CONSTANTS
  Stream <- Wrapping
  SeqMod = 15
  ResetDistance = 3
  Latency = 3
  WindowSize = 3
  MaxOpenGaps = 1
  GapDelay = 1
  FirstNACK = 0
  RepairWindow = 1
  LossInterval = 1
  Slack = 1
  MaxRepeats = 1
  MaxNow = 5
SPECIFICATION Spec
INVARIANTS
  GaveUpIsRequested
  GapsAreExact
PROPERTIES
  DeliversFrames
  ForgottenIsCovered
CHECK_DEADLOCK FALSE
