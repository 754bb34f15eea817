\* Many configured levels. The monitor stops when it is told to.
CONSTANTS
  None = None
  Running = Running
  Failed = Failed
  Total = 3
  MaxMiB = 4
  Configured <- AnyLevels
SPECIFICATION FairSpec
INVARIANTS
  GuardFollowsSamples
PROPERTIES
  SilentOnceStopped
  PressureIsNoticed
CHECK_DEADLOCK FALSE
