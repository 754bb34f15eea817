\* Two sessions and two reasons. The system stops when it is closed.
CONSTANTS
  s1 = s1
  s2 = s2
  disk = disk
  other = other
  None = None
  Sessions <- TwoSessions
  Reasons <- TwoReasons
  MaxChanges = 3
SPECIFICATION FairSpec
INVARIANTS
  QuietMeansAgreed
PROPERTIES
  NoPassAfterClose
  CapturesSettle
CHECK_DEADLOCK FALSE
