CONSTANTS
  first = first
  again = again
  Subs <- Twice
  None = None
  QueueLen = 1
  MaxReads = 1
  MaxReports = 1
  MaxNow = 1
SPECIFICATION FairSpec
INVARIANTS
  EndIsHonest
  
  TailIsRecorded
  NothingLeftOpen
PROPERTIES
  StopsFirst
  
CHECK_DEADLOCK FALSE
