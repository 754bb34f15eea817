\* Two sessions that share an id, one per adapter, with lost connections, failed
\* starts and an exit signal at any time.
CONSTANTS
  first = first
  again = again
  other = other
  a = a
  b = b
  t1 = t1
  t2 = t2
  None = None
  Requests <- SameIdRequests
  Ids <- SameId
  IdOf <- SameIdOf
  LiveKit <- FirstOnLiveKit
  Threads <- TwoThreads
  Dispatcher = t1
  QueueCap = 2
  MaxStatus = 1
  LateIntake = FALSE
SPECIFICATION FairSpec
INVARIANTS
  FullQueueHoldsStop
  RunningIsRegistered
  OneOpenRecordingPerId
  LiveIsListed
PROPERTIES
  StopEndsSession
  StartIsAnswered
  ShutdownExits
  ImplementsProtocol
