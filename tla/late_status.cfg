\* A mediasoup session whose flow goroutine publishes after recordingStopped.
CONSTANTS
  first = first
  again = again
  other = other
  a = a
  b = b
  t1 = t1
  t2 = t2
  None = None
  Requests <- OneRequest
  Ids <- SameId
  IdOf <- OneIdOf
  LiveKit = {}
  Threads <- OneThread
  Dispatcher = t1
  QueueCap = 3
  MaxStatus = 1
  LateIntake = FALSE
SPECIFICATION Spec
INVARIANT
  SilentAfterStopped
