SPECIFICATION FairSpec
CONSTANTS
  N = 3
  MaxConns = 5
  MaxCrashes = 1
INVARIANTS
  PoolsArePublished
PROPERTIES
  NoStartOnGoneQueue
  ServerComesUp
  AcceptedIsStarted
  SignalStops
CHECK_DEADLOCK FALSE
