SPECIFICATION FairSpec
CONSTANTS
  Replicas = {a, b, c}
  None = None
  StopsInside = FALSE
INVARIANTS TypeOK ServedOnce MasterHasReceived
PROPERTIES FramesInOrder EveryRequestAnswered
CHECK_DEADLOCK FALSE
