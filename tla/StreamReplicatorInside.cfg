SPECIFICATION Spec
CONSTANTS
  Replicas = {a, b, c}
  None = None
  StopsInside = TRUE
INVARIANTS MasterHasReceived
CHECK_DEADLOCK FALSE
