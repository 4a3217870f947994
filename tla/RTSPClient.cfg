SPECIFICATION Spec
CONSTANTS
  MaxRequests = 3
  MaxResends = 1
  MaxOdd = 1
INVARIANTS TypeOK AnswersRight
PROPERTY EveryRequestTold
CHECK_DEADLOCK FALSE
