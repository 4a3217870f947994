SPECIFICATION FairSpec
CONSTANTS
  Delays = {0, 1, 3}
  MaxTokens = 3
  MaxLag = 3
  MaxBack = 2
INVARIANTS TypeOK Linked NeverEarly NotLate
PROPERTIES FiresInOrder ImplementsAlarmClock EveryAlarmEnds
