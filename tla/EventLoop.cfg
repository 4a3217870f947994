SPECIFICATION Spec
CONSTANTS
  NumSockets = 3
  Conditions = {"readable", "writable"}
  NumTriggers = 3
  Scenarios = {"sockets", "triggers"}
INVARIANT TypeOK
PROPERTIES ReadyHandled EventsHandled
