SPECIFICATION Spec
CONSTANTS
  Clients <- MCClients
  Assignments <- MCAssignments
  Environments <- MCEnvironments
  Threads = 2
  MaxRetries = 1 MaxIters = 2 MaxPieces = 2 MaxCalls = 2
CHECK_DEADLOCK FALSE
INVARIANTS TypeOK Accounted EveryCallAnswered WritesInOrder
PROPERTIES EveryRequestEnds
