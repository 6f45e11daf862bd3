SPECIFICATION Spec
CONSTANTS
  w1 = w1 w2 = w2 alice = alice bob = bob tool = tool v1 = v1 v2 = v2
  NoFact = NoFact Forever = Forever
  Workers <- MCWorkers
  Scopes <- MCScopes
  Facts <- MCFacts
  Values <- MCValues
  Turns <- MCTurns
  MaxRecords = 1
  ReadK = 1
  MaxId = 3
  MaxTime = 1
SYMMETRY Symmetry
CHECK_DEADLOCK FALSE
INVARIANTS TypeOK OneRowPerFact FactIsLatest ReadsAlive BoundKept
PROPERTIES PinnedSurvives
