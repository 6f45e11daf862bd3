SPECIFICATION Spec
CONSTANTS
  w1 = w1 w2 = w2 ask = ask again = again other = other opening = opening
  Workers <- MCWorkers
  Questions <- MCQuestions
  Alike <- MCAlike
  Prefixes <- MCPrefixes
  Prefix <- SharedPrefix
  MaxEntries = 2
  TTL = 1
  MaxVersion = 0
  MaxTime = 0
SYMMETRY Symmetry
CHECK_DEADLOCK FALSE
INVARIANTS AnswersTheQuestion
