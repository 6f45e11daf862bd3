SPECIFICATION Spec
CONSTANTS
  Texts <- MCTexts
  CountTokens <- MCCount
  Target = 4 Overlap = 2
  Items <- MCItems
  Queries <- MCQueries
  Pools <- MCPools
  Layouts <- MCLayouts
  RecallK = 2 OverFetch = 1 Widening = 2 RrfK = 1
  EphemeralK = 2 MinSimilarity = 0 Reach = 3
  NoFilter = "any" MaxWrites = 2
  Untrusted <- MCUntrusted
  CrossEncoder = TRUE
  RerankK = 3 AbstainBelow = 2 DupWidth = 1 NoFact = "none"
  MaxItemTok = 3 Halving = 3 Margin = 3 RedactPii = TRUE
  SystemTok = 1 UserTok = 1 InstructionTok = 1 BlockTok = 1 LabelTok = 0
CHECK_DEADLOCK FALSE
INVARIANTS TypeOK ChunkBound NothingLost TrailInScope FenceWhole
  FusedOnceAndFairly FilterJustified TrimmedForRoom HeadroomSuffices
PROPERTIES BestAuthorized
