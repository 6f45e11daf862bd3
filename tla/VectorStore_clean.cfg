SPECIFICATION Spec
CONSTANTS
  doc1 = doc1 doc2 = doc2 ten1 = ten1 ten2 = ten2 a = a b = b c = c
  AnyTenant = AnyTenant
  Docs <- MCDocs
  Tenants <- MCTenants
  Pieces <- MCPieces
  Batches <- MCBatches
  MaxVectors = 4
  Persists = FALSE
  CrashAt = {"idle", "clear", "insert", "reset", "renumber"}
  RaiseAt = {"encode"}
INVARIANTS TypeOK Aligned NoRowCollision LexicalMirror UniqueIds
PROPERTIES UpdateReplaces UpdateNeverMixes TombstonesBounded ImplementsChunkStore
