SPECIFICATION Spec
CONSTANTS
  f1 = f1 f2 = f2 ten = ten a = a b = b c = c
  AnyTenant = AnyTenant Tenant = ten NoFile = NoFile
  Docs <- MCDocs
  Tenants <- MCTenants
  Pieces <- MCPieces
  Batches = {}
  Files <- MCFiles
  Directories <- AnyDirectory
  Texts <- MCTexts
  MaxEdits = 5
  MaxFaults = 1
CHECK_DEADLOCK FALSE
INVARIANTS TypeOK
PROPERTIES InStep SettledStays
