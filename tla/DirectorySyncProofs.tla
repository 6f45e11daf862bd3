------------------------ MODULE DirectorySyncProofs -------------------------
(***************************************************************************)
(* Theorems about DirectorySync, for any files, directories and texts and  *)
(* any number of edits, crashes and exceptions.                            *)
(***************************************************************************)
EXTENDS DirectorySync, TLAPS, SequenceTheorems

Syncing == {"hash", "load", "update", "ingest"}

\* The chunks of a path, when its text is s.
ChunksFor(f, s) == {ChunkOf([doc |-> f, text |-> s, tenant |-> Tenant], i) : i \in DOMAIN s}
Listed(m, f) == IF f \in DOMAIN m THEN ChunksFor(f, m[f]) ELSE {}

-----------------------------------------------------------------------------
(* The inductive invariant. *)

\* The file holds the manifest, unless it is being written.
RecordInv ==
  /\ torn => pc \in {"write", "down"}
  /\ pc = "write" => torn
  /\ torn \/ stored = manifest

\* Where the loop is: what was hashed and not yet dealt with is the path at its head.
LoopInv ==
  /\ pc = "hash" => files \cap DOMAIN current = {}
  /\ pc \in {"load", "update", "ingest"} => \A f \in files : f \in DOMAIN current <=> At(f)
  /\ pc \in {"update", "ingest"} =>
       doc.doc \in files /\ doc.doc \in DOMAIN current /\ doc.tenant = Tenant
  /\ pc = "update" => doc.doc \in DOMAIN manifest
  /\ pc = "write" => files = {} /\ manifest = current

\* What the index holds of a path: what the manifest says, then what the loop put there.
IndexOK(f) ==
  IF pc \notin Syncing THEN ChunksOf(f) = Listed(manifest, f)
  ELSE IF f \in DOMAIN current \ files THEN ChunksOf(f) = ChunksFor(f, current[f])
  ELSE IF pc = "ingest" /\ f = doc.doc THEN ChunksOf(f) = {}
  ELSE \/ ChunksOf(f) = Listed(manifest, f)
       \/ pc = "hash" /\ files = {} /\ f \in Unseen /\ ChunksOf(f) = {}

IndexInv ==
  /\ \A f \in Paths \ suspect : IndexOK(f)
  /\ pc = "ingest" /\ doc.doc \in DOMAIN manifest => ChunksOf(doc.doc) = {}

\* What sync() has seen of a directory that nobody edits.
Present(D) == {f \in D : Exists(f)}

QuietInv ==
  quiet /\ pc \in Syncing \cup {"write"} =>
    /\ DOMAIN current \cup files = Present(directory)
    /\ \A f \in DOMAIN current : current[f] = disk[f]

\* A directory that was synced and not edited since is what the manifest says.
SettledInv ==
  settled # {} =>
    /\ DOMAIN manifest = Present(settled)
    /\ \A f \in DOMAIN manifest : manifest[f] = disk[f]
    /\ pc \in Syncing \cup {"write"} => directory = settled /\ quiet /\ pc \in {"hash", "write"}
-----------------------------------------------------------------------------
(* Paths, chunks, and what the calls of the engine do to the chunks of a path. *)

LEMMA PathFacts ==
  /\ Paths \subseteq Docs /\ Files[1] \in Paths /\ NoDocument \in Document
  /\ \A f \in Paths : Position(f) \in Nat /\ Files[Position(f)] = f
<1>1. Files \in Seq(Docs) /\ DOMAIN Files = 1..Len(Files) /\ Len(Files) \in Nat \ {0}
  BY SyncAssumption, LenProperties, EmptySeq
<1>2. \A n \in DOMAIN Files : Files[n] \in Docs
  BY <1>1, ElementOfSeq
<1>3. Paths \subseteq Docs /\ Files[1] \in Paths
  BY <1>1, <1>2 DEF Paths
<1>4. NoDocument \in Document
  <2>1. <<>> \in Seq(Pieces)
    BY EmptySeq
  <2> QED BY <1>3, <2>1, SyncAssumption DEF NoDocument, Document
<1>5. ASSUME NEW f \in Paths PROVE Position(f) \in DOMAIN Files /\ Files[Position(f)] = f
  BY DEF Position, Paths
<1> QED BY <1>1, <1>3, <1>4, <1>5

\* The loop is at one path.
LEMMA OnePath ==
  ASSUME files \subseteq Paths, NEW f, NEW g, At(f), At(g)
  PROVE  f = g
<1>1. f \in Paths /\ g \in Paths /\ Position(f) <= Position(g) /\ Position(g) <= Position(f)
  BY DEF At
<1>2. Position(f) = Position(g)
  BY <1>1, PathFacts
<1> QED BY <1>1, <1>2, PathFacts

LEMMA SameOperators ==
  /\ \A path, scope, c : Store!Covers(path, scope, c) <=> Covers(path, scope, c)
  /\ \A b, s : Store!Contribution(b, s) = Contribution(b, s)
BY DEF Covers, Store!Covers, Contribution, Store!Contribution, ChunkOf, Store!ChunkOf,
       Id, Store!Id, Ids, Store!Ids

LEMMA RemovesChunks ==
  ASSUME NEW f, Store!Remove(f, AnyTenant)
  PROVE  /\ live' \subseteq live
         /\ ChunksOf(f)' = {}
         /\ \A g : g # f => ChunksOf(g)' = ChunksOf(g)
<1>1. live' = {c \in live : ~Store!Covers(f, AnyTenant, c)}
  BY DEF Store!Remove
<1>2. live' = {c \in live : c.doc # f}
  BY <1>1, SameOperators DEF Covers
<1> QED BY <1>2 DEF ChunksOf

LEMMA IngestsChunks ==
  ASSUME Store!Ingest(<<doc>>), NEW f, f = doc.doc, doc.tenant = Tenant
  PROVE  /\ ChunksOf(f) = {} => ChunksOf(f)' = ChunksFor(f, doc.text)
         /\ \A g : g # f => ChunksOf(g)' = ChunksOf(g)
<1> DEFINE own == ChunksFor(f, doc.text)
           b == <<doc>>
<1>1. live' = live \cup Contribution(b, live)
  BY SameOperators DEF Store!Ingest
<1>2. DOMAIN b = {1} /\ b[1] = doc
  OBVIOUS
<1>3. \A i \in DOMAIN doc.text :
        ChunkOf(doc, i) = ChunkOf([doc |-> f, text |-> doc.text, tenant |-> Tenant], i)
  BY DEF ChunkOf
<1>4. own = {ChunkOf(doc, i) : i \in DOMAIN doc.text}
  BY <1>3 DEF ChunksFor
<1>5. \A c \in own : c.doc = f
  BY DEF ChunksFor, ChunkOf
<1> HIDE DEF b, own
<1>6. \A m : m \notin 1..(1 - 1)
  OBVIOUS
<1>7. \A c : c \in Contribution(b, live) <=> c \in own /\ Id(c) \notin Ids(live)
  BY <1>2, <1>4, <1>6 DEF Contribution
<1>8. ASSUME ChunksOf(f) = {} PROVE ChunksOf(f)' = own
  <2>1. \A c \in own : Id(c) \notin Ids(live)
    BY <1>5, <1>8 DEF ChunksOf, Id, Ids
  <2>2. \A c : c \in live' <=> c \in live \/ c \in own
    BY <1>1, <1>7, <2>1
  <2> QED BY <1>5, <1>8, <2>2 DEF ChunksOf
<1>9. \A g : g # f => ChunksOf(g)' = ChunksOf(g)
  BY <1>1, <1>5, <1>7 DEF ChunksOf
<1> QED BY <1>8, <1>9 DEF own

-----------------------------------------------------------------------------
(* Type correctness. *)

LEMMA LeaveType == Leave => /\ IsManifest(current') /\ directory' \subseteq Paths
                           /\ files' \subseteq Paths /\ doc' \in Document /\ pc' = "idle"
BY PathFacts DEF Leave, Nothing, IsManifest

LEMMA RaiseType == TypeOK /\ Raise /\ faults' \in Nat => TypeOK'
BY LeaveType DEF Raise, TypeOK, record, IsManifest

LEMMA HashType ==
  ASSUME TypeOK, HashFile
  PROVE  TypeOK'
<1> PICK f \in files :
      /\ Exists(f)
      /\ current' = [g \in DOMAIN current \cup {f} |-> IF g = f THEN disk[f] ELSE current[g]]
  BY DEF HashFile
<1>1. f \in Paths /\ disk[f] \in Texts
  BY DEF TypeOK, Exists
<1>2. IsManifest(current')
  BY <1>1 DEF TypeOK, IsManifest
<1>3. files' \subseteq files /\ pc' \in {"hash", "load"}
  BY DEF HashFile
<1> QED
  BY <1>2, <1>3 DEF HashFile, TypeOK, world, record, IsManifest

LEMMA LoadType ==
  ASSUME TypeOK, LoadFile
  PROVE  TypeOK'
<1> PICK f \in files : Exists(f) /\ doc' = [doc |-> f, text |-> disk[f], tenant |-> Tenant]
  BY DEF LoadFile
<1>1. f \in Docs /\ disk[f] \in Seq(Pieces)
  BY PathFacts, SyncAssumption DEF TypeOK, Exists
<1>2. doc' \in Document
  BY <1>1, SyncAssumption DEF Document
<1> QED
  BY <1>2 DEF LoadFile, TypeOK, world, record, IsManifest

\* Whatever its arguments, a call of the engine puts chunks into the index.
LEMMA IngestType ==
  ASSUME TypeOK, Ingest
  PROVE  live' \subseteq Chunk
<1> DEFINE b == <<doc>>
<1>1. live' = live \cup Contribution(b, live)
  BY SameOperators DEF Ingest, Store!Ingest
<1>2. DOMAIN b = {1} /\ b[1] = doc
  OBVIOUS
<1> HIDE DEF b
<1>3. doc.doc \in Docs /\ doc.text \in Seq(Pieces) /\ doc.tenant \in Tenants
  BY DEF TypeOK, Document
<1>4. \A i \in DOMAIN doc.text : i \in Nat /\ doc.text[i] \in Pieces
  BY <1>3, LenProperties, ElementOfSeq
<1>5. \A i \in DOMAIN doc.text : ChunkOf(doc, i) \in Chunk
  BY <1>3, <1>4 DEF ChunkOf, Chunk
<1>6. Contribution(b, live) \subseteq Chunk
  BY <1>2, <1>5 DEF Contribution
<1> QED BY <1>1, <1>6 DEF TypeOK

LEMMA NextTypeOK ==
  ASSUME TypeOK, LoopInv, [Next]_vars
  PROVE  TypeOK'
<1> USE DEF world, record, syncing
<1>1. ASSUME NEW D \in Directories, Sync(D) PROVE TypeOK'
  <2>1. D \subseteq Paths
    BY SyncAssumption
  <2> QED BY <1>1, <2>1 DEF Sync, TypeOK, IsManifest, Nothing, Unsettled
<1>2. CASE HashFile \/ LoadFile
  BY <1>2, HashType, LoadType
<1>3. CASE FileVanished
  BY <1>3, RaiseType DEF FileVanished, TypeOK
<1>4. CASE UpdateClears
  <2>1. live' \subseteq live
    BY <1>4, RemovesChunks DEF UpdateClears, Clear
  <2> QED BY <1>4, <2>1 DEF UpdateClears, TypeOK, IsManifest
<1>5. CASE Ingest
  <2>1. suspect' \subseteq Paths
    BY <1>5 DEF Ingest, LoopInv, TypeOK
  <2> QED BY <1>5, <2>1, IngestType, PathFacts DEF Ingest, TypeOK, IsManifest
<1>6. ASSUME NEW f \in Paths, DeleteUnseen(f) PROVE TypeOK'
  <2>1. live' \subseteq live
    BY <1>6, RemovesChunks DEF DeleteUnseen
  <2> QED BY <1>6, <2>1 DEF DeleteUnseen, TypeOK, IsManifest
<1>7. CASE TruncateManifest
  BY <1>7 DEF TruncateManifest, NewManifest, TypeOK, IsManifest
<1>8. CASE WriteManifest
  BY <1>8, LeaveType DEF WriteManifest, Written, TypeOK, IsManifest, Unsettled
<1>9. CASE EngineRaises
  BY <1>9, RaiseType DEF EngineRaises, TypeOK
<1>10. CASE Crash
  BY <1>10, PathFacts DEF Crash, TypeOK, IsManifest, Nothing
<1>11. CASE Restart
  BY <1>11 DEF Restart, TypeOK, IsManifest
<1>12. ASSUME NEW f \in Paths, NEW s \in Texts \cup {NoFile}, Edit(f, s) PROVE TypeOK'
  <2>1. disk' \in [Paths -> Texts \cup {NoFile}]
    BY <1>12 DEF Edit, TypeOK
  <2>2. edits' \in Nat
    BY <1>12 DEF Edit, TypeOK
  <2> QED BY <1>12, <2>1, <2>2 DEF Edit, TypeOK, IsManifest, Unsettled
<1>13. CASE UNCHANGED vars
  BY <1>13 DEF vars, TypeOK, IsManifest
<1> QED
  BY <1>1, <1>2, <1>3, <1>4, <1>5, <1>6, <1>7, <1>8, <1>9, <1>10, <1>11, <1>12, <1>13 DEF Next

-----------------------------------------------------------------------------
(* The invariants, step by step. *)

LEMMA RecordStep ==
  ASSUME RecordInv, [Next]_vars
  PROVE  RecordInv'
<1> USE DEF world, record, syncing
<1>1. ASSUME NEW D, Sync(D) PROVE RecordInv'
  BY <1>1 DEF Sync, RecordInv
<1>2. CASE HashFile \/ LoadFile \/ UpdateClears \/ Ingest
  <2>1. pc' \in Syncing /\ pc \in Syncing /\ UNCHANGED record
    BY <1>2 DEF HashFile, LoadFile, UpdateClears, Ingest, Syncing
  <2> QED BY <2>1 DEF RecordInv, Syncing
<1>3. CASE FileVanished
  BY <1>3 DEF FileVanished, Raise, Leave, RecordInv
<1>4. ASSUME NEW f, DeleteUnseen(f) PROVE RecordInv'
  BY <1>4 DEF DeleteUnseen, RecordInv
<1>5. CASE TruncateManifest \/ WriteManifest
  BY <1>5 DEF TruncateManifest, WriteManifest, Written, Leave, RecordInv
<1>6. CASE EngineRaises
  BY <1>6 DEF EngineRaises, Raise, Leave, RecordInv
<1>7. CASE Crash \/ Restart
  BY <1>7 DEF Crash, Restart, RecordInv
<1>8. ASSUME NEW f, NEW s, Edit(f, s) PROVE RecordInv'
  BY <1>8 DEF Edit, RecordInv
<1>9. CASE UNCHANGED vars
  BY <1>9 DEF vars, RecordInv
<1> QED BY <1>1, <1>2, <1>3, <1>4, <1>5, <1>6, <1>7, <1>8, <1>9 DEF Next

\* What HashFile does to the path f the loop is at.
Hashing(f) ==
  /\ f \in files /\ At(f) /\ f \in Paths
  /\ current' = [g \in DOMAIN current \cup {f} |-> IF g = f THEN disk[f] ELSE current[g]]
  /\ DOMAIN current' = DOMAIN current \cup {f}
  /\ current'[f] = disk[f] /\ \A g \in DOMAIN current : g # f => current'[g] = current[g]
  /\ IF Unchanged(f) THEN files' = files \ {f} /\ pc' = "hash"
                     ELSE files' = files /\ pc' = "load"

LEMMA HashOne == TypeOK /\ HashFile => \E f : Hashing(f)
<1> SUFFICES ASSUME TypeOK, HashFile PROVE \E f : Hashing(f)
  OBVIOUS
<1> PICK f \in files :
       /\ At(f)
       /\ current' = [g \in DOMAIN current \cup {f} |-> IF g = f THEN disk[f] ELSE current[g]]
       /\ IF Unchanged(f) THEN files' = files \ {f} /\ pc' = "hash"
                          ELSE files' = files /\ pc' = "load"
  BY DEF HashFile
<1> QED BY DEF Hashing, TypeOK

LEMMA HashLoop ==
  ASSUME TypeOK, LoopInv, HashFile
  PROVE  LoopInv'
<1> PICK f : Hashing(f)
  BY HashOne
<1>1. pc = "hash" /\ files \cap DOMAIN current = {}
  BY DEF HashFile, LoopInv
<1>2. CASE Unchanged(f)
  BY <1>1, <1>2 DEF Hashing, LoopInv
<1>3. CASE ~Unchanged(f)
  <2>1. \A g : At(g) => g = f
    BY OnePath DEF Hashing, TypeOK
  <2>2. \A g : At(g)' <=> At(g)
    BY <1>3 DEF Hashing, At
  <2> QED BY <1>1, <1>3, <2>1, <2>2 DEF Hashing, LoopInv
<1> QED BY <1>2, <1>3

LEMMA LoopStep ==
  ASSUME TypeOK, LoopInv, [Next]_vars
  PROVE  LoopInv'
<1> USE DEF world, record, syncing
<1>1. ASSUME NEW D, Sync(D) PROVE LoopInv'
  BY <1>1 DEF Sync, LoopInv, Nothing
<1>2. CASE HashFile
  BY <1>2, HashLoop
<1>3. CASE LoadFile
  BY <1>3 DEF LoadFile, LoopInv, At
<1>4. CASE UpdateClears
  BY <1>4 DEF UpdateClears, LoopInv, At
<1>5. CASE Ingest
  <2>1. pc = "ingest" /\ pc' = "hash" /\ files' = files \ {doc.doc} /\ UNCHANGED current
    BY <1>5 DEF Ingest
  <2>2. At(doc.doc) /\ \A f \in files : f \in DOMAIN current => At(f)
    BY <2>1 DEF LoopInv
  <2>3. \A f \in files : f \in DOMAIN current => f = doc.doc
    BY <2>2, OnePath DEF TypeOK
  <2> QED BY <2>1, <2>3 DEF LoopInv
<1>6. ASSUME NEW f, DeleteUnseen(f) PROVE LoopInv'
  BY <1>6 DEF DeleteUnseen, LoopInv
<1>7. CASE TruncateManifest
  BY <1>7 DEF TruncateManifest, NewManifest, LoopInv
<1>8. CASE FileVanished \/ WriteManifest \/ EngineRaises
  BY <1>8 DEF FileVanished, EngineRaises, Raise, WriteManifest, Leave, LoopInv
<1>9. CASE Crash \/ Restart
  BY <1>9 DEF Crash, Restart, LoopInv
<1>10. ASSUME NEW f, NEW s, Edit(f, s) PROVE LoopInv'
  BY <1>10 DEF Edit, LoopInv, At
<1>11. CASE UNCHANGED vars
  BY <1>11 DEF vars, LoopInv, At
<1> QED
  BY <1>1, <1>2, <1>3, <1>4, <1>5, <1>6, <1>7, <1>8, <1>9, <1>10, <1>11 DEF Next

\* A call that is left, or has not begun: the index is what the manifest says.
LEMMA IndexAtRest ==
  ASSUME IndexInv, pc \notin Syncing, pc' \notin Syncing,
         live' = live, manifest' = manifest, suspect' = suspect \/ suspect' = Paths
  PROVE  IndexInv'
<1>1. \A f \in Paths \ suspect : ChunksOf(f) = Listed(manifest, f)
  BY DEF IndexInv, IndexOK
<1>2. \A f : ChunksOf(f)' = ChunksOf(f) /\ Listed(manifest, f)' = Listed(manifest, f)
  BY DEF ChunksOf, Listed, ChunksFor
<1>3. pc' # "ingest"
  BY DEF Syncing
<1> QED BY <1>1, <1>2, <1>3 DEF IndexInv, IndexOK

LEMMA IndexRaise == Raise => IndexInv'
BY DEF Raise, Leave, IndexInv

LEMMA IndexSync ==
  ASSUME NEW D, Sync(D), IndexInv
  PROVE  IndexInv'
<1>1. /\ pc = "idle" /\ pc' = "hash" /\ current' = Nothing
      /\ UNCHANGED <<live, manifest, suspect>>
  BY DEF Sync, record
<1>2. \A f : ChunksOf(f)' = ChunksOf(f) /\ Listed(manifest, f)' = Listed(manifest, f)
  BY <1>1 DEF ChunksOf, Listed, ChunksFor
<1>3. \A f \in Paths \ suspect : ChunksOf(f) = Listed(manifest, f)
  BY <1>1 DEF IndexInv, IndexOK, Syncing
<1> QED BY <1>1, <1>2, <1>3 DEF IndexInv, IndexOK, Syncing, Nothing

LEMMA IndexHash ==
  ASSUME TypeOK, LoopInv, IndexInv, HashFile
  PROVE  IndexInv'
<1> PICK f : Hashing(f)
  BY HashOne
<1>1. /\ pc = "hash" /\ pc' \in {"hash", "load"} /\ f \notin DOMAIN current
      /\ UNCHANGED <<live, manifest, suspect, doc>>
  BY DEF HashFile, LoopInv, record, Hashing
<1>2. \A g : ChunksOf(g)' = ChunksOf(g) /\ Listed(manifest, g)' = Listed(manifest, g)
  BY <1>1 DEF ChunksOf, Listed, ChunksFor
<1>3. ASSUME NEW g \in Paths \ suspect, g # f PROVE IndexOK(g)'
  <2>1. IndexOK(g)
    BY <1>3 DEF IndexInv
  <2>2. g \in DOMAIN current' \ files' <=> g \in DOMAIN current \ files
    BY <1>3 DEF Hashing
  <2>3. ChunksFor(g, current[g])' = ChunksFor(g, current[g]) \/ g \notin DOMAIN current
    BY <1>3 DEF Hashing, ChunksFor
  <2>4. files # {}
    BY DEF Hashing
  <2> QED BY <1>1, <1>2, <2>1, <2>2, <2>3, <2>4 DEF IndexOK, Syncing
<1>4. ASSUME f \notin suspect PROVE IndexOK(f)'
  <2>1. ChunksOf(f) = Listed(manifest, f)
    BY <1>1, <1>4 DEF IndexInv, IndexOK, Syncing, Hashing
  <2>2. CASE Unchanged(f)
    <3>1. ChunksOf(f)' = ChunksFor(f, current[f])'
      BY <1>2, <2>1, <2>2 DEF Unchanged, Listed, Hashing, ChunksFor
    <3> QED BY <1>1, <2>2, <3>1 DEF IndexOK, Syncing, Hashing
  <2>3. CASE ~Unchanged(f)
    BY <1>1, <1>2, <2>1, <2>3 DEF IndexOK, Syncing, Hashing
  <2> QED BY <2>2, <2>3
<1> QED BY <1>1, <1>3, <1>4 DEF IndexInv

LEMMA IndexLoad ==
  ASSUME TypeOK, LoopInv, IndexInv, LoadFile
  PROVE  IndexInv'
<1> PICK f \in files : /\ At(f)
                       /\ doc' = [doc |-> f, text |-> disk[f], tenant |-> Tenant]
                       /\ pc' = IF f \in DOMAIN manifest THEN "update" ELSE "ingest"
  BY DEF LoadFile
<1>1. /\ pc = "load" /\ doc'.doc = f /\ f \in Paths
      /\ UNCHANGED <<live, manifest, suspect, current, files>>
  BY DEF LoadFile, record, TypeOK
<1>2. \A g : ChunksOf(g)' = ChunksOf(g) /\ Listed(manifest, g)' = Listed(manifest, g)
  BY <1>1 DEF ChunksOf, Listed, ChunksFor
<1>3. \A g : ChunksFor(g, current[g])' = ChunksFor(g, current[g])
  BY <1>1 DEF ChunksFor
<1>4. ASSUME NEW g \in Paths \ suspect PROVE IndexOK(g)'
  <2>1. IndexOK(g)
    BY <1>4 DEF IndexInv
  <2>2. CASE g \in DOMAIN current \ files
    BY <1>1, <1>2, <1>3, <2>1, <2>2 DEF IndexOK, Syncing
  <2>3. CASE g \notin DOMAIN current \ files
    <3>1. ChunksOf(g) = Listed(manifest, g)
      BY <1>1, <2>1, <2>3 DEF IndexOK, Syncing
    <3> QED BY <1>1, <1>2, <2>3, <3>1 DEF IndexOK, Syncing, Listed
  <2> QED BY <2>2, <2>3
<1> QED BY <1>1, <1>4 DEF IndexInv

LEMMA IndexClear ==
  ASSUME LoopInv, IndexInv, UpdateClears
  PROVE  IndexInv'
<1> PICK f : f = doc.doc
  OBVIOUS
<1>1. /\ pc = "update" /\ pc' = "ingest" /\ f \in files /\ Store!Remove(f, AnyTenant)
      /\ UNCHANGED <<manifest, suspect, current, files, doc>>
  BY DEF UpdateClears, Clear, record, syncing, LoopInv
<1>2. ChunksOf(f)' = {} /\ \A g : g # f => ChunksOf(g)' = ChunksOf(g)
  BY <1>1, RemovesChunks
<1>3. \A g : /\ Listed(manifest, g)' = Listed(manifest, g)
             /\ ChunksFor(g, current[g])' = ChunksFor(g, current[g])
  BY <1>1 DEF Listed, ChunksFor
<1>4. ASSUME NEW g \in Paths \ suspect PROVE IndexOK(g)'
  <2>1. IndexOK(g)
    BY <1>4 DEF IndexInv
  <2> QED BY <1>1, <1>2, <1>3, <2>1 DEF IndexOK, Syncing
<1>5. ChunksOf(f)' = {} /\ doc'.doc = f
  BY <1>1, <1>2
<1>6. ChunksOf(doc.doc)' = ChunksOf(f)'
  BY <1>5 DEF ChunksOf
<1> QED BY <1>1, <1>4, <1>5, <1>6 DEF IndexInv

LEMMA IndexIngest ==
  ASSUME LoopInv, IndexInv, Ingest
  PROVE  IndexInv'
<1> PICK f : f = doc.doc
  OBVIOUS
<1>1. /\ pc = "ingest" /\ pc' = "hash" /\ Store!Ingest(<<doc>>) /\ files' = files \ {f}
      /\ f \in files /\ f \in DOMAIN current /\ doc.tenant = Tenant
      /\ UNCHANGED <<manifest, current>>
  BY DEF Ingest, record, LoopInv
<1>2. suspect' = IF doc.text # current[f] THEN suspect \cup {f}
                 ELSE IF f \in DOMAIN manifest THEN suspect \ {f} ELSE suspect
  BY DEF Ingest
<1>3. \A g : g # f => ChunksOf(g)' = ChunksOf(g)
  BY <1>1, IngestsChunks
<1>4. \A g : /\ Listed(manifest, g)' = Listed(manifest, g)
             /\ ChunksFor(g, current[g])' = ChunksFor(g, current[g])
  BY <1>1 DEF Listed, ChunksFor
<1>5. ASSUME NEW g \in Paths \ suspect', g # f PROVE IndexOK(g)'
  <2>1. IndexOK(g)
    BY <1>2, <1>5 DEF IndexInv
  <2> QED BY <1>1, <1>3, <1>4, <1>5, <2>1 DEF IndexOK, Syncing
<1>6. ASSUME f \in Paths \ suspect' PROVE IndexOK(f)'
  <2>1. doc.text = current[f] /\ (f \in DOMAIN manifest \/ f \notin suspect)
    BY <1>2, <1>6
  <2>2. ChunksOf(f) = {}
    BY <1>1, <1>6, <2>1 DEF IndexInv, IndexOK, Syncing
  <2>3. ChunksOf(f)' = ChunksFor(f, current[f])'
    BY <1>1, <1>4, <2>1, <2>2, IngestsChunks
  <2> QED BY <1>1, <2>3 DEF IndexOK, Syncing
<1> QED BY <1>1, <1>5, <1>6 DEF IndexInv

LEMMA IndexDelete ==
  ASSUME NEW f, IndexInv, DeleteUnseen(f)
  PROVE  IndexInv'
<1>1. /\ pc = "hash" /\ files = {} /\ f \in Unseen /\ suspect' = suspect \ {f}
      /\ Store!Remove(f, AnyTenant) /\ UNCHANGED <<manifest, pc, current, files, doc>>
  BY DEF DeleteUnseen, ToDelete, record, syncing
<1>2. ChunksOf(f)' = {} /\ \A g : g # f => ChunksOf(g)' = ChunksOf(g)
  BY <1>1, RemovesChunks
<1>3. \A g : /\ Listed(manifest, g)' = Listed(manifest, g)
             /\ ChunksFor(g, current[g])' = ChunksFor(g, current[g])
  BY <1>1 DEF Listed, ChunksFor
<1>4. Unseen' = Unseen /\ f \notin DOMAIN current
  BY <1>1 DEF Unseen
<1>5. ASSUME NEW g \in Paths \ suspect', g # f PROVE IndexOK(g)'
  <2>1. IndexOK(g)
    BY <1>1, <1>5 DEF IndexInv
  <2> QED BY <1>1, <1>2, <1>3, <1>4, <1>5, <2>1 DEF IndexOK, Syncing
<1>6. IndexOK(f)'
  BY <1>1, <1>2, <1>4 DEF IndexOK, Syncing
<1> QED BY <1>1, <1>5, <1>6 DEF IndexInv

LEMMA IndexTruncate ==
  ASSUME IndexInv, TruncateManifest
  PROVE  IndexInv'
<1>1. /\ pc = "hash" /\ pc' = "write" /\ files = {} /\ ToDelete = {} /\ manifest' = current
      /\ UNCHANGED <<live, suspect>>
  BY DEF TruncateManifest, NewManifest
<1>2. ASSUME NEW g \in Paths \ suspect PROVE ChunksOf(g) = Listed(current, g)
  <2>1. IndexOK(g)
    BY <1>2 DEF IndexInv
  <2>2. CASE g \in DOMAIN current
    BY <1>1, <2>1, <2>2 DEF IndexOK, Syncing, Listed
  <2>3. CASE g \notin DOMAIN current
    <3>1. ChunksOf(g) = Listed(manifest, g) \/ ChunksOf(g) = {}
      BY <1>1, <2>1, <2>3 DEF IndexOK, Syncing
    <3>2. g \in DOMAIN manifest => ChunksOf(g) = {}
      BY <1>1, <2>3 DEF ToDelete, Unseen, ChunksOf
    <3> QED BY <2>3, <3>1, <3>2 DEF Listed
  <2> QED BY <2>2, <2>3
<1>3. \A g : ChunksOf(g)' = ChunksOf(g) /\ Listed(manifest, g)' = Listed(current, g)
  BY <1>1 DEF ChunksOf, Listed, ChunksFor
<1> QED BY <1>1, <1>2, <1>3 DEF IndexInv, IndexOK, Syncing

LEMMA IndexStep ==
  ASSUME TypeOK, RecordInv, LoopInv, IndexInv, [Next]_vars
  PROVE  IndexInv'
<1> USE DEF world, record, syncing
<1>1. ASSUME NEW D, Sync(D) PROVE IndexInv'
  BY <1>1, IndexSync
<1>2. CASE HashFile \/ LoadFile \/ UpdateClears \/ Ingest \/ TruncateManifest
  BY <1>2, IndexHash, IndexLoad, IndexClear, IndexIngest, IndexTruncate
<1>3. ASSUME NEW f, DeleteUnseen(f) PROVE IndexInv'
  BY <1>3, IndexDelete
<1>4. CASE FileVanished \/ EngineRaises
  BY <1>4, IndexRaise DEF FileVanished, EngineRaises
<1>5. CASE WriteManifest
  BY <1>5, IndexAtRest DEF WriteManifest, Leave, Syncing
<1>6. CASE Crash
  <2>1. CASE pc = "idle"
    BY <1>6, <2>1, IndexAtRest DEF Crash, Syncing
  <2>2. CASE pc # "idle"
    BY <1>6, <2>2 DEF Crash, IndexInv
  <2> QED BY <2>1, <2>2
<1>7. CASE Restart
  <2>1. manifest' = manifest
    BY <1>7 DEF Restart, RecordInv
  <2> QED BY <1>7, <2>1, IndexAtRest DEF Restart, Syncing
<1>8. ASSUME NEW f, NEW s, Edit(f, s) PROVE IndexInv'
  BY <1>8 DEF Edit, IndexInv, IndexOK, ChunksOf, Listed, ChunksFor, Unseen
<1>9. CASE UNCHANGED vars
  BY <1>9 DEF vars, IndexInv, IndexOK, ChunksOf, Listed, ChunksFor, Unseen
<1> QED BY <1>1, <1>2, <1>3, <1>4, <1>5, <1>6, <1>7, <1>8, <1>9 DEF Next

LEMMA QuietStep ==
  ASSUME TypeOK, LoopInv, QuietInv, [Next]_vars
  PROVE  QuietInv'
<1> USE DEF world, record, syncing
<1>1. ASSUME NEW D, Sync(D) PROVE QuietInv'
  BY <1>1 DEF Sync, QuietInv, Present, Exists, Nothing
<1>2. CASE HashFile
  <2> PICK f : Hashing(f)
    BY <1>2, HashOne
  <2>1. pc = "hash" /\ UNCHANGED <<disk, directory, quiet>>
    BY <1>2 DEF HashFile
  <2>2. Present(directory)' = Present(directory)
    BY <2>1 DEF Present, Exists
  <2>3. DOMAIN current' \cup files' = DOMAIN current \cup files
    BY DEF Hashing
  <2>4. quiet => \A g \in DOMAIN current' : current'[g] = disk[g]
    BY <2>1 DEF Hashing, QuietInv, Syncing
  <2> QED BY <2>1, <2>2, <2>3, <2>4 DEF QuietInv, Syncing
<1>3. CASE LoadFile \/ UpdateClears
  <2>1. pc \in Syncing /\ UNCHANGED <<disk, directory, quiet, current, files>>
    BY <1>3 DEF LoadFile, UpdateClears, Syncing
  <2> QED BY <2>1 DEF QuietInv, Present, Exists
<1>4. CASE Ingest
  <2>1. /\ pc \in Syncing /\ UNCHANGED <<disk, directory, quiet, current>>
        /\ files' = files \ {doc.doc} /\ doc.doc \in DOMAIN current
    BY <1>4 DEF Ingest, LoopInv, Syncing
  <2>2. DOMAIN current \cup files' = DOMAIN current \cup files
    BY <2>1
  <2> QED BY <2>1, <2>2 DEF QuietInv, Present, Exists
<1>5. ASSUME NEW f, DeleteUnseen(f) PROVE QuietInv'
  BY <1>5 DEF DeleteUnseen, QuietInv, Present, Exists
<1>6. CASE TruncateManifest
  BY <1>6 DEF TruncateManifest, QuietInv, Present, Exists, Syncing
<1>7. CASE FileVanished \/ WriteManifest \/ EngineRaises
  BY <1>7 DEF FileVanished, EngineRaises, Raise, WriteManifest, Leave, QuietInv, Syncing
<1>8. CASE Crash \/ Restart
  BY <1>8 DEF Crash, Restart, QuietInv, Syncing
<1>9. ASSUME NEW f, NEW s, Edit(f, s) PROVE QuietInv'
  BY <1>9 DEF Edit, QuietInv
<1>10. CASE UNCHANGED vars
  BY <1>10 DEF vars, QuietInv, Present, Exists
<1> QED
  BY <1>1, <1>2, <1>3, <1>4, <1>5, <1>6, <1>7, <1>8, <1>9, <1>10 DEF Next

\* While a settled directory is synced again, every path is found unchanged, and no
\* path was forgotten.
LEMMA SettledMeans ==
  ASSUME LoopInv, QuietInv, SettledInv, settled # {}, directory = settled, pc \in Syncing
  PROVE  /\ pc = "hash"
         /\ \A f \in files : Unchanged(f) /\ Exists(f)
         /\ files = {} => Unseen = {}
<1>1. pc = "hash" /\ quiet
  BY DEF SettledInv, Syncing
<1>2. DOMAIN current \cup files = DOMAIN manifest
  BY <1>1 DEF QuietInv, SettledInv
<1>3. \A f \in files : f \in DOMAIN manifest /\ manifest[f] = disk[f] /\ f \in Present(settled)
  BY <1>2 DEF SettledInv
<1> QED BY <1>1, <1>2, <1>3 DEF Unchanged, Unseen, Present

LEMMA SettledStep ==
  ASSUME TypeOK, RecordInv, LoopInv, QuietInv, SettledInv, [Next]_vars
  PROVE  SettledInv'
<1> USE DEF world, record, syncing
<1>1. ASSUME NEW D, Sync(D) PROVE SettledInv'
  BY <1>1 DEF Sync, SettledInv, Present, Exists, Unsettled
<1>2. CASE HashFile
  <2> SUFFICES ASSUME settled # {} PROVE SettledInv'
    BY <1>2 DEF HashFile, SettledInv
  <2> PICK f : Hashing(f)
    BY <1>2, HashOne
  <2>1. pc = "hash" /\ UNCHANGED <<disk, directory, quiet, manifest, settled>>
    BY <1>2 DEF HashFile
  <2>2. directory = settled /\ quiet
    BY <2>1 DEF SettledInv, Syncing
  <2>3. Unchanged(f)
    BY <2>1, <2>2, SettledMeans DEF Syncing, Hashing
  <2>4. pc' = "hash"
    BY <2>3 DEF Hashing
  <2> QED BY <2>1, <2>4 DEF SettledInv, Present, Exists, Syncing
<1>3. CASE LoadFile \/ UpdateClears \/ Ingest
  <2>1. pc \in {"load", "update", "ingest"} /\ settled' = settled
    BY <1>3 DEF LoadFile, UpdateClears, Ingest
  <2>2. settled = {}
    BY <2>1 DEF SettledInv, Syncing
  <2> QED BY <2>1, <2>2 DEF SettledInv
<1>4. ASSUME NEW f, DeleteUnseen(f) PROVE SettledInv'
  BY <1>4 DEF DeleteUnseen, SettledInv, Present, Exists
<1>5. CASE TruncateManifest
  <2>1. /\ pc = "hash" /\ pc' = "write" /\ files = {} /\ manifest' = current
        /\ UNCHANGED <<disk, directory, quiet, settled>>
    BY <1>5 DEF TruncateManifest, NewManifest
  <2>2. settled # {} => quiet /\ directory = settled
    BY <2>1 DEF SettledInv, Syncing
  <2>3. settled # {} => /\ DOMAIN current = Present(settled)
                        /\ \A f \in DOMAIN current : current[f] = disk[f]
    BY <2>1, <2>2 DEF QuietInv, Syncing
  <2> QED BY <2>1, <2>2, <2>3 DEF SettledInv, Present, Exists
<1>6. CASE WriteManifest
  <2>1. /\ pc = "write" /\ pc' = "idle" /\ files = {} /\ manifest = current
        /\ settled' = (IF quiet THEN directory ELSE {}) /\ UNCHANGED <<disk, manifest>>
    BY <1>6 DEF WriteManifest, Leave, LoopInv, Unsettled
  <2>2. quiet => /\ DOMAIN manifest = Present(directory)
                 /\ \A f \in DOMAIN manifest : manifest[f] = disk[f]
    BY <2>1 DEF QuietInv
  <2> QED BY <2>1, <2>2 DEF SettledInv, Present, Exists, Syncing
<1>7. CASE FileVanished \/ EngineRaises
  BY <1>7 DEF FileVanished, EngineRaises, Raise, Leave, SettledInv, Syncing, Present, Exists
<1>8. CASE Crash
  BY <1>8 DEF Crash, SettledInv, Syncing, Present, Exists
<1>9. CASE Restart
  BY <1>9 DEF Restart, RecordInv, SettledInv, Syncing, Present, Exists
<1>10. ASSUME NEW f, NEW s, Edit(f, s) PROVE SettledInv'
  BY <1>10 DEF Edit, SettledInv, Unsettled
<1>11. CASE UNCHANGED vars
  BY <1>11 DEF vars, SettledInv, Present, Exists
<1> QED
  BY <1>1, <1>2, <1>3, <1>4, <1>5, <1>6, <1>7, <1>8, <1>9, <1>10, <1>11 DEF Next

-----------------------------------------------------------------------------
(* The theorems. *)

IInv == TypeOK /\ RecordInv /\ LoopInv /\ IndexInv /\ QuietInv /\ SettledInv

LEMMA Invariant == Spec => []IInv
<1>1. Init => TypeOK
  <2>1. Init => IsManifest(manifest) /\ IsManifest(stored) /\ IsManifest(current)
    BY DEF Init, Nothing, IsManifest
  <2>2. Init => disk \in [Paths -> Texts \cup {NoFile}]
    BY DEF Init
  <2>3. Init => doc \in Document /\ live \subseteq Chunk
    BY PathFacts DEF Init
  <2>4. Init => torn \in BOOLEAN /\ quiet \in BOOLEAN
    BY DEF Init
  <2> QED BY <2>1, <2>2, <2>3, <2>4 DEF Init, TypeOK, Unsettled
<1>2. Init => RecordInv /\ LoopInv /\ QuietInv /\ SettledInv
  BY DEF Init, RecordInv, LoopInv, QuietInv, SettledInv, Syncing, Unsettled
<1>3. Init => IndexInv
  BY DEF Init, IndexInv, IndexOK, ChunksOf, Listed, Syncing, Nothing
<1>4. IInv /\ [Next]_vars => IInv'
  BY NextTypeOK, RecordStep, LoopStep, IndexStep, QuietStep, SettledStep DEF IInv
<1> QED BY <1>1, <1>2, <1>3, <1>4, PTL DEF Spec, IInv

\* TypeOK: every variable of the synchroniser keeps its kind.
THEOREM Typing == Spec => []TypeOK
BY Invariant, PTL DEF IInv

\* InStep: a sync() during which nothing is edited leaves every path, the suspects
\* apart, with exactly the chunks of its file -- whatever was edited, whatever raised
\* and wherever the process died before.
THEOREM SyncedInStep == Spec => InStep
<1>1. IInv => (SyncReturns /\ quiet => \A f \in Paths \ suspect : ChunksOf(f) = Wanted(f))
  <2> SUFFICES ASSUME IInv, SyncReturns, quiet, NEW f \in Paths \ suspect
               PROVE  ChunksOf(f) = Wanted(f)
    OBVIOUS
  <2>1. pc = "write" /\ files = {} /\ manifest = current
    BY DEF SyncReturns, IInv, LoopInv
  <2>2. ChunksOf(f) = Listed(manifest, f)
    BY <2>1 DEF IInv, IndexInv, IndexOK, Syncing
  <2>3. /\ DOMAIN manifest = Present(directory)
        /\ \A g \in DOMAIN manifest : manifest[g] = disk[g]
    BY <2>1 DEF IInv, QuietInv
  <2> QED BY <2>2, <2>3 DEF Listed, ChunksFor, Wanted, Present
<1> QED BY <1>1, Invariant, PTL DEF InStep

\* SettledStays: a directory that was synced and not edited since is synced again
\* without touching the index.
THEOREM SettledUntouched == Spec => SettledStays
<1>1. IInv /\ [Next]_vars => (settled # Unsettled /\ directory = settled => live' = live)
  <2> SUFFICES ASSUME IInv, [Next]_vars, settled # {}, directory = settled
               PROVE  live' = live
    BY DEF Unsettled
  <2> USE DEF world, record, syncing
  <2>1. pc \in Syncing => pc = "hash" /\ (files = {} => Unseen = {})
    BY SettledMeans DEF IInv
  <2>2. ~UpdateClears /\ ~Ingest /\ \A f : ~DeleteUnseen(f)
    BY <2>1 DEF UpdateClears, Ingest, DeleteUnseen, ToDelete, Syncing
  <2>3. ASSUME NEW D, Sync(D) PROVE live' = live
    BY <2>3 DEF Sync
  <2>4. ASSUME NEW f, NEW s, Edit(f, s) PROVE live' = live
    BY <2>4 DEF Edit
  <2>5. CASE \/ HashFile \/ LoadFile \/ FileVanished \/ TruncateManifest \/ WriteManifest
             \/ EngineRaises \/ Crash \/ Restart
    BY <2>5 DEF HashFile, LoadFile, FileVanished, EngineRaises, Raise, TruncateManifest,
                WriteManifest, Crash, Restart
  <2>6. CASE UNCHANGED vars
    BY <2>6 DEF vars
  <2> QED BY <2>2, <2>3, <2>4, <2>5, <2>6 DEF Next
<1> QED BY <1>1, Invariant, PTL DEF Spec, SettledStays
=============================================================================
