-------------------------- MODULE ChunkStoreProofs --------------------------
(***************************************************************************)
(* What VectorStore does to the set of its chunks: it implements           *)
(* ChunkStore, an update replaces its documents, and compaction bounds the *)
(* tombstones.  The lemmas on tables and the invariants AlignedInv and     *)
(* RepairInv are those of VectorStoreProofs.                               *)
(***************************************************************************)
EXTENDS VectorStoreProofs, SequenceTheorems, FiniteSetTheorems

-----------------------------------------------------------------------------
(* Chunks of tables. *)

LEMMA ChunksOfNone ==
  ASSUME NEW t, Rows(t) = {}
  PROVE  ChunksIn(t) = {}
BY DEF ChunksIn

LEMMA ChunksOfCut ==
  ASSUME NEW t, IsTable(t), NEW doc, NEW scope
  PROVE  ChunksIn(Cut(t, {r \in Rows(t) : Covers(doc, scope, t[r])}))
           = {c \in ChunksIn(t) : ~Covers(doc, scope, c)}
<1> DEFINE covered == {r \in Rows(t) : Covers(doc, scope, t[r])}
           u == Cut(t, covered)
<1>1. Rows(u) = Rows(t) \ covered /\ \A r \in Rows(t) \ covered : u[r] = t[r]
  BY CutTable
<1> HIDE DEF u
<1>2. ChunksIn(u) = {t[r] : r \in Rows(t) \ covered}
  BY <1>1 DEF ChunksIn
<1> QED BY <1>2 DEF ChunksIn, u

LEMMA ChunksOfWith ==
  ASSUME NEW t, IsTable(t), NEW r \in Nat \ Rows(t), NEW c \in Chunk
  PROVE  ChunksIn(With(t, r, c)) = ChunksIn(t) \cup {c}
<1> DEFINE u == With(t, r, c)
<1>1. Rows(u) = Rows(t) \cup {r} /\ u[r] = c /\ \A s \in Rows(t) : u[s] = t[s]
  BY WithTable
<1> HIDE DEF u
<1>2. ChunksIn(u) = {t[s] : s \in Rows(t)} \cup {c}
  BY <1>1 DEF ChunksIn
<1> QED BY <1>2 DEF ChunksIn, u

LEMMA ChunksSplit ==
  ASSUME NEW t, IsTable(t), NEW r \in Rows(t)
  PROVE  ChunksIn(t) = ChunksIn(Cut(t, {r})) \cup {t[r]}
<1> DEFINE u == Cut(t, {r})
<1>1. Rows(u) = Rows(t) \ {r} /\ \A s \in Rows(t) \ {r} : u[s] = t[s]
  BY CutTable
<1> HIDE DEF u
<1>2. ChunksIn(u) = {t[s] : s \in Rows(t) \ {r}}
  BY <1>1 DEF ChunksIn
<1> QED BY <1>2 DEF ChunksIn, u

-----------------------------------------------------------------------------
(* What a batch contributes. *)

\* Piece i of document k is the first of its id in batch b, and is chunk c.
IsFirst(b, k, i, c) ==
  /\ c = ChunkOf(b[k], i)
  /\ \A m \in 1..(k - 1) : b[m].doc = c.doc => i \notin DOMAIN b[m].text

Visited(k, i) == k < d \/ (k = d /\ i < p)

\* The part of the contribution that the loop has come to.
Taken(s) ==
  {c \in Contribution(batch, s) :
     \E k \in DOMAIN batch : \E i \in DOMAIN batch[k].text :
       IsFirst(batch, k, i, c) /\ Visited(k, i)}

LEMMA ContributionIs ==
  ASSUME NEW b, NEW s, NEW c
  PROVE  c \in Contribution(b, s) <=>
           /\ Id(c) \notin Ids(s)
           /\ \E k \in DOMAIN b : \E i \in DOMAIN b[k].text : IsFirst(b, k, i, c)
BY DEF Contribution, IsFirst

\* Documents that a store does not hold contribute the same as to an empty one.
NoneOf(b, s) == \A c \in s : \A k \in DOMAIN b : b[k].doc # c.doc
OfBatch(b, s) == {c \in s : \E k \in DOMAIN b : b[k].doc = c.doc}

\* The chunks of one document of a batch are among those of the batch.
LEMMA ChunksOfBatch ==
  ASSUME NEW s, NEW b, NEW k \in DOMAIN batch, OfBatch(batch, s) = b
  PROVE  ChunksOf(batch[k], s) = ChunksOf(batch[k], b)
<1>1. \A c \in s : Covers(batch[k].doc, batch[k].tenant, c) => c \in OfBatch(batch, s)
  BY DEF Covers, OfBatch
<1>2. \A c \in b : c \in s
  BY DEF OfBatch
<1> QED BY <1>1, <1>2 DEF ChunksOf

LEMMA ContributionToOthers ==
  ASSUME NEW b, NEW s, NoneOf(b, s)
  PROVE  /\ Contribution(b, s) = Contribution(b, {})
         /\ OfBatch(b, s \cup Contribution(b, s)) = Contribution(b, {})
<1>1. ASSUME NEW c, NEW k \in DOMAIN b, NEW i \in DOMAIN b[k].text, IsFirst(b, k, i, c)
      PROVE  b[k].doc = c.doc /\ Id(c) \notin Ids(s)
  BY <1>1 DEF IsFirst, ChunkOf, Id, Ids, NoneOf
<1>2. Ids({}) = {}
  BY DEF Ids
<1>3. \A c : c \in Contribution(b, s) <=> c \in Contribution(b, {})
  BY <1>1, <1>2, ContributionIs
<1>4. Contribution(b, s) = Contribution(b, {})
  BY <1>3
<1>5. \A c \in Contribution(b, s) : \E k \in DOMAIN b : b[k].doc = c.doc
  BY <1>1, ContributionIs
<1>6. OfBatch(b, s \cup Contribution(b, s)) = Contribution(b, s)
  BY <1>5 DEF OfBatch, NoneOf
<1> QED BY <1>4, <1>6

\* Position k, i of a batch: what the loop visits, and when.
LEMMA Positions ==
  ASSUME TypeOK
  PROVE  /\ d \in Nat \ {0} /\ p \in Nat \ {0}
         /\ DOMAIN batch = 1..Len(batch) /\ Len(batch) \in Nat
         /\ \A k \in DOMAIN batch :
              /\ k \in Nat \ {0} /\ Len(batch[k].text) \in Nat
              /\ DOMAIN batch[k].text = 1..Len(batch[k].text)
<1>1. \A k \in DOMAIN batch : batch[k] \in Document
  BY ElementOfSeq DEF TypeOK
<1>2. \A k \in DOMAIN batch : batch[k].text \in Seq(Pieces)
  BY <1>1 DEF Document
<1> QED BY <1>2, LenProperties DEF TypeOK

LEMMA NothingVisited ==
  ASSUME TypeOK, d = 1, p = 1, NEW s
  PROVE  /\ Taken(s) = {}
         /\ \A k \in DOMAIN batch : \A i \in DOMAIN batch[k].text : ~Visited(k, i)
<1>1. \A k \in DOMAIN batch : \A i \in DOMAIN batch[k].text : ~Visited(k, i)
  BY Positions DEF Visited
<1> QED BY <1>1 DEF Taken

LEMMA AllVisited ==
  ASSUME TypeOK, d \notin DOMAIN batch, NEW s
  PROVE  Taken(s) = Contribution(batch, s)
<1>1. \A k \in DOMAIN batch : k < d
  BY Positions
<1> QED BY <1>1, ContributionIs DEF Taken, Visited

\* The chunks in the tables while the batch is being inserted into a store that held
\* the chunks base.
Loaded(base) ==
  /\ ChunksIn(chunks) = base \cup Taken(base)
  /\ \A k \in DOMAIN batch : \A i \in DOMAIN batch[k].text :
       Visited(k, i) => <<batch[k].doc, i>> \in Ids(ChunksIn(chunks))

LEMMA PieceVisited ==
  ASSUME TypeOK, AtPiece, p' = p + 1, d' = d
  PROVE  \A k \in DOMAIN batch : \A i \in DOMAIN batch[k].text :
           Visited(k, i)' <=> Visited(k, i) \/ (k = d /\ i = p)
BY Positions DEF Visited, AtPiece, Looping

LEMMA SkipLoads ==
  ASSUME TypeOK, NEW base, Loaded(base), SkipExisting
  PROVE  Loaded(base)'
<1>1. /\ AtPiece /\ p' = p + 1 /\ d' = d /\ batch' = batch /\ chunks' = chunks
      /\ Id(ThisChunk) \in Ids(ChunksIn(chunks))
      /\ d \in DOMAIN batch /\ p \in DOMAIN batch[d].text
  BY DEF SkipExisting, Existing, AtPiece, Looping, tables
<1>2. Id(ThisChunk) = <<batch[d].doc, p>>
  BY DEF Id, ThisChunk, ChunkOf
<1>3. \A k \in DOMAIN batch : \A i \in DOMAIN batch[k].text :
        Visited(k, i)' <=> Visited(k, i) \/ (k = d /\ i = p)
  BY <1>1, PieceVisited
<1>4. ASSUME NEW c \in Contribution(batch, base), IsFirst(batch, d, p, c)
      PROVE  FALSE
  <2>1. c = ThisChunk /\ Id(c) \notin Ids(base)
    BY <1>4, ContributionIs DEF IsFirst, ThisChunk
  <2>2. PICK e \in Taken(base) : Id(e) = Id(c)
    BY <1>1, <2>1 DEF Loaded, Ids
  <2>3. PICK k \in DOMAIN batch : \E i \in DOMAIN batch[k].text :
          IsFirst(batch, k, i, e) /\ Visited(k, i)
    BY <2>2 DEF Taken
  <2>4. PICK i \in DOMAIN batch[k].text : IsFirst(batch, k, i, e) /\ Visited(k, i)
    BY <2>3
  <2>5. batch[k].doc = batch[d].doc /\ i = p
    BY <1>2, <2>1, <2>2, <2>4 DEF IsFirst, ChunkOf, Id
  <2>6. k \in 1..(d - 1) /\ batch[k].doc = c.doc
    BY <2>1, <2>4, <2>5, Positions DEF Visited, ThisChunk, ChunkOf
  <2> QED BY <1>4, <2>4, <2>5, <2>6 DEF IsFirst
<1>5. Taken(base)' = Taken(base)
  BY <1>1, <1>3, <1>4 DEF Taken
<1> QED BY <1>1, <1>2, <1>3, <1>5 DEF Loaded

LEMMA InsertLoads ==
  ASSUME TypeOK, NEW base, Loaded(base), InsertRow
  PROVE  Loaded(base)'
<1>1. /\ AtPiece /\ p' = p + 1 /\ d' = d /\ batch' = batch
      /\ chunks' = With(chunks, NextRow, ThisChunk) /\ NextRow \notin Rows(chunks)
      /\ Id(ThisChunk) \notin Ids(ChunksIn(chunks))
      /\ d \in DOMAIN batch /\ p \in DOMAIN batch[d].text
  BY DEF InsertRow, Uncommitted, Existing, AtPiece, Looping
<1>2. Id(ThisChunk) = <<batch[d].doc, p>>
  BY DEF Id, ThisChunk, ChunkOf
<1>3. \A k \in DOMAIN batch : \A i \in DOMAIN batch[k].text :
        Visited(k, i)' <=> Visited(k, i) \/ (k = d /\ i = p)
  BY <1>1, PieceVisited
<1>4. ChunksIn(chunks') = ChunksIn(chunks) \cup {ThisChunk}
  BY <1>1, ThisChunkType, NextRowType, ChunksOfWith DEF TypeOK
<1>5. IsFirst(batch, d, p, ThisChunk)
  <2> SUFFICES ASSUME NEW m \in 1..(d - 1), batch[m].doc = ThisChunk.doc,
                      p \in DOMAIN batch[m].text
               PROVE  FALSE
    BY DEF IsFirst, ThisChunk
  <2>1. m \in DOMAIN batch /\ Visited(m, p)
    BY <1>1, Positions DEF Visited
  <2>2. batch[m].doc = batch[d].doc
    BY DEF ThisChunk, ChunkOf
  <2> QED BY <1>1, <1>2, <2>1, <2>2 DEF Loaded
<1>6. Id(ThisChunk) \notin Ids(base)
  BY <1>1 DEF Loaded, Ids
<1>7. ThisChunk \in Contribution(batch, base)
  BY <1>1, <1>5, <1>6, ContributionIs
<1>8. \A c : IsFirst(batch, d, p, c) => c = ThisChunk
  BY DEF IsFirst, ThisChunk
<1>9. Taken(base)' = Taken(base) \cup {ThisChunk}
  BY <1>1, <1>3, <1>5, <1>7, <1>8 DEF Taken
<1>10. Id(ThisChunk) \in Ids(ChunksIn(chunks')) /\ Ids(ChunksIn(chunks)) \subseteq Ids(ChunksIn(chunks'))
  BY <1>4 DEF Ids
<1> QED BY <1>1, <1>2, <1>3, <1>4, <1>9, <1>10 DEF Loaded

LEMMA NextLoads ==
  ASSUME TypeOK, NEW base, Loaded(base), NextDocument
  PROVE  Loaded(base)'
<1>1. /\ d' = d + 1 /\ p' = 1 /\ batch' = batch /\ chunks' = chunks
      /\ d \in DOMAIN batch /\ p \notin DOMAIN batch[d].text
  BY DEF NextDocument, Looping, tables
<1>2. \A k \in DOMAIN batch : \A i \in DOMAIN batch[k].text : Visited(k, i)' <=> Visited(k, i)
  BY <1>1, Positions DEF Visited
<1>3. Taken(base)' = Taken(base)
  BY <1>1, <1>2 DEF Taken
<1> QED BY <1>1, <1>2, <1>3 DEF Loaded

-----------------------------------------------------------------------------
(* The calls under way. *)

CallInv ==
  /\ pc \in {"idle", "clear"} => p = 1
  /\ pc = "idle" => op = "none"
  /\ pc \in {"clear", "insert"} => batch \in Batches
  /\ pc = "clear" => op = "update"

LEMMA CallStep ==
  ASSUME TypeOK, CallInv, [Next]_vars
  PROVE  CallInv'
<1> USE DEF tables, index, locals
<1>1. CASE Leave
  BY <1>1 DEF CallInv, Leave
<1>2. ASSUME NEW b \in Batches, AddDocuments(b) \/ UpdateDocuments(b) PROVE CallInv'
  BY <1>2 DEF CallInv, AddDocuments, UpdateDocuments, Begin
<1>3. ASSUME NEW doc, NEW scope, DeleteDocument(doc, scope) PROVE CallInv'
  BY <1>3 DEF CallInv, DeleteDocument
<1>4. CASE Rebuild \/ ClearDocument \/ ClearDone
  BY <1>4 DEF CallInv, Rebuild, Begin, ClearDocument, ClearDone
<1>5. CASE SkipExisting \/ InsertRow \/ NextDocument \/ CommitAdd \/ IndexAdd
  BY <1>5 DEF CallInv, SkipExisting, InsertRow, NextDocument, CommitAdd, Reach, IndexAdd,
              AtPiece, Looping
<1>6. CASE ReturnZero \/ SaveAdd
  BY <1>6, <1>1 DEF CallInv, ReturnZero, SaveAdd, FinishAdd
<1>7. CASE ResetIndex \/ Reinsert \/ CommitRebuild \/ Reindex
  BY <1>7 DEF CallInv, ResetIndex, Reinsert, CommitRebuild, Reindex
<1>8. CASE InsertCollides \/ SaveRebuild \/ EncodeRaises \/ IndexRaises \/ SaveRaises \/ Crash
  BY <1>8, <1>1 DEF InsertCollides, SaveRebuild, EncodeRaises, IndexRaises, SaveRaises, Crash
<1>9. CASE UNCHANGED vars
  BY <1>9 DEF CallInv, vars
<1> QED
  BY <1>2, <1>3, <1>4, <1>5, <1>6, <1>7, <1>8, <1>9 DEF Next, Call, DeleteNothing, Step, Fault

LEMMA CallInvariant == Spec => []CallInv
<1>1. Init => CallInv
  BY DEF Init, CallInv
<1> QED BY <1>1, CallStep, Typing, PTL DEF Spec

\* What a rebuild moves: the chunks inserted again, and those that wait.
Moving == ChunksIn(chunks) \cup ChunksIn(todo)

LEMMA ResetMoves ==
  ASSUME ResetIndex
  PROVE  Moving' = ChunksIn(chunks)
<1>1. chunks' = NoRows /\ todo' = chunks
  BY DEF ResetIndex
<1>2. ChunksIn(chunks') = {}
  BY <1>1, NoRowsTable, ChunksOfNone
<1> QED BY <1>1, <1>2 DEF Moving

LEMMA ReinsertMoves ==
  ASSUME TypeOK, RepairInv, Reinsert
  PROVE  Moving' = Moving
<1> PICK r \in Rows(todo) : /\ chunks' = With(chunks, Len(added), todo[r])
                            /\ todo' = Cut(todo, {r})
  BY DEF Reinsert
<1>1. Rows(chunks) = 0..(Len(added) - 1) /\ Len(added) \in Nat
  BY DEF Reinsert, RepairInv, TypeOK
<1>2. Len(added) \in Nat \ Rows(chunks) /\ todo[r] \in Chunk
  BY <1>1, TableEntry DEF TypeOK
<1>3. ChunksIn(chunks') = ChunksIn(chunks) \cup {todo[r]}
  BY <1>2, ChunksOfWith DEF TypeOK
<1>4. ChunksIn(todo) = ChunksIn(todo') \cup {todo[r]}
  BY ChunksSplit DEF TypeOK
<1> QED BY <1>3, <1>4 DEF Moving

LEMMA CommitMoves ==
  ASSUME CommitRebuild
  PROVE  Moving = ChunksIn(chunks)
BY ChunksOfNone DEF CommitRebuild, AllReinserted, Moving

-----------------------------------------------------------------------------
(* update_documents replaces.  No fault is excluded: what an earlier call   *)
(* left on the connection is erased or kept like the rest.                  *)

ReplaceInv ==
  /\ pc = "clear" =>
       \A k \in DOMAIN batch : k < d => \A c \in ChunksIn(chunks) : batch[k].doc # c.doc
  /\ pc = "insert" /\ op = "update" => \E base : Loaded(base) /\ NoneOf(batch, base)
  /\ pc \in {"index", "save", "reset", "reindex", "resave"} /\ op = "update" =>
       OfBatch(batch, ChunksIn(chunks)) = Contribution(batch, {})
  /\ pc = "renumber" /\ op = "update" =>
       OfBatch(batch, Moving) = Contribution(batch, {})

LEMMA LoadedReplaces ==
  ASSUME TypeOK, ReplaceInv, pc = "insert", op = "update", d \notin DOMAIN batch
  PROVE  OfBatch(batch, ChunksIn(chunks)) = Contribution(batch, {})
<1> PICK base : Loaded(base) /\ NoneOf(batch, base)
  BY DEF ReplaceInv
<1>1. ChunksIn(chunks) = base \cup Contribution(batch, base)
  BY AllVisited DEF Loaded
<1> QED BY <1>1, ContributionToOthers

LEMMA ClearReplaces ==
  ASSUME TypeOK, ReplaceInv, ClearDocument
  PROVE  ReplaceInv'
<1>1. /\ pc = "clear" /\ pc' = "clear" /\ d \in DOMAIN batch /\ d' = d + 1 /\ batch' = batch
  BY DEF ClearDocument
<1>2. \A k \in DOMAIN batch : k < d' => k < d \/ k = d
  BY <1>1, Positions
<1>3. ChunksIn(chunks') = {c \in ChunksIn(chunks) : c.doc # batch[d].doc}
  <2>1. Replaced(batch[d]) = {r \in Rows(chunks) : Covers(batch[d].doc, AnyTenant, chunks[r])}
    BY DEF Replaced, RowsCovered
  <2>2. \A c : Covers(batch[d].doc, AnyTenant, c) <=> c.doc = batch[d].doc
    BY DEF Covers
  <2>3. CASE Erase(Replaced(batch[d]))
    <3>1. chunks' = Cut(chunks, Replaced(batch[d]))
      BY <2>3 DEF Erase
    <3>2. ChunksIn(chunks') = {c \in ChunksIn(chunks) : ~Covers(batch[d].doc, AnyTenant, c)}
      BY <2>1, <3>1, ChunksOfCut DEF TypeOK
    <3> QED BY <2>2, <3>2
  <2>4. CASE UNCHANGED tables /\ Replaced(batch[d]) = {}
    BY <2>1, <2>2, <2>4 DEF tables, ChunksIn
  <2> QED BY <2>3, <2>4 DEF ClearDocument
<1> QED BY <1>1, <1>2, <1>3 DEF ReplaceInv

LEMMA ReplaceStep ==
  ASSUME TypeOK, CallInv, RepairInv, ReplaceInv, [Next]_vars
  PROVE  ReplaceInv'
<1> USE DEF tables, index, locals
<1>1. CASE Leave
  BY <1>1 DEF ReplaceInv, Leave
<1>2. CASE /\ pc' \in {"reset", "index", "save"}
           /\ UNCHANGED <<chunks, op, batch>>
           /\ op = "update" => OfBatch(batch, ChunksIn(chunks)) = Contribution(batch, {})
  BY <1>2 DEF ReplaceInv, OfBatch
<1>3. ASSUME NEW b, AddDocuments(b) \/ Rebuild PROVE ReplaceInv'
  BY <1>3 DEF ReplaceInv, AddDocuments, Rebuild, Begin
<1>4. ASSUME NEW b, UpdateDocuments(b), batch' \in Seq(Document) PROVE ReplaceInv'
  <2>1. pc' = "clear" /\ d' = 1 /\ \A k \in DOMAIN batch' : k >= 1
    BY <1>4, LenProperties DEF UpdateDocuments, Begin
  <2>2. \A k \in DOMAIN batch' : ~(k < d')
    BY <1>4, <2>1, LenProperties
  <2> QED BY <2>1, <2>2 DEF ReplaceInv
<1>5. ASSUME NEW doc, NEW scope, DeleteDocument(doc, scope) PROVE ReplaceInv'
  BY <1>5 DEF ReplaceInv, DeleteDocument
<1>6. CASE ClearDocument
  BY <1>6, ClearReplaces
<1>7. CASE ClearDone
  <2>1. /\ pc = "clear" /\ d \notin DOMAIN batch /\ pc' = "insert" /\ d' = 1 /\ p' = 1
        /\ UNCHANGED <<chunks, op, batch>>
    BY <1>7 DEF ClearDone, CallInv
  <2> PICK base : base = ChunksIn(chunks)
    OBVIOUS
  <2>2. NoneOf(batch, base)
    <3>1. \A k \in DOMAIN batch : k < d
      BY <2>1, Positions
    <3> QED BY <2>1, <3>1 DEF ReplaceInv, NoneOf
  <2>3. \A k \in DOMAIN batch : \A i \in DOMAIN batch[k].text : ~Visited(k, i)'
    BY <2>1, Positions DEF Visited
  <2>4. Loaded(base)'
    BY <2>1, <2>3 DEF Loaded, Taken
  <2> QED BY <2>1, <2>2, <2>4 DEF ReplaceInv, NoneOf
<1>8. CASE SkipExisting \/ InsertRow \/ NextDocument
  <2>1. pc = "insert" /\ pc' = "insert" /\ UNCHANGED <<op, batch>>
    BY <1>8 DEF SkipExisting, InsertRow, Uncommitted, NextDocument, AtPiece, Looping
  <2>2. ASSUME op = "update" PROVE \E base : Loaded(base)' /\ NoneOf(batch, base)
    <3> PICK base : Loaded(base) /\ NoneOf(batch, base)
      BY <2>1, <2>2 DEF ReplaceInv
    <3>1. Loaded(base)'
      BY <1>8, SkipLoads, InsertLoads, NextLoads
    <3> QED BY <3>1
  <2> QED BY <2>1, <2>2 DEF ReplaceInv, NoneOf
<1>9. CASE ReturnZero
  BY <1>9, <1>1, <1>2, LoadedReplaces DEF ReturnZero, FinishAdd
<1>10. CASE CommitAdd
  BY <1>10, <1>2, LoadedReplaces DEF CommitAdd, Reach
<1>11. CASE IndexAdd
  BY <1>11, <1>2 DEF IndexAdd, ReplaceInv
<1>12. CASE SaveAdd
  BY <1>12, <1>1, <1>2 DEF SaveAdd, FinishAdd, ReplaceInv
<1>13. CASE ResetIndex
  <2>1. pc = "reset" /\ pc' = "renumber" /\ UNCHANGED <<op, batch>> /\ Moving' = ChunksIn(chunks)
    BY <1>13, ResetMoves DEF ResetIndex
  <2> QED BY <2>1 DEF ReplaceInv, OfBatch
<1>14. CASE Reinsert
  <2>1. pc = "renumber" /\ pc' = "renumber" /\ UNCHANGED <<op, batch>> /\ Moving' = Moving
    BY <1>14, ReinsertMoves DEF Reinsert
  <2> QED BY <2>1 DEF ReplaceInv, OfBatch
<1>15. CASE CommitRebuild
  <2>1. /\ pc = "renumber" /\ pc' = "reindex" /\ UNCHANGED <<chunks, op, batch>>
        /\ Moving = ChunksIn(chunks)
    BY <1>15, CommitMoves DEF CommitRebuild
  <2> QED BY <2>1 DEF ReplaceInv, OfBatch
<1>16. CASE Reindex
  BY <1>16 DEF Reindex, ReplaceInv, OfBatch
<1>17. CASE InsertCollides \/ SaveRebuild \/ EncodeRaises \/ IndexRaises \/ SaveRaises \/ Crash
  BY <1>17, <1>1 DEF InsertCollides, SaveRebuild, EncodeRaises, IndexRaises, SaveRaises, Crash
<1>18. CASE UNCHANGED vars
  <2>1. \A base : Loaded(base) => Loaded(base)'
    BY <1>18 DEF vars, Loaded, Taken, Visited
  <2> QED BY <1>18, <2>1 DEF vars, ReplaceInv, OfBatch, Moving
<1>19. \A b \in Batches : UpdateDocuments(b) => batch' \in Seq(Document)
  BY BatchesAssumption DEF UpdateDocuments, Begin
<1> QED
  BY <1>3, <1>4, <1>5, <1>6, <1>7, <1>8, <1>9, <1>10, <1>11, <1>12, <1>13, <1>14, <1>15,
     <1>16, <1>17, <1>18, <1>19 DEF Next, Call, DeleteNothing, Step, Fault

LEMMA RepairInvariant == Spec => []RepairInv
<1>1. Init => RepairInv
  BY DEF Init, RepairInv
<1> QED BY <1>1, RepairStep, Typing, PTL DEF Spec

\* UpdateReplaces: whatever the store held and however the calls before ended, after
\* update_documents() a document of its batch has, in its tenant, the chunks the batch
\* contributes to an empty store, and no others.
THEOREM UpdatesReplace == Spec => UpdateReplaces
<1> DEFINE Replaces == UpdateReturns => \A k \in DOMAIN batch :
             ChunksOf(batch[k], ChunksIn(chunks')) = ChunksOf(batch[k], Contribution(batch, {}))
<1>1. Init => ReplaceInv
  BY DEF Init, ReplaceInv
<1>2. TypeOK /\ ReplaceInv /\ [Next]_vars => [Replaces]_vars
  <2> SUFFICES ASSUME TypeOK, ReplaceInv, UpdateReturns, NEW k \in DOMAIN batch
               PROVE  ChunksOf(batch[k], ChunksIn(chunks'))
                        = ChunksOf(batch[k], Contribution(batch, {}))
    OBVIOUS
  <2>1. chunks' = chunks /\ op = "update"
    BY DEF UpdateReturns, ReturnZero, SaveAdd, SaveRebuild, tables
  <2>2. OfBatch(batch, ChunksIn(chunks)) = Contribution(batch, {})
    <3>1. CASE ReturnZero
      BY <2>1, <3>1, LoadedReplaces DEF ReturnZero
    <3>2. CASE SaveAdd \/ SaveRebuild
      BY <2>1, <3>2 DEF SaveAdd, SaveRebuild, ReplaceInv
    <3> QED BY <3>1, <3>2 DEF UpdateReturns
  <2> QED BY <2>1, <2>2, ChunksOfBatch
<1>3. TypeOK /\ CallInv /\ RepairInv /\ ReplaceInv /\ [Next]_vars => ReplaceInv'
  BY ReplaceStep
<1> QED
  BY <1>1, <1>2, <1>3, Typing, CallInvariant, RepairInvariant, PTL DEF Spec, UpdateReplaces

-----------------------------------------------------------------------------
(* Tombstones.  The tables are finite, which makes their number of rows a   *)
(* number.                                                                  *)

FiniteInv ==
  /\ IsFiniteSet(Rows(chunks)) /\ IsFiniteSet(Rows(committed.chunks))
  /\ IsFiniteSet(Rows(todo))

LEMMA FiniteTables ==
  ASSUME NEW t, IsTable(t), IsFiniteSet(Rows(t))
  PROVE  /\ \A rows : IsFiniteSet(Rows(Cut(t, rows)))
         /\ \A r \in Nat, c \in Chunk : IsFiniteSet(Rows(With(t, r, c)))
<1>1. ASSUME NEW rows PROVE IsFiniteSet(Rows(Cut(t, rows)))
  BY CutTable, FS_Subset
<1>2. ASSUME NEW r \in Nat, NEW c \in Chunk PROVE IsFiniteSet(Rows(With(t, r, c)))
  <2>1. Rows(With(t, r, c)) = Rows(t) \cup {r}
    BY <1>2, WithTable
  <2>2. IsFiniteSet(Rows(t) \cup {r})
    BY FS_AddElement
  <2> QED BY <2>1, <2>2
<1> QED BY <1>1, <1>2

LEMMA FiniteStep ==
  ASSUME TypeOK, FiniteInv, [Next]_vars
  PROVE  FiniteInv'
<1> USE DEF tables, index, locals
<1>0. IsFiniteSet(Rows(NoRows))
  BY NoRowsTable, FS_EmptySet
<1>1. ASSUME NEW rows, Erase(rows), todo' = todo \/ todo' = NoRows PROVE FiniteInv'
  BY <1>0, <1>1, FiniteTables DEF FiniteInv, Erase, Committing, TypeOK
<1>2. CASE UNCHANGED <<chunks, committed>> /\ (todo' = todo \/ todo' = NoRows)
  BY <1>0, <1>2 DEF FiniteInv
<1>3. ASSUME NEW b, AddDocuments(b) \/ UpdateDocuments(b) \/ Rebuild PROVE FiniteInv'
  BY <1>2, <1>3 DEF AddDocuments, UpdateDocuments, Rebuild, Begin
<1>4. ASSUME NEW doc, NEW scope, DeleteDocument(doc, scope) PROVE FiniteInv'
  BY <1>1, <1>4 DEF DeleteDocument
<1>5. CASE ClearDocument
  BY <1>1, <1>2, <1>5 DEF ClearDocument
<1>6. CASE InsertRow
  BY <1>6, ThisChunkType, NextRowType, FiniteTables DEF FiniteInv, InsertRow, Uncommitted, TypeOK
<1>7. CASE CommitAdd \/ CommitRebuild
  BY <1>0, <1>7 DEF FiniteInv, CommitAdd, CommitRebuild, Commit, Committing, Reach
<1>8. CASE ResetIndex
  BY <1>0, <1>8 DEF FiniteInv, ResetIndex
<1>9. CASE Reinsert
  <2> PICK r \in Rows(todo) : /\ chunks' = With(chunks, Len(added), todo[r])
                              /\ todo' = Cut(todo, {r})
    BY <1>9 DEF Reinsert
  <2>1. todo[r] \in Chunk /\ Len(added) \in Nat
    BY TableEntry DEF TypeOK
  <2>2. IsFiniteSet(Rows(chunks')) /\ IsFiniteSet(Rows(todo'))
    BY <2>1, FiniteTables DEF FiniteInv, TypeOK
  <2> QED BY <1>9, <2>2 DEF FiniteInv, Reinsert
<1>10. CASE Crash
  BY <1>0, <1>10 DEF FiniteInv, Crash, Leave
<1>11. CASE \/ SkipExisting \/ NextDocument \/ ClearDone \/ InsertCollides \/ EncodeRaises
            \/ IndexRaises \/ SaveRaises \/ SaveRebuild \/ ReturnZero \/ SaveAdd
            \/ IndexAdd \/ Reindex
  BY <1>2, <1>11
  DEF SkipExisting, NextDocument, ClearDone, InsertCollides, EncodeRaises, IndexRaises,
      SaveRaises, SaveRebuild, ReturnZero, SaveAdd, IndexAdd, Reindex, Leave, FinishAdd
<1>12. CASE UNCHANGED vars
  BY <1>2, <1>12 DEF vars
<1> QED
  BY <1>3, <1>4, <1>5, <1>6, <1>7, <1>8, <1>9, <1>10, <1>11, <1>12
  DEF Next, Call, DeleteNothing, Step, Fault

\* TombstonesBounded: a delete that removes something, or an update, that returns leaves at
\* most a fifth of the vectors tombstones, since it compacts when there are more and
\* compaction leaves none.  A delete that finds nothing is no return of this kind.
THEOREM TombstonesStayBounded == Spec => TombstonesBounded
<1> DEFINE Few == UpdateReturns \/ DeleteReturns =>
             5 * (Len(vindex') - Cardinality(Rows(chunks'))) <= Len(vindex')
<1>1. Init => FiniteInv
  BY NoRowsTable, FS_EmptySet DEF Init, FiniteInv, Committing
<1>2. TypeOK /\ FiniteInv /\ [Next]_vars => FiniteInv'
  BY FiniteStep
<1>3. TypeOK /\ TypeOK' /\ FiniteInv' /\ RepairInv /\ [Next]_vars => [Few]_vars
  <2> SUFFICES ASSUME TypeOK, TypeOK', FiniteInv', RepairInv, UpdateReturns \/ DeleteReturns
               PROVE  5 * (Len(vindex') - Cardinality(Rows(chunks'))) <= Len(vindex')
    OBVIOUS
  <2>1. Len(vindex') \in Nat /\ Cardinality(Rows(chunks')) \in Nat
    BY FS_CardinalityType, LenProperties DEF TypeOK, FiniteInv
  <2>2. ~Exceeds(Len(vindex'), Cardinality(Rows(chunks'))) =>
          5 * (Len(vindex') - Cardinality(Rows(chunks'))) <= Len(vindex')
    BY <2>1 DEF Exceeds
  <2>3. ASSUME pc' = "idle", op = "update", ReturnZero \/ SaveAdd
        PROVE  ~Exceeds(Len(vindex'), Cardinality(Rows(chunks')))
    BY <2>3 DEF ReturnZero, SaveAdd, FinishAdd, TooManyTombstones, tables, index
  <2>4. ASSUME SaveRebuild
        PROVE  Cardinality(Rows(chunks')) = Len(vindex')
    <3>1. Rows(chunks') = 0..(Len(vindex') - 1)
      BY <2>4 DEF SaveRebuild, RepairInv, tables
    <3> DEFINE last == Len(vindex') - 1
    <3>2. last \in Int /\ 0 \in Int
      BY <2>1
    <3> HIDE DEF last
    <3>3. Cardinality(0..last) = IF 0 > last THEN 0 ELSE last - 0 + 1
      BY <3>2, FS_Interval
    <3>4. Cardinality(Rows(chunks')) = IF 0 > last THEN 0 ELSE last - 0 + 1
      BY <3>1, <3>3 DEF last
    <3> QED BY <2>1, <3>4 DEF last
  <2>5. ASSUME pc' = "idle", NEW doc, NEW scope, DeleteDocument(doc, scope)
        PROVE  ~Exceeds(Len(vindex'), Cardinality(Rows(chunks')))
    BY <2>5 DEF DeleteDocument, Erase, TooManyTombstones, index
  <2>6. CASE SaveRebuild
    BY <2>1, <2>4, <2>6
  <2> QED BY <2>2, <2>3, <2>5, <2>6 DEF UpdateReturns, DeleteReturns
<1> QED
  BY <1>1, <1>2, <1>3, Typing, RepairInvariant, PTL DEF Spec, TombstonesBounded

-----------------------------------------------------------------------------
(* Refinement, when faults strike only at QuietPcs.                         *)

\* How the tables differ from the last commit, on which the abstract store depends.
PendingInv ==
  /\ pc = "insert" => Loaded(ChunksIn(committed.chunks))
  /\ pc = "renumber" => Moving = ChunksIn(committed.chunks)

LEMMA LoadStarts ==
  ASSUME TypeOK, CallInv, AlignedInv, pc' = "insert", d' = 1, p' = 1, batch' \in Seq(Document),
         committed = Committing(chunks, fts), UNCHANGED <<chunks, committed>>
  PROVE  Loaded(ChunksIn(committed.chunks))'
<1>1. ChunksIn(committed.chunks)' = ChunksIn(chunks)'
  BY DEF Committing
<1>2. \A k \in DOMAIN batch' : \A i \in DOMAIN batch'[k].text : ~Visited(k, i)'
  <2> TAKE k \in DOMAIN batch'
  <2>1. batch'[k] \in Document /\ k \in Nat \ {0}
    BY ElementOfSeq, LenProperties
  <2>2. DOMAIN batch'[k].text \subseteq Nat \ {0}
    BY <2>1, LenProperties DEF Document
  <2> QED BY <2>1, <2>2 DEF Visited
<1>3. Taken(ChunksIn(committed.chunks))' = {}
  BY <1>2 DEF Taken
<1> QED BY <1>1, <1>2, <1>3 DEF Loaded

LEMMA PendingStep ==
  ASSUME TypeOK, CallInv, RepairInv, AlignedInv, PendingInv, [Next]_vars
  PROVE  PendingInv'
<1> USE DEF tables, index, locals
<1>1. CASE pc' \notin {"insert", "renumber"}
  BY <1>1 DEF PendingInv
<1>2. ASSUME NEW b \in Batches, AddDocuments(b) PROVE PendingInv'
  <2>1. /\ pc = "idle" /\ pc' = "insert" /\ d' = 1 /\ p' = 1 /\ batch' \in Seq(Document)
        /\ UNCHANGED <<chunks, committed>>
    BY <1>2, BatchesAssumption DEF AddDocuments, Begin, CallInv
  <2> QED BY <2>1, LoadStarts DEF PendingInv, AlignedInv
<1>3. ASSUME NEW b, UpdateDocuments(b) \/ Rebuild PROVE PendingInv'
  BY <1>3, <1>1 DEF UpdateDocuments, Rebuild, Begin
<1>4. ASSUME NEW doc, NEW scope, DeleteDocument(doc, scope) PROVE PendingInv'
  BY <1>4, <1>1 DEF DeleteDocument
<1>5. CASE ClearDone
  <2>1. /\ pc = "clear" /\ pc' = "insert" /\ d' = 1 /\ p' = 1 /\ batch' \in Seq(Document)
        /\ UNCHANGED <<chunks, committed>>
    BY <1>5 DEF ClearDone, CallInv, TypeOK
  <2> QED BY <2>1, LoadStarts DEF PendingInv, AlignedInv
<1>6. CASE SkipExisting \/ InsertRow \/ NextDocument
  <2>1. pc = "insert" /\ pc' = "insert" /\ UNCHANGED committed
    BY <1>6 DEF SkipExisting, InsertRow, Uncommitted, NextDocument, AtPiece, Looping
  <2> PICK base : base = ChunksIn(committed.chunks)
    OBVIOUS
  <2>2. Loaded(base)'
    BY <1>6, <2>1, SkipLoads, InsertLoads, NextLoads DEF PendingInv
  <2>3. base = ChunksIn(committed.chunks)'
    BY <2>1
  <2> QED BY <2>1, <2>2, <2>3 DEF PendingInv, Loaded, Taken
<1>7. CASE ResetIndex
  <2>1. /\ pc = "reset" /\ pc' = "renumber" /\ UNCHANGED committed
        /\ Moving' = ChunksIn(chunks)
    BY <1>7, ResetMoves DEF ResetIndex
  <2>2. committed = Committing(chunks, fts)
    BY <2>1 DEF AlignedInv
  <2> QED BY <2>1, <2>2 DEF PendingInv, Committing
<1>8. CASE Reinsert
  <2>1. pc = "renumber" /\ pc' = pc /\ UNCHANGED committed /\ Moving' = Moving
    BY <1>8, ReinsertMoves DEF Reinsert
  <2> QED BY <2>1 DEF PendingInv
<1>9. CASE ClearDocument \/ CommitAdd \/ IndexAdd \/ CommitRebuild \/ Reindex
  BY <1>9, <1>1 DEF ClearDocument, CommitAdd, Reach, IndexAdd, CommitRebuild, Reindex
<1>10. CASE InsertCollides \/ SaveRebuild \/ EncodeRaises \/ IndexRaises \/ SaveRaises \/ Crash
            \/ ReturnZero \/ SaveAdd
  BY <1>10, <1>1 DEF InsertCollides, SaveRebuild, EncodeRaises, IndexRaises, SaveRaises, Crash,
                     ReturnZero, SaveAdd, FinishAdd, Leave
<1>11. CASE UNCHANGED vars
  BY <1>11 DEF vars, PendingInv, Loaded, Taken, Visited, Moving
<1> QED
  BY <1>2, <1>3, <1>4, <1>5, <1>6, <1>7, <1>8, <1>9, <1>10, <1>11 DEF Next, Call, DeleteNothing, Step, Fault

\* The instance has the operators of Chunks that the store itself has.
LEMMA SameOperators ==
  /\ \A doc, scope, c : Abs!Covers(doc, scope, c) <=> Covers(doc, scope, c)
  /\ \A b, s : Abs!Contribution(b, s) = Contribution(b, s)
BY DEF Covers, Abs!Covers, Contribution, Abs!Contribution, ChunkOf, Abs!ChunkOf,
       Id, Abs!Id, Ids, Abs!Ids

\* A step of the store is a step of the abstract one on what is committed, or none.
LEMMA StepImplements ==
  ASSUME TypeOK, CallInv, AlignedInv, PendingInv, [Next]_vars
  PROVE  [Abs!Next]_(ChunksIn(committed.chunks))
<1> USE DEF tables, index, locals
<1>1. CASE UNCHANGED committed
  BY <1>1
<1>2. ASSUME NEW doc \in Docs, NEW scope \in Tenants \cup {AnyTenant},
             Erase(RowsCovered(doc, scope)), pc \in {"idle", "clear"}
      PROVE  Abs!Remove(doc, scope)
  <2>1. ChunksIn(committed.chunks) = ChunksIn(chunks)
    BY <1>2 DEF AlignedInv, Committing
  <2>2. committed'.chunks = Cut(chunks, {r \in Rows(chunks) : Covers(doc, scope, chunks[r])})
    BY <1>2 DEF Erase, Committing, RowsCovered
  <2>3. ChunksIn(committed'.chunks) = {c \in ChunksIn(chunks) : ~Covers(doc, scope, c)}
    BY <2>2, ChunksOfCut DEF TypeOK
  <2> QED BY <2>1, <2>3, SameOperators DEF Abs!Remove
<1>3. ASSUME NEW doc \in Docs, NEW scope \in Tenants \cup {AnyTenant},
             DeleteDocument(doc, scope)
      PROVE  Abs!Next
  BY <1>2, <1>3 DEF DeleteDocument, Abs!Next
<1>4. CASE ClearDocument
  <2>1. CASE Erase(Replaced(batch[d]))
    <3>1. batch[d] \in Document /\ pc = "clear"
      BY <1>4, ElementOfSeq, LenProperties DEF ClearDocument, TypeOK
    <3>2. batch[d].doc \in Docs
      BY <3>1 DEF Document
    <3> QED BY <1>2, <2>1, <3>1, <3>2 DEF Replaced, Abs!Next
  <2> QED BY <1>1, <1>4, <2>1 DEF ClearDocument
<1>5. CASE CommitAdd
  <2>1. pc = "insert" /\ d \notin DOMAIN batch /\ committed'.chunks = chunks /\ batch \in Batches
    BY <1>5 DEF CommitAdd, Commit, Committing, CallInv
  <2>2. ChunksIn(chunks)
          = ChunksIn(committed.chunks) \cup Contribution(batch, ChunksIn(committed.chunks))
    BY <2>1, AllVisited DEF PendingInv, Loaded
  <2>3. Abs!Ingest(batch)
    BY <2>1, <2>2, SameOperators DEF Abs!Ingest
  <2> QED BY <2>1, <2>3 DEF Abs!Next
<1>6. CASE CommitRebuild
  <2>1. committed'.chunks = chunks /\ Moving = ChunksIn(chunks) /\ pc = "renumber"
    BY <1>6, CommitMoves DEF CommitRebuild, Commit, Committing
  <2> QED BY <2>1 DEF PendingInv
<1>7. ASSUME NEW b, AddDocuments(b) \/ UpdateDocuments(b) \/ Rebuild
      PROVE  UNCHANGED committed
  BY <1>7 DEF AddDocuments, UpdateDocuments, Rebuild
<1>8. CASE \/ SkipExisting \/ InsertRow \/ NextDocument \/ ClearDone \/ InsertCollides
           \/ EncodeRaises \/ IndexRaises \/ SaveRaises \/ SaveRebuild \/ ReturnZero
           \/ SaveAdd \/ IndexAdd \/ ResetIndex \/ Reinsert \/ Reindex \/ Crash
  BY <1>1, <1>8
  DEF SkipExisting, InsertRow, Uncommitted, NextDocument, ClearDone, InsertCollides, EncodeRaises,
      IndexRaises, SaveRaises, SaveRebuild, ReturnZero, SaveAdd, IndexAdd, ResetIndex,
      Reinsert, Reindex, Crash
<1>9. CASE UNCHANGED vars
  BY <1>1, <1>9 DEF vars
<1> QED
  BY <1>1, <1>3, <1>4, <1>5, <1>6, <1>7, <1>8, <1>9 DEF Next, Call, DeleteNothing, Step, Fault

\* ImplementsChunkStore: what is committed changes only by a whole batch or by the
\* removal of a document; compaction, saving, crashes and restarts do not show.
THEOREM ImplementsAbstractStore == FaultsAreQuiet => (Spec => ImplementsChunkStore)
<1> SUFFICES ASSUME FaultsAreQuiet PROVE Spec => ImplementsChunkStore
  OBVIOUS
<1>1. Init => Abs!Init
  BY NoRowsTable, ChunksOfNone DEF Init, Abs!Init, Committing
<1>2. Init => PendingInv
  BY DEF Init, PendingInv
<1>3. TypeOK /\ CallInv /\ RepairInv /\ AlignedInv /\ PendingInv /\ [Next]_vars => PendingInv'
  BY PendingStep
<1>4. TypeOK /\ CallInv /\ AlignedInv /\ PendingInv /\ [Next]_vars
        => [Abs!Next]_(ChunksIn(committed.chunks))
  BY StepImplements
<1>5. Spec => [](TypeOK /\ AlignedInv)
  BY AlignedInvariant
<1> QED
  BY <1>1, <1>2, <1>3, <1>4, <1>5, CallInvariant, RepairInvariant, PTL
  DEF Spec, ImplementsChunkStore, Abs!Spec

-----------------------------------------------------------------------------
(* What of an update is on disk when it is cut short.                       *)

\* The old chunks of a document, none, or the new ones.
NeverMixes ==
  op = "update" => \A k \in DOMAIN batch :
    ChunksOf(batch[k], ChunksIn(committed'.chunks)) \in
      {ChunksOf(batch[k], ChunksIn(committed.chunks)), {},
       ChunksOf(batch[k], Contribution(batch, {}))}

LEMMA NeverMixesStep ==
  ASSUME TypeOK, CallInv, AlignedInv, PendingInv, ReplaceInv, [Next]_vars
  PROVE  NeverMixes
<1> USE DEF tables, index, locals
<1>1. CASE ChunksIn(committed'.chunks) = ChunksIn(committed.chunks)
  BY <1>1 DEF NeverMixes
<1>2. CASE UNCHANGED committed
  BY <1>1, <1>2
<1>3. CASE pc = "idle"
  BY <1>3 DEF CallInv, NeverMixes
<1>4. CASE ClearDocument
  <2>1. pc = "clear" /\ (UNCHANGED committed \/ Erase(Replaced(batch[d])))
    BY <1>4 DEF ClearDocument
  <2>2. CASE Erase(Replaced(batch[d]))
    <3>1. committed'.chunks = Cut(chunks, Replaced(batch[d]))
      BY <2>2 DEF Erase, Committing
    <3>2. Replaced(batch[d]) = {r \in Rows(chunks) : Covers(batch[d].doc, AnyTenant, chunks[r])}
      BY DEF Replaced, RowsCovered
    <3>3. ChunksIn(committed'.chunks) = {c \in ChunksIn(chunks) : ~Covers(batch[d].doc, AnyTenant, c)}
      BY <3>1, <3>2, ChunksOfCut DEF TypeOK
    <3>4. ChunksIn(chunks) = ChunksIn(committed.chunks)
      BY <2>1 DEF AlignedInv, Committing
    <3>5. ASSUME NEW k \in DOMAIN batch, batch[k].doc = batch[d].doc
          PROVE  ChunksOf(batch[k], ChunksIn(committed'.chunks)) = {}
      BY <3>3, <3>5 DEF ChunksOf, Covers
    <3>6. ASSUME NEW k \in DOMAIN batch, batch[k].doc # batch[d].doc
          PROVE  ChunksOf(batch[k], ChunksIn(committed'.chunks))
                   = ChunksOf(batch[k], ChunksIn(committed.chunks))
      BY <3>3, <3>4, <3>6 DEF ChunksOf, Covers
    <3> QED BY <3>5, <3>6 DEF NeverMixes
  <2> QED BY <1>2, <2>1, <2>2
<1>5. CASE CommitAdd
  <2>1. pc = "insert" /\ d \notin DOMAIN batch /\ committed'.chunks = chunks
    BY <1>5 DEF CommitAdd, Commit, Committing
  <2>2. ASSUME op = "update", NEW k \in DOMAIN batch
        PROVE  ChunksOf(batch[k], ChunksIn(chunks)) = ChunksOf(batch[k], Contribution(batch, {}))
    BY <2>1, <2>2, LoadedReplaces, ChunksOfBatch
  <2> QED BY <2>1, <2>2 DEF NeverMixes
<1>6. CASE CommitRebuild
  <2>1. committed'.chunks = chunks /\ Moving = ChunksIn(chunks) /\ pc = "renumber"
    BY <1>6, CommitMoves DEF CommitRebuild, Commit, Committing
  <2> QED BY <1>1, <2>1 DEF PendingInv
<1>7. ASSUME NEW doc, NEW scope, NEW b,
             DeleteDocument(doc, scope) \/ AddDocuments(b) \/ UpdateDocuments(b) \/ Rebuild
      PROVE  NeverMixes
  BY <1>3, <1>7 DEF DeleteDocument, AddDocuments, UpdateDocuments, Rebuild, Begin
<1>8. CASE \/ SkipExisting \/ InsertRow \/ NextDocument \/ ClearDone \/ InsertCollides
           \/ EncodeRaises \/ IndexRaises \/ SaveRaises \/ SaveRebuild \/ ReturnZero
           \/ SaveAdd \/ IndexAdd \/ ResetIndex \/ Reinsert \/ Reindex \/ Crash
  BY <1>2, <1>8
  DEF SkipExisting, InsertRow, Uncommitted, NextDocument, ClearDone, InsertCollides,
      EncodeRaises, IndexRaises, SaveRaises, SaveRebuild, ReturnZero, SaveAdd, IndexAdd,
      ResetIndex, Reinsert, Reindex, Crash
<1>9. CASE UNCHANGED vars
  BY <1>2, <1>9 DEF vars
<1> QED
  BY <1>4, <1>5, <1>6, <1>7, <1>8, <1>9 DEF Next, Call, DeleteNothing, Step, Fault

\* UpdateNeverMixes: when faults strike only where nothing is committed but not indexed,
\* update_documents() takes each document of its batch on disk from its old chunks to
\* none and from none to all of the new ones, wherever a crash or the embedder stops it.
THEOREM UpdatesNeverMix == FaultsAreQuiet => (Spec => UpdateNeverMixes)
<1> SUFFICES ASSUME FaultsAreQuiet PROVE Spec => UpdateNeverMixes
  OBVIOUS
<1>1. Init => PendingInv /\ ReplaceInv
  BY DEF Init, PendingInv, ReplaceInv
<1>2. TypeOK /\ CallInv /\ RepairInv /\ AlignedInv /\ PendingInv /\ [Next]_vars => PendingInv'
  BY PendingStep
<1>3. TypeOK /\ CallInv /\ RepairInv /\ ReplaceInv /\ [Next]_vars => ReplaceInv'
  BY ReplaceStep
<1>4. TypeOK /\ CallInv /\ AlignedInv /\ PendingInv /\ ReplaceInv /\ [Next]_vars => [NeverMixes]_vars
  BY NeverMixesStep
<1>5. [][NeverMixes]_vars => UpdateNeverMixes
  BY DEF NeverMixes, UpdateNeverMixes
<1>6. Spec => [](TypeOK /\ AlignedInv)
  BY AlignedInvariant
<1> QED
  BY <1>1, <1>2, <1>3, <1>4, <1>5, <1>6, CallInvariant, RepairInvariant, PTL DEF Spec
=============================================================================
