------------------------- MODULE VectorStoreProofs --------------------------
(***************************************************************************)
(* Theorems about VectorStore, for every value of its constants.           *)
(***************************************************************************)
EXTENDS VectorStore, TLAPS

(* The helpers on tables. *)

LEMMA NoRowsTable == IsTable(NoRows) /\ Rows(NoRows) = {}
BY DEF IsTable, NoRows, Rows

LEMMA CutTable ==
  ASSUME NEW t, IsTable(t), NEW rows
  PROVE  /\ IsTable(Cut(t, rows))
         /\ Rows(Cut(t, rows)) = Rows(t) \ rows
         /\ \A r \in Rows(t) \ rows : Cut(t, rows)[r] = t[r]
BY DEF IsTable, Cut, Rows

LEMMA WithTable ==
  ASSUME NEW t, IsTable(t), NEW r \in Nat, NEW c \in Chunk
  PROVE  /\ IsTable(With(t, r, c))
         /\ Rows(With(t, r, c)) = Rows(t) \cup {r}
         /\ With(t, r, c)[r] = c
         /\ \A s \in Rows(t) : s # r => With(t, r, c)[s] = t[s]
BY DEF IsTable, With, Rows

LEMMA TableEntry ==
  ASSUME NEW t, IsTable(t), NEW r \in Rows(t)
  PROVE  r \in Nat /\ t[r] \in Chunk /\ t[r].text \in Pieces
BY DEF IsTable, Chunk

\* The chunk the loop is at is a chunk.
LEMMA ThisChunkType ==
  ASSUME TypeOK, AtPiece
  PROVE  ThisChunk \in Chunk /\ ThisChunk.text \in Pieces
<1>1. batch[d] \in Document
  BY DEF TypeOK, AtPiece, Looping
<1>2. batch[d].text \in Seq(Pieces) /\ batch[d].doc \in Docs /\ batch[d].tenant \in Tenants
  BY <1>1 DEF Document
<1>3. batch[d].text[p] \in Pieces /\ p \in Nat
  BY <1>2 DEF TypeOK, AtPiece
<1> QED
  BY <1>2, <1>3 DEF ThisChunk, ChunkOf, Chunk

LEMMA NextRowType ==
  ASSUME TypeOK
  PROVE  NextRow \in Nat
BY DEF TypeOK, NextRow

LEMMA EraseType ==
  ASSUME TypeOK, NEW rows, Erase(rows)
  PROVE  /\ IsTable(chunks') /\ IsText(fts')
         /\ committed' = Committing(committed'.chunks, committed'.fts)
         /\ committed'.chunks = chunks' /\ committed'.fts = fts'
<1>1. IsTable(chunks')
  BY CutTable DEF TypeOK, Erase
<1>2. IsText(fts')
  BY DEF TypeOK, Erase, TextWithout, IsText
<1> QED
  BY <1>1, <1>2 DEF Erase, Committing

LEMMA LeaveType ==
  ASSUME Leave
  PROVE  /\ pc' \in Pcs /\ op' \in Ops /\ batch' \in Seq(Document)
         /\ d' \in Nat \ {0} /\ p' \in Nat \ {0} /\ added' \in Seq(Pieces)
         /\ IsTable(todo')
BY NoRowsTable DEF Leave, Pcs, Ops

LEMMA FinishAddType ==
  ASSUME TypeOK, FinishAdd
  PROVE  /\ pc' \in Pcs /\ op' \in Ops /\ batch' \in Seq(Document)
         /\ d' \in Nat \ {0} /\ p' \in Nat \ {0} /\ added' \in Seq(Pieces)
         /\ IsTable(todo')
<1>1. CASE Leave
  BY <1>1, LeaveType
<1>2. CASE pc' = "reset" /\ added' = <<>> /\ UNCHANGED <<op, batch, d, p, todo>>
  BY <1>2 DEF TypeOK, Pcs
<1> QED BY <1>1, <1>2 DEF FinishAdd

-----------------------------------------------------------------------------
\* Every state the store reaches is well typed, whatever crashes and raises.
THEOREM Typing == Spec => []TypeOK
<1>1. Init => TypeOK
  BY NoRowsTable DEF Init, TypeOK, IsText, Committing, Pcs, Ops
<1>2. TypeOK /\ [Next]_vars => TypeOK'
  <2> SUFFICES ASSUME TypeOK, [Next]_vars PROVE TypeOK'
    OBVIOUS
  <2> USE DEF tables, index, locals
  <2>1. ASSUME NEW b \in Batches, AddDocuments(b) PROVE TypeOK'
    BY <2>1, BatchesAssumption DEF TypeOK, AddDocuments, Begin, Pcs, Ops
  <2>2. ASSUME NEW b \in Batches, UpdateDocuments(b) PROVE TypeOK'
    BY <2>2, BatchesAssumption DEF TypeOK, UpdateDocuments, Begin, Pcs, Ops
  <2>3. ASSUME NEW doc, NEW scope, DeleteDocument(doc, scope) PROVE TypeOK'
    <3>1. Erase(RowsCovered(doc, scope)) BY <2>3 DEF DeleteDocument
    <3> QED BY <2>3, <3>1, EraseType DEF TypeOK, DeleteDocument, Pcs, Ops
  <2>4. CASE Rebuild
    BY <2>4 DEF TypeOK, Rebuild, Begin, Pcs, Ops
  <2>5. CASE SkipExisting
    BY <2>5 DEF TypeOK, SkipExisting
  <2>6. CASE InsertRow
    <3>1. AtPiece BY <2>6 DEF InsertRow, Uncommitted
    <3>2. IsTable(chunks')
      BY <2>6, <3>1, ThisChunkType, NextRowType, WithTable DEF TypeOK, InsertRow, Uncommitted
    <3>3. IsText(fts')
      BY <2>6, <3>1, ThisChunkType, NextRowType DEF TypeOK, InsertRow, IsText
    <3>4. added' \in Seq(Pieces)
      BY <2>6, <3>1, ThisChunkType DEF TypeOK, InsertRow, Uncommitted
    <3> QED BY <2>6, <3>2, <3>3, <3>4 DEF TypeOK, InsertRow, Uncommitted
  <2>7. CASE InsertCollides
    BY <2>7, LeaveType DEF TypeOK, InsertCollides
  <2>8. CASE NextDocument
    BY <2>8 DEF TypeOK, NextDocument
  <2>9. CASE ReturnZero
    BY <2>9, FinishAddType DEF TypeOK, ReturnZero
  <2>10. CASE CommitAdd
    BY <2>10 DEF TypeOK, CommitAdd, Commit, Reach, Committing, Pcs
  <2>11. CASE IndexAdd
    BY <2>11 DEF TypeOK, IndexAdd, Extended, Pcs
  <2>12. CASE SaveAdd
    BY <2>12, FinishAddType DEF TypeOK, SaveAdd, Saving
  <2>13. CASE ClearDocument
    <3>1. CASE Erase(Replaced(batch[d]))
      BY <2>13, <3>1, EraseType DEF TypeOK, ClearDocument
    <3>2. CASE UNCHANGED tables
      BY <2>13, <3>2 DEF TypeOK, ClearDocument
    <3> QED BY <2>13, <3>1, <3>2 DEF ClearDocument
  <2>14. CASE ClearDone
    BY <2>14 DEF TypeOK, ClearDone, Pcs
  <2>15. CASE ResetIndex
    BY <2>15, NoRowsTable DEF TypeOK, ResetIndex, NoVectors, IsText, Pcs
  <2>16. CASE Reinsert
    <3> PICK r \in Rows(todo) :
           /\ chunks' = With(chunks, Len(added), todo[r])
           /\ fts' = fts \cup {<<Len(added), todo[r].text>>}
           /\ added' = Append(added, todo[r].text)
           /\ todo' = Cut(todo, {r})
      BY <2>16 DEF Reinsert
    <3>1. todo[r] \in Chunk /\ todo[r].text \in Pieces /\ Len(added) \in Nat
      BY TableEntry DEF TypeOK
    <3>2. IsTable(chunks') /\ IsTable(todo')
      BY <3>1, WithTable, CutTable DEF TypeOK
    <3>3. IsText(fts') /\ added' \in Seq(Pieces)
      BY <3>1 DEF TypeOK, IsText
    <3> QED BY <2>16, <3>2, <3>3 DEF TypeOK, Reinsert
  <2>17. CASE CommitRebuild
    BY <2>17, NoRowsTable DEF TypeOK, CommitRebuild, Commit, Committing, Pcs
  <2>18. CASE Reindex
    BY <2>18 DEF TypeOK, Reindex, Extended, Pcs
  <2>19. CASE SaveRebuild
    BY <2>19, LeaveType DEF TypeOK, SaveRebuild, Saving
  <2>20. CASE EncodeRaises \/ IndexRaises \/ SaveRaises
    BY <2>20, LeaveType DEF TypeOK, EncodeRaises, IndexRaises, SaveRaises
  <2>21. CASE Crash
    BY <2>21, LeaveType DEF TypeOK, Crash, Reloaded
  <2>22. CASE UNCHANGED vars
    BY <2>22 DEF TypeOK, vars
  <2> QED
    BY <2>1, <2>2, <2>3, <2>4, <2>5, <2>6, <2>7, <2>8, <2>9, <2>10, <2>11,
       <2>12, <2>13, <2>14, <2>15, <2>16, <2>17, <2>18, <2>19, <2>20, <2>21,
       <2>22 DEF Next, Call, DeleteNothing, Step, Fault
<1> QED
  BY <1>1, <1>2, PTL DEF Spec

-----------------------------------------------------------------------------
(* Rows and vectors.                                                       *)

LEMMA OwnPrefix ==
  ASSUME NEW t, IsTable(t), NEW v \in Seq(Pieces), NEW w \in Seq(Pieces),
         OwnVector(t, v \o w)
  PROVE  OwnVector(t, v)
BY DEF OwnVector, IsTable, Rows

LEMMA OwnAppend ==
  ASSUME NEW t, IsTable(t), NEW v \in Seq(Pieces), NEW w \in Seq(Pieces),
         OwnVector(t, v \o w), NEW c \in Chunk
  PROVE  OwnVector(With(t, Len(v) + Len(w), c), v \o Append(w, c.text))
<1> DEFINE row == Len(v) + Len(w)
           all == v \o Append(w, c.text)
<1>1. c.text \in Pieces /\ row \in Nat
  BY DEF Chunk
<1>2. /\ Rows(With(t, row, c)) = Rows(t) \cup {row}
      /\ With(t, row, c)[row] = c
      /\ \A s \in Rows(t) : s # row => With(t, row, c)[s] = t[s]
  BY <1>1, WithTable
<1>3. all[row + 1] = c.text /\ Len(all) = row + 1
  BY <1>1
<1>4. \A s \in Rows(t) : s < row => all[s + 1] = t[s].text
  BY <1>1 DEF OwnVector, IsTable, Rows
<1>5. \A s \in Rows(t) : s \in Nat
  BY DEF IsTable
<1> HIDE DEF all, row
<1>6. ASSUME NEW r \in Rows(With(t, row, c)), r < Len(all)
      PROVE  all[r + 1] = With(t, row, c)[r].text
  <2>1. CASE r = row
    BY <2>1, <1>2, <1>3
  <2>2. CASE r # row
    <3>1. r \in Rows(t) /\ r \in Nat /\ r < row
      BY <2>2, <1>1, <1>2, <1>3, <1>5, <1>6
    <3> QED BY <2>2, <3>1, <1>2, <1>4
  <2> QED BY <2>1, <2>2
<1>7. OwnVector(With(t, row, c), all)
  BY <1>6 DEF OwnVector
<1> QED
  BY <1>7 DEF all, row

LEMMA HasAppend ==
  ASSUME NEW t, IsTable(t), NEW v \in Seq(Pieces), NEW w \in Seq(Pieces),
         HasVector(t, v \o w), NEW c \in Chunk
  PROVE  HasVector(With(t, Len(v) + Len(w), c), v \o Append(w, c.text))
<1>1. c.text \in Pieces /\ Len(v) + Len(w) \in Nat
  BY DEF Chunk
<1>2. Rows(With(t, Len(v) + Len(w), c)) = Rows(t) \cup {Len(v) + Len(w)}
  BY <1>1, WithTable
<1> QED
  BY <1>1, <1>2 DEF HasVector, IsTable

LEMMA VectorCut ==
  ASSUME NEW t, IsTable(t), NEW v, NEW rows
  PROVE  /\ OwnVector(t, v) => OwnVector(Cut(t, rows), v)
         /\ HasVector(t, v) => HasVector(Cut(t, rows), v)
BY CutTable DEF OwnVector, HasVector

LEMMA VectorNoRows ==
  ASSUME NEW v
  PROVE  OwnVector(NoRows, v) /\ HasVector(NoRows, v)
BY NoRowsTable DEF OwnVector, HasVector

\* A durable backend never serves a chunk under another chunk's vector, with a
\* crash or a raise anywhere.  The invariant speaks of the vectors the running
\* call has yet to write, and of what a crash would leave.
ForeignInv ==
  /\ OwnVector(chunks, vindex \o added)
  /\ OwnVector(committed.chunks, vindex)
  /\ pc \in {"index", "reindex"} => committed.chunks = chunks
  /\ pc \in {"renumber", "reindex"} => vindex = <<>>
  /\ pc \notin {"insert", "index", "renumber", "reindex"} => added = <<>>

\* What the end of a call leaves behind.
LEMMA LeaveForeign ==
  ASSUME TypeOK, ForeignInv, Leave, UNCHANGED <<chunks, committed, vindex>>
  PROVE  ForeignInv'
<1>1. OwnVector(chunks, vindex)
  BY OwnPrefix DEF TypeOK, ForeignInv
<1>2. vindex \o <<>> = vindex
  BY DEF TypeOK
<1> QED
  BY <1>1, <1>2 DEF Leave, ForeignInv, OwnVector

LEMMA FinishAddForeign ==
  ASSUME TypeOK, ForeignInv, FinishAdd, UNCHANGED <<chunks, committed, vindex>>
  PROVE  ForeignInv'
<1>1. CASE Leave
  BY <1>1, LeaveForeign
<1>2. CASE pc' = "reset" /\ added' = <<>>
  <2>1. OwnVector(chunks, vindex)
    BY OwnPrefix DEF TypeOK, ForeignInv
  <2>2. vindex \o <<>> = vindex
    BY DEF TypeOK
  <2> QED
    BY <1>2, <2>1, <2>2 DEF ForeignInv, OwnVector
<1> QED BY <1>1, <1>2 DEF FinishAdd

LEMMA EraseForeign ==
  ASSUME TypeOK, ForeignInv, NEW rows, Erase(rows), pc \in {"idle", "clear"},
         UNCHANGED <<vindex, added>>, pc' \in {"idle", "clear", "reset"}
  PROVE  ForeignInv'
<1>1. vindex \o added = vindex
  BY DEF TypeOK, ForeignInv
<1>2. chunks' = Cut(chunks, rows) /\ committed'.chunks = chunks'
  BY DEF Erase, Committing
<1>3. OwnVector(chunks', vindex)
  BY <1>1, <1>2, VectorCut DEF TypeOK, ForeignInv
<1>4. OwnVector(chunks', vindex \o added)
  BY <1>3, <1>1
<1> QED
  BY <1>2, <1>3, <1>4 DEF ForeignInv, OwnVector

\* Every step, over either kind of backend: only a crash needs Persists.
LEMMA ForeignStep ==
  ASSUME TypeOK, ForeignInv, [Next]_vars, Persists
  PROVE  ForeignInv'
<1> USE DEF tables, index, locals
<1>1. CASE UNCHANGED <<chunks, committed, vindex, added>> /\ pc' \notin {"index", "renumber", "reindex"}
           /\ (pc' = "insert" \/ added = <<>>)
  BY <1>1 DEF ForeignInv, OwnVector
<1>2. ASSUME NEW b, AddDocuments(b) \/ UpdateDocuments(b) \/ Rebuild PROVE ForeignInv'
  BY <1>2, <1>1 DEF AddDocuments, UpdateDocuments, Rebuild, Begin, ForeignInv
<1>3. ASSUME NEW doc, NEW scope, DeleteDocument(doc, scope) PROVE ForeignInv'
  BY <1>3, EraseForeign DEF DeleteDocument
<1>4. CASE SkipExisting \/ NextDocument \/ ClearDone
  BY <1>4, <1>1 DEF SkipExisting, NextDocument, ClearDone, AtPiece, Looping
<1>5. CASE InsertRow
  <2>1. AtPiece /\ pc = "insert" BY <1>5 DEF InsertRow, Uncommitted, AtPiece, Looping
  <2>2. OwnVector(chunks', vindex \o added')
    BY <1>5, <2>1, ThisChunkType, OwnAppend DEF InsertRow, Uncommitted, NextRow, TypeOK, ForeignInv
  <2> QED
    BY <1>5, <2>1, <2>2 DEF InsertRow, Uncommitted, ForeignInv, OwnVector
<1>6. CASE InsertCollides \/ EncodeRaises \/ IndexRaises \/ SaveRaises \/ SaveRebuild
  BY <1>6, LeaveForeign
  DEF InsertCollides, EncodeRaises, IndexRaises, SaveRaises, SaveRebuild
<1>7. CASE ReturnZero \/ SaveAdd
  BY <1>7, FinishAddForeign DEF ReturnZero, SaveAdd
<1>8. CASE CommitAdd
  <2>1. OwnVector(chunks, vindex)
    BY OwnPrefix DEF TypeOK, ForeignInv
  <2> QED
    BY <1>8, <2>1 DEF CommitAdd, Commit, Committing, Reach, ForeignInv, OwnVector
<1>9. CASE IndexAdd \/ Reindex
  <2>1. vindex' = vindex \o added /\ added' = <<>> /\ pc' \in {"save", "resave"}
    BY <1>9 DEF IndexAdd, Reindex, Extended
  <2>2. vindex' \o added' = vindex'
    BY <2>1 DEF TypeOK
  <2>3. committed'.chunks = chunks /\ chunks' = chunks
    BY <1>9 DEF IndexAdd, Reindex, ForeignInv
  <2> QED
    BY <2>1, <2>2, <2>3 DEF ForeignInv, OwnVector
<1>10. CASE ClearDocument
  <2>1. CASE Erase(Replaced(batch[d]))
    BY <1>10, <2>1, EraseForeign DEF ClearDocument
  <2>2. CASE UNCHANGED tables
    BY <1>10, <2>2, <1>1 DEF ClearDocument, ForeignInv
  <2> QED BY <1>10, <2>1, <2>2 DEF ClearDocument
<1>11. CASE ResetIndex
  <2>1. committed' = committed /\ vindex' = <<>> /\ chunks' = NoRows
        /\ pc' = "renumber" /\ added' = added
    BY <1>11 DEF ResetIndex, NoVectors
  <2>2. OwnVector(committed.chunks, <<>>)
    BY DEF OwnVector, TypeOK, IsTable
  <2> QED
    BY <2>1, <2>2, VectorNoRows DEF ForeignInv
<1>12. CASE Reinsert
  <2> PICK r \in Rows(todo) :
         /\ chunks' = With(chunks, Len(added), todo[r])
         /\ added' = Append(added, todo[r].text)
    BY <1>12 DEF Reinsert
  <2>1. vindex = <<>> /\ pc = "renumber" /\ pc' = pc /\ vindex' = vindex
        /\ committed' = committed
    BY <1>12 DEF Reinsert, ForeignInv
  <2>2. Len(vindex) + Len(added) = Len(added)
    BY <2>1 DEF TypeOK
  <2>3. OwnVector(chunks', vindex \o added')
    BY <2>2, TableEntry, OwnAppend DEF TypeOK, ForeignInv
  <2> QED
    BY <2>1, <2>3 DEF ForeignInv, OwnVector
<1>13. CASE CommitRebuild
  <2>1. OwnVector(chunks, vindex)
    BY OwnPrefix DEF TypeOK, ForeignInv
  <2> QED
    BY <1>13, <2>1 DEF CommitRebuild, Commit, Committing, ForeignInv, OwnVector
<1>14. CASE Crash
  <2>1. chunks' = committed.chunks /\ vindex' = vindex /\ added' = <<>>
        /\ committed' = committed /\ pc' = "idle"
    BY <1>14 DEF Crash, Reloaded, Leave
  <2>2. vindex \o <<>> = vindex
    BY DEF TypeOK
  <2> QED
    BY <2>1, <2>2 DEF ForeignInv, OwnVector
<1>15. CASE UNCHANGED vars
  BY <1>15 DEF vars, ForeignInv, OwnVector
<1> QED
  BY <1>2, <1>3, <1>4, <1>5, <1>6, <1>7, <1>8, <1>9, <1>10, <1>11, <1>12,
     <1>13, <1>14, <1>15 DEF Next, Call, DeleteNothing, Step, Fault

\* NoForeignVector, for a store over a durable backend (pgvector, qdrant).
THEOREM DurableNoForeignVector == Persists => (Spec => []NoForeignVector)
<1> SUFFICES ASSUME Persists PROVE Spec => []NoForeignVector
  OBVIOUS
<1>1. Init => ForeignInv
  BY VectorNoRows DEF Init, ForeignInv, Committing
<1>2. TypeOK /\ ForeignInv /\ [Next]_vars => ForeignInv'
  BY ForeignStep
<1>3. TypeOK /\ ForeignInv => NoForeignVector
  BY OwnPrefix DEF TypeOK, ForeignInv, NoForeignVector
<1> QED
  BY <1>1, <1>2, <1>3, Typing, PTL DEF Spec

-----------------------------------------------------------------------------
(* Both stores in step, when faults strike only at QuietPcs.               *)

Fits(t, v) == HasVector(t, v) /\ OwnVector(t, v)

LEMMA FitsFacts ==
  /\ \A v : Fits(NoRows, v)
  /\ \A t, v, rows : IsTable(t) /\ Fits(t, v) => Fits(Cut(t, rows), v)
BY VectorNoRows, VectorCut DEF Fits

\* The connection, the last commit and what a restart would load.
AlignedInv ==
  /\ Fits(chunks, vindex \o added)
  /\ pc \notin {"insert", "renumber"} => committed = Committing(chunks, fts)
  /\ pc = "insert" /\ added = <<>> => committed = Committing(chunks, fts)
  /\ pc \in QuietPcs => Fits(committed.chunks, Reloaded)
  /\ pc \notin {"insert", "index", "renumber", "reindex"} => added = <<>>
  /\ pc \in {"renumber", "reindex"} => vindex = <<>>

LEMMA AlignedAppend ==
  ASSUME NEW t, IsTable(t), NEW v \in Seq(Pieces), NEW w \in Seq(Pieces),
         Fits(t, v \o w), NEW c \in Chunk
  PROVE  Fits(With(t, Len(v) + Len(w), c), v \o Append(w, c.text))
BY OwnAppend, HasAppend DEF Fits

\* A call that ends with nothing left to write.
LEMMA LeaveAligned ==
  ASSUME TypeOK, AlignedInv, added = <<>>, committed = Committing(chunks, fts),
         Leave \/ (pc' = "reset" /\ added' = <<>>),
         UNCHANGED <<chunks, fts, committed, vindex>>,
         Fits(chunks, Reloaded')
  PROVE  AlignedInv'
BY DEF AlignedInv, Leave, Fits, HasVector, OwnVector, Committing, Reloaded, QuietPcs

LEMMA EraseAligned ==
  ASSUME TypeOK, AlignedInv, NEW rows, Erase(rows), pc \in {"idle", "clear"},
         UNCHANGED <<vindex, saved, added>>, pc' \in {"idle", "clear", "reset"}
  PROVE  AlignedInv'
<1>1. chunks' = Cut(chunks, rows) /\ committed' = Committing(chunks', fts')
  BY DEF Erase
<1>2. committed = Committing(chunks, fts) /\ pc \in QuietPcs
  BY DEF AlignedInv, QuietPcs
<1>3. Fits(chunks, Reloaded) /\ Fits(chunks, vindex \o added)
  BY <1>2 DEF AlignedInv, Committing
<1>4. Fits(chunks', Reloaded) /\ Fits(chunks', vindex \o added)
  BY <1>1, <1>3, FitsFacts DEF TypeOK
<1> QED
  BY <1>1, <1>4 DEF AlignedInv, Committing, Reloaded, Fits, HasVector, OwnVector

LEMMA AlignedStep ==
  ASSUME TypeOK, AlignedInv, [Next]_vars, FaultsAreQuiet
  PROVE  AlignedInv'
<1> USE DEF tables, index, locals
<1>0. vindex \o <<>> = vindex
  BY DEF TypeOK
<1>1. CASE /\ UNCHANGED <<chunks, fts, committed, vindex, saved, added>>
           /\ \/ pc' = pc
              \/ pc' \in {"insert", "reset", "clear"} /\ pc \in {"idle", "clear"}
  BY <1>1 DEF AlignedInv, Fits, HasVector, OwnVector, Reloaded, QuietPcs
<1>2. ASSUME NEW b, AddDocuments(b) \/ UpdateDocuments(b) \/ Rebuild PROVE AlignedInv'
  BY <1>2, <1>1 DEF AddDocuments, UpdateDocuments, Rebuild, Begin
<1>3. ASSUME NEW doc, NEW scope, DeleteDocument(doc, scope) PROVE AlignedInv'
  BY <1>3, EraseAligned DEF DeleteDocument
<1>4. CASE SkipExisting \/ NextDocument \/ ClearDone
  BY <1>4, <1>1 DEF SkipExisting, NextDocument, ClearDone
<1>5. CASE InsertRow
  <2>1. AtPiece /\ pc = "insert" /\ pc' = "insert" /\ added' = Append(added, ThisChunk.text)
        /\ UNCHANGED <<committed, vindex, saved>>
    BY <1>5 DEF InsertRow, Uncommitted, AtPiece, Looping
  <2>2. Fits(chunks', vindex \o added')
    BY <1>5, <2>1, ThisChunkType, AlignedAppend DEF InsertRow, Uncommitted, NextRow, TypeOK, AlignedInv
  <2>3. added' # <<>>
    BY <2>1 DEF TypeOK
  <2> QED
    BY <2>1, <2>2, <2>3
    DEF AlignedInv, Fits, HasVector, OwnVector, Reloaded, QuietPcs
<1>6. CASE InsertCollides
  <2>1. NextRow \in Rows(chunks) /\ NextRow < Len(vindex \o added)
    BY <1>6 DEF InsertCollides, AlignedInv, Fits, HasVector
  <2> QED BY <2>1 DEF NextRow, TypeOK
<1>7. CASE ReturnZero \/ EncodeRaises
  <2>1. pc = "insert" /\ added = <<>> /\ committed = Committing(chunks, fts)
        /\ pc \in QuietPcs
    BY <1>7 DEF ReturnZero, EncodeRaises, AlignedInv, QuietPcs, AtPiece, Looping
  <2>2. Fits(chunks, Reloaded)
    BY <2>1 DEF AlignedInv, Committing
  <2>3. Reloaded' = Reloaded
    BY <1>7 DEF ReturnZero, EncodeRaises, Reloaded
  <2> QED
    BY <1>7, <2>1, <2>2, <2>3, LeaveAligned DEF ReturnZero, EncodeRaises, FinishAdd
<1>8. CASE SaveAdd \/ SaveRebuild
  <2>1. pc \in {"save", "resave"} /\ added = <<>> /\ committed = Committing(chunks, fts)
    BY <1>8 DEF SaveAdd, SaveRebuild, AlignedInv
  <2>2. Fits(chunks, vindex)
    BY <2>1, <1>0 DEF AlignedInv
  <2>3. Reloaded' = vindex \/ vindex = <<>>
    BY <1>8 DEF SaveAdd, SaveRebuild, Saving, Reloaded
  <2>4. vindex = <<>> => Rows(chunks) = {}
    BY <2>2 DEF Fits, HasVector, TypeOK, IsTable
  <2>5. Fits(chunks, Reloaded')
    BY <2>2, <2>3, <2>4 DEF Fits, HasVector, OwnVector
  <2> QED
    BY <1>8, <2>1, <2>5, LeaveAligned DEF SaveAdd, SaveRebuild, FinishAdd
<1>9. CASE CommitAdd \/ CommitRebuild
  BY <1>9 DEF CommitAdd, CommitRebuild, Commit, Committing, Reach, AlignedInv, Fits,
              HasVector, OwnVector, QuietPcs
<1>10. CASE IndexAdd \/ Reindex
  <2>1. vindex' = vindex \o added /\ added' = <<>> /\ pc' \in {"save", "resave"}
        /\ pc \in {"index", "reindex"} /\ UNCHANGED <<chunks, fts, committed>>
    BY <1>10 DEF IndexAdd, Reindex, Extended
  <2>2. vindex' \o added' = vindex'
    BY <2>1 DEF TypeOK
  <2> QED
    BY <2>1, <2>2 DEF AlignedInv, Fits, HasVector, OwnVector, Committing, QuietPcs
<1>11. CASE ClearDocument
  <2>1. CASE Erase(Replaced(batch[d]))
    BY <1>11, <2>1, EraseAligned DEF ClearDocument
  <2>2. CASE UNCHANGED tables
    BY <1>11, <2>2, <1>1 DEF ClearDocument
  <2> QED BY <1>11, <2>1, <2>2 DEF ClearDocument
<1>12. CASE ResetIndex
  <2>1. /\ vindex' = <<>> /\ chunks' = NoRows /\ pc' = "renumber" /\ pc = "reset"
        /\ UNCHANGED <<committed, saved, added>>
    BY <1>12 DEF ResetIndex, NoVectors
  <2>2. Fits(chunks', vindex' \o added')
    BY <2>1, FitsFacts
  <2>3. Persists \/ Reloaded' = Reloaded
    BY <2>1, PersistAssumption DEF Reloaded
  <2>4. "renumber" \in QuietPcs => ~Persists
    BY DEF QuietPcs
  <2>5. Fits(committed.chunks, Reloaded)
    BY <2>1 DEF AlignedInv, QuietPcs
  <2>6. pc' \in QuietPcs => Fits(committed'.chunks, Reloaded')
    BY <2>1, <2>3, <2>4, <2>5
  <2> QED
    BY <2>1, <2>2, <2>6 DEF AlignedInv, Fits, HasVector, OwnVector, QuietPcs
<1>13. CASE Reinsert
  <2> PICK r \in Rows(todo) :
         /\ chunks' = With(chunks, Len(added), todo[r])
         /\ added' = Append(added, todo[r].text)
    BY <1>13 DEF Reinsert
  <2>1. /\ vindex = <<>> /\ pc = "renumber" /\ pc' = pc
        /\ UNCHANGED <<committed, vindex, saved>>
    BY <1>13 DEF Reinsert, AlignedInv
  <2>2. Len(vindex) + Len(added) = Len(added)
    BY <2>1 DEF TypeOK
  <2>3. Fits(chunks', vindex \o added')
    BY <2>2, TableEntry, AlignedAppend DEF TypeOK, AlignedInv
  <2> QED
    BY <2>1, <2>3 DEF AlignedInv, Fits, HasVector, OwnVector, Reloaded, QuietPcs
<1>14. CASE Crash
  <2>1. /\ pc \in QuietPcs /\ pc' = "idle" /\ added' = <<>>
        /\ chunks' = committed.chunks /\ fts' = committed.fts
        /\ vindex' = Reloaded /\ UNCHANGED <<committed, saved>>
    BY <1>14 DEF Crash, Leave, FaultsAreQuiet
  <2>2. Fits(chunks', vindex') /\ Reloaded' = Reloaded
    BY <2>1 DEF AlignedInv, Reloaded
  <2>3. vindex' \o added' = vindex'
    BY <2>1 DEF TypeOK, Reloaded
  <2>4. committed' = Committing(chunks', fts')
    BY <2>1 DEF TypeOK, Committing
  <2> QED
    BY <2>1, <2>2, <2>3, <2>4 DEF AlignedInv, Fits, HasVector, OwnVector
<1>15. CASE IndexRaises \/ SaveRaises
  BY <1>15 DEF IndexRaises, SaveRaises, FaultsAreQuiet
<1>16. CASE UNCHANGED vars
  BY <1>16, <1>1 DEF vars
<1> QED
  BY <1>2, <1>3, <1>4, <1>5, <1>6, <1>7, <1>8, <1>9, <1>10, <1>11, <1>12,
     <1>13, <1>14, <1>15, <1>16 DEF Next, Call, DeleteNothing, Step, Fault

LEMMA AlignedInvariant == FaultsAreQuiet => (Spec => [](TypeOK /\ AlignedInv))
<1> SUFFICES ASSUME FaultsAreQuiet PROVE Spec => [](TypeOK /\ AlignedInv)
  OBVIOUS
<1>1. Init => AlignedInv
  BY FitsFacts DEF Init, AlignedInv, Committing, Reloaded
<1>2. TypeOK /\ AlignedInv /\ [Next]_vars => AlignedInv'
  BY AlignedStep
<1> QED
  BY <1>1, <1>2, Typing, PTL DEF Spec

\* Aligned: between calls every chunk has a vector, at its own row.
THEOREM QuietAligned == FaultsAreQuiet => (Spec => []Aligned)
<1>1. TypeOK /\ AlignedInv => Aligned
  BY DEF TypeOK, AlignedInv, Aligned, Fits
<1> QED
  BY <1>1, AlignedInvariant, PTL

\* NoRowCollision: the row an INSERT takes is free.
THEOREM QuietNoRowCollision == FaultsAreQuiet => (Spec => []NoRowCollision)
<1>1. TypeOK /\ AlignedInv => NoRowCollision
  <2> SUFFICES ASSUME TypeOK, AlignedInv, NextRow \in Rows(chunks) PROVE FALSE
    BY DEF NoRowCollision
  <2>1. NextRow < Len(vindex \o added)
    BY DEF AlignedInv, Fits, HasVector
  <2> QED BY <2>1 DEF NextRow, TypeOK
<1> QED
  BY <1>1, AlignedInvariant, PTL

-----------------------------------------------------------------------------
(* The two tables.                                                         *)

Mirror(t) == {<<r, t[r].text>> : r \in Rows(t)}

LEMMA MirrorFacts ==
  ASSUME NEW t, IsTable(t)
  PROVE  /\ Mirror(NoRows) = {}
         /\ \A rows : Mirror(Cut(t, rows)) = {e \in Mirror(t) : e[1] \notin rows}
         /\ \A r \in Nat \ Rows(t), c \in Chunk :
              Mirror(With(t, r, c)) = Mirror(t) \cup {<<r, c.text>>}
<1>1. Mirror(NoRows) = {}
  BY NoRowsTable DEF Mirror
<1>2. ASSUME NEW rows
      PROVE  Mirror(Cut(t, rows)) = {e \in Mirror(t) : e[1] \notin rows}
  BY CutTable DEF Mirror
<1>3. ASSUME NEW r \in Nat \ Rows(t), NEW c \in Chunk
      PROVE  Mirror(With(t, r, c)) = Mirror(t) \cup {<<r, c.text>>}
  BY WithTable DEF Mirror
<1> QED
  BY <1>1, <1>2, <1>3

\* The FTS table mirrors the chunk table on the connection and in the last
\* commit, and rebuild always inserts at a fresh row.
MirrorInv ==
  /\ fts = Mirror(chunks) /\ committed.fts = Mirror(committed.chunks)
  /\ pc = "renumber" => Rows(chunks) = 0..(Len(added) - 1)
  /\ pc = "reset" => added = <<>>
  /\ pc \notin {"insert", "index", "renumber", "reindex"} => added = <<>>

LEMMA EraseMirror ==
  ASSUME TypeOK, MirrorInv, NEW rows, Erase(rows), UNCHANGED added, pc' # "renumber",
         pc \in {"idle", "clear"}
  PROVE  MirrorInv'
<1>1. chunks' = Cut(chunks, rows) /\ fts' = {e \in fts : e[1] \notin rows}
      /\ committed'.chunks = chunks' /\ committed'.fts = fts'
  BY DEF Erase, TextWithout, Committing
<1>2. added' = <<>>
  BY DEF MirrorInv
<1>3. IsTable(chunks) /\ fts = Mirror(chunks)
  BY DEF TypeOK, MirrorInv
<1>4. fts' = Mirror(Cut(chunks, rows))
  BY <1>1, <1>3, MirrorFacts
<1> QED
  BY <1>1, <1>2, <1>4 DEF MirrorInv, Mirror

LEMMA MirrorStep ==
  ASSUME TypeOK, MirrorInv, [Next]_vars
  PROVE  MirrorInv'
<1> USE DEF tables, index, locals
<1>1. CASE UNCHANGED <<chunks, fts, committed>> /\ pc' # "renumber"
           /\ (pc' \in {"insert", "index"} \/ added' = <<>>)
  BY <1>1 DEF MirrorInv, Mirror
<1>2. ASSUME NEW b, AddDocuments(b) \/ UpdateDocuments(b) \/ Rebuild PROVE MirrorInv'
  BY <1>2, <1>1 DEF AddDocuments, UpdateDocuments, Rebuild, Begin, MirrorInv
<1>3. ASSUME NEW doc, NEW scope, DeleteDocument(doc, scope) PROVE MirrorInv'
  BY <1>3, EraseMirror DEF DeleteDocument
<1>4. CASE SkipExisting \/ NextDocument \/ ClearDone
  BY <1>4, <1>1 DEF SkipExisting, NextDocument, ClearDone, AtPiece, Looping, MirrorInv
<1>5. CASE InsertRow
  <2>1. pc' = "insert" /\ ThisChunk \in Chunk /\ NextRow \in Nat \ Rows(chunks)
    BY <1>5, ThisChunkType, NextRowType DEF InsertRow, Uncommitted, AtPiece, Looping
  <2>2. fts' = Mirror(chunks)'
    BY <1>5, <2>1, MirrorFacts DEF InsertRow, Uncommitted, TypeOK, MirrorInv, Mirror
  <2> QED
    BY <1>5, <2>1, <2>2 DEF InsertRow, Uncommitted, MirrorInv, Mirror
<1>6. CASE \/ InsertCollides \/ EncodeRaises \/ IndexRaises \/ SaveRaises \/ SaveRebuild
           \/ ReturnZero \/ SaveAdd \/ IndexAdd \/ Reindex
  BY <1>6, <1>1
  DEF InsertCollides, EncodeRaises, IndexRaises, SaveRaises, SaveRebuild, ReturnZero,
      SaveAdd, IndexAdd, Reindex, Leave, FinishAdd
<1>7. CASE CommitAdd
  BY <1>7 DEF CommitAdd, Commit, Committing, Reach, MirrorInv, Mirror
<1>8. CASE ClearDocument
  <2>1. CASE Erase(Replaced(batch[d]))
    BY <1>8, <2>1, EraseMirror DEF ClearDocument
  <2>2. CASE UNCHANGED tables
    BY <1>8, <2>2, <1>1 DEF ClearDocument, MirrorInv
  <2> QED BY <1>8, <2>1, <2>2 DEF ClearDocument
<1>9. CASE ResetIndex
  <2>1. /\ chunks' = NoRows /\ fts' = {} /\ pc' = "renumber" /\ added' = added
        /\ committed' = committed /\ added = <<>>
    BY <1>9 DEF ResetIndex, MirrorInv
  <2>2. 0..(Len(added) - 1) = {}
    BY <2>1
  <2> QED
    BY <2>1, <2>2, NoRowsTable DEF MirrorInv, Mirror
<1>10. CASE Reinsert
  <2> PICK r \in Rows(todo) :
         /\ chunks' = With(chunks, Len(added), todo[r])
         /\ fts' = fts \cup {<<Len(added), todo[r].text>>}
         /\ added' = Append(added, todo[r].text)
    BY <1>10 DEF Reinsert
  <2>1. pc = "renumber" /\ pc' = pc /\ committed' = committed
    BY <1>10 DEF Reinsert
  <2>2. todo[r] \in Chunk /\ Len(added) \in Nat /\ Len(added') = Len(added) + 1
    BY TableEntry DEF TypeOK
  <2>3. Rows(chunks) = 0..(Len(added) - 1)
    BY <2>1 DEF MirrorInv
  <2>4. Len(added) \in Nat \ Rows(chunks)
    BY <2>2, <2>3
  <2>5. fts' = Mirror(chunks)'
    BY <2>2, <2>4, MirrorFacts DEF TypeOK, MirrorInv, Mirror
  <2>6. Rows(chunks') = Rows(chunks) \cup {Len(added)}
    BY <2>2, WithTable DEF TypeOK
  <2>7. Rows(chunks') = 0..(Len(added') - 1)
    BY <2>2, <2>3, <2>6
  <2> QED
    BY <2>1, <2>5, <2>7 DEF MirrorInv, Mirror
<1>11. CASE CommitRebuild
  BY <1>11 DEF CommitRebuild, Commit, Committing, MirrorInv, Mirror
<1>12. CASE Crash
  BY <1>12 DEF Crash, Leave, MirrorInv, Mirror
<1>13. CASE UNCHANGED vars
  BY <1>13 DEF vars, MirrorInv, Mirror
<1> QED
  BY <1>2, <1>3, <1>4, <1>5, <1>6, <1>7, <1>8, <1>9, <1>10, <1>11, <1>12,
     <1>13 DEF Next, Call, DeleteNothing, Step, Fault

\* LexicalMirror: search and lexical_search draw on the same chunks, whatever
\* crashes and raises.
THEOREM AlwaysLexicalMirror == Spec => []LexicalMirror
<1>1. Init => MirrorInv
  BY NoRowsTable DEF Init, MirrorInv, Mirror, Committing
<1>2. TypeOK /\ MirrorInv /\ [Next]_vars => MirrorInv'
  BY MirrorStep
<1>3. MirrorInv => LexicalMirror
  BY DEF MirrorInv, LexicalMirror, Mirror
<1> QED
  BY <1>1, <1>2, <1>3, Typing, PTL DEF Spec

-----------------------------------------------------------------------------
(* Compaction repairs.                                                     *)

\* What rebuild has put in place so far, from its reset to its last statement.
RepairInv ==
  /\ pc \in {"renumber", "reindex"} =>
       vindex = <<>> /\ Rows(chunks) = 0..(Len(added) - 1) /\ OwnVector(chunks, added)
  /\ pc = "resave" => Rows(chunks) = 0..(Len(vindex) - 1) /\ OwnVector(chunks, vindex)
  /\ pc \in {"reindex", "resave"} => committed.chunks = chunks
  /\ pc \notin {"insert", "index", "renumber", "reindex"} => added = <<>>

LEMMA RepairStep ==
  ASSUME TypeOK, RepairInv, [Next]_vars
  PROVE  RepairInv'
<1> USE DEF tables, index, locals
<1>1. CASE pc' \notin {"renumber", "reindex", "resave"}
           /\ (pc' \in {"insert", "index"} \/ added' = <<>>)
  BY <1>1 DEF RepairInv
<1>2. ASSUME NEW b, AddDocuments(b) \/ UpdateDocuments(b) \/ Rebuild PROVE RepairInv'
  BY <1>2, <1>1 DEF AddDocuments, UpdateDocuments, Rebuild, Begin, RepairInv
<1>3. ASSUME NEW doc, NEW scope, DeleteDocument(doc, scope) PROVE RepairInv'
  BY <1>3, <1>1 DEF DeleteDocument, RepairInv
<1>4. CASE \/ SkipExisting \/ InsertRow \/ NextDocument \/ CommitAdd
           \/ ClearDocument \/ ClearDone
  BY <1>4, <1>1 DEF SkipExisting, InsertRow, Uncommitted, NextDocument, CommitAdd, Reach,
                    ClearDocument, ClearDone, AtPiece, Looping, RepairInv
<1>5. CASE \/ InsertCollides \/ ReturnZero \/ IndexAdd \/ SaveAdd \/ SaveRebuild
           \/ EncodeRaises \/ IndexRaises \/ SaveRaises \/ Crash
  BY <1>5, <1>1 DEF InsertCollides, ReturnZero, IndexAdd, SaveAdd, SaveRebuild,
                    EncodeRaises, IndexRaises, SaveRaises, Crash, Leave, FinishAdd
<1>6. CASE ResetIndex
  <2>1. /\ chunks' = NoRows /\ vindex' = <<>> /\ added' = <<>> /\ pc' = "renumber"
    BY <1>6 DEF ResetIndex, NoVectors, RepairInv
  <2>2. 0..(Len(added') - 1) = {}
    BY <2>1
  <2>3. Rows(chunks') = {} /\ OwnVector(chunks', added')
    BY <2>1, NoRowsTable, VectorNoRows
  <2> QED
    BY <2>1, <2>2, <2>3 DEF RepairInv
<1>7. CASE Reinsert
  <2> PICK r \in Rows(todo) :
         /\ chunks' = With(chunks, Len(added), todo[r])
         /\ added' = Append(added, todo[r].text)
    BY <1>7 DEF Reinsert
  <2>1. /\ pc = "renumber" /\ pc' = pc /\ vindex' = <<>>
        /\ Rows(chunks) = 0..(Len(added) - 1) /\ OwnVector(chunks, added)
    BY <1>7 DEF Reinsert, RepairInv
  <2>2. todo[r] \in Chunk /\ Len(added) \in Nat /\ Len(added') = Len(added) + 1
    BY TableEntry DEF TypeOK
  <2>3. Rows(chunks') = Rows(chunks) \cup {Len(added)}
    BY <2>2, WithTable DEF TypeOK
  <2>4. Rows(chunks') = 0..(Len(added') - 1)
    BY <2>1, <2>2, <2>3
  <2> DEFINE none == <<>>
  <2>0. none \in Seq(Pieces) /\ added \in Seq(Pieces) /\ todo[r].text \in Pieces
    BY TableEntry DEF TypeOK
  <2>5. none \o added = added /\ none \o added' = added' /\ Len(none) + Len(added) = Len(added)
    BY <2>0
  <2>6. OwnVector(With(chunks, Len(none) + Len(added), todo[r]),
                  none \o Append(added, todo[r].text))
    BY <2>0, <2>1, <2>2, <2>5, OwnAppend DEF TypeOK
  <2>7. OwnVector(chunks', added')
    BY <2>5, <2>6
  <2> QED
    BY <2>1, <2>4, <2>7 DEF RepairInv
<1>8. CASE CommitRebuild
  BY <1>8 DEF CommitRebuild, Commit, Committing, RepairInv, OwnVector
<1>9. CASE Reindex
  <2>1. vindex' = added /\ chunks' = chunks /\ committed' = committed
        /\ pc = "reindex" /\ pc' = "resave" /\ added' = <<>>
    BY <1>9 DEF Reindex, Extended, RepairInv, TypeOK
  <2> QED
    BY <2>1 DEF RepairInv, OwnVector
<1>10. CASE UNCHANGED vars
  BY <1>10 DEF vars, RepairInv, OwnVector
<1> QED
  BY <1>2, <1>3, <1>4, <1>5, <1>6, <1>7, <1>8, <1>9, <1>10
  DEF Next, Call, DeleteNothing, Step, Fault

\* RebuildRepairs, after any history of crashes and failed writes, over either
\* kind of backend.
THEOREM AlwaysRebuildRepairs == Spec => RebuildRepairs
<1>1. Init => RepairInv
  BY DEF Init, RepairInv
<1>2. TypeOK /\ RepairInv /\ [Next]_vars => RepairInv'
  BY RepairStep
<1>3. RepairInv /\ [Next]_vars =>
        [pc = "resave" /\ pc' = "idle" /\ vindex' = vindex =>
           /\ Rows(chunks') = 0..(Len(vindex') - 1)
           /\ OwnVector(chunks', vindex')]_vars
  <2> SUFFICES ASSUME RepairInv, [Next]_vars, pc = "resave", pc' = "idle", vindex' = vindex
               PROVE  Rows(chunks') = 0..(Len(vindex') - 1) /\ OwnVector(chunks', vindex')
    OBVIOUS
  <2>1. chunks' = chunks
    BY DEF Next, Call, DeleteNothing, Step, Fault, AddDocuments, UpdateDocuments, DeleteDocument,
           Rebuild, Begin, SkipExisting, InsertRow, InsertCollides, NextDocument,
           ReturnZero, CommitAdd, IndexAdd, SaveAdd, ClearDocument, ClearDone,
           ResetIndex, Reinsert, CommitRebuild, Reindex, SaveRebuild, EncodeRaises,
           IndexRaises, SaveRaises, Crash, AtPiece, Looping, tables, index, vars, RepairInv
  <2> QED
    BY <2>1 DEF RepairInv, OwnVector
<1> QED
  BY <1>1, <1>2, <1>3, Typing, PTL DEF Spec, RebuildRepairs

-----------------------------------------------------------------------------
(* Chunk identity.                                                         *)

Unique(t) == \A r, s \in Rows(t) : Id(t[r]) = Id(t[s]) => r = s
Apart(t, u) == \A r \in Rows(t), s \in Rows(u) : Id(t[r]) # Id(u[s])

LEMMA UniqueFacts ==
  ASSUME NEW t, IsTable(t), Unique(t)
  PROVE  /\ \A rows : Unique(Cut(t, rows))
         /\ \A r \in Nat, c \in Chunk :
              (\A s \in Rows(t) : Id(t[s]) # Id(c)) => Unique(With(t, r, c))
<1>1. ASSUME NEW rows PROVE Unique(Cut(t, rows))
  BY CutTable DEF Unique
<1>2. ASSUME NEW r \in Nat, NEW c \in Chunk, \A s \in Rows(t) : Id(t[s]) # Id(c)
      PROVE  Unique(With(t, r, c))
  BY <1>2, WithTable DEF Unique
<1> QED
  BY <1>1, <1>2

\* While rebuild moves rows, the rows moved and the rows to move are apart.
UniqueInv ==
  /\ Unique(chunks) /\ Unique(committed.chunks)
  /\ pc = "renumber" => Unique(todo) /\ Apart(chunks, todo)

LEMMA UniqueStep ==
  ASSUME TypeOK, UniqueInv, [Next]_vars
  PROVE  UniqueInv'
<1> USE DEF tables, index, locals
<1>1. CASE UNCHANGED <<chunks, committed>> /\ pc' # "renumber"
  BY <1>1 DEF UniqueInv, Unique
<1>2. ASSUME NEW b, AddDocuments(b) \/ UpdateDocuments(b) \/ Rebuild PROVE UniqueInv'
  BY <1>2, <1>1 DEF AddDocuments, UpdateDocuments, Rebuild, Begin
<1>3. ASSUME NEW rows, Erase(rows), pc' # "renumber" PROVE UniqueInv'
  BY <1>3, UniqueFacts DEF Erase, Committing, TypeOK, UniqueInv, Unique
<1>4. ASSUME NEW doc, NEW scope, DeleteDocument(doc, scope) PROVE UniqueInv'
  BY <1>4, <1>3 DEF DeleteDocument
<1>5. CASE InsertRow
  <2>1. pc' = "insert" /\ ThisChunk \in Chunk /\ NextRow \in Nat
    BY <1>5, ThisChunkType, NextRowType DEF InsertRow, Uncommitted, AtPiece, Looping
  <2>2. \A s \in Rows(chunks) : Id(chunks[s]) # Id(ThisChunk)
    BY <1>5 DEF InsertRow, Uncommitted, Existing, Ids, ChunksIn
  <2>3. Unique(With(chunks, NextRow, ThisChunk))
    BY <2>1, <2>2, UniqueFacts DEF TypeOK, UniqueInv
  <2> QED
    BY <1>5, <2>1, <2>3 DEF InsertRow, Uncommitted, UniqueInv, Unique
<1>6. CASE \/ SkipExisting \/ NextDocument \/ ClearDone \/ InsertCollides \/ EncodeRaises
           \/ IndexRaises \/ SaveRaises \/ SaveRebuild \/ ReturnZero \/ SaveAdd
           \/ IndexAdd \/ Reindex
  BY <1>6, <1>1
  DEF SkipExisting, NextDocument, ClearDone, InsertCollides, EncodeRaises, IndexRaises,
      SaveRaises, SaveRebuild, ReturnZero, SaveAdd, IndexAdd, Reindex, Leave, FinishAdd,
      AtPiece, Looping
<1>7. CASE CommitAdd \/ CommitRebuild
  BY <1>7 DEF CommitAdd, CommitRebuild, Commit, Committing, Reach, UniqueInv, Unique
<1>8. CASE ClearDocument
  BY <1>8, <1>3, <1>1 DEF ClearDocument
<1>9. CASE ResetIndex
  BY <1>9, NoRowsTable DEF ResetIndex, UniqueInv, Unique, Apart
<1>10. CASE Reinsert
  <2> PICK r \in Rows(todo) :
         /\ chunks' = With(chunks, Len(added), todo[r])
         /\ todo' = Cut(todo, {r})
    BY <1>10 DEF Reinsert
  <2>1. pc = "renumber" /\ pc' = pc /\ committed' = committed
    BY <1>10 DEF Reinsert
  <2>2. todo[r] \in Chunk /\ Len(added) \in Nat
    BY TableEntry DEF TypeOK
  <2>3. Unique(With(chunks, Len(added), todo[r])) /\ Unique(Cut(todo, {r}))
    BY <2>1, <2>2, UniqueFacts DEF TypeOK, UniqueInv, Apart
  <2>4. \A s \in Rows(todo) \ {r} : Id(todo[s]) # Id(todo[r])
    BY <2>1 DEF UniqueInv, Unique
  <2>5. Apart(With(chunks, Len(added), todo[r]), Cut(todo, {r}))
    <3> DEFINE t == With(chunks, Len(added), todo[r])
               u == Cut(todo, {r})
    <3>0. IsTable(chunks) /\ IsTable(todo)
      BY DEF TypeOK
    <3>1. /\ Rows(t) = Rows(chunks) \cup {Len(added)} /\ t[Len(added)] = todo[r]
          /\ \A s \in Rows(chunks) : s # Len(added) => t[s] = chunks[s]
      BY <2>2, <3>0, WithTable
    <3>2. Rows(u) = Rows(todo) \ {r} /\ \A s \in Rows(todo) \ {r} : u[s] = todo[s]
      BY <3>0, CutTable
    <3>3. Apart(chunks, todo)
      BY <2>1 DEF UniqueInv
    <3> HIDE DEF t, u
    <3>4. ASSUME NEW x \in Rows(t), NEW y \in Rows(u) PROVE Id(t[x]) # Id(u[y])
      <4>1. y \in Rows(todo) /\ y # r /\ u[y] = todo[y]
        BY <3>2
      <4>2. CASE x = Len(added)
        BY <4>1, <4>2, <2>4, <3>1
      <4>3. CASE x # Len(added)
        <5>1. x \in Rows(chunks) /\ t[x] = chunks[x]
          BY <4>3, <3>1
        <5>2. Id(chunks[x]) # Id(todo[y])
          BY <5>1, <4>1, <3>3 DEF Apart
        <5> QED BY <5>1, <5>2, <4>1
      <4> QED BY <4>2, <4>3
    <3>5. Apart(t, u)
      BY <3>4 DEF Apart
    <3> QED BY <3>5 DEF t, u
  <2> QED
    BY <2>1, <2>3, <2>5 DEF UniqueInv, Unique, Apart
<1>11. CASE Crash
  BY <1>11 DEF Crash, Leave, UniqueInv, Unique
<1>12. CASE UNCHANGED vars
  BY <1>12 DEF vars, UniqueInv, Unique, Apart
<1> QED
  BY <1>2, <1>4, <1>5, <1>6, <1>7, <1>8, <1>9, <1>10, <1>11, <1>12
  DEF Next, Call, DeleteNothing, Step, Fault

\* UniqueIds: the UNIQUE constraint on chunk_id never has to raise, whatever
\* crashes and raises.
THEOREM AlwaysUniqueIds == Spec => []UniqueIds
<1>1. Init => UniqueInv
  BY NoRowsTable DEF Init, UniqueInv, Unique, Committing
<1>2. TypeOK /\ UniqueInv /\ [Next]_vars => UniqueInv'
  BY UniqueStep
<1>3. UniqueInv => UniqueIds
  BY DEF UniqueInv, UniqueIds, Unique
<1> QED
  BY <1>1, <1>2, <1>3, Typing, PTL DEF Spec
=============================================================================
