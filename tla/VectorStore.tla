---------------------------- MODULE VectorStore -----------------------------
(***************************************************************************)
(* contextx/store.py over the backends of contextx/backends.py.            *)
(*                                                                         *)
(* A VectorStore keeps every chunk twice: its row in SQLite (chunks, and   *)
(* the FTS5 table that mirrors it) and its vector in a backend that        *)
(* addresses vectors by POSITION.  The two stores are written one after    *)
(* the other, so what must hold is that the vector at position r belongs   *)
(* to the chunk in row r.                                                  *)
(*                                                                         *)
(* One lock serialises the public operations, so the model runs one at a   *)
(* time; `pc` is the statement the lock's holder has reached.  The process *)
(* may die at any pc in CrashAt and an external call may raise at any pc   *)
(* in RaiseAt.  The embedding of a piece of text is the piece itself.      *)
(***************************************************************************)
EXTENDS Chunks, Integers, FiniteSets

CONSTANTS
  MaxVectors,   \* bound: no add or update starts at this many vectors
  Persists,     \* TRUE: pgvector, qdrant (durable at once); FALSE: faiss, numpy (a file)
  CrashAt,      \* the pcs at which the process may be killed
  RaiseAt       \* the external calls that may raise

Pcs == {"idle", "clear", "insert", "index", "save",
        "reset", "renumber", "reindex", "resave"}
Ops == {"none", "add", "delete", "update", "rebuild"}

ASSUME BoundAssumption   == MaxVectors \in Nat
ASSUME PersistAssumption == Persists \in BOOLEAN
ASSUME FaultAssumption   == CrashAt \subseteq Pcs /\ RaiseAt \subseteq {"encode", "index", "save"}

VARIABLES
  chunks,     \* table chunks as the connection sees it: row -> chunk
  fts,        \* table chunks_fts as the connection sees it: <<row, text>> pairs
  committed,  \* both tables as of the last COMMIT
  vindex,     \* the backend's vectors; row r is at vindex[r + 1]
  saved,      \* matrix.npy / index.faiss; <<>> when there is no file
  pc, op,     \* the statement reached, and the operation it belongs to
  batch,      \* docs, the argument of add_documents / update_documents
  d, p,       \* the document and the piece of it the loop is at
  added,      \* vecs: the vectors of the rows inserted so far
  todo        \* rebuild's `live`: the rows still to be inserted again

tables == <<chunks, fts, committed>>
index  == <<vindex, saved>>
locals == <<batch, d, p, added, todo>>
vars   == <<tables, index, pc, op, locals>>

NoRows == [r \in {} |-> 0]
Rows(t) == DOMAIN t
ChunksIn(t) == {t[r] : r \in Rows(t)}
Cut(t, rows) == [r \in Rows(t) \ rows |-> t[r]]
With(t, r, c) == [s \in Rows(t) \cup {r} |-> IF s = r THEN c ELSE t[s]]
Committing(t, f) == [chunks |-> t, fts |-> f]

Init ==
  /\ chunks = NoRows /\ fts = {} /\ committed = Committing(NoRows, {})
  /\ vindex = <<>> /\ saved = <<>>
  /\ pc = "idle" /\ op = "none"
  /\ batch = <<>> /\ d = 1 /\ p = 1 /\ added = <<>> /\ todo = NoRows

\* _tombstone_ratio() > 0.2, in integers; an empty index has ratio 0.
CompactOnlyWhenEmpty(v, n) == n = 0 /\ v > 0   \* mutant
Exceeds(v, n) == 5 * (v - n) > v
TooManyTombstones(t) == Exceeds(Len(vindex), Cardinality(Rows(t)))

\* Leaving the outermost call: its locals are gone.
Leave ==
  /\ pc' = "idle" /\ op' = "none"
  /\ batch' = <<>> /\ d' = 1 /\ p' = 1 /\ added' = <<>> /\ todo' = NoRows

Begin(name, at, b) ==
  /\ pc = "idle" /\ pc' = at /\ op' = name
  /\ batch' = b /\ d' = 1
  /\ UNCHANGED <<p, added, todo>>

Reach(at) == pc' = at /\ UNCHANGED <<op, batch, d, p, added, todo>>

\* add_documents() returned: update_documents() still looks at the ratio.
FinishAdd ==
  IF op = "update" /\ TooManyTombstones(chunks)
    THEN pc' = "reset" /\ added' = <<>> /\ UNCHANGED <<op, batch, d, p, todo>>
    ELSE Leave

-----------------------------------------------------------------------------
(* add_documents, and the half of update_documents it is                   *)

AddDocuments(b) ==
  /\ Len(vindex) < MaxVectors
  /\ Begin("add", "insert", b)
  /\ UNCHANGED <<tables, index>>

\* Is there a piece left, and has the loop seen its chunk id?
Looping == pc = "insert" /\ d \in DOMAIN batch
AtPiece == Looping /\ p \in DOMAIN batch[d].text
ThisChunk == ChunkOf(batch[d], p)
ForgetsBatch(c) == Id(c) \in Ids(ChunksIn(committed.chunks))  \* mutant: no existing.add(cid)
Existing(c) == Id(c) \in Ids(ChunksIn(chunks))

\* start_row + offset.
RowByLiveCount == Cardinality(Rows(chunks))   \* mutant: count rows, not vectors
RowBefore == Len(vindex) + Len(added) - 1     \* mutant
NextRow == Len(vindex) + Len(added)

SkipExisting ==
  /\ AtPiece /\ Existing(ThisChunk)
  /\ p' = p + 1
  /\ UNCHANGED <<tables, index, pc, op, batch, d, added, todo>>

\* The INSERTs of a call are one transaction.
CommitsEachRow == committed' = Committing(chunks', fts')   \* mutant: autocommit
Uncommitted == UNCHANGED committed

InsertRow ==
  /\ AtPiece /\ ~Existing(ThisChunk)
  /\ NextRow \notin Rows(chunks)
  /\ chunks' = With(chunks, NextRow, ThisChunk)
  /\ fts' = fts \cup {<<NextRow, ThisChunk.text>>}
  /\ added' = Append(added, ThisChunk.text)
  /\ p' = p + 1
  /\ Uncommitted
  /\ UNCHANGED <<index, pc, op, batch, d, todo>>

\* PRIMARY KEY violated: the exception leaves with the transaction open, so
\* the rows inserted before it stay on the connection.
InsertCollides ==
  /\ AtPiece /\ ~Existing(ThisChunk)
  /\ NextRow \in Rows(chunks)
  /\ Leave
  /\ UNCHANGED <<tables, index>>

NextDocument ==
  /\ Looping /\ p \notin DOMAIN batch[d].text
  /\ d' = d + 1 /\ p' = 1
  /\ UNCHANGED <<tables, index, pc, op, batch, added, todo>>

\* embedder.encode() raises before the first INSERT.
EncodeRaises ==
  /\ "encode" \in RaiseAt
  /\ AtPiece /\ added = <<>> /\ ~Existing(ThisChunk)
  /\ Leave
  /\ UNCHANGED <<tables, index>>

ReturnZero ==
  /\ pc = "insert" /\ d \notin DOMAIN batch /\ added = <<>>
  /\ FinishAdd
  /\ UNCHANGED <<tables, index>>

Commit == committed' = Committing(chunks, fts)

CommitAdd ==
  /\ pc = "insert" /\ d \notin DOMAIN batch /\ added # <<>>
  /\ Commit
  /\ Reach("index")
  /\ UNCHANGED <<chunks, fts, index>>

\* vindex.add: positional backends append; the others upsert by the same row.
Prepending(v, w) == w \o v   \* mutant
Extended(v, w) == v \o w

IndexAdd ==
  /\ pc = "index"
  /\ vindex' = Extended(vindex, added)
  /\ pc' = "save" /\ added' = <<>>
  /\ UNCHANGED <<tables, saved, op, batch, d, p, todo>>

\* vindex.save: the file backends write nothing when they hold no vectors.
Saving(v, file) == IF Persists \/ v = <<>> THEN file ELSE v

SaveAdd ==
  /\ pc = "save"
  /\ saved' = Saving(vindex, saved)
  /\ FinishAdd
  /\ UNCHANGED <<tables, vindex>>

-----------------------------------------------------------------------------
(* delete_document and update_documents                                    *)

RowsCovered(doc, scope) == {r \in Rows(chunks) : Covers(doc, scope, chunks[r])}

KeepsText(rows) == fts   \* mutant: DELETE FROM chunks_fts forgotten
TextWithout(rows) == {e \in fts : e[1] \notin rows}

\* DELETE FROM both tables, then COMMIT.
Erase(rows) ==
  LET left == Cut(chunks, rows)
  IN  /\ chunks' = left
      /\ fts' = TextWithout(rows)
      /\ committed' = Committing(left, TextWithout(rows))

DeleteDocument(doc, scope) ==
  /\ pc = "idle"
  /\ RowsCovered(doc, scope) # {}
  /\ Erase(RowsCovered(doc, scope))
  /\ IF TooManyTombstones(Cut(chunks, RowsCovered(doc, scope)))
       THEN /\ pc' = "reset" /\ op' = "delete"
            /\ UNCHANGED locals
       ELSE UNCHANGED <<pc, op, locals>>
  /\ UNCHANGED index

\* No row of the document: `return 0`, and the ratio is not looked at.
DeleteNothing(doc, scope) == pc = "idle" /\ RowsCovered(doc, scope) = {} /\ UNCHANGED vars

UpdateDocuments(b) ==
  /\ Len(vindex) < MaxVectors
  /\ Begin("update", "clear", b)
  /\ UNCHANGED <<tables, index>>

\* mutant: only the chunk ids the new text needs; a document that shrank keeps its tail
RewrittenOnly(doc) == {r \in RowsCovered(doc.doc, AnyTenant) : chunks[r].idx \in DOMAIN doc.text}
Replaced(doc) == RowsCovered(doc.doc, AnyTenant)

\* One delete_document(d.doc_id, auto_rebuild=False) per document, each with
\* its own COMMIT; a document with no rows returns before it.
ClearDocument ==
  /\ pc = "clear" /\ d \in DOMAIN batch
  /\ d' = d + 1
  /\ IF Replaced(batch[d]) # {} THEN Erase(Replaced(batch[d])) ELSE UNCHANGED tables
  /\ UNCHANGED <<index, pc, op, batch, p, added, todo>>

ClearDone ==
  /\ pc = "clear" /\ d \notin DOMAIN batch
  /\ pc' = "insert" /\ d' = 1
  /\ UNCHANGED <<tables, index, op, batch, p, added, todo>>

-----------------------------------------------------------------------------
(* rebuild                                                                 *)

Rebuild ==
  /\ Begin("rebuild", "reset", <<>>)
  /\ UNCHANGED <<tables, index>>

KeepVectors == vindex   \* mutant: vindex.reset() forgotten
NoVectors == <<>>

\* SELECT the live rows, vindex.reset(), DELETE both tables (no COMMIT yet).
ResetIndex ==
  /\ pc = "reset"
  /\ todo' = chunks
  /\ vindex' = NoVectors
  /\ chunks' = NoRows /\ fts' = {}
  /\ pc' = "renumber"
  /\ UNCHANGED <<committed, saved, op, batch, d, p, added>>

\* The row the loop takes next: live rows in ascending order.
Lowest(r) == \A s \in Rows(todo) : r <= s

Reinsert ==
  /\ pc = "renumber"
  /\ \E r \in Rows(todo) :
       /\ Lowest(r)
       /\ chunks' = With(chunks, Len(added), todo[r])
       /\ fts' = fts \cup {<<Len(added), todo[r].text>>}
       /\ added' = Append(added, todo[r].text)
       /\ todo' = Cut(todo, {r})
  /\ UNCHANGED <<committed, index, pc, op, batch, d, p>>

StopsEarly == Cardinality(Rows(todo)) <= 1 /\ added # <<>>   \* mutant: loses the last row
AllReinserted == Rows(todo) = {}

CommitRebuild ==
  /\ pc = "renumber" /\ AllReinserted
  /\ Commit
  /\ pc' = "reindex" /\ UNCHANGED <<op, batch, d, p, added>>
  /\ todo' = NoRows
  /\ UNCHANGED <<chunks, fts, index>>

\* `if vecs:` -- an empty store adds nothing, which is the same.
Reindex ==
  /\ pc = "reindex"
  /\ vindex' = Extended(vindex, added)
  /\ pc' = "resave" /\ added' = <<>>
  /\ UNCHANGED <<tables, saved, op, batch, d, p, todo>>

SaveRebuild ==
  /\ pc = "resave"
  /\ saved' = Saving(vindex, saved)
  /\ Leave
  /\ UNCHANGED <<tables, vindex>>

-----------------------------------------------------------------------------
(* Failures                                                                *)

\* vindex.add or vindex.save raises: the commit before it stands.
IndexRaises ==
  /\ "index" \in RaiseAt
  /\ pc \in {"index", "reindex"} /\ added # <<>>
  /\ Leave
  /\ UNCHANGED <<tables, index>>

SaveRaises ==
  /\ "save" \in RaiseAt
  /\ pc \in {"save", "resave"}
  /\ Leave
  /\ UNCHANGED <<tables, index>>

\* The process dies and __init__ opens the directory again: SQLite rolls back
\* to the last COMMIT, _load reads the file if there is one.
Reloaded == IF Persists THEN vindex ELSE saved

Crash ==
  /\ pc \in CrashAt
  /\ chunks' = committed.chunks /\ fts' = committed.fts
  /\ vindex' = Reloaded
  /\ Leave
  /\ UNCHANGED <<committed, saved>>

-----------------------------------------------------------------------------
Step ==
  \/ SkipExisting \/ InsertRow \/ InsertCollides \/ NextDocument
  \/ ReturnZero \/ CommitAdd \/ IndexAdd \/ SaveAdd
  \/ ClearDocument \/ ClearDone
  \/ ResetIndex \/ Reinsert \/ CommitRebuild \/ Reindex \/ SaveRebuild

Call ==
  \/ \E b \in Batches : AddDocuments(b) \/ UpdateDocuments(b)
  \/ \E doc \in Docs, scope \in Tenants \cup {AnyTenant} :
       DeleteDocument(doc, scope) \/ DeleteNothing(doc, scope)
  \/ Rebuild

Fault == EncodeRaises \/ IndexRaises \/ SaveRaises \/ Crash

Next == Call \/ Step \/ Fault

Spec == Init /\ [][Next]_vars
\* The pcs at which both stores tell the same story: nothing is committed that
\* is not yet indexed, nor (with a durable backend) un-indexed before its COMMIT.
QuietPcs == {"idle", "clear", "insert", "reset"}
              \cup (IF Persists THEN {} ELSE {"renumber"})
FaultsAreQuiet == CrashAt \subseteq QuietPcs /\ RaiseAt \subseteq {"encode"}

-----------------------------------------------------------------------------
(* Properties                                                              *)

IsTable(t) == Rows(t) \subseteq Nat /\ t \in [Rows(t) -> Chunk]
IsText(f)  == f \subseteq Nat \X Pieces

TypeOK ==
  /\ IsTable(chunks) /\ IsText(fts)
  /\ committed = Committing(committed.chunks, committed.fts)
  /\ IsTable(committed.chunks) /\ IsText(committed.fts)
  /\ vindex \in Seq(Pieces) /\ saved \in Seq(Pieces)
  /\ pc \in Pcs /\ op \in Ops
  /\ batch \in Seq(Document)
  /\ d \in Nat \ {0} /\ p \in Nat \ {0}
  /\ added \in Seq(Pieces) /\ IsTable(todo)

\* Rows of t whose vector exists, and those whose vector is their own.
HasVector(t, v) == \A r \in Rows(t) : r < Len(v)
OwnVector(t, v) == \A r \in Rows(t) : r < Len(v) => v[r + 1] = t[r].text

\* search() sees every chunk, each under its own vector.  (store.py search and
\* _hydrate join the backend's positions with chunks.row.)
Aligned == pc = "idle" => HasVector(chunks, vindex) /\ OwnVector(chunks, vindex)

\* The weaker half, for a store that may crash: a position that has a chunk
\* never carries another chunk's vector, in any state a search can run in.
NoForeignVector == pc = "idle" => OwnVector(chunks, vindex)

\* test_delete_then_add_row_alignment: a row the next INSERT takes is free.
NoRowCollision == AtPiece /\ ~Existing(ThisChunk) => NextRow \notin Rows(chunks)

\* lexical_search and search draw on the same chunks: after any sequence of
\* operations the FTS table holds exactly the text of the live rows.
LexicalMirror == fts = {<<r, chunks[r].text>> : r \in Rows(chunks)}

\* chunk_id stays UNIQUE through batches that repeat a document and through
\* compaction, without the constraint ever having to raise.
UniqueIds == \A r, s \in Rows(chunks) : Id(chunks[r]) = Id(chunks[s]) => r = s

\* The normal returns, of a deletion that found something to delete.
UpdateReturns == op = "update" /\ pc' = "idle" /\ (ReturnZero \/ SaveAdd \/ SaveRebuild)
DeleteReturns ==
  /\ pc' = "idle"
  /\ \/ op = "delete" /\ SaveRebuild
     \/ \E doc \in Docs, scope \in Tenants \cup {AnyTenant} : DeleteDocument(doc, scope)

\* "the index compacts once tombstones pile up": a delete that removes something
\* and an update leave, when they return, at most a fifth of the vectors tombstones,
\* whatever failed updates and crashes had left before.  (A delete that finds nothing
\* returns before it looks: what a failed update left it leaves.)
TombstonesBounded ==
  [][UpdateReturns \/ DeleteReturns =>
       5 * (Len(vindex') - Cardinality(Rows(chunks'))) <= Len(vindex')]_vars

ChunksOf(doc, s) == {c \in s : Covers(doc.doc, doc.tenant, c)}

\* "Replace documents by doc_id": whatever the store held, and whether or not the
\* call compacted, a document of the batch has in its tenant the chunks the batch
\* would contribute to an empty store, and none of its old ones.
UpdateReplaces ==
  [][UpdateReturns => \A k \in DOMAIN batch :
       ChunksOf(batch[k], ChunksIn(chunks')) = ChunksOf(batch[k], Contribution(batch, {}))]_vars

\* An update that a crash or the embedder cuts short leaves each document of its
\* batch on disk as it was, gone, or wholly new: at no COMMIT is it a mixture or a part.
UpdateNeverMixes ==
  [][op = "update" => \A k \in DOMAIN batch :
       ChunksOf(batch[k], ChunksIn(committed'.chunks)) \in
         {ChunksOf(batch[k], ChunksIn(committed.chunks)), {},
          ChunksOf(batch[k], Contribution(batch, {}))}]_vars

\* rebuild() repairs: whatever crashes and failed writes came before, its last
\* statement leaves every live chunk under its own vector, rows 0..n-1, and no
\* tombstones.
RebuildRepairs ==
  [][pc = "resave" /\ pc' = "idle" /\ vindex' = vindex =>
       /\ Rows(chunks') = 0..(Len(vindex') - 1)
       /\ OwnVector(chunks', vindex')]_vars

\* What survives of the store in the abstract: the committed chunks.
Abs == INSTANCE ChunkStore WITH live <- ChunksIn(committed.chunks)

\* VectorStore implements ChunkStore: a batch appears as a whole and in the
\* order of its documents, a deletion removes one document, and compaction,
\* saving and restarting are invisible.
ImplementsChunkStore == Abs!Spec
=============================================================================
