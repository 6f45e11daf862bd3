# TLA+ specifications of contextx

contextx assembles the context of LLM requests: documents are ingested into a
persistent index, a request retrieves, ranks, filters and packs context from it,
the model's answers go through a semantic response cache, and facts of each
exchange are remembered. These modules model the parts of it that keep state,
with the interleavings, crashes and exceptions the code is exposed to, and the
stages that turn a text into chunks and a query into a prompt. TLC checks
them on small instances, TLAPS proves the main invariants for all instances.

    tlc -config VectorStore_clean.cfg MCVectorStore      # any run of PROJECT.json
    tlapm VectorStoreProofs.tla                          # any *Proofs module

## 1. The system

| Component | State | Operations | Modelled by |
|---|---|---|---|
| `store.py` VectorStore | SQLite tables `chunks` and `chunks_fts`; a vector backend; one lock | `add_documents`, `delete_document`, `update_documents`, `rebuild`, `search`, `lexical_search`, `stats` | `VectorStore` (writes), `Retrieval` (queries) |
| `backends.py` | the vectors, by position (numpy, faiss) or by row id (pgvector, qdrant); a file for the first two | `add`, `search`, `count`, `reset`, `save`, `load` | inside `VectorStore`, `Retrieval` |
| `cache.py` Cache | LRU of (key, time, answer); parallel lists of embeddings and keys; a lock | `semantic_get_or_compute`, `get_or_compute`, `invalidate_responses`, `clear` | `ResponseCache` |
| `pipeline.py` ContextEngine | none of its own | `ingest`, `update`, `delete`, `run`, `run_stream`, `run_with_tools`, `arun*` | `ResponseCache` (writes, `run` through the cache), `Requests` (all entry points), `Prompt` (`_prepare`) |
| `memory.py` MemoryManager | one SQLite table; a lock | `store`, `extract_and_store`, `retrieve`, `expire`, `forget` | `MemoryManager` |
| `sync.py` DirectorySync | the manifest, in memory and in a file | `sync` | `DirectorySync` |
| `service.py`, `auth.py` | an asyncio lock for writes; a key table | HTTP endpoints | `Requests` |
| `retrieve.py`, `rerank.py`, `rank.py` | none | recall, fusion, ranking | `Retrieval`, `Assembly` |
| `collect.py`, `filter.py`, `compress.py`, `budget.py`, `build.py`, `validate.py` | none | stages over a list of items | `Assembly` |
| `chunking.py`, `loaders.py` | none | text to chunks, files to text | `Chunking`; loaders not modelled |
| `llm.py` | none | `complete`, `stream`, tool loop; retries and a mock | `LLM`, `Requests` |
| `security.py`, `observability.py`, `embeddings.py`, `types.py`, `config.py`, `tune.py`, `domains/`, `eval/` | an audit file, timers | pure helpers, offline tools | not modelled (reasons in PROJECT.json), but for what redaction adds and who is audited |

How they interact. The engine calls the store and then the cache: a write commits
in the store first and drops the cached responses afterwards; a request reads the
store under one lock, the cache under another, and calls the model under none.
`DirectorySync` calls the engine once per file and writes its manifest last. The
service runs all of this on a thread pool, one write at a time, any number of
queries. Memory is written after the answer, a record at a time.

What is hard, and what correctness means:

* **store** -- two stores (SQLite, vectors) written one after the other and
  joined by *position*. Correct: the vector at position r is that of the chunk in
  row r; a new row is free; chunk ids are unique; the text index mirrors the rows;
  update replaces; compaction changes nothing a caller sees.
* **cache** -- answers computed outside the lock, two structures evicted
  separately, an entry's key and its embedding of different strength. Correct: an
  answer fits the question, is not older than the TTL, nor than the corpus.
* **memory** -- turns of several requests interleave record by record; a commit
  and the eviction it calls for are two transactions. Correct: one row per fact
  and scope, holding the latest value; pinned rows survive; the bound is kept.
* **sync** -- a manifest that trails the index, read and written around calls that
  may fail, over files that change meanwhile. Correct: a completed call leaves
  exactly the files' chunks, and a completed call is not redone.

* **chunks** -- a greedy packer with overlap over units of any size, a heading scan
  that knows no fences. Correct: no line is lost at a seam, a chunk carries the
  headings it stands under, a fence stays whole, overlap never costs more than it
  promises.
* **retrieval** -- two searches under two acquisitions of the store's lock, each of
  which looks at a part of the index and filters afterwards. Correct: each finds
  the best the caller may read, and their fusion treats a chunk as one.
* **assembly** -- stages that each drop something for a reason of their own.
  Correct: what is missing from a prompt is missing for one of those reasons.
* **requests** -- an event loop, a write lock, a pool of threads, clients that
  leave, providers that fail. Correct: every accepted request ends, writes are
  applied one at a time in the order they came, and memory, audit log and the
  tool conversation agree with how a request ended.

## 2. The modules

### Chunks, ChunkStore
`Chunks` says what a document contributes: the chunker's output stands for its
text, a chunk is (document, index, text, tenant), and its id leaves the tenant out
as the code does (`f"{doc_id}:{i}"`). `ChunkStore` is the abstract store: a set of
live chunks, `Ingest(batch)` and `Remove(document, tenant scope)`.

### VectorStore
| Variable | Code |
|---|---|
| `chunks`, `fts` | the two tables as the connection sees them, uncommitted changes included |
| `committed` | the tables as of the last COMMIT: what a crash leaves |
| `vindex` | the backend's vectors; row r is element r + 1 |
| `saved` | `matrix.npy` / `index.faiss` |
| `pc`, `op` | the statement the lock's holder has reached, and its operation |
| `batch`, `d`, `p`, `added`, `todo` | the locals of `add_documents` and `rebuild` |

Every public write is split at the places where something else can happen: each
INSERT, the COMMIT, `vindex.add`, `_save`. `delete_document` is one action up to
its COMMIT (a crash before it rolls back to the state before) and goes on to
`rebuild` when its ratio says so; when no row matches it returns before all of that
(`DeleteNothing`). `update_documents` commits one deletion per document, of every
tenant's chunks, then continues as an add, then may compact. `CrashAt` and `RaiseAt` are
the statements at which the process may die and the external calls that may
raise; an exception leaves the open transaction open, as Python's sqlite3 does.
`Persists` selects the backend: durable at once, or a file written by `_save`,
which writes nothing when the index is empty. An embedding is its text.

A run of the loop that only looks at documents (`SkipExisting`, `InsertRow`,
`NextDocument`) merges the code's collecting loop and its inserting loop: nothing
but the embedding call lies between the two, and `EncodeRaises` is enabled exactly
until the first INSERT.

### ResponseCache
`store` is the LRU, `sem` the parallel lists of embeddings and keys, `call` where
each worker's request is (`lookup`, `compute`, `returned`). A prompt is its
question and the version of the corpus its context was read from. Similarity is
kept to what the code tells apart: equal, above the threshold, below. `Prefix` is
`prompt.user[:256]`. A write commits (`Write`) and then invalidates
(`InvalidateResponses`), or raises between the two (`WriteRaises`). `epoch`, a
request's `settled` and an answer's `raced` are auxiliary: they only state
properties. The code's `clear()` empties the same structures; nothing in the
package calls it, nor `get_or_compute`.

### MemoryManager
`rows` is the table; `todo` holds what each worker's `extract_and_store` has yet
to store. `Insert` ends with the COMMIT and keeps the lock (`holder = "bound"`)
until `EnforceBound`; a crash in between (`holder = "down"`) skips it. Which facts
an exchange yields is up to the extractor: `Turns` are the sequences it may
produce. Time is in days and importance in tenths, so that importance x recency
compares in integers; which rows of the scope are most similar is left open.

### DirectorySync
`disk` is the file system, which users edit (`Edit`) also between two statements
of `sync()`; `manifest` and `stored` are `self.manifest` and its file; `files`,
`current` and `doc` are the locals; the index is `live` of `ChunkStore`, changed
only by its `Ingest` and `Remove`. `engine.update` is the removal and then the
ingestion, so that it can fail in between. `write_text` truncates and then fills
(`torn`). `files` is the set of paths left; the loop is `At` the first of them in the
order of `sorted()`, the constant sequence `Files`. One tenant is
enough here: `sync` passes its tenant on and deletes without one.

### Chunking, Retrieval, Assembly, composed by Prompt
`Chunking` is `chunk_text`. A text is a sequence of lines that are not blank, each
with a heading level, a flag for the marker of a fence and a size; sections and
chunks are ranges of lines, a unit is a line of prose or a match of `_CODE`.
`_CODE.split` sees the body of one section: its markers pair in their order
(`IsFence`: a fence opens at an odd one), whatever they paired with in the text. A
body that begins with its only marker is one unit, too, by `startswith` (`IsBlock`).
Markers within a line and text behind a closing marker are left out. `first`, `next`,
`curTok` are
`cur` and `cur_tok` (of `_split_headings` and of `_pack` in turn), `back` and
`backTok` the units carried over. The tokenizer is the constant operator
`CountTokens`: nothing relates the tokens of a section to those of its units.

`Retrieval` is `Retriever.retrieve` with the two searches. An item carries the
signals the code computes for it (a point on a line for its embedding, an FTS rank,
a cross-encoder score); `rows` is the vector index joined with the tables, a dead
row being a tombstone. `SearchWidens` and `LexicalWidens` are the rounds of the two
over-fetching loops; `Write` is whatever `VectorStore` may do to the rows (delete,
replace, compact) before the second search takes the lock.

`Assembly` has one action per stage 2b to 9, in the order of `_prepare`. The blend
of `rank` is an integer combination of the signals. A loop that keeps some items and
skips others is the set of positions it keeps: in `Filter` and `Budget`, the one set
`K` in which a position is exactly when the loop's test, given the members of `K` before
it (`New`, `Fits`), lets it in. Conflicts are between positions, too, as the code
compares objects and not their contents. Sizes are in tokens; `Margin` is in tenths.
The validator's count of opening and closing delimiters (`Balanced`) covers the shown
items and the user's message; one kind of tag stands for the four it knows, and
compression is taken to leave an item's tags as they are.

A list comprehension or a sort is a choice of positions (`Pick`, `SortedBy`) and the
items there (`At`), in both modules: positions ordered by counting those that come
before (`InOrder`), sums as the size of a set of pairs (`Total`). Nothing recurses, so
that all of it can be proved about.

`Prompt` composes the three: a document is chunked, its chunks (with their token
counts) stand in an index among others, a request retrieves and assembles. Each is
`ingest()` or `run()` of one caller; what several do at once is in `Requests`.

### LLM, Requests
`LLM` holds the decisions of `llm.py` as operators: which backend is selected, what
follows a failed attempt, the messages of a conversation with tools. `Requests` is
the service: `at` says where a request is (at the lock, in the pool's queue, in a
thread, back in the event loop, ended), `step` what its job does next, `lock` the
`asyncio.Lock` with its waiters, `pool` the executor's queue, `turn` the locals of
`run`, `run_stream` and of the stream's generator. A write or a query is one job; a
stream is one job to prepare and one per piece (`Pull`, `YieldPiece`), and its
client may leave between or during them (`Disconnect`): a queued pull is
cancelled, a running one goes on and its result is dropped. What the stages put
into a prompt is reduced to the validator's verdict, the cache to the set of
answers in it.

## 3. What TLC checks

Every property has a mutant, an operator next to the one it replaces, under which
its run must fail; PROJECT.json lists them.

| Run | Instance | What it shows |
|---|---|---|
| `store_clean` | 2 documents, 2 tenants, 6 batches, at most 4 vectors before an add; file backend; crashes and failing embeddings wherever nothing is committed but not indexed | `Aligned`, `NoRowCollision`, `LexicalMirror`, `UniqueIds`, `UpdateReplaces`, `UpdateNeverMixes`, `TombstonesBounded`, and `VectorStore` implements `ChunkStore` |
| `store_server` | the same batches; durable backend; a crash or exception at every statement | `NoForeignVector`, `RebuildRepairs` |
| `cache` | 2 workers, 3 questions of which 2 are alike, 2 entries, TTL 1, clock to 2, 2 writes that may succeed or fail | `Bounded`, `AnswersTheQuestion`, `HitWithinTTL`, `StaleOnlyByOverlap` |
| `memory` | 2 workers, 2 scopes, turns with 0 to 1 facts, one with a ttl, one pinned; 3 insertions over a bound of 1; crashes and restarts | `OneRowPerFact`, `FactIsLatest`, `ReadsAlive`, `PinnedSurvives`, `BoundKept` |
| `prompt` | all texts of up to 4 lines out of 5 kinds (headings of two levels, prose of two sizes, a fence's marker), texts of up to 6 lines with two fences, some cut by a comment, target 4, overlap 2; 6 indexes with tombstones, other tenants, ACLs and expired or conflicting items, 5 requests, 3 sets of ephemeral items; `recall_k` 2, first page 2, 2 writes between the searches | `ChunkBound`, `NothingLost`, `TrailInScope`, `FenceWhole`; `BestAuthorized`, `FusedOnceAndFairly`; `FilterJustified`, `TrimmedForRoom`, `HeadroomSuffices` |
| `requests` | 3 clients in 3 casts (two writes and a stream; a write and two queries; tools, a stream and a write), 3 backends, 2 threads, 1 retry, 2 rounds of at most 2 tool calls, 2 pieces | `Accounted`, `EveryCallAnswered`, `WritesInOrder`; `EveryRequestEnds` under fairness |
| `sync` | 2 files, texts of 0, 1 and 2 chunks, calls for both files or for one, any 5 edits at any statement, one crash or engine exception | `InStep`, `SettledStays` |

Why the bounds are enough. The store's batches contain one and two pieces, a
changed text, an empty one, another tenant under the same id, and a document
twice in a batch; an update that fails half way is followed by deletes of what is
there and of what is not; with 4 vectors an index can be compacted, emptied and refilled.
Two workers suffice for every race of the cache, since a worker only meets what
another has left in it; two entries evict. Three insertions over a bound of one
include an eviction skipped by a crash. Two files are one that fails and one that
was done before it; five edits write both, rewrite one under the call, put its
text back and remove it.

A fence cut by a comment and a whole one behind it take six lines (`Parted`). Four
lines make a section with two seams, a fence between prose, a section over
the target beside one under it, and a heading of each level after each; line sizes
1 to 3 against 4 and 2 include the unit that does not fit, the one that fits only
without overlap and the chunk carried over whole. A first page of 2 out of up to
5 rows is widened, and widened again, before the caller's rows are reached. The
windows of 4 to 24 tokens include one too small for the request itself, and the
margin (3 tenths, since a tenth of so few tokens is none) is exceeded by some
prompts and not by others. Three clients over two threads fill the pool and queue
at the lock behind a write that fails; two pieces put a disconnection before,
between and after them; one retry and two rounds reach every limit.

Three auxiliary variables say where a promise is suspended, so that it can be
checked everywhere else. `suspect` (sync): a path read after a rewrite that
followed its hash, and every path after a crash or an exception, each until a
later call updates or deletes it. `owed` (memory): a crash has skipped an
eviction, which the next insertion makes up for. `writer = "failed"` (cache): a
write raised after its commit and nothing has been invalidated since.

Runs that violate what the code's own documents say:

| Run | What happens | Against |
|---|---|---|
| `store_lost_vectors` | crash after the COMMIT of `add_documents`: later adds collide on row numbers | `tests/test_pipeline.py:144` |
| `store_renumbered` | crash before `rebuild` saves: chunks under foreign vectors | `backends.py:14-15`, `:92` |
| `cache_prefix` | prompts with the same first 256 characters share an entry | `cache.py:9-10` |
| `cache_race` | an answer computed across an invalidation is put after it | `cache.py:107-108` |
| `sync_crash` | a crash before the manifest is written leaves chunks for ever | `sync.py:1`, `:5-6` |

Met while modelling, in the models but without a run of their own. The first four are
disagreements with the code's own documents, too, and the properties are stated so that
they hold of the code as it is and would hold of it repaired:

* an update takes the chunks that *any* tenant has under a doc_id: `update_documents`
  deletes without the tenant (`store.py:182`), although `store.py:155-157`,
  `docs/api.md:60-61`, `docs/context-optimization.md:113-114` and
  `tests/test_auth.py:69-75` say of the deletion it calls that one tenant cannot delete
  another's document by id. `UpdateReplaces` and `UpdateNeverMixes` speak of a document
  in its own tenant;
* a heading-like line in a fence parts it, and its closing marker then pairs with the
  opening of the next fence, whose body becomes prose and is split, although
  `chunking.py:9` says "never split mid-code". `FenceWhole` excepts the parted fence and
  those behind it in what is then their section;
* streams never reach `_finalize` and requests that raise do not either, so they have no
  audit record, although `security.py:6` says "record of every request". `Accounted`
  demands a record of what does reach it, and allows at most one of everything else;
* a write that raises after its COMMIT (`store.py:146-148`) passes the invalidation by
  (`pipeline.py:134-136`), and outdated answers stay until the next write, against
  `cache.py:107-108`: `StaleOnlyByOverlap` excepts that span;
* pinned rows may exceed the cap (`memory.py:258-261`); syncing a second directory
  removes the chunks of the first, which is why `Wanted` is empty for files outside
  the directory synced (`sync.py:68-72`); a crash inside `write_text` leaves a
  manifest that cannot be read (`sync.py:76`);
* a short chunk is carried over whole, so the next one repeats it;
* a delete that finds nothing returns before the compaction (`store.py:168-169`), so
  the tombstones of an update that failed to embed outlive it: `TombstonesBounded`
  speaks of deletes that remove something, and of updates;
* an update cut short leaves documents of its batch deleted and not re-ingested
  (`UpdateNeverMixes` says that none is half of each);
* `fit` does not "trim the lowest-ranked tail" (`budget.py:3`): it skips what does
  not fit and goes on (`TrimmedForRoom` says what still holds); an item of a source
  without a block (`build.py:37-40`) takes budget and is never shown;
* what `build` and redaction add is not counted against a headroom of its own, only
  against the margin (`HeadroomSuffices`); a lone delimiter in a retrieved text or in
  the user's message makes the validator block the request, and two lone ones that
  cancel pass (`validate.py:73-75`);
* the cut at `recall_k` after the fusion can drop a chunk that only the lexical
  channel found (`retrieve.py:61-62`): `FusedOnceAndFairly` says what the cut keeps;
* the text of an unreachable Ollama server is cached like an answer
  (`pipeline.py:179-183`): `Complete`.

Deadlock is checked in the store's runs. The others really stop: their clocks,
writes, insertions, edits or requests are bounded, a prompt is finished, and a crash
while the manifest is torn leaves nothing that can be started.

Fairness is assumed in `Requests` alone: weak fairness of each request's job once it
runs in a thread (`Thread`), of the event loop's steps for it (`Loop`) and of the
executor (`StartJob`). The code justifies it: every call of a provider carries
`llm_timeout_s`, after which it raises, retries, rounds and pieces are bounded, the
locks below are held for local work only, the executor takes jobs in order, and the
event loop runs what is ready. Nothing is assumed of the clients, except that one
who stays reads what it is sent; `Reject`, `Accept` and `Disconnect` have no
fairness. A tool is assumed to return or raise. All other properties are safety
properties.

## 4. What TLAPS proves

`VectorStoreProofs`, for all documents, tenants, batches, bounds and faults:

* `Typing`, by induction; every other proof uses it.
* `DurableNoForeignVector` (`Persists`), from `ForeignInv`: in every state, not
  only between calls, each committed and each visible row that has a vector has
  its own, and the vectors about to be appended are those of the rows waiting.
* `QuietAligned`, `QuietNoRowCollision` (`FaultsAreQuiet`: faults happen only where the
  two stores agree), from `AlignedInv`, which adds for each statement what is committed, saved and still
  to come. `NoRowCollision` alone is not inductive: that the next row is free
  follows from every row being below the number of vectors plus those added.
* `AlwaysLexicalMirror`, from `MirrorInv` (the committed tables mirror, too: a
  crash restores them), under any faults.
* `AlwaysRebuildRepairs`, from `RepairInv`: during `rebuild` the new rows are
  0..n-1 and `added` lists their vectors, whatever was there before.
* `AlwaysUniqueIds`, from `UniqueInv`: uniqueness of `chunks`, of `committed` and
  of `chunks` together with the rows `rebuild` has yet to insert again.

`ResponseCacheProofs`: `CacheTyping`; `AlwaysBounded` (`Bounded`; the order of
insertion lists each cached question once, so evicting its head makes room for one);
`AlwaysHitWithinTTL`; `PrefixAnswersTheQuestion` under `PrefixesDiffer`
(`cache_prefix` shows that the assumption is needed); `OverlapOnly`, under every
interleaving and failure, from `OverlapInv`: between a write and its invalidation
old answers are in the cache, and requests in flight carry the epoch they began in.

`MemoryManagerProofs` proves all that `memory` checks, for all scopes, facts, bounds
and numbers of writes and crashes:

* `MemoryTyping`, by induction; ids of rows are below the next id.
* `FactsMerge` (`OneRowPerFact`) and `FactsLatest` (`FactIsLatest`), by one
  induction: that a merge leaves the latest value rests on there being no second
  row of the fact, which rests on the lookup and the insertion being one step under
  the manager's lock.
* `PinnedRowsStay` (`PinnedSurvives`): a pinned row leaves only by its ttl or by a
  `forget()` of it, and no merge unpins it.
* `BoundHolds` (`BoundKept`), from `BoundInv`, which speaks of the table while the
  process is down, too: an eviction that a crash skips is owed by the next insertion,
  and the lemma `EnforceWithin` shows that it restores the bound from any state, not
  only from one row too many.
* `LiveReads` (`ReadsAlive`): what `retrieve` returned has not outlived its ttl.

`RequestsProofs`, for all clients and any number of threads, retries, rounds
and pieces:
`Typing`, `OrderedWrites` (`WritesInOrder`), `Accounting` (`Accounted`) and
`AnsweredCalls` (`EveryCallAnswered`). None of the last three is inductive; `IInv` is,
and adds to the types two parts about what requests share and one about each alone:

* `PoolInv`: whoever is in the executor's queue waits for it, and is there once.
  Without this a job could be started twice and leave two audit records.
* `LockInv`: every write under way is in the lock's queue, once, and only the first
  of them has gone further than the lock.
* `LocalOK(r)`: at which step a request of each kind may be, with how many tool calls
  open; what it has left behind at each point (memory, audit, outcome); and that its
  conversation is in order, each result once and after its call.

No fairness is used, and disconnections may come at any step.

`ChunkStoreProofs`, about `VectorStore` as an implementation and about its calls:

* `UpdatesReplace` (`UpdateReplaces`), under any faults, for each document in its own
  tenant. `ReplaceInv` follows the call
  over its statements: between the deletions and the re-ingestion the documents of
  the batch have no chunks but those the loop has inserted, which are a prefix of
  what the batch contributes to an empty store; a compaction inside the call
  (`RepairInv`) holds back rows without losing one.
* `UpdatesNeverMix` (`UpdateNeverMixes`) under `FaultsAreQuiet`, from `PendingInv`,
  `ReplaceInv` and `AlignedInv`: only the deletions, the COMMIT of the add and that of
  the compaction change what is committed, and each is one of the three things it may be.
* `TombstonesStayBounded` (`TombstonesBounded`), from `PendingInv` and `CallInv`: when
  a delete that removes something returns, either the ratio was under the threshold or
  the rebuild it called left as many vectors as chunks (`FiniteInv`: cardinalities are
  those of finite sets).
* `ImplementsAbstractStore` (`ImplementsChunkStore`) under `FaultsAreQuiet`:
  `StepImplements` maps each step to a whole `Ingest`, a whole `Remove` or a
  stutter. The commit of an add is the `Ingest`, and it is one since what the call
  inserted is the contribution of its batch to what was committed (`AlignedInv`).

`DirectorySyncProofs`, for all files, texts, edits, calls, crashes and exceptions:
`Typing`, `SyncedInStep` (`InStep`) and `SettledUntouched` (`SettledStays`). The
invariant has one part per structure: `RecordInv` (the manifest and its file agree,
but while it is torn), `LoopInv` (which path `sync` is at and which are left),
`IndexInv` (what the index holds of a path that is not suspect: what the manifest
says, or what the loop has read, or nothing between removal and ingestion), `QuietInv`
and `SettledInv` (as long as nobody edits, `current` and the disk agree). `InStep` alone is not
inductive: it speaks of completed calls, and says nothing of the half-done one.

`ChunkingProofs`, for all texts, sizes and token counters, in `Prompt`: `BoundedChunks`
(`ChunkBound`), `NoLineLost` (`NothingLost`), `TrailsInScope` (`TrailInScope`),
`FencesWhole` (`FenceWhole`), all from one invariant with a lemma per action:

* units partition a section (`UnitFacts`, `UnitsApart`: two matches of `_CODE` that
  share a line are one, by the parity of the markers before them), and `first`, `next`
  and `back` always stand at a `Seam` that no unit crosses. A fence of the text is a
  match in its section if the section begins outside every fence, since then as many
  markers are left out before it as pairs (`MarkersAdd`, `FencesBegin`, `FencesEnd`,
  `SamePairs`); and a section never begins or ends inside a fence whose lines are no
  headings (`FenceInSection`).
* `SplitInv`: the stack is exactly the headings that are still open, in order
  (`StackKeeps`: popping while `>=` removes exactly what the new heading is not below).
* `KeptInv` and `SeamInv`: every line is in a chunk or in a section that waits, and
  the chunk that was cut last ends where the next must go on.
* `PackInv` carries the bound: `cur` is within the target, or is one unit and at most
  `Overlap` tokens carried over.

Nothing is assumed of `CountTokens` but that it counts in naturals, and finds a token
in a range of lines that is not empty.

`PromptProofs`, for all indexes, requests, ephemeral items and parameters, proves all
that `prompt` checks of `Retrieval` and `Assembly`:

* The operators first. `InOrderFacts`: counting what comes before lists a finite
  strict total order, each member once. From it `PickFacts` (a selection keeps order),
  `SortFacts` (a sort is a permutation, stable, and puts what beats before what is
  beaten) and `TotalInjects`, `TotalAdds`, `TotalSum` (sums of naturals).
* `TypeCorrect` (`TypeOK`), by induction, with the invariant of `Chunking`. That a
  compressed item still has a token is part of it.
* `BestAndAuthorized` (`BestAuthorized`). `PageFacts` is the reason that over-fetching
  works: filtering a prefix of a ranking gives the same first k as filtering all of it,
  as soon as it gives k or the prefix is everything. Besides the types it needs
  `NotSearched`, that nothing is left in `vecHits` when the index is empty.
* `FusesFairly` (`FusedOnceAndFairly`). `FusedInv` adds that a chunk has one live row
  (`RowsOnce`: the writes between the channels keep it) and that a channel's hits name
  a chunk once and are at most k (`HitsAreOnce`). `DominatorOutscores` is arithmetic on
  the fractions: a place above in one channel and not below in the other makes a
  greater sum, since a hit that is missing from a channel counts as place k + 1 and
  adds nothing. Without the bound on the hits that would be false.
* `FiltersJustly` (`FilterJustified`), from `RankedFirst`, that the filter is handed a
  sequence sorted by score: what it keeps is the better of two because of that alone.
  `KeptIsKeepable` and `DroppedIsDroppable` follow an item through its three
  selections; an item opposed in a conflict names its rival from its first occurrence.
* `TrimsForRoom` (`TrimmedForRoom`), from `BudgetFacts`: what is kept above an item is
  what the loop had used when it came to it.
* `MarginSuffices` (`HeadroomSuffices`), from `BuiltForRoom`, which bounds the prompt
  after `build` by the budget, what redaction grew and the blocks; that no item is
  shown twice needs that a trusted source is not an untrusted one.

Assumed of the constants: that they are of their types, `RecallK`, `OverFetch` and
`Halving` are positive, `Widening` is over 1 and the margin at most the whole; that `Untrusted` does not contain the two
trusted sources; and that an index has one live row per chunk (`LiveOnce`: the UNIQUE
column, and the theorem `AlwaysUniqueIds` of the store).

Only model-checked, and out of the prover's reach: liveness (`EveryRequestEnds`). Nor
can ENABLED be proved about, or induction over data (what a recursive definition
computes for every input); the modules with proofs declare no RECURSIVE operator.
Every other property of a passing run is a theorem. Some hold for all constants only
under an assumption that their run satisfies, too: `FaultsAreQuiet` or `Persists` for
the store, `PrefixesDiffer` for the cache.

## 5. What is not modelled

* **Data.** The mode without FTS5 (`fts_enabled` false is a query with `hybrid`
  false), the embedding-model stamp and vector dimensions, the approximation of HNSW
  search, the weights of `rank` and the BM25 formula of `hybrid_scores`, the text of
  the mock and of prompts, the patterns of `redact_pii` and of the injection scan
  (whose hits only warn), the hit counters, timers and costs.
* **Paths.** A new document that is added between the two searches of a query (deleted,
  replaced and compacted ones are `Write`); abstractive compression, which calls the model per item;
  `arun_with_sources`, whose fetchers run before the request does; the name of the
  memory scope; `/health` and `/stats`; several processes on one index directory.
* **Parts.** Loaders (conversion by libraries), embeddings (a pure function),
  `tune.py`, `domains/` and `eval/` (offline tools and remote data over the parts
  modelled here).

## 6. Plan

`Write` of `Retrieval` should be shown to be what `VectorStore` does to its rows,
additions included, so that `LiveOnce` is inherited and not assumed; the run then needs
smaller bounds elsewhere. The embedding-model stamp (`store.py:92`) is the largest
behaviour of the store without a model.
