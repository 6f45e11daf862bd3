--------------------------- MODULE DirectorySync ----------------------------
(***************************************************************************)
(* contextx/sync.py: keeps the index in step with a directory of files, by *)
(* a manifest of content hashes that is written after the index is.        *)
(*                                                                         *)
(* The index is the one VectorStore implements, seen through ChunkStore.   *)
(* Users edit files at any time, also between the statements of sync();    *)
(* the process may die and the engine may raise between two calls of it.   *)
(* A file's hash stands for its text, and the text for the chunks it is    *)
(* cut into.                                                               *)
(***************************************************************************)
EXTENDS Chunks, FiniteSets

CONSTANTS
  Files,     \* the paths in the order sorted() gives them
  Directories, \* the sets of paths a call of sync() may range over
  Tenant,    \* tenant_id
  NoFile,    \* the state of a path that has none
  Texts,     \* the texts a file may hold
  MaxEdits,  \* bound on the edits
  MaxFaults  \* bound on the crashes and the exceptions of the engine

Paths == {Files[n] : n \in DOMAIN Files}

ASSUME SyncAssumption ==
  /\ Files \in Seq(Docs) /\ Files # <<>> /\ Tenant \in Tenants
  /\ \A D \in Directories : D \subseteq Paths
  /\ Texts \subseteq Seq(Pieces) /\ NoFile \notin Texts
  /\ MaxEdits \in Nat /\ MaxFaults \in Nat

VARIABLES
  disk,      \* path -> text, or NoFile
  edits, faults, \* how many there were
  live,      \* the index
  manifest,  \* self.manifest: path -> text
  stored,    \* sync_manifest.json
  torn,      \* write_text() has truncated the file and not yet filled it
  pc,
  directory, \* the argument of sync()
  files,     \* the paths still to look at
  current,   \* path -> text; its domain is `seen`
  doc,       \* the document loaded
  quiet,     \* (auxiliary) no edit since sync() was called
  settled,   \* (auxiliary) the directory last synced, if nothing was edited since
  suspect    \* (auxiliary) the paths whose chunks need not be those of the text
             \* the manifest has

syncing == <<directory, files, current, doc>>
record  == <<manifest, stored, torn>>
world   == <<disk, edits, faults>>
vars == <<world, live, record, pc, syncing, quiet, settled, suspect>>

Store == INSTANCE ChunkStore WITH live <- live

Nothing == [f \in {} |-> <<>>]
NoDocument == [doc |-> Files[1], text |-> <<>>, tenant |-> Tenant]
Unsettled == {}

Init ==
  /\ disk = [f \in Paths |-> NoFile] /\ edits = 0 /\ faults = 0
  /\ live = {}
  /\ manifest = Nothing /\ stored = Nothing /\ torn = FALSE
  /\ pc = "idle" /\ directory = {} /\ files = {} /\ current = Nothing /\ doc = NoDocument
  /\ quiet = TRUE /\ settled = Unsettled /\ suspect = {}

Leave == /\ pc' = "idle" /\ directory' = {} /\ files' = {}
         /\ current' = Nothing /\ doc' = NoDocument

\* An exception leaves sync() with self.manifest as it was: what the call has
\* done to the index so far is nowhere recorded.
Raise == /\ Leave /\ suspect' = Paths
         /\ UNCHANGED <<disk, edits, live, record, quiet, settled>>

-----------------------------------------------------------------------------
AnyPath(f) == f \in Paths   \* mutant: the listing is not checked against the disk
Exists(f) == disk[f] # NoFile

\* sorted(Path(directory).glob(glob)), regular files with a loader.
Sync(D) ==
  /\ pc = "idle" /\ pc' = "hash" /\ directory' = D
  /\ files' = {f \in D : Exists(f)}
  /\ current' = Nothing /\ quiet' = TRUE
  /\ settled' = IF D = settled THEN settled ELSE Unsettled
  /\ UNCHANGED <<world, live, record, doc, suspect>>

\* The path the loop is at: the first of those left.
Position(f) == CHOOSE n \in DOMAIN Files : Files[n] = f
At(f) == f \in files /\ \A g \in files : Position(f) <= Position(g)

Unchanged(f) == f \in DOMAIN manifest /\ manifest[f] = disk[f]

HashFile ==
  /\ pc = "hash"
  /\ \E f \in files :
       /\ At(f) /\ Exists(f)
       /\ current' = [g \in DOMAIN current \cup {f} |-> IF g = f THEN disk[f] ELSE current[g]]
       /\ IF Unchanged(f)
            THEN files' = files \ {f} /\ UNCHANGED pc
            ELSE pc' = "load" /\ UNCHANGED files
  /\ UNCHANGED <<world, live, record, directory, doc, quiet, settled, suspect>>

LoadFile ==
  /\ pc = "load"
  /\ \E f \in files :
       /\ At(f) /\ Exists(f)
       /\ doc' = [doc |-> f, text |-> disk[f], tenant |-> Tenant]
       /\ pc' = IF f \in DOMAIN manifest THEN "update" ELSE "ingest"
  /\ UNCHANGED <<world, live, record, directory, files, current, quiet, settled, suspect>>

\* read_bytes() or the loader finds no file.
FileVanished == /\ pc \in {"hash", "load"} /\ \E f \in files : At(f) /\ ~Exists(f)
                /\ Raise /\ UNCHANGED faults

OldStays(path) == UNCHANGED live   \* mutant: update() ingests only
Clear(path) == Store!Remove(path, AnyTenant)

\* engine.update() clears the document, and ingests it.
UpdateClears ==
  /\ pc = "update" /\ pc' = "ingest"
  /\ Clear(doc.doc)
  /\ UNCHANGED <<world, record, syncing, quiet, settled, suspect>>

Ingest ==
  /\ pc = "ingest" /\ pc' = "hash"
  /\ Store!Ingest(<<doc>>)
  /\ files' = files \ {doc.doc} /\ doc' = NoDocument
  /\ suspect' = IF doc.text # current[doc.doc] THEN suspect \cup {doc.doc}
                ELSE IF doc.doc \in DOMAIN manifest THEN suspect \ {doc.doc} ELSE suspect
  /\ UNCHANGED <<world, record, directory, current, quiet, settled>>

\* Files that vanished from disk -- or lie outside this directory.
Unseen == DOMAIN manifest \ DOMAIN current

ToDelete == {f \in Unseen : \E c \in live : c.doc = f}

\* Deleting a path without chunks changes nothing.
DeleteUnseen(f) ==
  /\ pc = "hash" /\ files = {}
  /\ f \in ToDelete
  /\ Store!Remove(f, AnyTenant)
  /\ suspect' = suspect \ {f}
  /\ UNCHANGED <<world, record, pc, syncing, quiet, settled>>

NewManifest == current

\* write_text() opens the file for writing, which empties it ...
TruncateManifest ==
  /\ pc = "hash" /\ files = {} /\ ToDelete = {}
  /\ manifest' = NewManifest
  /\ pc' = "write" /\ torn' = TRUE
  /\ UNCHANGED <<world, live, stored, syncing, quiet, settled, suspect>>

KeepsOldFile == stored   \* mutant: the manifest stays in memory
Written == manifest

\* ... and fills it.
WriteManifest ==
  /\ pc = "write"
  /\ stored' = Written /\ torn' = FALSE
  /\ settled' = IF quiet THEN directory ELSE Unsettled
  /\ Leave
  /\ UNCHANGED <<world, live, manifest, quiet, suspect>>

-----------------------------------------------------------------------------
\* Each engine call may raise before its first COMMIT, and update() after it.
EngineRaises ==
  /\ faults < MaxFaults /\ faults' = faults + 1
  /\ pc \in {"update", "ingest"}
  /\ Raise

Crash ==
  /\ faults < MaxFaults /\ faults' = faults + 1
  /\ pc # "down" /\ pc' = "down"
  /\ directory' = {} /\ files' = {} /\ current' = Nothing /\ doc' = NoDocument
  /\ suspect' = IF pc = "idle" THEN suspect ELSE Paths
  /\ UNCHANGED <<disk, edits, live, record, quiet, settled>>

\* DirectorySync() reads the manifest; an empty file is not JSON, and raises.
Restart ==
  /\ pc = "down" /\ ~torn
  /\ pc' = "idle" /\ manifest' = stored
  /\ UNCHANGED <<world, live, stored, torn, syncing, quiet, settled, suspect>>

Edit(f, s) ==
  /\ edits < MaxEdits /\ edits' = edits + 1
  /\ disk[f] # s /\ disk' = [disk EXCEPT ![f] = s]
  /\ quiet' = FALSE /\ settled' = Unsettled
  /\ UNCHANGED <<faults, live, record, pc, syncing, suspect>>

Next ==
  \/ \E D \in Directories : Sync(D)
  \/ HashFile \/ LoadFile \/ FileVanished \/ UpdateClears \/ Ingest
  \/ \E f \in Paths : DeleteUnseen(f)
  \/ TruncateManifest \/ WriteManifest
  \/ EngineRaises \/ Crash \/ Restart
  \/ \E f \in Paths, s \in Texts \cup {NoFile} : Edit(f, s)

Spec == Init /\ [][Next]_vars

-----------------------------------------------------------------------------
(* Properties                                                              *)

IsManifest(m) == DOMAIN m \subseteq Paths /\ m \in [DOMAIN m -> Texts]

TypeOK ==
  /\ disk \in [Paths -> Texts \cup {NoFile}] /\ live \subseteq Chunk
  /\ IsManifest(manifest) /\ IsManifest(stored) /\ IsManifest(current)
  /\ torn \in BOOLEAN /\ quiet \in BOOLEAN
  /\ directory \subseteq Paths /\ settled \subseteq Paths /\ suspect \subseteq Paths
  /\ pc \in {"idle", "hash", "load", "update", "ingest", "write", "down"}
  /\ files \subseteq Paths /\ doc \in Document
  /\ edits \in Nat /\ faults \in Nat

ChunksOf(f) == {c \in live : c.doc = f}
Wanted(f) ==
  IF f \in directory /\ Exists(f)
    THEN {ChunkOf([doc |-> f, text |-> disk[f], tenant |-> Tenant], i) : i \in DOMAIN disk[f]}
    ELSE {}

SyncReturns == pc = "write" /\ pc' = "idle"

\* "keep the index in step with a directory of files": a sync() nobody edits
\* under leaves every path with the chunks of its file, no more and no fewer.
\* Edits during earlier calls do no harm, nor do reverted ones; what may be off
\* is a path rewritten between its hash and its reading, or one the calls since
\* a crash or an exception found no reason to update or delete.
InStep ==
  [][SyncReturns /\ quiet => \A f \in Paths \ suspect : ChunksOf(f) = Wanted(f)]_vars

\* test_sync_add_update_delete, second call: while nothing is edited, a further
\* sync() of the directory does not touch the index -- nor after a restart, nor
\* after crashes and exceptions that came before the sync() that settled it.
SettledStays ==
  [][settled # Unsettled /\ directory = settled => live' = live]_vars

\* The promise itself, for every path.
AlwaysInStep ==
  [][SyncReturns /\ quiet => \A f \in Paths : ChunksOf(f) = Wanted(f)]_vars
=============================================================================
