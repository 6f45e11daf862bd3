----------------------------- MODULE ChunkStore -----------------------------
(***************************************************************************)
(* What contextx/store.py promises its callers: a set of chunks, changed   *)
(* only by ingesting a batch of documents or by removing a document.  Row  *)
(* numbers, vectors, files, transactions and compaction are not visible    *)
(* here; VectorStore shows that it implements this specification.          *)
(***************************************************************************)
EXTENDS Chunks

VARIABLE live

Init == live = {}

Ingest(b) == live' = live \cup Contribution(b, live)

Remove(d, scope) == live' = {c \in live : ~Covers(d, scope, c)}

Next == \/ \E b \in Batches : Ingest(b)
        \/ \E d \in Docs, scope \in Tenants \cup {AnyTenant} : Remove(d, scope)

Spec == Init /\ [][Next]_live
=============================================================================
