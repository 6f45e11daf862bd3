------------------------------- MODULE Chunks --------------------------------
(***************************************************************************)
(* Documents, the chunks they are cut into, and chunk identity, as         *)
(* contextx/store.py uses them.                                            *)
(***************************************************************************)
EXTENDS Naturals, Sequences

CONSTANTS
  Docs,     \* document ids
  Tenants,  \* tenant ids
  Pieces,   \* the texts a chunk can hold
  Batches,  \* the lists of documents a caller may pass to one call
  AnyTenant \* delete_document's tenant_id = None

\* The chunker's output stands for a document's text: a sequence of pieces.
Document == [doc: Docs, text: Seq(Pieces), tenant: Tenants]
Chunk    == [doc: Docs, idx: Nat, text: Pieces, tenant: Tenants]

ASSUME BatchesAssumption == Batches \subseteq Seq(Document)
ASSUME TenantAssumption  == AnyTenant \notin Tenants

\* chunk_id = f"{doc.doc_id}:{i}": the tenant is not part of it.
Id(c) == <<c.doc, c.idx>>
Ids(s) == {Id(c) : c \in s}

ChunkOf(doc, i) == [doc |-> doc.doc, idx |-> i, text |-> doc.text[i], tenant |-> doc.tenant]

\* The chunks a batch contributes to a store that holds the chunks s: those
\* whose id is new, the first of each id in the order of the batch.
Contribution(b, s) ==
  {c \in UNION {{ChunkOf(b[k], i) : i \in DOMAIN b[k].text} : k \in DOMAIN b} :
     /\ Id(c) \notin Ids(s)
     /\ \E k \in DOMAIN b : \E i \in DOMAIN b[k].text :
          /\ c = ChunkOf(b[k], i)
          /\ \A m \in 1..(k - 1) : b[m].doc = c.doc => i \notin DOMAIN b[m].text}

\* Does a deletion of document d in the given tenant scope cover chunk c?
Covers(d, scope, c) == c.doc = d /\ (scope = AnyTenant \/ c.tenant = scope)
=============================================================================
