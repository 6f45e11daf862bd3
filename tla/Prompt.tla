------------------------------- MODULE Prompt -------------------------------
(***************************************************************************)
(* The way of a text into a prompt: a document is chunked (Chunking), its  *)
(* chunks stand in the index among others, and a query retrieves from the  *)
(* index (Retrieval) and assembles its prompt (Assembly).  ingest() and    *)
(* run() of contextx/pipeline.py, one call of each.                        *)
(***************************************************************************)
EXTENDS Chunking, Assembly

CONSTANT Layouts   \* what the index may hold; the document's chunks are its first rows

\* chunk_id is the primary key of the chunks: an index row has the chunk it was made for.
LiveOnce(layout) ==
  \A i, j \in DOMAIN layout :
    layout[i].live /\ layout[j].live /\ layout[i].item.id = layout[j].item.id => i = j

ASSUME LayoutsAssumption == Layouts \subseteq Seq(Row) /\ \A layout \in Layouts : LiveOnce(layout)

vars == <<chunkingVars, retrievalVars, assemblyVars>>

Init ==
  /\ ChunkingInit
  /\ stage = "ingest" /\ query = CHOOSE q \in Queries : TRUE
  /\ rows = <<>> /\ fetch = 0 /\ vecHits = <<>> /\ lexHits = <<>>
  /\ pool = <<>> /\ candidates = <<>> /\ writes = 0
  /\ low = FALSE /\ ranked = <<>> /\ filtered = <<>> /\ kept = <<>> /\ prompt = NoPrompt

Ingest ==
  /\ stage = "ingest" /\ ChunkingNext
  /\ UNCHANGED <<retrievalVars, assemblyVars>>

\* The chunks are stored; chunk_text's locals are gone.
Stored(layout) ==
  [r \in DOMAIN layout |->
     IF r \in DOMAIN chunks THEN [layout[r] EXCEPT !.item.tok = chunks[r].tok] ELSE layout[r]]

\* A request arrives: stage 1 collects its ephemeral items.
Collect ==
  /\ stage = "ingest" /\ Chunked
  /\ \E layout \in Layouts : rows' = Stored(layout)
  /\ query' \in Queries /\ pool' \in Pools
  /\ stage' = "search"
  /\ text' = <<>> /\ cpc' = "split" /\ stack' = <<>> /\ chunks' = <<>>
  /\ first' = 1 /\ next' = 1 /\ curTok' = 0 /\ back' = 1 /\ backTok' = 0
  /\ UNCHANGED <<sections, hits, candidates, writes, assemblyVars>>

Next ==
  \/ Ingest
  \/ Collect
  \/ RetrievalNext /\ UNCHANGED <<chunkingVars, assemblyVars>>
  \/ AssemblyNext /\ UNCHANGED chunkingVars

Spec == Init /\ [][Next]_vars

TypeOK == ChunkingTypeOK /\ RetrievalTypeOK /\ AssemblyTypeOK
=============================================================================
