--------------------------- MODULE MCVectorStore ----------------------------
(* Small instances of VectorStore. *)
EXTENDS VectorStore

CONSTANTS doc1, doc2, ten1, ten2, a, b, c

MCDocs == {doc1, doc2}
MCTenants == {ten1, ten2}
MCPieces == {a, b, c}

Doc(id, text, tenant) == [doc |-> id, text |-> text, tenant |-> tenant]

\* One and two pieces, a changed text, a text with no pieces, another tenant
\* under the same id, two documents, the same document twice.
MCBatches ==
  { << Doc(doc1, <<a>>, ten1) >>,
    << Doc(doc1, <<b, c>>, ten1) >>,
    << Doc(doc2, <<c>>, ten2) >>,
    << Doc(doc1, <<>>, ten2) >>,
    << Doc(doc2, <<b>>, ten1), Doc(doc1, <<b, c>>, ten2) >>,
    << Doc(doc2, <<a>>, ten1), Doc(doc2, <<c, b>>, ten1) >> }
=============================================================================
