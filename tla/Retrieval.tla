----------------------------- MODULE Retrieval ------------------------------
(***************************************************************************)
(* The recall of one query: VectorStore.search and lexical_search          *)
(* (contextx/store.py) fused by Retriever.retrieve (contextx/retrieve.py), *)
(* and the ephemeral items of the request (contextx/collect.py).           *)
(*                                                                         *)
(* Each channel holds the store's lock for the whole of its search, but    *)
(* retrieve() takes it twice: another thread may write in between.  Rows   *)
(* are positions of the vector index; a dead row has a vector and no chunk.*)
(* An embedding is a point on a line with the query at 0, and the cosine   *)
(* falls with the distance, from Reach at the query itself.                *)
(***************************************************************************)
EXTENDS Integers, Sequences, FiniteSets

CONSTANTS
  Items,          \* the chunks and ephemeral items there can be
  Queries,        \* the requests
  Pools,          \* what collect() and memory.retrieve() may find for a request
  RecallK,        \* recall_k
  OverFetch,      \* the 8 of k * 8
  Widening,       \* the 4 of fetch * 4
  RrfK,           \* rrf_k
  EphemeralK,     \* ephemeral_k
  MinSimilarity,  \* min_similarity
  Reach,
  NoFilter,       \* metadata_filter = None
  MaxWrites       \* bound on the writes during one query

\* ver: which version of its text; src: Source; lex: how well FTS5 ranks it for the query (0: no match); rel: the
\* cross-encoder's score; sents: its sentences; pii: tokens redaction adds to it;
\* opened, closed: how often its text holds an opening and a closing tag of the prompt.
Item == [id: STRING, ver: Nat, src: STRING, tenant: STRING, acl: SUBSET STRING, meta: STRING,
         emb: Int, lex: Nat, rel: Int, stamp: Nat, fact: STRING, value: Nat,
         expired: BOOLEAN, tok: Nat \ {0}, sents: Nat, pii: Nat, opened: Nat, closed: Nat]

Row == [item: Item, live: BOOLEAN]
Query == [tenant: STRING, principals: SUBSET STRING, filter: STRING, hybrid: BOOLEAN,
          window: Nat, reserve: Nat,   \* max_context_tokens, reserve_output_tokens
          opened: Nat, closed: Nat]    \* the tags in user_message

ASSUME RetrievalAssumption ==
  /\ {RecallK, EphemeralK, OverFetch, Widening, RrfK, MaxWrites} \subseteq Nat
  /\ RecallK > 0 /\ OverFetch > 0 /\ Widening > 1
  /\ {MinSimilarity, Reach} \subseteq Int
  /\ Items \subseteq Item /\ Pools \subseteq Seq(Items)
  /\ Queries \subseteq Query /\ Queries # {}

VARIABLES
  stage,       \* the next call of _prepare
  query,       \* the request
  rows,        \* vindex joined with the tables: row r is rows[r + 1]
  fetch,       \* search's fetch, lexical_search's limit
  vecHits, lexHits,
  pool,        \* the ephemeral items
  candidates,  \* retrieve()'s result
  writes       \* writes so far

hits == <<fetch, vecHits, lexHits>>
retrievalVars == <<stage, query, rows, hits, pool, candidates, writes>>

Smaller(a, b) == IF a <= b THEN a ELSE b
Larger(a, b) == IF a >= b THEN a ELSE b
FirstOf(s, n) == SubSeq(s, 1, Smaller(n, Len(s)))
Elements(s) == {s[i] : i \in DOMAIN s}

\* The members of S, one after another: precedes is a strict total order on S.
InOrder(S, precedes) ==
  [n \in 1..Cardinality(S) |->
     CHOOSE i \in S : Cardinality({j \in S : <<j, i>> \in precedes}) = n - 1]
At(s, places) == [n \in DOMAIN places |-> s[places[n]]]

\* [x for x in s if Test(x)]: the items at the positions P, all of them in their order.
Earlier(P) == {p \in P \X P : p[1] < p[2]}
Pick(s, P) == At(s, InOrder(P, Earlier(P)))
Where(s, Test(_)) == Pick(s, {i \in DOMAIN s : Test(s[i])})

\* sorted(s, reverse=True): stable, the items that beat the others first.
Stable(s, beats) ==
  {p \in (DOMAIN s) \X (DOMAIN s) : p \in beats \/ (<<p[2], p[1]>> \notin beats /\ p[1] < p[2])}
SortedBy(s, beats) == At(s, InOrder(DOMAIN s, Stable(s, beats)))
Sorted(s, Beats(_, _)) ==
  SortedBy(s, {p \in (DOMAIN s) \X (DOMAIN s) : Beats(s[p[1]], s[p[2]])})

Similarity(x) == Reach - (IF x.emb < 0 THEN -x.emb ELSE x.emb)
Closer(x, y) == Similarity(x) > Similarity(y)

-----------------------------------------------------------------------------
(* The two channels                                                        *)

Authorized(x) ==
  /\ x.tenant = query.tenant
  /\ x.acl = {} \/ x.acl \cap query.principals # {}

Matches(x) == query.filter = NoFilter \/ x.meta = query.filter
Readable(r) == r.live /\ Authorized(r.item) /\ Matches(r.item)

NearestFirst == Sorted(rows, LAMBDA r, s : Closer(r.item, s.item))
BestMatchFirst ==
  Sorted(Where(rows, LAMBDA r : r.live /\ r.item.lex > 0),
         LAMBDA r, s : r.item.lex > s.item.lex)

LiveRows == Where(rows, LAMBDA r : r.live)
Tombstones == Len(rows) - Len(LiveRows)

\* The first k readable rows of a ranking, as items.
HitsIn(ranking) ==
  LET found == FirstOf(Where(ranking, Readable), RecallK)
  IN  [i \in DOMAIN found |-> found[i].item]

StartSearch ==
  /\ stage = "search" /\ fetch = 0
  /\ fetch' = Smaller(Len(rows), Larger(RecallK * OverFetch, RecallK + Tombstones))
  /\ IF rows = <<>> THEN stage' = "between" ELSE UNCHANGED stage
  /\ UNCHANGED <<query, rows, vecHits, lexHits, pool, candidates, writes>>

FirstPageIsEnough == TRUE   \* mutant: no adaptive over-fetch
VectorPageIsEnough ==
  Len(HitsIn(FirstOf(NearestFirst, fetch))) >= RecallK \/ fetch >= Len(rows)

SearchWidens ==
  /\ stage = "search" /\ fetch > 0 /\ ~VectorPageIsEnough
  /\ fetch' = Smaller(Len(rows), fetch * Widening)
  /\ UNCHANGED <<stage, query, rows, vecHits, lexHits, pool, candidates, writes>>

SearchReturns ==
  /\ stage = "search" /\ fetch > 0 /\ VectorPageIsEnough
  /\ vecHits' = HitsIn(FirstOf(NearestFirst, fetch))
  /\ stage' = "between"
  /\ UNCHANGED <<query, rows, fetch, lexHits, pool, candidates, writes>>

\* Another thread deletes, updates or compacts while no search holds the lock.
Dead(id) == [r \in DOMAIN rows |->
               IF rows[r].item.id = id THEN [rows[r] EXCEPT !.live = FALSE] ELSE rows[r]]

Write ==
  /\ stage = "between" /\ writes < MaxWrites
  /\ \/ rows' = LiveRows
     \/ \E r \in Elements(LiveRows) : rows' = Dead(r.item.id)
     \/ \E r \in Elements(LiveRows), x \in Items :
          /\ x.id = r.item.id /\ x.ver # r.item.ver
          /\ rows' = Append(Dead(r.item.id), [item |-> x, live |-> TRUE])
  /\ writes' = writes + 1
  /\ UNCHANGED <<stage, query, hits, pool, candidates>>

\* hybrid and fts_enabled: the second channel; else the first hits are all.
StartLexical ==
  /\ stage = "between" /\ query.hybrid
  /\ fetch' = RecallK * OverFetch /\ stage' = "lexical"
  /\ UNCHANGED <<query, rows, vecHits, lexHits, pool, candidates, writes>>

VectorsOnly ==
  /\ stage = "between" /\ ~query.hybrid
  /\ candidates' = vecHits /\ stage' = "merge"
  /\ UNCHANGED <<query, rows, hits, pool, writes>>

LexicalPageIsEnough ==
  \/ Len(HitsIn(FirstOf(BestMatchFirst, fetch))) >= RecallK
  \/ Len(BestMatchFirst) < fetch \/ fetch >= Len(LiveRows)

LexicalWidens ==
  /\ stage = "lexical" /\ ~LexicalPageIsEnough
  /\ fetch' = Smaller(Len(LiveRows), fetch * Widening)
  /\ UNCHANGED <<stage, query, rows, vecHits, lexHits, pool, candidates, writes>>

LexicalReturns ==
  /\ stage = "lexical" /\ LexicalPageIsEnough
  /\ lexHits' = HitsIn(FirstOf(BestMatchFirst, fetch))
  /\ stage' = "fuse"
  /\ UNCHANGED <<query, rows, fetch, vecHits, pool, candidates, writes>>

-----------------------------------------------------------------------------
(* Fusion                                                                  *)

\* The place of x among the hits of a channel; 0 when it is not there.
PlaceByText(channel, x) ==   \* mutant: keyed by item_id, a digest of the text
  IF \E i \in DOMAIN channel : channel[i] = x
    THEN CHOOSE i \in DOMAIN channel : channel[i] = x
    ELSE 0
Place(channel, x) ==
  IF \E i \in DOMAIN channel : channel[i].id = x.id
    THEN CHOOSE i \in DOMAIN channel : channel[i].id = x.id
    ELSE 0

\* rrf[cid], the sum of 1 / (rrf_k + place) over the channels, as a fraction.
Rrf(x) ==
  LET v == Place(vecHits, x)
      l == Place(lexHits, x)
  IN  CASE l = 0 -> [num |-> 1, den |-> RrfK + v]
        [] v = 0 -> [num |-> 1, den |-> RrfK + l]
        [] OTHER -> [num |-> 2 * RrfK + v + l, den |-> (RrfK + v) * (RrfK + l)]

Outscores(x, y) == Rrf(x).num * Rrf(y).den > Rrf(y).num * Rrf(x).den

\* items: the vector hit of a chunk where there is one, in dict order.
FusedItems == vecHits \o Where(lexHits, LAMBDA x : Place(vecHits, x) = 0)

Fuse ==
  /\ stage = "fuse"
  /\ candidates' = FirstOf(Sorted(FusedItems, Outscores), RecallK)
  /\ stage' = "merge"
  /\ UNCHANGED <<query, rows, hits, pool, writes>>

\* durable + the best of the ephemeral items.
MergeEphemeral ==
  /\ stage = "merge"
  /\ candidates' = candidates \o
       Where(FirstOf(Sorted(pool, Closer), EphemeralK),
                 LAMBDA x : Similarity(x) >= MinSimilarity)
  /\ stage' = "rerank"
  /\ UNCHANGED <<query, rows, hits, pool, writes>>

RetrievalNext ==
  \/ StartSearch \/ SearchWidens \/ SearchReturns \/ Write
  \/ StartLexical \/ VectorsOnly \/ LexicalWidens \/ LexicalReturns
  \/ Fuse \/ MergeEphemeral

-----------------------------------------------------------------------------
(* Properties                                                              *)

RetrievalTypeOK ==
  /\ query \in Queries /\ fetch \in Nat /\ rows \in Seq(Row)
  /\ {vecHits, lexHits, pool, candidates} \subseteq Seq(Item)
  /\ writes \in 0..MaxWrites

MayRead(x) == x.tenant = query.tenant /\ (x.acl = {} \/ \E a \in x.acl : a \in query.principals)
Ideal(ranking) ==
  LET found == FirstOf(Where(ranking, LAMBDA r : r.live /\ MayRead(r.item) /\ Matches(r.item)),
                       RecallK)
  IN  [i \in DOMAIN found |-> found[i].item]

\* "a small tenant is never starved": each channel returns the k best chunks the
\* caller may read out of the whole index, although it looks at a part of it and
\* filters afterwards; no chunk of another tenant or outside its ACL is a hit.
BestAuthorized ==
  [][/\ stage = "search" /\ stage' = "between" => vecHits' = Ideal(NearestFirst)
     /\ stage = "lexical" /\ stage' = "fuse" => lexHits' = Ideal(BestMatchFirst)]_retrievalVars

IdPlace(channel, x) ==
  IF \E i \in DOMAIN channel : channel[i].id = x.id
    THEN CHOOSE i \in DOMAIN channel : channel[i].id = x.id ELSE RecallK + 1

\* x is placed above y by one channel and not below it by the other.
Dominates(x, y) ==
  /\ x.id # y.id
  /\ IdPlace(vecHits, x) <= IdPlace(vecHits, y) /\ IdPlace(lexHits, x) <= IdPlace(lexHits, y)
  /\ IdPlace(vecHits, x) < IdPlace(vecHits, y) \/ IdPlace(lexHits, x) < IdPlace(lexHits, y)

\* Fusion joins by chunk although rows are renumbered and texts replaced between
\* the two channels: a chunk is a candidate once, and never below one that both
\* channels like less -- so the cut at recall_k never prefers the worse of two.
FusedOnceAndFairly ==
  stage = "merge" /\ query.hybrid =>
    /\ \A i, j \in DOMAIN candidates : candidates[i].id = candidates[j].id => i = j
    /\ \A x \in Elements(vecHits) \cup Elements(lexHits) : \A j \in DOMAIN candidates :
         Dominates(x, candidates[j]) => \E i \in 1..(j - 1) : candidates[i].id = x.id
=============================================================================
