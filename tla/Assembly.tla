------------------------------ MODULE Assembly ------------------------------
(***************************************************************************)
(* Stages 2b to 9 of ContextEngine._prepare (contextx/pipeline.py): the    *)
(* candidates of Retrieval are reranked, ranked, filtered, compressed and  *)
(* fitted to the token budget, and become a prompt that is validated.      *)
(* One action per stage; an item carries the signals its scores are made   *)
(* of.                                                                     *)
(***************************************************************************)
EXTENDS Retrieval

CONSTANTS
  Untrusted,     \* UNTRUSTED_SOURCES
  CrossEncoder,  \* FALSE: no model is installed, and rerank is the identity
  RerankK, AbstainBelow,
  DupWidth,      \* embeddings this close exceed dup_threshold
  NoFact,
  MaxItemTok,    \* max_item_tokens
  Halving,       \* 1 / compress_target_ratio
  Margin,        \* budget_safety_margin, in tenths
  RedactPii,     \* redact_pii
  SystemTok, UserTok,                 \* the system prompt, the user's message
  InstructionTok, BlockTok, LabelTok  \* what build adds: per prompt, block and item

ASSUME AssemblyAssumption ==
  /\ {RerankK, DupWidth, MaxItemTok, Halving, SystemTok, UserTok, InstructionTok,
      BlockTok, LabelTok} \subseteq Nat
  /\ Margin \in 0..10 /\ Halving > 0 /\ AbstainBelow \in Int
  /\ {CrossEncoder, RedactPii} \subseteq BOOLEAN
  /\ Untrusted \cap {"long_term_memory", "current_conversation"} = {}

VARIABLES
  low,       \* low_confidence
  ranked,    \* the items in rank order
  filtered,  \* after filter and compress
  kept,      \* after the budget
  prompt     \* BuiltPrompt and the validator's verdict

assemblyVars == <<low, ranked, filtered, kept, prompt>>

NoPrompt ==
  [memory |-> <<>>, conversation |-> <<>>, numbered |-> <<>>, tokens |-> 0, ok |-> TRUE]

\* The sum of the naturals f[i], counted out.
Total(f) == Cardinality(UNION {{i} \X (1..f[i]) : i \in DOMAIN f})
TokensAt(s, P) == Total([i \in P |-> s[i].tok])
TokensOf(s) == TokensAt(s, DOMAIN s)

Stage(from, to) ==
  /\ stage = from /\ stage' = to
  /\ UNCHANGED <<query, rows, hits, pool, candidates, writes>>

-----------------------------------------------------------------------------
(* 2b rerank, 3 rank                                                       *)

Relevance(x) == IF CrossEncoder THEN x.rel ELSE Similarity(x)
MoreRelevant(x, y) == Relevance(x) > Relevance(y)

\* The blend: relevance dominates; similarity, keywords, recency, conversation.
Score(x) == 3 * Relevance(x) + Similarity(x) + x.lex + x.stamp
              + (IF x.src = "current_conversation" THEN 1 ELSE 0)
ScoresHigher(x, y) == Score(x) > Score(y)

Rerank ==
  /\ Stage("rerank", "rank")
  /\ LET best == FirstOf(Sorted(candidates, MoreRelevant), RerankK)
     IN  /\ ranked' = best
         /\ low' = (best # <<>> /\ \A x \in Elements(best) : Relevance(x) < AbstainBelow)
  /\ UNCHANGED <<filtered, kept, prompt>>

Rank ==
  /\ Stage("rank", "filter")
  /\ ranked' = Sorted(ranked, ScoresHigher)
  /\ UNCHANGED <<low, filtered, kept, prompt>>

-----------------------------------------------------------------------------
(* 4 filter                                                                *)

\* The pipeline passes min_similarity = 0.0: a negative cosine is dropped.
Fresh(x) == ~x.expired /\ Similarity(x) >= 0

\* The items that state the fact of s[i], as positions.
Group(s, i) == {j \in DOMAIN s : s[j].fact = s[i].fact}

\* max(group, key=(score, timestamp)), the first of equals.
Winner(s, i) ==
  \A j \in Group(s, i) :
    \/ Score(s[i]) > Score(s[j])
    \/ Score(s[i]) = Score(s[j]) /\ s[i].stamp > s[j].stamp
    \/ Score(s[i]) = Score(s[j]) /\ s[i].stamp = s[j].stamp /\ i <= j

\* _resolve_conflicts: one value per fact, in rank order.
Unopposed(s, i) ==
  \/ s[i].fact = NoFact
  \/ \A j \in Group(s, i) : s[j].value = s[i].value
  \/ Winner(s, i)
Resolved(s) == Pick(s, {i \in DOMAIN s : Unopposed(s, i)})

Near(x, y) == LET gap == x.emb - y.emb IN gap <= DupWidth /\ -gap <= DupWidth

\* Compared with what is kept (K), never with what was itself dropped.
AgainstAll(s, K, i) == \A j \in DOMAIN s : j < i => ~Near(s[j], s[i])   \* mutant
New(s, K, i) == \A j \in K : j < i => ~Near(s[j], s[i])

Filter ==
  /\ Stage("filter", "compress")
  /\ LET s == Resolved(Where(ranked, Fresh))
     IN  \E K \in SUBSET DOMAIN s :
           /\ \A i \in DOMAIN s : i \in K <=> New(s, K, i)
           /\ filtered' = Pick(s, K)
  /\ UNCHANGED <<low, ranked, kept, prompt>>

-----------------------------------------------------------------------------
(* 6 compress, 7 budget                                                    *)

\* _extractive: a long item keeps a part of its sentences, and at least one; count_tokens
\* finds a token in each.
NoMinimum(x) == x.sents \div Halving   \* mutant: max(1, ...) forgotten
KeptSentences(x) == Larger(1, x.sents \div Halving)
Compressed(x) ==
  IF x.tok <= MaxItemTok \/ x.sents <= 1 THEN x
  ELSE [x EXCEPT !.tok = KeptSentences(x) * Larger(1, x.tok \div x.sents)]

Compress ==
  /\ Stage("compress", "budget")
  /\ filtered' = [i \in DOMAIN filtered |-> Compressed(filtered[i])]
  /\ UNCHANGED <<low, ranked, kept, prompt>>

Ceiling == query.window - query.reserve
Raw == Ceiling - SystemTok - UserTok
WithoutUserMessage == Larger(0, ((Ceiling - SystemTok) * (10 - Margin)) \div 10)   \* mutant
Available == Larger(0, (Raw * (10 - Margin)) \div 10)

\* fit: an item that does not fit behind what is kept (K) is skipped, and the loop goes on.
CountsTrimmed(s, K, i) == TokensOf(FirstOf(s, i)) <= Available   \* mutant: used grows by the items it leaves out
Fits(s, K, i) == TokensAt(s, {j \in K : j < i}) + s[i].tok <= Available

Budget ==
  /\ Stage("budget", "build")
  /\ \E K \in SUBSET DOMAIN filtered :
       /\ \A i \in DOMAIN filtered : i \in K <=> Fits(filtered, K, i)
       /\ kept' = Pick(filtered, K)
  /\ UNCHANGED <<low, ranked, filtered, prompt>>

-----------------------------------------------------------------------------
(* PII redaction, 8 build, 9 validate                                      *)

\* [REDACTED_...] may be longer than what it replaces; it.tokens is not counted again.
Redacted(x) ==
  IF RedactPii /\ x.src \in Untrusted THEN [x EXCEPT !.tok = @ + x.pii] ELSE x

From(s, sources) == Where(s, LAMBDA x : x.src \in sources)
Blocks(p) == {b \in {"memory", "conversation", "numbered"} : p[b] # <<>>}
Shown(p) == p.memory \o p.conversation \o p.numbered

\* The tags and labels, and the instructions that go with untrusted context.
Overhead(p) ==
  BlockTok * Cardinality(Blocks(p)) + LabelTok * Len(Shown(p))
    + (IF p.numbered = <<>> THEN 0 ELSE InstructionTok)

\* An item whose source has no block is in no section.
Build ==
  /\ Stage("build", "validate")
  /\ LET s == [i \in DOMAIN kept |-> Redacted(kept[i])]
         p == [memory |-> From(s, {"long_term_memory"}),
               conversation |-> From(s, {"current_conversation"}),
               numbered |-> From(s, Untrusted), tokens |-> 0, ok |-> TRUE]
     IN  prompt' = [p EXCEPT !.tokens = SystemTok + UserTok + TokensOf(Shown(p)) + Overhead(p)]
  /\ UNCHANGED <<low, ranked, filtered, kept>>

\* prompt.user.count(tag): over the user's message and everything shown.
Balanced(p) ==
  LET s == Shown(p)
  IN  query.opened + Total([i \in DOMAIN s |-> s[i].opened])
        = query.closed + Total([i \in DOMAIN s |-> s[i].closed])

Validate ==
  /\ Stage("validate", "done")
  /\ prompt' = [prompt EXCEPT !.ok = (prompt.tokens <= Ceiling /\ Balanced(prompt))]
  /\ UNCHANGED <<low, ranked, filtered, kept>>

AssemblyNext == Rerank \/ Rank \/ Filter \/ Compress \/ Budget \/ Build \/ Validate

-----------------------------------------------------------------------------
(* Properties                                                              *)

\* What stands above x in s.
OverIn(s, x) == {y \in Elements(s) : \E i, j \in DOMAIN s : i < j /\ s[i] = y /\ s[j] = x}

BuiltPrompt == [memory: Seq(Item), conversation: Seq(Item), numbered: Seq(Item),
                tokens: Nat, ok: BOOLEAN]

AssemblyTypeOK ==
  /\ low \in BOOLEAN /\ prompt \in BuiltPrompt
  /\ {ranked, filtered, kept} \subseteq Seq(Item)

SameFact(x) == {y \in Elements(ranked) : Fresh(y) /\ y.fact = x.fact}

\* The filter drops exactly what it has a reason to drop, whatever order its
\* three rules meet an item in: what it keeps is in rank order, without two values
\* of a fact and without near-duplicates; what it drops is stale, lost a conflict
\* to a fresh item that scores no less, or is near an item kept above it.
FilterJustified ==
  stage = "compress" =>
    /\ \A i, j \in DOMAIN filtered : i < j =>
         /\ Score(filtered[i]) >= Score(filtered[j])
         /\ ~Near(filtered[i], filtered[j])
         /\ filtered[i].fact = filtered[j].fact /\ filtered[i].fact # NoFact
              => filtered[i].value = filtered[j].value
    /\ \A x \in Elements(ranked) \ Elements(filtered) :
         \/ ~Fresh(x)
         \/ x.fact # NoFact /\ \E y, z \in SameFact(x) :
              y # x /\ Score(y) >= Score(x) /\ z.value # y.value
         \/ \E y \in OverIn(ranked, x) \cap Elements(filtered) : Near(x, y)

\* An item is left out only because it does not fit behind those ranked above it:
\* nothing ranked lower ever takes its place, and the budget is never exceeded.
TrimmedForRoom ==
  stage = "build" =>
    /\ TokensOf(kept) <= Available
    /\ \A x \in Elements(filtered) \ Elements(kept) :
         TokensOf(Where(kept, LAMBDA y : y \in OverIn(filtered, x))) + x.tok > Available

Headroom == Raw - (Raw * (10 - Margin)) \div 10
Growth(s) == Total([i \in DOMAIN s |-> Redacted(s[i]).tok - s[i].tok])

\* "keep headroom for tokenizer drift + block delimiters we add in build": as long
\* as what build and redaction add fits into the safety margin, a request whose
\* own message fits is never blocked for its length; and no prompt over the
\* ceiling is ever sent.
HeadroomSuffices ==
  stage = "done" =>
    /\ prompt.ok => prompt.tokens <= Ceiling
    /\ ~prompt.ok => \/ Raw < 0
                     \/ Overhead(prompt) + Growth(kept) > Headroom
                     \/ ~Balanced(prompt)
=============================================================================
