--------------------------- MODULE ResponseCache ----------------------------
(***************************************************************************)
(* contextx/cache.py and the way contextx/pipeline.py drives it.           *)
(*                                                                         *)
(* Requests run on worker threads: _prepare reads the corpus and builds a  *)
(* prompt, the cache is looked up under its lock, on a miss the model is   *)
(* called WITHOUT the lock, and the answer is put under the lock again.    *)
(* A writer changes the corpus and then drops the cached responses.  All   *)
(* of these interleave.                                                    *)
(*                                                                         *)
(* A prompt is its question and the version of the corpus its context was  *)
(* read from; an answer records the prompt it was computed for.  Only the  *)
(* "llm" namespace is modelled, and only its semantic lookup: src/ calls    *)
(* get_or_compute nowhere.                                                 *)
(***************************************************************************)
EXTENDS Naturals, Sequences, FiniteSets

CONSTANTS
  Workers,      \* concurrent requests
  Questions,
  Alike,        \* pairs of questions whose embeddings clear the threshold
  Prefixes,
  Prefix,       \* prompt.user[:256], as a function of the question
  MaxEntries,   \* cache_max_entries
  TTL,          \* cache_ttl_s
  MaxVersion,   \* bound on the writes
  MaxTime       \* bound on the clock

ASSUME CacheAssumption ==
  /\ Alike \subseteq Questions \X Questions
  /\ \A q \in Questions : <<q, q>> \in Alike
  /\ Prefix \in [Questions -> Prefixes]
  /\ MaxEntries \in Nat \ {0} /\ TTL \in Nat
  /\ MaxVersion \in Nat /\ MaxTime \in Nat

VARIABLES
  store,   \* _store, least recently used entry first
  sem,     \* _sem_vecs and _sem_keys, oldest first
  now,     \* time.time()
  corpus,  \* version of the committed corpus
  writer,  \* "idle"; "written": committed, cache not yet invalidated;
           \* "failed": committed, and the cache will not be invalidated
  call,    \* per worker: where its request is
  epoch    \* (auxiliary) how often the responses were dropped

vars == <<store, sem, now, corpus, writer, call, epoch>>

Prompt == [q: Questions, seen: Nat]
\* An answer: the prompt it was computed for, when it was put, and whether the
\* responses were dropped between the reading of its corpus and its put.
Answer == [prompt: Prompt, at: Nat, raced: BOOLEAN]
Entry  == [key: Prefixes, ts: Nat, value: Answer]
Match  == [emb: Prompt, key: Prefixes]
Idle   == [pc |-> "idle"]

WholePrompt(x) == x   \* mutant: the prompt is not cut to its prefix
Key(x) == Prefix[x.q]

\* Cosine of two prompts, as far as the code tells it apart: equal, at or above
\* the threshold, below it.
Sim(x, y) == IF x = y THEN 2 ELSE IF <<x.q, y.q>> \in Alike THEN 1 ELSE 0

Without(s, i) == SubSeq(s, 1, i - 1) \o SubSeq(s, i + 1, Len(s))
Newest(s, n)  == IF Len(s) > n THEN SubSeq(s, Len(s) - n + 1, Len(s)) ELSE s
Unbounded(s, n) == s   \* mutant: no eviction
Kept(s, n) == Newest(s, n)

Init ==
  /\ store = <<>> /\ sem = <<>> /\ now = 0
  /\ corpus = 0 /\ writer = "idle" /\ epoch = 0
  /\ call = [w \in Workers |-> Idle]

-----------------------------------------------------------------------------
(* The store of entries                                                    *)

At(key) == {i \in DOMAIN store : store[i].key = key}
Alive(i) == now - store[i].ts <= TTL

\* _get: an expired entry is deleted, a live one moves to the end.
SlidingTouch(i) == Append(Without(store, i), [store[i] EXCEPT !.ts = now])   \* mutant
Touched(i) == Append(Without(store, i), store[i])

\* _put.
Stored(key, value) ==
  LET others == IF At(key) = {} THEN store ELSE Without(store, CHOOSE i \in At(key) : TRUE)
  IN  Kept(Append(others, [key |-> key, ts |-> now, value |-> value]), MaxEntries)

-----------------------------------------------------------------------------
(* A request: run() around semantic_get_or_compute                         *)

Goto(w, rec) == call' = [call EXCEPT ![w] = rec]

\* Stages 1 to 9: the prompt holds what the corpus says now.
Prepare(w, q) ==
  /\ call[w].pc \in {"idle", "returned"}
  /\ Goto(w, [pc |-> "lookup", prompt |-> [q |-> q, seen |-> corpus],
              epoch |-> epoch, settled |-> writer = "idle"])
  /\ UNCHANGED <<store, sem, now, corpus, writer, epoch>>

Return(w, value) ==
  Goto(w, [pc |-> "returned", prompt |-> call[w].prompt, answer |-> value,
           settled |-> call[w].settled])
Miss(w) == Goto(w, [call[w] EXCEPT !.pc = "compute"])

\* argmax: the first of the most similar.
Best(x, j) == \A k \in DOMAIN sem : /\ Sim(sem[k].emb, x) <= Sim(sem[j].emb, x)
                                    /\ k < j => Sim(sem[k].emb, x) # Sim(sem[j].emb, x)
BelowThreshold(x, j) == TRUE   \* mutant: the threshold is not applied
Matches(x, j) == Sim(sem[j].emb, x) >= 1

\* What the matched key holds: nothing, an expired entry, or a live one.
HitAt(w, key) ==
  \E i \in At(key) : /\ Alive(i)
                     /\ store' = Touched(i)
                     /\ Return(w, store[i].value)
Dropped(key) ==
  IF At(key) = {} THEN store ELSE Without(store, CHOOSE i \in At(key) : TRUE)

LookupHit(w) ==
  /\ call[w].pc = "lookup"
  /\ \E j \in DOMAIN sem : /\ Best(call[w].prompt, j)
                           /\ Matches(call[w].prompt, j)
                           /\ HitAt(w, sem[j].key)
  /\ UNCHANGED <<sem, now, corpus, writer, epoch>>

\* The best match is dead: its entry goes if it had expired, the semantic entry
\* goes in any case.
LookupDead(w) ==
  /\ call[w].pc = "lookup"
  /\ \E j \in DOMAIN sem : /\ Best(call[w].prompt, j)
                           /\ Matches(call[w].prompt, j)
                           /\ \A i \in At(sem[j].key) : ~Alive(i)
                           /\ store' = Dropped(sem[j].key)
                           /\ sem' = Without(sem, j)
  /\ Miss(w)
  /\ UNCHANGED <<now, corpus, writer, epoch>>

LookupMiss(w) ==
  /\ call[w].pc = "lookup"
  /\ \A j \in DOMAIN sem : ~Matches(call[w].prompt, j)
  /\ Miss(w)
  /\ UNCHANGED <<store, sem, now, corpus, writer, epoch>>

\* compute() is over: put the answer, and for the semantic cache its embedding.
Put(w) ==
  /\ call[w].pc = "compute"
  /\ LET x == call[w].prompt
         value == [prompt |-> x, at |-> now, raced |-> call[w].epoch # epoch]
     IN  /\ store' = Stored(Key(x), value)
         /\ sem' = Kept(Append(sem, [emb |-> x, key |-> Key(x)]), MaxEntries)
         /\ Return(w, value)
  /\ UNCHANGED <<now, corpus, writer, epoch>>

\* compute() raises: nothing is put.
ComputeRaises(w) ==
  /\ call[w].pc = "compute"
  /\ Goto(w, Idle)
  /\ UNCHANGED <<store, sem, now, corpus, writer, epoch>>

-----------------------------------------------------------------------------
(* ingest, update, delete; clear; time                                     *)

\* The store operation commits; nothing is invalidated until it has returned.
Write ==
  /\ writer # "written" /\ corpus < MaxVersion
  /\ corpus' = corpus + 1 /\ writer' = "written"
  /\ UNCHANGED <<store, sem, now, call, epoch>>

\* ... or it raises after a COMMIT (the index is down, or update_documents has
\* deleted and encode fails): the exception passes invalidate_responses by.
WriteRaises ==
  /\ writer # "written" /\ corpus < MaxVersion
  /\ corpus' = corpus + 1 /\ writer' = "failed"
  /\ UNCHANGED <<store, sem, now, call, epoch>>

SemanticOnly == store   \* mutant: only the embeddings are dropped
NoResponses == <<>>

InvalidateResponses ==
  /\ writer = "written" /\ writer' = "idle"
  /\ store' = NoResponses /\ sem' = <<>>
  /\ epoch' = epoch + 1
  /\ UNCHANGED <<now, corpus, call>>

Tick ==
  /\ now < MaxTime /\ now' = now + 1
  /\ UNCHANGED <<store, sem, corpus, writer, call, epoch>>

Next ==
  \/ \E w \in Workers :
       \/ \E q \in Questions : Prepare(w, q)
       \/ LookupHit(w) \/ LookupDead(w) \/ LookupMiss(w)
       \/ Put(w) \/ ComputeRaises(w)
  \/ Write \/ WriteRaises \/ InvalidateResponses \/ Tick

Spec == Init /\ [][Next]_vars

-----------------------------------------------------------------------------
(* Properties                                                              *)

Calls ==
       {Idle}
  \cup [pc: {"lookup", "compute"}, prompt: Prompt, epoch: Nat, settled: BOOLEAN]
  \cup [pc: {"returned"}, prompt: Prompt, answer: Answer, settled: BOOLEAN]

TypeOK ==
  /\ store \in Seq(Entry) /\ sem \in Seq(Match)
  /\ now \in Nat /\ corpus \in Nat /\ epoch \in Nat
  /\ writer \in {"idle", "written", "failed"}
  /\ call \in [Workers -> Calls]

\* "bounded LRU eviction": neither half outgrows cache_max_entries, and a key
\* never occupies two slots, whatever order puts of racing requests arrive in.
Bounded ==
  /\ Len(store) <= MaxEntries /\ Len(sem) <= MaxEntries
  /\ \A i, j \in DOMAIN store : store[i].key = store[j].key => i = j

\* "per-entry TTL": an answer from the cache was computed at most TTL ago; being
\* used does not keep it alive.
HitWithinTTL ==
  [][\A w \in Workers :
       call[w].pc = "lookup" /\ call'[w].pc = "returned" => now - call'[w].answer.at <= TTL]_vars

\* "match a new request against prior ones by embedding cosine, so paraphrases
\* hit": the answer a request gets was computed for a question alike its own.
AnswersTheQuestion ==
  \A w \in Workers :
    call[w].pc = "returned" => <<call[w].answer.prompt.q, call[w].prompt.q>> \in Alike

\* "Call when the corpus changes, so an edited/deleted document can't serve a
\* stale answer": a request that began with every write invalidated gets no
\* answer computed from an older corpus than the one it read.
NoStaleAnswer ==
  \A w \in Workers :
    call[w].pc = "returned" /\ call[w].settled
      => call[w].answer.prompt.seen >= call[w].prompt.seen

\* What does hold: once a write is invalidated, and until one fails, the only
\* older answers in the cache are those of requests that were in flight across
\* an invalidation -- whatever failed writes left there before.
StaleOnlyByOverlap ==
  writer = "idle" =>
    \A i \in DOMAIN store : store[i].value.raced \/ store[i].value.prompt.seen = corpus
=============================================================================
