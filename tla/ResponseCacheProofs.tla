------------------------ MODULE ResponseCacheProofs -------------------------
(***************************************************************************)
(* Theorems about ResponseCache, for any number of workers, any bounds and *)
(* any history.                                                            *)
(***************************************************************************)
EXTENDS ResponseCache, TLAPS, SequenceTheorems

(* Removing, appending and trimming keep a sequence over any set S. *)

LEMMA WithoutSeq ==
  ASSUME NEW S, NEW s \in Seq(S), NEW i \in DOMAIN s
  PROVE  Without(s, i) \in Seq(S)
<1>1. i \in 1..Len(s) /\ Len(s) \in Nat
  BY LenProperties
<1>2. \A j \in 1..(i - 1) : s[j] \in S
  BY <1>1, ElementOfSeq
<1>3. \A j \in (i + 1)..Len(s) : s[j] \in S
  BY <1>1, ElementOfSeq
<1>4. SubSeq(s, 1, i - 1) \in Seq(S)
  BY <1>1, <1>2, SubSeqProperties
<1>5. SubSeq(s, i + 1, Len(s)) \in Seq(S)
  BY <1>1, <1>3, SubSeqProperties
<1> QED
  BY <1>4, <1>5, ConcatProperties DEF Without

LEMMA KeptSeq ==
  ASSUME NEW S, NEW s \in Seq(S), NEW n \in Nat
  PROVE  Kept(s, n) \in Seq(S)
<1>1. CASE Len(s) > n
  <2>1. Len(s) \in Nat
    BY LenProperties
  <2>2. \A j \in (Len(s) - n + 1)..Len(s) : s[j] \in S
    BY <1>1, <2>1, ElementOfSeq
  <2>3. SubSeq(s, Len(s) - n + 1, Len(s)) \in Seq(S)
    BY <2>1, <2>2, SubSeqProperties
  <2> QED BY <1>1, <2>3 DEF Kept, Newest
<1>2. CASE ~(Len(s) > n)
  BY <1>2 DEF Kept, Newest
<1> QED BY <1>1, <1>2

LEMMA TouchedSeq ==
  ASSUME NEW S, store \in Seq(S), NEW i \in DOMAIN store
  PROVE  Touched(i) \in Seq(S)
<1>1. Without(store, i) \in Seq(S) /\ store[i] \in S
  BY WithoutSeq, ElementOfSeq, LenProperties
<1> QED BY <1>1 DEF Touched

LEMMA DroppedSeq ==
  ASSUME NEW S, store \in Seq(S), NEW key
  PROVE  Dropped(key) \in Seq(S)
<1>1. CASE At(key) = {}
  BY <1>1 DEF Dropped
<1>2. CASE At(key) # {}
  <2>1. (CHOOSE i \in At(key) : TRUE) \in DOMAIN store
    BY <1>2 DEF At
  <2> QED BY <1>2, <2>1, WithoutSeq DEF Dropped
<1> QED BY <1>1, <1>2

LEMMA StoredSeq ==
  ASSUME NEW S, store \in Seq(S), NEW key, NEW value, MaxEntries \in Nat,
         [key |-> key, ts |-> now, value |-> value] \in S
  PROVE  Stored(key, value) \in Seq(S)
<1> DEFINE e == [key |-> key, ts |-> now, value |-> value]
<1>1. Dropped(key) \in Seq(S)
  BY DroppedSeq
<1>2. Append(Dropped(key), e) \in Seq(S)
  BY <1>1
<1>3. Kept(Append(Dropped(key), e), MaxEntries) \in Seq(S)
  BY <1>2, KeptSeq
<1> QED BY <1>3 DEF Stored, Dropped

-----------------------------------------------------------------------------
(* The inductive invariant.  The two halves of the cache agree on keys, an *)
(* entry's timestamp is the time its answer was put.                       *)

GoodEntry == {e \in Entry : e.key = Key(e.value.prompt) /\ e.ts = e.value.at}
GoodMatch == {m \in Match : m.key = Key(m.emb)}

CacheInv ==
  /\ store \in Seq(GoodEntry) /\ sem \in Seq(GoodMatch)
  /\ now \in Nat /\ corpus \in Nat /\ epoch \in Nat
  /\ writer \in {"idle", "written", "failed"}
  /\ call \in [Workers -> Calls]

LEMMA KeyType == \A x \in Prompt : Key(x) \in Prefixes /\ x.q \in Questions
BY CacheAssumption DEF Key, Prompt

\* What a call is known to be at each of its pcs.
LEMMA CallShape ==
  ASSUME CacheInv, NEW w \in Workers
  PROVE  /\ call[w].pc \in {"lookup", "compute"} =>
              /\ call[w] \in [pc: {"lookup", "compute"}, prompt: Prompt, epoch: Nat,
                              settled: BOOLEAN]
              /\ call[w].prompt \in Prompt /\ call[w].epoch \in Nat
              /\ call[w].settled \in BOOLEAN
BY DEF CacheInv, Calls, Idle

LEMMA PutType ==
  ASSUME CacheInv, NEW w \in Workers, call[w].pc = "compute"
  PROVE  LET value == [prompt |-> call[w].prompt, at |-> now,
                       raced |-> call[w].epoch # epoch]
         IN  /\ value \in Answer
             /\ [key |-> Key(call[w].prompt), ts |-> now, value |-> value] \in GoodEntry
             /\ [emb |-> call[w].prompt, key |-> Key(call[w].prompt)] \in GoodMatch
<1>1. call[w].prompt \in Prompt /\ Key(call[w].prompt) \in Prefixes /\ now \in Nat
  BY CallShape, KeyType DEF CacheInv
<1> QED
  BY <1>1 DEF Answer, GoodEntry, GoodMatch, Entry, Match

LEMMA ReturnType ==
  ASSUME CacheInv, NEW w \in Workers, call[w].pc \in {"lookup", "compute"},
         NEW value \in Answer, Return(w, value)
  PROVE  call' \in [Workers -> Calls]
<1>1. [pc |-> "returned", prompt |-> call[w].prompt, answer |-> value,
       settled |-> call[w].settled] \in Calls
  BY CallShape DEF Calls
<1> QED
  BY <1>1 DEF Return, Goto, CacheInv

LEMMA CacheInvStep ==
  ASSUME CacheInv, [Next]_vars
  PROVE  CacheInv'
<1>0. MaxEntries \in Nat
  BY CacheAssumption
<1>1. ASSUME NEW w \in Workers, NEW q \in Questions, Prepare(w, q) PROVE CacheInv'
  BY <1>1 DEF Prepare, Goto, CacheInv, Calls, Prompt
<1>2. ASSUME NEW w \in Workers, LookupHit(w) PROVE CacheInv'
  <2> PICK j \in DOMAIN sem : HitAt(w, sem[j].key)
    BY <1>2 DEF LookupHit
  <2> PICK i \in At(sem[j].key) : store' = Touched(i) /\ Return(w, store[i].value)
    BY DEF HitAt
  <2>1. i \in DOMAIN store /\ call[w].pc = "lookup"
    BY <1>2 DEF At, LookupHit
  <2>2. store[i] \in GoodEntry
    BY <2>1, ElementOfSeq, LenProperties DEF CacheInv
  <2>3. store[i].value \in Answer
    BY <2>2 DEF GoodEntry, Entry
  <2>4. store' \in Seq(GoodEntry)
    BY <2>1, TouchedSeq DEF CacheInv
  <2>5. call' \in [Workers -> Calls]
    BY <2>1, <2>3, ReturnType
  <2> QED
    BY <1>2, <2>4, <2>5 DEF LookupHit, CacheInv
<1>3. ASSUME NEW w \in Workers, LookupDead(w) \/ LookupMiss(w) PROVE CacheInv'
  <2>1. call' \in [Workers -> Calls]
    <3>1. [call[w] EXCEPT !.pc = "compute"] \in Calls
      BY <1>3, CallShape DEF LookupDead, LookupMiss, Calls
    <3> QED BY <1>3, <3>1 DEF LookupDead, LookupMiss, Miss, Goto, CacheInv
  <2>2. CASE LookupDead(w)
    <3> PICK j \in DOMAIN sem : store' = Dropped(sem[j].key) /\ sem' = Without(sem, j)
      BY <2>2 DEF LookupDead
    <3>1. store' \in Seq(GoodEntry) /\ sem' \in Seq(GoodMatch)
      BY DroppedSeq, WithoutSeq DEF CacheInv
    <3> QED BY <2>1, <2>2, <3>1 DEF LookupDead, CacheInv
  <2>3. CASE LookupMiss(w)
    BY <2>1, <2>3 DEF LookupMiss, CacheInv
  <2> QED BY <1>3, <2>2, <2>3
<1>4. ASSUME NEW w \in Workers, Put(w) PROVE CacheInv'
  <2> DEFINE x == call[w].prompt
             value == [prompt |-> x, at |-> now, raced |-> call[w].epoch # epoch]
  <2>1. call[w].pc = "compute" /\ store' = Stored(Key(x), value) /\ Return(w, value)
        /\ sem' = Kept(Append(sem, [emb |-> x, key |-> Key(x)]), MaxEntries)
    BY <1>4 DEF Put
  <2>2. /\ value \in Answer
        /\ [key |-> Key(x), ts |-> now, value |-> value] \in GoodEntry
        /\ [emb |-> x, key |-> Key(x)] \in GoodMatch
    BY <2>1, PutType
  <2> HIDE DEF value
  <2>3. store' \in Seq(GoodEntry)
    BY <1>0, <2>1, <2>2, StoredSeq DEF CacheInv
  <2>4. Append(sem, [emb |-> x, key |-> Key(x)]) \in Seq(GoodMatch)
    BY <2>2 DEF CacheInv
  <2>5. sem' \in Seq(GoodMatch)
    BY <1>0, <2>1, <2>4, KeptSeq
  <2>6. call' \in [Workers -> Calls]
    BY <2>1, <2>2, ReturnType
  <2> QED
    BY <1>4, <2>3, <2>5, <2>6 DEF Put, CacheInv
<1>5. ASSUME NEW w \in Workers, ComputeRaises(w) PROVE CacheInv'
  BY <1>5 DEF ComputeRaises, Goto, CacheInv, Calls
<1>6. CASE Write \/ WriteRaises \/ Tick
  BY <1>6 DEF Write, WriteRaises, Tick, CacheInv
<1>7. CASE InvalidateResponses
  BY <1>7 DEF InvalidateResponses, NoResponses, CacheInv
<1>8. CASE UNCHANGED vars
  BY <1>8 DEF vars, CacheInv
<1> QED
  BY <1>1, <1>2, <1>3, <1>4, <1>5, <1>6, <1>7, <1>8 DEF Next

LEMMA CacheInvariant == Spec => []CacheInv
<1>1. Init => CacheInv
  BY DEF Init, CacheInv, Calls
<1>2. CacheInv /\ [Next]_vars => CacheInv'
  BY CacheInvStep
<1> QED
  BY <1>1, <1>2, PTL DEF Spec

\* Every state the cache reaches is well typed.
THEOREM CacheTyping == Spec => []TypeOK
<1>1. CacheInv => TypeOK
  <2> SUFFICES ASSUME CacheInv PROVE TypeOK
    OBVIOUS
  <2>1. GoodEntry \subseteq Entry /\ GoodMatch \subseteq Match
    BY DEF GoodEntry, GoodMatch
  <2>2. store \in Seq(Entry) /\ sem \in Seq(Match)
    BY <2>1, SeqMonotonic DEF CacheInv
  <2> QED BY <2>2 DEF CacheInv, TypeOK
<1> QED
  BY <1>1, CacheInvariant, PTL

-----------------------------------------------------------------------------
\* HitWithinTTL: no use of an entry keeps it alive past the TTL.
THEOREM AlwaysHitWithinTTL == Spec => HitWithinTTL
<1>1. CacheInv /\ [Next]_vars =>
        [\A w \in Workers :
           call[w].pc = "lookup" /\ call'[w].pc = "returned" => now - call'[w].answer.at <= TTL]_vars
  <2> SUFFICES ASSUME CacheInv, Next, NEW w \in Workers,
                      call[w].pc = "lookup", call'[w].pc = "returned"
               PROVE  now - call'[w].answer.at <= TTL
    BY DEF vars
  <2>1. CASE LookupHit(w)
    <3> PICK j \in DOMAIN sem : HitAt(w, sem[j].key)
      BY <2>1 DEF LookupHit
    <3> PICK i \in At(sem[j].key) : Alive(i) /\ Return(w, store[i].value)
      BY DEF HitAt
    <3>1. store[i] \in GoodEntry
      BY ElementOfSeq, LenProperties DEF At, CacheInv
    <3>2. call'[w].answer = store[i].value
      BY DEF Return, Goto, CacheInv
    <3> QED BY <3>1, <3>2 DEF GoodEntry, Alive
  <2>2. CASE ~LookupHit(w)
    <3>1. \A v \in Workers : v # w =>
            ~(Put(v) \/ ComputeRaises(v) \/ LookupHit(v) \/ LookupDead(v) \/ LookupMiss(v)
               \/ \E q \in Questions : Prepare(v, q))
      BY DEF Put, ComputeRaises, LookupHit, LookupDead, LookupMiss, Prepare, HitAt, Return,
             Miss, Goto, CacheInv
    <3>a. [call[w] EXCEPT !.pc = "compute"].pc = "compute"
      BY CallShape
    <3>b. ~(LookupDead(w) \/ LookupMiss(w))
      BY <3>a DEF LookupDead, LookupMiss, Miss, Goto, CacheInv
    <3>2. ~(Put(w) \/ ComputeRaises(w) \/ LookupDead(w) \/ LookupMiss(w)
               \/ \E q \in Questions : Prepare(w, q))
      BY <3>b DEF Put, ComputeRaises, Prepare
    <3>3. ~(Write \/ WriteRaises \/ InvalidateResponses \/ Tick)
      BY DEF Write, WriteRaises, InvalidateResponses, Tick
    <3> QED BY <2>2, <3>1, <3>2, <3>3 DEF Next
  <2> QED BY <2>1, <2>2
<1> QED
  BY <1>1, CacheInvariant, PTL DEF Spec, HitWithinTTL

-----------------------------------------------------------------------------
(* The answer fits the question when no two questions share a prefix.      *)

PrefixesDiffer == \A x, y \in Questions : Prefix[x] = Prefix[y] => x = y

Fitting(c) == c.pc = "returned" => <<c.answer.prompt.q, c.prompt.q>> \in Alike

LEMMA FittingStep ==
  ASSUME CacheInv, AnswersTheQuestion, [Next]_vars, PrefixesDiffer
  PROVE  AnswersTheQuestion'
<1>0. \A w \in Workers : Fitting(call[w])
  BY DEF AnswersTheQuestion, Fitting
<1>1. ASSUME NEW w \in Workers, NEW rec, Goto(w, rec), Fitting(rec)
      PROVE  AnswersTheQuestion'
  BY <1>0, <1>1 DEF Goto, Fitting, AnswersTheQuestion, CacheInv
<1>2. ASSUME NEW w \in Workers, NEW q \in Questions, Prepare(w, q) PROVE AnswersTheQuestion'
  BY <1>2, <1>1 DEF Prepare, Fitting
<1>3. ASSUME NEW w \in Workers, LookupHit(w) PROVE AnswersTheQuestion'
  <2> PICK j \in DOMAIN sem : Matches(call[w].prompt, j) /\ HitAt(w, sem[j].key)
    BY <1>3 DEF LookupHit
  <2> PICK i \in At(sem[j].key) : Return(w, store[i].value)
    BY DEF HitAt
  <2> DEFINE x == call[w].prompt
             y == store[i].value.prompt
  <2>1. sem[j] \in GoodMatch /\ store[i] \in GoodEntry /\ store[i].key = sem[j].key
    BY ElementOfSeq, LenProperties DEF CacheInv, At
  <2>2. Prefix[y.q] = Prefix[sem[j].emb.q] /\ y.q \in Questions /\ sem[j].emb.q \in Questions
    BY <2>1 DEF GoodMatch, GoodEntry, Match, Entry, Answer, Prompt, Key
  <2>3. y.q = sem[j].emb.q
    BY <2>2 DEF PrefixesDiffer
  <2>4. x \in Prompt
    BY <1>3, CallShape DEF LookupHit
  <2>5. sem[j].emb = x \/ <<sem[j].emb.q, x.q>> \in Alike
    BY DEF Matches, Sim
  <2>6. <<y.q, x.q>> \in Alike
    BY <2>3, <2>4, <2>5, CacheAssumption DEF Prompt
  <2> QED
    BY <2>6, <1>1 DEF Return, Fitting
<1>4. ASSUME NEW w \in Workers, LookupDead(w) \/ LookupMiss(w) PROVE AnswersTheQuestion'
  <2>1. [call[w] EXCEPT !.pc = "compute"].pc = "compute"
    BY <1>4, CallShape DEF LookupDead, LookupMiss
  <2> QED
    BY <1>4, <2>1, <1>1 DEF LookupDead, LookupMiss, Miss, Fitting
<1>5. ASSUME NEW w \in Workers, Put(w) PROVE AnswersTheQuestion'
  <2>1. call[w].prompt.q \in Questions
    BY <1>5, CallShape DEF Put, Prompt
  <2>2. <<call[w].prompt.q, call[w].prompt.q>> \in Alike
    BY <2>1, CacheAssumption
  <2> DEFINE value == [prompt |-> call[w].prompt, at |-> now, raced |-> call[w].epoch # epoch]
  <2>3. Return(w, value) /\ value.prompt = call[w].prompt
    BY <1>5 DEF Put
  <2> HIDE DEF value
  <2> QED
    BY <2>2, <2>3, <1>1 DEF Return, Fitting
<1>6. ASSUME NEW w \in Workers, ComputeRaises(w) PROVE AnswersTheQuestion'
  BY <1>6, <1>1 DEF ComputeRaises, Fitting, Idle
<1>7. CASE Write \/ WriteRaises \/ InvalidateResponses \/ Tick \/ UNCHANGED vars
  BY <1>7 DEF Write, WriteRaises, InvalidateResponses, Tick, vars, AnswersTheQuestion
<1> QED
  BY <1>2, <1>3, <1>4, <1>5, <1>6, <1>7 DEF Next

\* AnswersTheQuestion: with distinct prefixes an answer is always one computed
\* for a question alike the one asked, under every interleaving of requests.
THEOREM PrefixAnswersTheQuestion == PrefixesDiffer => (Spec => []AnswersTheQuestion)
<1> SUFFICES ASSUME PrefixesDiffer PROVE Spec => []AnswersTheQuestion
  OBVIOUS
<1>1. Init => AnswersTheQuestion
  BY DEF Init, Idle, AnswersTheQuestion
<1>2. CacheInv /\ AnswersTheQuestion /\ [Next]_vars => AnswersTheQuestion'
  BY FittingStep
<1> QED
  BY <1>1, <1>2, CacheInvariant, PTL DEF Spec

-----------------------------------------------------------------------------
(* Stale answers come only from requests that overlap an invalidation.     *)

Fresh == {e \in GoodEntry : e.value.raced \/ e.value.prompt.seen = corpus}

\* A request that has seen no invalidation read the current corpus, unless a
\* write is waiting to be invalidated.
OverlapInv ==
  /\ writer = "idle" => store \in Seq(Fresh)
  /\ \A w \in Workers : call[w].pc \in {"lookup", "compute"} =>
       /\ call[w].epoch <= epoch
       /\ writer = "idle" /\ call[w].epoch = epoch => call[w].prompt.seen = corpus

LEMMA OverlapStep ==
  ASSUME CacheInv, OverlapInv, [Next]_vars
  PROVE  OverlapInv'
<1>0. MaxEntries \in Nat
  BY CacheAssumption
<1> DEFINE Known(c) == c.pc \in {"lookup", "compute"} =>
                         /\ c.epoch <= epoch
                         /\ writer = "idle" /\ c.epoch = epoch => c.prompt.seen = corpus
<1>1. ASSUME NEW w \in Workers, NEW rec, Goto(w, rec), Known(rec),
             UNCHANGED <<corpus, writer, epoch>>, writer = "idle" => store' \in Seq(Fresh)
      PROVE  OverlapInv'
  <2>1. Fresh' = Fresh
    BY <1>1 DEF Fresh, GoodEntry, Entry, Answer, Prompt, Key
  <2>2. \A v \in Workers : Known(call'[v])
    BY <1>1 DEF Goto, OverlapInv, CacheInv
  <2> QED
    BY <1>1, <2>1, <2>2 DEF OverlapInv
<1>2. ASSUME NEW w \in Workers, NEW q \in Questions, Prepare(w, q) PROVE OverlapInv'
  <2> DEFINE rec == [pc |-> "lookup", prompt |-> [q |-> q, seen |-> corpus],
                     epoch |-> epoch, settled |-> writer = "idle"]
  <2>1. Goto(w, rec) /\ UNCHANGED <<store, corpus, writer, epoch>>
    BY <1>2 DEF Prepare
  <2>2. Known(rec)
    BY DEF CacheInv
  <2>3. writer = "idle" => store' \in Seq(Fresh)
    BY <2>1 DEF OverlapInv
  <2> HIDE DEF rec, Known
  <2> QED
    BY <2>1, <2>2, <2>3, <1>1
<1>3. ASSUME NEW w \in Workers, LookupHit(w) PROVE OverlapInv'
  <2> PICK j \in DOMAIN sem : HitAt(w, sem[j].key)
    BY <1>3 DEF LookupHit
  <2> PICK i \in At(sem[j].key) : store' = Touched(i) /\ Return(w, store[i].value)
    BY DEF HitAt
  <2>1. writer = "idle" => store' \in Seq(Fresh)
    BY TouchedSeq DEF At, OverlapInv
  <2> QED
    BY <1>3, <2>1, <1>1 DEF LookupHit, Return
<1>4. ASSUME NEW w \in Workers, LookupDead(w) \/ LookupMiss(w) PROVE OverlapInv'
  <2>1. writer = "idle" => store' \in Seq(Fresh)
    BY <1>4, DroppedSeq DEF LookupDead, LookupMiss, OverlapInv
  <2>2. Known([call[w] EXCEPT !.pc = "compute"])
    BY <1>4, CallShape DEF LookupDead, LookupMiss, OverlapInv
  <2> HIDE DEF Known
  <2>3. Goto(w, [call[w] EXCEPT !.pc = "compute"]) /\ UNCHANGED <<corpus, writer, epoch>>
    BY <1>4 DEF LookupDead, LookupMiss, Miss
  <2> QED
    BY <2>1, <2>2, <2>3, <1>1
<1>5. ASSUME NEW w \in Workers, Put(w) PROVE OverlapInv'
  <2> DEFINE x == call[w].prompt
             value == [prompt |-> x, at |-> now, raced |-> call[w].epoch # epoch]
             e == [key |-> Key(x), ts |-> now, value |-> value]
  <2>1. call[w].pc = "compute" /\ store' = Stored(Key(x), value) /\ Return(w, value)
        /\ UNCHANGED <<corpus, writer, epoch>>
    BY <1>5 DEF Put
  <2>2. writer = "idle" => e \in Fresh
    <3>1. e \in GoodEntry
      BY <2>1, PutType
    <3>2. writer = "idle" /\ call[w].epoch = epoch => x.seen = corpus
      BY <2>1 DEF OverlapInv
    <3> QED BY <3>1, <3>2 DEF Fresh
  <2> HIDE DEF value
  <2>3. writer = "idle" => store' \in Seq(Fresh)
    BY <1>0, <2>1, <2>2, StoredSeq DEF OverlapInv
  <2> QED
    BY <2>1, <2>3, <1>1 DEF Return
<1>6. ASSUME NEW w \in Workers, ComputeRaises(w) PROVE OverlapInv'
  BY <1>6, <1>1 DEF ComputeRaises, Idle, OverlapInv
<1>7. CASE Write
  BY <1>7 DEF Write, OverlapInv
<1>8. CASE WriteRaises
  BY <1>8 DEF WriteRaises, OverlapInv
<1>9. CASE InvalidateResponses
  <2>1. /\ writer' = "idle" /\ store' = <<>> /\ epoch' = epoch + 1
        /\ UNCHANGED <<corpus, call>>
    BY <1>9 DEF InvalidateResponses, NoResponses
  <2>2. \A w \in Workers : call[w].pc \in {"lookup", "compute"} =>
          call[w].epoch \in Nat /\ call[w].epoch < epoch'
    BY <2>1, CallShape DEF OverlapInv, CacheInv
  <2> QED
    BY <2>1, <2>2 DEF OverlapInv, CacheInv
<1>10. CASE Tick \/ UNCHANGED vars
  BY <1>10 DEF Tick, vars, OverlapInv, Fresh, GoodEntry, Entry, Answer, Prompt, Key
<1> QED
  BY <1>2, <1>3, <1>4, <1>5, <1>6, <1>7, <1>8, <1>9, <1>10 DEF Next

\* StaleOnlyByOverlap: an answer older than the corpus outlives an invalidation
\* only when its request was in flight across it, whatever writes failed before.
THEOREM OverlapOnly == Spec => []StaleOnlyByOverlap
<1>1. Init => OverlapInv
  BY DEF Init, Idle, OverlapInv
<1>2. CacheInv /\ OverlapInv /\ [Next]_vars => OverlapInv'
  BY OverlapStep
<1>3. OverlapInv => StaleOnlyByOverlap
  <2> SUFFICES ASSUME OverlapInv, writer = "idle", NEW i \in DOMAIN store
               PROVE  store[i].value.raced \/ store[i].value.prompt.seen = corpus
    BY DEF StaleOnlyByOverlap
  <2>1. store[i] \in Fresh
    BY ElementOfSeq, LenProperties DEF OverlapInv
  <2> QED BY <2>1 DEF Fresh
<1> QED
  BY <1>1, <1>2, <1>3, CacheInvariant, PTL DEF Spec

-----------------------------------------------------------------------------
(* The bound of the cache.  A key that is put twice moves to the end, it is   *)
(* never in two places: that is what makes the length of the store the number *)
(* of its keys.                                                               *)

Distinct(s) == \A i, j \in DOMAIN s : s[i].key = s[j].key => i = j

LEMMA WithoutElements ==
  ASSUME NEW S, NEW s \in Seq(S), NEW k \in DOMAIN s
  PROVE  /\ Len(Without(s, k)) = Len(s) - 1
         /\ \A i \in 1..(Len(s) - 1) :
              Without(s, k)[i] = (IF i < k THEN s[i] ELSE s[i + 1])
<1> DEFINE before == SubSeq(s, 1, k - 1)
           after  == SubSeq(s, k + 1, Len(s))
<1>1. Len(s) \in Nat /\ k \in 1..Len(s)
  BY LenProperties
<1>2. /\ before \in Seq(S) /\ Len(before) = k - 1
      /\ \A i \in 1..(k - 1) : before[i] = s[i]
  BY <1>1, ElementOfSeq, SubSeqProperties
<1>3. /\ after \in Seq(S) /\ Len(after) = Len(s) - k
      /\ \A i \in 1..(Len(s) - k) : after[i] = s[k + i]
  BY <1>1, ElementOfSeq, SubSeqProperties
<1>4. Without(s, k) = before \o after
  BY DEF Without
<1> HIDE DEF before, after
<1>5. /\ Len(before \o after) = Len(s) - 1
      /\ \A i \in 1..(Len(s) - 1) :
           (before \o after)[i] = IF i <= k - 1 THEN before[i] ELSE after[i - (k - 1)]
  <2>1. /\ Len(before \o after) = Len(before) + Len(after)
        /\ \A i \in 1..(Len(before) + Len(after)) :
             (before \o after)[i] = IF i <= Len(before) THEN before[i] ELSE after[i - Len(before)]
    BY <1>2, <1>3, ConcatProperties
  <2>2. Len(before) + Len(after) = Len(s) - 1
    BY <1>1, <1>2, <1>3
  <2> QED BY <1>2, <2>1, <2>2
<1>6. ASSUME NEW i \in 1..(Len(s) - 1)
      PROVE  (before \o after)[i] = (IF i < k THEN s[i] ELSE s[i + 1])
  <2>1. CASE i < k
    BY <1>1, <1>2, <1>5, <2>1
  <2>2. CASE ~(i < k)
    <3>1. i - (k - 1) \in 1..(Len(s) - k) /\ k + (i - (k - 1)) = i + 1
      BY <1>1, <2>2
    <3>2. (before \o after)[i] = after[i - (k - 1)]
      BY <1>1, <1>5, <2>2
    <3>3. after[i - (k - 1)] = s[i + 1]
      BY <1>3, <3>1
    <3> QED BY <2>2, <3>2, <3>3
  <2> QED BY <2>1, <2>2
<1> QED BY <1>4, <1>5, <1>6

\* The entry that is taken out is the only one with its key.
LEMMA WithoutDistinct ==
  ASSUME NEW S, NEW s \in Seq(S), NEW k \in DOMAIN s, Distinct(s)
  PROVE  /\ Distinct(Without(s, k)) /\ Len(Without(s, k)) = Len(s) - 1
         /\ \A i \in DOMAIN Without(s, k) : Without(s, k)[i].key # s[k].key
<1> DEFINE w == Without(s, k)
           old(i) == IF i < k THEN i ELSE i + 1
<1>1. w \in Seq(S) /\ Len(w) = Len(s) - 1 /\ DOMAIN w = 1..(Len(s) - 1)
  BY WithoutSeq, WithoutElements, LenProperties
<1>2. Len(s) \in Nat /\ DOMAIN s = 1..Len(s)
  BY LenProperties
<1>3. \A i \in DOMAIN w : old(i) \in DOMAIN s /\ old(i) # k /\ w[i] = s[old(i)]
  <2> TAKE i \in DOMAIN w
  <2>1. w[i] = (IF i < k THEN s[i] ELSE s[i + 1])
    BY <1>1, WithoutElements
  <2> HIDE DEF w
  <2> QED BY <1>1, <1>2, <2>1
<1>4. \A i, j \in DOMAIN w : old(i) = old(j) => i = j
  BY <1>1, <1>2
<1> HIDE DEF w, old
<1>5. Distinct(w)
  BY <1>3, <1>4 DEF Distinct
<1>6. \A i \in DOMAIN w : w[i].key # s[k].key
  BY <1>3 DEF Distinct
<1> QED BY <1>1, <1>5, <1>6 DEF w

LEMMA AppendDistinct ==
  ASSUME NEW S, NEW s \in Seq(S), NEW e \in S, Distinct(s),
         \A i \in DOMAIN s : s[i].key # e.key
  PROVE  Distinct(Append(s, e)) /\ Len(Append(s, e)) = Len(s) + 1
<1>1. /\ Len(s) \in Nat /\ DOMAIN s = 1..Len(s)
      /\ DOMAIN Append(s, e) = 1..(Len(s) + 1) /\ Len(Append(s, e)) = Len(s) + 1
      /\ \A i \in 1..Len(s) : Append(s, e)[i] = s[i]
      /\ Append(s, e)[Len(s) + 1] = e
  BY AppendProperties, LenProperties
<1>2. \A i \in DOMAIN Append(s, e) : i \in DOMAIN s \/ i = Len(s) + 1
  BY <1>1
<1> QED BY <1>1, <1>2 DEF Distinct

\* Trimming takes entries off the front.
LEMMA KeptDistinct ==
  ASSUME NEW S, NEW s \in Seq(S), NEW n \in Nat
  PROVE  /\ Len(Kept(s, n)) <= n
         /\ Distinct(s) => Distinct(Kept(s, n))
<1>1. Len(s) \in Nat /\ DOMAIN s = 1..Len(s)
  BY LenProperties
<1>2. CASE Len(s) > n
  <2> DEFINE t == SubSeq(s, Len(s) - n + 1, Len(s))
  <2>1. Kept(s, n) = t
    BY <1>2 DEF Kept, Newest
  <2>2. /\ t \in Seq(S) /\ Len(t) = n
        /\ \A i \in 1..n : t[i] = s[Len(s) - n + i]
    BY <1>1, <1>2, ElementOfSeq, SubSeqProperties
  <2>3. DOMAIN t = 1..n
    BY <2>2, LenProperties
  <2> HIDE DEF t
  <2>4. ASSUME Distinct(s), NEW i \in DOMAIN t, NEW j \in DOMAIN t, t[i].key = t[j].key
        PROVE  i = j
    <3>1. /\ Len(s) - n + i \in DOMAIN s /\ Len(s) - n + j \in DOMAIN s
          /\ s[Len(s) - n + i].key = s[Len(s) - n + j].key
      BY <1>1, <1>2, <2>2, <2>3, <2>4
    <3>2. Len(s) - n + i = Len(s) - n + j
      BY <2>4, <3>1 DEF Distinct
    <3> QED BY <1>1, <2>3, <3>2
  <2> QED BY <2>1, <2>2, <2>4 DEF Distinct
<1>3. CASE ~(Len(s) > n)
  BY <1>1, <1>3 DEF Kept, Newest
<1> QED BY <1>2, <1>3

LEMMA DroppedDistinct ==
  ASSUME NEW S, store \in Seq(S), NEW key, Distinct(store)
  PROVE  /\ Dropped(key) \in Seq(S) /\ Distinct(Dropped(key))
         /\ Len(Dropped(key)) <= Len(store)
         /\ \A i \in DOMAIN Dropped(key) : Dropped(key)[i].key # key
<1>1. CASE At(key) = {}
  <2>1. \A i \in DOMAIN store : store[i].key # key
    BY <1>1 DEF At
  <2> QED BY <1>1, <2>1, LenProperties DEF Dropped
<1>2. CASE At(key) # {}
  <2> DEFINE k == CHOOSE i \in At(key) : TRUE
  <2>1. k \in DOMAIN store /\ store[k].key = key
    BY <1>2 DEF At
  <2>2. Dropped(key) = Without(store, k)
    BY <1>2 DEF Dropped
  <2> HIDE DEF k
  <2>3. /\ Distinct(Without(store, k)) /\ Len(Without(store, k)) = Len(store) - 1
        /\ \A i \in DOMAIN Without(store, k) : Without(store, k)[i].key # key
    BY <2>1, WithoutDistinct
  <2>4. Len(store) \in Nat /\ Without(store, k) \in Seq(S)
    BY <2>1, LenProperties, WithoutSeq
  <2> QED BY <2>2, <2>3, <2>4
<1> QED BY <1>1, <1>2

BoundInv == Distinct(store) /\ Len(store) <= MaxEntries /\ Len(sem) <= MaxEntries

LEMMA BoundStep ==
  ASSUME CacheInv, BoundInv, [Next]_vars
  PROVE  BoundInv'
<1>1. MaxEntries \in Nat
  BY CacheAssumption
<1>2. /\ store \in Seq(GoodEntry) /\ sem \in Seq(GoodMatch)
      /\ Len(store) \in Nat /\ Len(sem) \in Nat
  BY LenProperties DEF CacheInv
<1>3. ASSUME NEW w \in Workers, LookupHit(w) PROVE BoundInv'
  <2>1. PICK i \in DOMAIN store : store' = Touched(i)
    BY <1>3 DEF LookupHit, HitAt, At
  <2>2. i \in DOMAIN store /\ store[i] \in GoodEntry
    BY <1>2, <2>1, ElementOfSeq, LenProperties
  <2> DEFINE others == Without(store, i)
  <2>3. /\ others \in Seq(GoodEntry) /\ Distinct(others) /\ Len(others) = Len(store) - 1
        /\ \A j \in DOMAIN others : others[j].key # store[i].key
    BY <1>2, <2>2, WithoutSeq, WithoutDistinct DEF BoundInv
  <2>4. store' = Append(others, store[i])
    BY <2>1 DEF Touched
  <2> HIDE DEF others
  <2>5. Distinct(store') /\ Len(store') = Len(store)
    BY <1>2, <2>2, <2>3, <2>4, AppendDistinct
  <2>6. sem' = sem
    BY <1>3 DEF LookupHit
  <2> QED BY <2>5, <2>6 DEF BoundInv, Distinct
<1>4. ASSUME NEW w \in Workers, LookupDead(w) PROVE BoundInv'
  <2>1. PICK j \in DOMAIN sem : store' = Dropped(sem[j].key) /\ sem' = Without(sem, j)
    BY <1>4 DEF LookupDead
  <2>2. Distinct(store') /\ Len(store') <= Len(store) /\ Len(store') \in Nat
    BY <1>2, <2>1, DroppedDistinct, LenProperties DEF BoundInv
  <2>3. Len(sem') = Len(sem) - 1
    BY <1>2, <2>1, WithoutElements
  <2> QED BY <1>1, <1>2, <2>2, <2>3 DEF BoundInv, Distinct
<1>5. ASSUME NEW w \in Workers, Put(w) PROVE BoundInv'
  <2> DEFINE x == call[w].prompt
             value == [prompt |-> x, at |-> now, raced |-> call[w].epoch # epoch]
             e == [key |-> Key(x), ts |-> now, value |-> value]
             m == [emb |-> x, key |-> Key(x)]
             others == Dropped(Key(x))
  <2>1. call[w].pc = "compute" /\ store' = Stored(Key(x), value)
        /\ sem' = Kept(Append(sem, m), MaxEntries)
    BY <1>5 DEF Put
  <2>2. e \in GoodEntry /\ m \in GoodMatch
    BY <2>1, PutType
  <2>3. store' = Kept(Append(others, e), MaxEntries)
    BY <2>1 DEF Stored, Dropped
  <2>4. e.key = Key(x)
    OBVIOUS
  <2> HIDE DEF e, m, others, value, x
  <2>5. /\ others \in Seq(GoodEntry) /\ Distinct(others)
        /\ \A i \in DOMAIN others : others[i].key # e.key
    BY <1>2, <2>4, DroppedDistinct DEF BoundInv, others
  <2>6. Append(others, e) \in Seq(GoodEntry) /\ Distinct(Append(others, e))
    BY <2>2, <2>5, AppendProperties, AppendDistinct
  <2>7. Distinct(store') /\ Len(store') <= MaxEntries
    BY <1>1, <2>3, <2>6, KeptDistinct
  <2>8. Len(sem') <= MaxEntries
    <3>1. Append(sem, m) \in Seq(GoodMatch)
      BY <1>2, <2>2, AppendProperties
    <3> QED BY <1>1, <2>1, <3>1, KeptDistinct
  <2> QED BY <2>7, <2>8 DEF BoundInv, Distinct
<1>6. CASE InvalidateResponses
  <2>1. store' = <<>> /\ sem' = <<>>
    BY <1>6 DEF InvalidateResponses, NoResponses
  <2> QED BY <1>1, <2>1 DEF BoundInv, Distinct
<1>7. ASSUME store' = store, sem' = sem PROVE BoundInv'
  BY <1>7 DEF BoundInv, Distinct
<1> QED BY <1>3, <1>4, <1>5, <1>6, <1>7
     DEF Next, Prepare, LookupMiss, ComputeRaises, Write, WriteRaises, Tick, vars

\* Neither half of the cache outgrows cache_max_entries and no key takes two slots of
\* it, in whatever order the puts of racing requests arrive.
THEOREM AlwaysBounded == Spec => []Bounded
<1>1. Init => BoundInv
  <2>1. MaxEntries \in Nat
    BY CacheAssumption
  <2> QED BY <2>1 DEF Init, BoundInv, Distinct
<1>2. CacheInv /\ BoundInv /\ [Next]_vars => BoundInv'
  BY BoundStep
<1>3. BoundInv => Bounded
  BY DEF BoundInv, Bounded, Distinct
<1> QED BY <1>1, <1>2, <1>3, CacheInvariant, PTL DEF Spec
=============================================================================
