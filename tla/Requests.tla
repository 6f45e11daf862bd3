------------------------------ MODULE Requests ------------------------------
(***************************************************************************)
(* Requests to the HTTP service (contextx/service.py) through the engine's *)
(* asynchronous entry points, run, run_stream and run_with_tools           *)
(* (contextx/pipeline.py) and the LLM.                                     *)
(*                                                                         *)
(* The event loop is one thread; everything that blocks runs as a job of a *)
(* pool of Threads threads, first come first served: a write or a query is *)
(* one job, a stream one job to prepare and one for every piece it pulls   *)
(* off the generator.  Writes hold an asyncio.Lock around their job.  The  *)
(* client of a stream may leave at any time.                               *)
(*                                                                         *)
(* What stages 1-9 put into a prompt is Prompt's matter, what a write does *)
(* to the store VectorStore's, how entries match and expire ResponseCache's.*)
(***************************************************************************)
EXTENDS LLM, FiniteSets

CONSTANTS
  Clients,       \* one request each
  Assignments,   \* which kind of request each client makes
  Environments,  \* what LLM.__init__ may find
  Threads,       \* threads of the default executor
  MaxPieces,     \* bound on the pieces of an answer (max_tokens bounds them)
  MaxCalls       \* bound on the tool calls of one reply

Kinds == {"write", "query", "tools", "stream"}

ASSUME RequestsAssumption ==
  /\ Assignments \subseteq [Clients -> Kinds] /\ Environments \subseteq Environment
  /\ Threads \in Nat \ {0} /\ {MaxPieces, MaxCalls} \subseteq Nat

VARIABLES
  kind, backend,
  at,      \* "new", "lock", "pool", "thread", "loop", or how the request ended
  step,    \* what a job in a thread does next
  lock,    \* write_lock: its holder, then those waiting
  pool,    \* the executor's queue
  turn,    \* per request: what run() and the generator keep, and what became of it
  talk,    \* messages of run_tools
  cached   \* answers in the response cache

vars == <<kind, backend, at, step, lock, pool, turn, talk, cached>>

Ended == {"returned", "raised", "rejected", "gone"}
Running == {r \in Clients : at[r] = "thread"}

\* valid: the validator's verdict; tries: attempts of complete(), rounds of the tool
\* loop, pieces of a stream; calls, open: tool calls made and yet to be answered;
\* out: how the job ended; left: the client has gone; memory: how much of the exchange
\* is in the memory; audit: audit records written.
Fresh == [valid |-> FALSE, tries |-> 0, calls |-> 0, open |-> 0, answer |-> "none",
          out |-> "none", left |-> FALSE, memory |-> "none", audit |-> 0]

Init ==
  /\ kind \in Assignments
  /\ backend \in {SelectBackend(e) : e \in Environments}
  /\ at = [r \in Clients |-> "new"] /\ step = [r \in Clients |-> "none"]
  /\ lock = <<>> /\ pool = <<>> /\ cached = {}
  /\ turn = [r \in Clients |-> Fresh] /\ talk = [r \in Clients |-> <<>>]

-----------------------------------------------------------------------------
(* The event loop and the pool                                             *)

\* asyncio.to_thread.
Submit(r) == at' = [at EXCEPT ![r] = "pool"] /\ pool' = Append(pool, r)

\* 401, no valid key while keys are configured; or a body that makes no document.
Reject(r) ==
  /\ at[r] = "new" /\ at' = [at EXCEPT ![r] = "rejected"]
  /\ UNCHANGED <<kind, backend, step, lock, pool, turn, talk, cached>>

Accept(r) ==
  /\ at[r] = "new"
  /\ IF kind[r] = "write"
       THEN at' = [at EXCEPT ![r] = "lock"] /\ lock' = Append(lock, r) /\ UNCHANGED pool
       ELSE Submit(r) /\ UNCHANGED lock
  /\ UNCHANGED <<kind, backend, step, turn, talk, cached>>

AnyWaiter(r) == r \in {lock[i] : i \in DOMAIN lock}   \* mutant: the lock is not waited for
HoldsLock(r) == r = Head(lock)

AcquireLock(r) ==
  /\ at[r] = "lock" /\ HoldsLock(r)
  /\ Submit(r)
  /\ UNCHANGED <<kind, backend, step, lock, turn, talk, cached>>

FirstStep(r) ==
  CASE kind[r] = "write" -> "apply"
    [] kind[r] = "stream" /\ turn[r].answer # "none" -> "next"
    [] OTHER -> "prepare"

StartJob(r) ==
  /\ pool # <<>> /\ r = Head(pool) /\ Cardinality(Running) < Threads
  /\ at' = [at EXCEPT ![r] = "thread"] /\ pool' = Tail(pool)
  /\ step' = [step EXCEPT ![r] = FirstStep(r)]
  /\ UNCHANGED <<kind, backend, lock, turn, talk, cached>>

\* The job's thread is free; the loop takes the result.
Job(r, s) == at[r] = "thread" /\ step[r] = s
GoOn(r, s) == step' = [step EXCEPT ![r] = s] /\ UNCHANGED at
EndJob(r) == at' = [at EXCEPT ![r] = "loop"] /\ step' = [step EXCEPT ![r] = "none"]
KeepQueues == UNCHANGED <<kind, backend, lock, pool>>

\* async with write_lock: released however the job ended.
ReleasedOnSuccess(r) == IF turn[r].out = "error" THEN lock ELSE Tail(lock)   \* mutant
Released(r) == Tail(lock)

Respond(r) ==
  /\ at[r] = "loop" /\ turn[r].out # "none" /\ ~turn[r].left
  /\ at' = [at EXCEPT ![r] = IF turn[r].out = "ok" THEN "returned" ELSE "raised"]
  /\ lock' = IF kind[r] = "write" THEN Released(r) ELSE lock
  /\ UNCHANGED <<kind, backend, step, pool, turn, talk, cached>>

\* sse(): the next chunk is pulled in a thread.
Pull(r) ==
  /\ at[r] = "loop" /\ kind[r] = "stream" /\ turn[r].out = "none" /\ ~turn[r].left
  /\ Submit(r)
  /\ UNCHANGED <<kind, backend, step, lock, turn, talk, cached>>

Cancelled(i) == SubSeq(pool, 1, i - 1) \o SubSeq(pool, i + 1, Len(pool))

\* The client of a stream disconnects.  A pull that waits for a thread is
\* cancelled; one that runs goes on, and its result is dropped.
Disconnect(r) ==
  /\ kind[r] = "stream" /\ turn[r].answer # "none" /\ ~turn[r].left
  /\ turn' = [turn EXCEPT ![r].left = TRUE]
  /\ \/ at[r] \in {"thread", "loop"} /\ UNCHANGED <<at, pool>>
     \/ /\ at[r] = "pool" /\ at' = [at EXCEPT ![r] = "loop"]
        /\ \E i \in DOMAIN pool : pool[i] = r /\ pool' = Cancelled(i)
  /\ UNCHANGED <<kind, backend, step, lock, talk, cached>>

RemembersPart(t) ==   \* mutant: memory written in a finally clause
  IF t.valid /\ t.out = "none" THEN [t EXCEPT !.memory = "part"] ELSE t
Closed(t) == t

\* The generator is closed at its yield.
Abandon(r) ==
  /\ at[r] = "loop" /\ turn[r].left
  /\ at' = [at EXCEPT ![r] = "gone"]
  /\ turn' = [turn EXCEPT ![r] = Closed(@)]
  /\ UNCHANGED <<kind, backend, step, lock, pool, talk, cached>>

-----------------------------------------------------------------------------
(* In a thread                                                             *)

\* engine.ingest, update, delete: responses are dropped if something changed.
Apply(r) ==
  /\ Job(r, "apply")
  /\ cached' \in {cached, {}}
  /\ turn' = [turn EXCEPT ![r].out = "ok"]
  /\ EndJob(r) /\ KeepQueues /\ UNCHANGED talk

\* The store, the embedder, the memory or the audit file raises; of the records of
\* extract_and_store some may be committed already.
Raise(r) ==
  /\ at[r] = "thread"
  /\ \E m \in {"none", "part", "all"} :
       /\ \/ step[r] \in {"apply", "prepare", "audit"} /\ m = turn[r].memory
          \/ step[r] = "complete" /\ kind[r] = "query" /\ m = "none"
          \/ step[r] = "remember" /\ m # "all"
          \/ step[r] = "next" /\ turn[r].valid /\ m # "all"
       /\ turn' = [turn EXCEPT ![r].out = "error", ![r].memory = m]
  /\ EndJob(r) /\ KeepQueues /\ UNCHANGED <<talk, cached>>

\* _prepare.  run_stream returns its generator here; a blocked run goes to _finalize.
Prepare(r) ==
  /\ Job(r, "prepare")
  /\ \E valid \in BOOLEAN :
       /\ turn' = [turn EXCEPT ![r].valid = valid,
                               ![r].answer = IF valid THEN "open" ELSE "blocked"]
       /\ IF kind[r] = "stream" THEN EndJob(r)
          ELSE GoOn(r, IF ~valid THEN "audit"
                       ELSE IF kind[r] = "tools" /\ UsesTools(backend) THEN "chat"
                       ELSE "complete")
  /\ KeepQueues /\ UNCHANGED <<talk, cached>>

\* semantic_get_or_compute, for run() only.
ServeCached(r) ==
  /\ Job(r, "complete") /\ kind[r] = "query" /\ turn[r].tries = 0
  /\ \E a \in cached : turn' = [turn EXCEPT ![r].answer = a]
  /\ GoOn(r, "remember") /\ KeepQueues /\ UNCHANGED <<talk, cached>>

\* complete(); run_tools on a backend without tools is the mock's answer.
CallFrom(r) == IF kind[r] = "tools" THEN "mock" ELSE backend

Complete(r) ==
  /\ Job(r, "complete")
  /\ \E o \in Outcomes(CallFrom(r)) :
       LET then == AfterCall(CallFrom(r), turn[r].tries, o)
       IN  \/ /\ then \in {"answer", "degraded"}
              /\ turn' = [turn EXCEPT ![r].answer = then]
              /\ cached' = IF kind[r] = "query" THEN cached \cup {then} ELSE cached
              /\ GoOn(r, "remember")
           \/ /\ then = "again"
              /\ turn' = [turn EXCEPT ![r].tries = @ + 1]
              /\ UNCHANGED <<at, step, cached>>
           \/ /\ then = "raise"
              /\ turn' = [turn EXCEPT ![r].out = "error"]
              /\ EndJob(r) /\ UNCHANGED cached
  /\ KeepQueues /\ UNCHANGED talk

\* One model call of the tool loop: it answers, asks for tools, or raises.
Chat(r) ==
  /\ Job(r, "chat") /\ turn[r].tries < MaxIters
  /\ \/ turn' = [turn EXCEPT ![r].answer = "answer"] /\ GoOn(r, "remember") /\ UNCHANGED talk
     \/ \E n \in 1..MaxCalls :
          /\ talk' = [talk EXCEPT ![r] = Asking(@, turn[r].calls, n)]
          /\ turn' = [turn EXCEPT ![r].tries = @ + 1, ![r].open = n]
          /\ GoOn(r, "dispatch")
     \/ turn' = [turn EXCEPT ![r].out = "error"] /\ EndJob(r) /\ UNCHANGED talk
  /\ KeepQueues /\ UNCHANGED cached

\* "(max tool iterations reached)"
ChatLimit(r) ==
  /\ Job(r, "chat") /\ turn[r].tries = MaxIters
  /\ turn' = [turn EXCEPT ![r].answer = "limit"]
  /\ GoOn(r, "remember") /\ KeepQueues /\ UNCHANGED <<talk, cached>>

Dispatch(r) ==
  /\ Job(r, "dispatch")
  /\ \E tool \in {"works", "raises", "unknown"} :
       talk' = [talk EXCEPT ![r] = Answering(@, turn[r].calls + 1, tool)]
  /\ turn' = [turn EXCEPT ![r].calls = @ + 1, ![r].open = @ - 1]
  /\ GoOn(r, IF turn[r].open = 1 THEN "chat" ELSE "dispatch")
  /\ KeepQueues /\ UNCHANGED cached

\* extract_and_store.
Remember(r) ==
  /\ Job(r, "remember")
  /\ turn' = [turn EXCEPT ![r].memory = "all"]
  /\ GoOn(r, "audit") /\ KeepQueues /\ UNCHANGED <<talk, cached>>

\* _finalize.
Audit(r) ==
  /\ Job(r, "audit")
  /\ turn' = [turn EXCEPT ![r].audit = @ + 1, ![r].out = "ok"]
  /\ EndJob(r) /\ KeepQueues /\ UNCHANGED <<talk, cached>>

\* next(generator): a piece of the answer, or the whole of the refusal.
YieldPiece(r) ==
  /\ Job(r, "next") /\ turn[r].tries < (IF turn[r].valid THEN MaxPieces ELSE 1)
  /\ turn' = [turn EXCEPT ![r].tries = @ + 1]
  /\ EndJob(r) /\ KeepQueues /\ UNCHANGED <<talk, cached>>

\* The generator runs out: only now is the exchange remembered.
MemoryOf(t) == IF t.valid THEN "all" ELSE "none"

Exhaust(r) ==
  /\ Job(r, "next")
  /\ turn[r].valid \/ turn[r].tries = 1
  /\ turn' = [turn EXCEPT ![r].out = "ok", ![r].memory = MemoryOf(turn[r])]
  /\ EndJob(r) /\ KeepQueues /\ UNCHANGED <<talk, cached>>

\* The provider's stream fails: Ollama's goes on with a piece of the mock's answer.
BreakStream(r) ==
  /\ Job(r, "next") /\ turn[r].valid /\ turn[r].answer = "open" /\ backend # "mock"
  /\ \E o \in {"transient", "fatal"} :
       turn' = IF AfterStreamFails(backend, o) = "degraded"
                 THEN [turn EXCEPT ![r].answer = "degraded"]
                 ELSE [turn EXCEPT ![r].out = "error"]
  /\ EndJob(r) /\ KeepQueues /\ UNCHANGED <<talk, cached>>

-----------------------------------------------------------------------------
Thread(r) ==
  \/ Apply(r) \/ Raise(r) \/ Prepare(r) \/ ServeCached(r) \/ Complete(r)
  \/ Chat(r) \/ ChatLimit(r) \/ Dispatch(r) \/ Remember(r) \/ Audit(r)
  \/ YieldPiece(r) \/ Exhaust(r) \/ BreakStream(r)

Loop(r) == AcquireLock(r) \/ Respond(r) \/ Pull(r) \/ Abandon(r)

Next == \E r \in Clients :
  Reject(r) \/ Accept(r) \/ StartJob(r) \/ Disconnect(r) \/ Thread(r) \/ Loop(r)

\* The loop and the executor run what is ready, and every job goes on: each call of
\* a provider has a timeout (llm_timeout_s) after which it raises, and the store's
\* and the memory's locks are held for local work only.  Nothing is assumed of the
\* clients but that one who stays reads what is sent.
Fairness == \A r \in Clients : WF_vars(Thread(r)) /\ WF_vars(Loop(r)) /\ WF_vars(StartJob(r))

Spec == Init /\ [][Next]_vars /\ Fairness

-----------------------------------------------------------------------------
(* Properties                                                              *)

Turn == [valid: BOOLEAN, tries: Nat, calls: Nat, open: Nat,
         answer: {"none", "open", "blocked", "answer", "degraded", "limit"},
         out: {"none", "ok", "error"}, left: BOOLEAN,
         memory: {"none", "part", "all"}, audit: Nat]

\* Attempts, rounds or pieces; the refusal of a blocked stream is one piece.
Limit(r) ==
  CASE kind[r] = "stream" -> MaxPieces + 1
    [] kind[r] = "tools"  -> MaxIters
    [] OTHER -> MaxRetries

TypeOK ==
  /\ kind \in Assignments /\ backend \in Backends
  /\ at \in [Clients -> {"new", "lock", "pool", "thread", "loop"} \cup Ended]
  /\ step \in [Clients -> {"none", "apply", "prepare", "complete", "chat", "dispatch",
                           "remember", "audit", "next"}]
  /\ lock \in Seq(Clients) /\ pool \in Seq(Clients)
  /\ turn \in [Clients -> Turn]
  /\ \A r \in Clients : turn[r].tries <= Limit(r) /\ turn[r].open <= MaxCalls
  /\ talk \in [Clients -> Seq({"call", "result"} \X Nat)]
  /\ cached \subseteq {"answer", "degraded"}

\* What the service accepts it finishes: no request waits for ever for the write
\* lock or for a thread, whoever raised, left or is still streaming before it.
EveryRequestEnds == \A r \in Clients : at[r] # "new" ~> at[r] \in Ended

\* What is written about a request agrees with how it ended, however steps of
\* others fall in between.  No request is audited twice; a run that returns is audited
\* and wholly remembered, unless it was blocked.  A stream is remembered if and only if
\* its generator ran out, also when the client left meanwhile; an abandoned one leaves
\* nothing, and a blocked one or one that was never asked is never remembered.
Accounted ==
  \A r \in Clients :
    LET t == turn[r]
        whole == IF t.answer = "blocked" THEN "none" ELSE "all"
    IN  at[r] \in Ended =>
          /\ t.audit <= 1
          /\ kind[r] \in {"query", "tools"} /\ at[r] = "returned" =>
               t.audit = 1 /\ t.memory = whole
          /\ kind[r] = "stream" =>
               t.memory \in (CASE t.out = "ok" -> {whole}
                               [] t.out = "error" -> {"none", "part"}
                               [] OTHER -> {"none"})
          /\ t.answer \in {"none", "blocked"} => t.memory = "none" /\ talk[r] = <<>>

Positions(m, x) == {i \in DOMAIN m : m[i] = x}

\* Both APIs refuse a conversation with an open tool call: whenever the model is
\* called again, every call it has made has exactly one result, after the call,
\* whatever tools it named and however they ended.
EveryCallAnswered ==
  \A r \in Clients : step[r] = "chat" =>
    \A i \in DOMAIN talk[r] : talk[r][i][1] = "call" =>
      LET results == Positions(talk[r], <<"result", talk[r][i][2]>>)
      IN  Cardinality(results) = 1 /\ \A j \in results : j > i

\* Writes reach the engine one at a time and in the order in which they came to the
\* lock, although every one runs as a job of its own in a pool shared with queries.
WritesInOrder ==
  \A i, j \in DOMAIN lock : i < j => at[lock[j]] = "lock" /\ step[lock[j]] = "none"
=============================================================================
