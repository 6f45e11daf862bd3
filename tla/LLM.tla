-------------------------------- MODULE LLM ---------------------------------
(***************************************************************************)
(* contextx/llm.py: which backend is chosen, how a call may end, when a    *)
(* failed one is tried again, and the messages of a conversation with      *)
(* tools.                                                                  *)
(***************************************************************************)
EXTENDS Naturals, Sequences

CONSTANTS MaxRetries,  \* llm_max_retries
          MaxIters     \* run_tools' max_iters

ASSUME LLMAssumption == {MaxRetries, MaxIters} \subseteq Nat

Backends == {"anthropic", "openai", "ollama", "mock"}

Environment == [provider: {"auto"} \cup Backends, anthropicKey: BOOLEAN, openaiKey: BOOLEAN,
                importable: BOOLEAN, reachable: BOOLEAN]

\* "auto": the first that is configured.
Wanted(e) ==
  IF e.provider # "auto"  THEN e.provider
  ELSE IF e.anthropicKey  THEN "anthropic"
  ELSE IF e.openaiKey     THEN "openai"
  ELSE IF e.reachable     THEN "ollama" ELSE "mock"

\* A backend that cannot be used falls through to the mock, not to the next one.
SelectBackend(e) ==
  CASE Wanted(e) = "anthropic" /\ e.anthropicKey /\ e.importable -> "anthropic"
    [] Wanted(e) = "openai" /\ e.openaiKey -> "openai"
    [] Wanted(e) = "ollama" -> "ollama"
    [] OTHER -> "mock"

\* "transient" is what a backend's except clause lists, "fatal" any other exception.
Outcomes(backend) == IF backend = "mock" THEN {"answer"} ELSE {"answer", "transient", "fatal"}

\* attempt counts from 0; the loop of complete() has MaxRetries + 1 rounds.
RetriesForever(backend, attempt, outcome) ==   \* mutant: no attempt is the last
  CASE outcome = "answer" -> "answer"
    [] outcome = "fatal" -> "raise"
    [] OTHER -> "again"
AfterCall(backend, attempt, outcome) ==
  CASE outcome = "answer" -> "answer"
    [] outcome = "fatal" -> "raise"
    [] outcome = "transient" ->
         IF attempt < MaxRetries THEN "again"
         ELSE IF backend = "ollama" THEN "degraded" ELSE "raise"

\* A stream is never begun again; Ollama's goes on with the mock's text.
AfterStreamFails(backend, outcome) ==
  IF backend = "ollama" /\ outcome = "transient" THEN "degraded" ELSE "raise"

UsesTools(backend) == backend \in {"openai", "anthropic"}

\* messages, as far as tool calls go: <<"call", n>> and <<"result", n>>.
Asking(talk, calls, n) == talk \o [i \in 1..n |-> <<"call", calls + i>>]

\* _dispatch: an unknown tool, or one that raises, is answered with the error.
KnownToolsOnly(talk, n, tool) ==   \* mutant
  IF tool = "unknown" THEN talk ELSE Append(talk, <<"result", n>>)
Answering(talk, n, tool) == Append(talk, <<"result", n>>)
=============================================================================
