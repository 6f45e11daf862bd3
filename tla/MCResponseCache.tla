-------------------------- MODULE MCResponseCache ---------------------------
(* Small instances of ResponseCache. *)
EXTENDS ResponseCache, TLC

CONSTANTS w1, w2, ask, again, other, opening

MCWorkers == {w1, w2}
\* `again` is a paraphrase of `ask`; `other` is a different question.
MCQuestions == {ask, again, other}
MCAlike == {<<x, x>> : x \in MCQuestions} \cup {<<ask, again>>, <<again, ask>>}
MCPrefixes == MCQuestions \cup {opening}

\* No two questions share their first 256 characters ...
OwnPrefix == [x \in MCQuestions |-> x]
\* ... or all of them do: their prompts open with the same context.
SharedPrefix == [x \in MCQuestions |-> opening]

Symmetry == Permutations(MCWorkers) \cup Permutations({ask, again})
=============================================================================
