-------------------------- MODULE MCMemoryManager ---------------------------
(* Small instances of MemoryManager. *)
EXTENDS MemoryManager, TLC

CONSTANTS w1, w2, alice, bob, tool, v1, v2

MCWorkers == {w1, w2}
MCScopes == {alice, bob}
MCFacts == {tool}
MCValues == {v1, v2}

Asked == [fact |-> NoFact, value |-> v1, imp |-> 4, ttl |-> Forever]
Says(v, imp, ttl) == [fact |-> tool, value |-> v, imp |-> imp, ttl |-> ttl]

\* An exchange without a fact; with one; with one the extractor pins; and a fact
\* with a time to live, stored directly.
MCTurns == { <<Asked>>, <<Asked, Says(v1, 7, Forever)>>, <<Asked, Says(v2, 10, Forever)>>,
             <<Says(v2, 7, 0)>> }
Symmetry == Permutations(MCWorkers) \cup Permutations(MCScopes)
=============================================================================
