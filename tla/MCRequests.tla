----------------------------- MODULE MCRequests -----------------------------
(* Small instances of Requests. *)
EXTENDS Requests

MCClients == {"x", "y", "z"}
As(x, y, z) == [r \in MCClients |-> CASE r = "x" -> x [] r = "y" -> y [] OTHER -> z]
MCAssignments ==
  {As("write", "write", "stream"), As("write", "query", "query"),
   As("tools", "stream", "write")}

Env(provider, anthropic, openai) ==
  [provider |-> provider, anthropicKey |-> anthropic, openaiKey |-> openai,
   importable |-> TRUE, reachable |-> TRUE]
MCEnvironments == {Env("auto", TRUE, TRUE), Env("auto", FALSE, FALSE), Env("openai", TRUE, FALSE)}
=============================================================================
