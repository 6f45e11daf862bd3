------------------------------ MODULE MCPrompt ------------------------------
(* A small instance of Prompt. *)
EXTENDS Prompt, FiniteSetsExt

\* Lines: headings of two levels, prose short and long, the marker of a fence.
L(level, size) == [level |-> level, marker |-> FALSE, size |-> size]
Fence == [level |-> 0, marker |-> TRUE, size |-> 1]
Comment == L(1, 1)   \* in a fence: code, but it reads like a heading
MCLines == {L(1, 1), L(2, 1), L(0, 1), L(0, 3), Fence}
MCShort == UNION {[1..n -> MCLines] : n \in 0..4}
Fenced == {<<Fence>> \o t : t \in [1..3 -> MCLines] \cup [1..4 -> {Comment, L(0, 3), Fence}]}
\* A fence cut by a comment in it, and another fence behind it.
Parted == {<<Fence, Comment, Fence>> \o t : t \in [1..3 -> {L(0, 1), L(0, 3), Fence}]}
MCTexts == MCShort \cup Fenced \cup Parted
MCCount(t, a, b) == MapThenSumSet(LAMBDA p : t[p].size, a..b)

Plain == [id |-> "a", ver |-> 1, src |-> "knowledge_base", tenant |-> "t", acl |-> {},
          meta |-> "m", emb |-> 0, lex |-> 0, rel |-> 1, stamp |-> 0, fact |-> "none",
          value |-> 0, expired |-> FALSE, tok |-> 2, sents |-> 1, pii |-> 0,
          opened |-> 0, closed |-> 0]

A == [Plain EXCEPT !.rel = 3]
B == [Plain EXCEPT !.id = "b", !.emb = 1, !.lex = 2, !.rel = 2, !.fact = "f", !.value = 1]
B2 == [B EXCEPT !.ver = 2, !.emb = 3, !.lex = 3, !.rel = 0]
C == [Plain EXCEPT !.id = "c", !.emb = 2, !.lex = 1, !.src = "document", !.sents = 2, !.tok = 5]
D == [Plain EXCEPT !.id = "d", !.emb = -2, !.lex = 3, !.rel = 1, !.stamp = 1, !.fact = "f",
                   !.value = 2]
E == [Plain EXCEPT !.id = "e", !.tenant = "u", !.lex = 3]
F == [Plain EXCEPT !.id = "f", !.acl = {"p"}, !.emb = -1, !.rel = 2, !.src = "database"]
G == [Plain EXCEPT !.id = "g", !.emb = 4, !.lex = 3, !.rel = 3, !.expired = TRUE]
H == [Plain EXCEPT !.id = "h", !.emb = 4, !.lex = 2, !.meta = "n"]

Turn == [Plain EXCEPT !.id = "turn", !.src = "current_conversation", !.emb = 2, !.stamp = 1,
                      !.rel = 2]
Fact == [Plain EXCEPT !.id = "fact", !.src = "long_term_memory", !.emb = -2, !.fact = "f",
                      !.value = 3, !.rel = 2]
Tool == [Plain EXCEPT !.id = "tool", !.src = "tool_output", !.emb = -3, !.pii = 2, !.rel = 3]
Code == [Plain EXCEPT !.id = "code", !.src = "tool_output", !.emb = -3, !.opened = 1]

MCItems == {A, B, B2, C, D, E, F, G, H, Turn, Fact, Tool, Code}
MCPools == {<<>>, <<Turn, Fact, Tool>>, <<Code>>}

Live(x) == [item |-> x, live |-> TRUE]
Gone(x) == [item |-> x, live |-> FALSE]
MCLayouts ==
  {<<>>, <<Live(A), Live(B), Live(C), Live(D)>>, <<Live(E), Gone(A), Live(B), Live(D)>>,
   <<Gone(A), Gone(B), Live(E), Live(C), Live(F)>>, <<Live(B), Live(G), Live(H), Live(D)>>,
   <<Live(C), Live(B), Live(A)>>}

Q(principals, filter, hybrid, window, closed) ==
  [tenant |-> "t", principals |-> principals, filter |-> filter, hybrid |-> hybrid,
   window |-> window, reserve |-> 2, opened |-> 0, closed |-> closed]
MCQueries ==
  {Q({"p"}, "any", TRUE, 16, 0), Q({}, "any", TRUE, 12, 0), Q({}, "m", FALSE, 14, 0),
   Q({"p"}, "any", TRUE, 4, 0), Q({}, "n", TRUE, 24, 1)}

MCUntrusted == {"knowledge_base", "document", "web_search", "api_response", "tool_output",
                "previous_conversation"}
=============================================================================
