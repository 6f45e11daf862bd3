------------------------------ MODULE Chunking ------------------------------
(***************************************************************************)
(* contextx/chunking.py: a text is cut into sections at its headings, and  *)
(* each section into chunks of about Target tokens, a chunk beginning with *)
(* the last units of the one before (up to Overlap tokens).                *)
(*                                                                         *)
(* A text is a sequence of lines that are not blank; sections and chunks   *)
(* are ranges of lines.  A unit is what is never cut: a sentence (here one *)
(* line) or what _CODE takes for a fenced block, from one marker ``` to    *)
(* the next.                                                               *)
(* count_tokens is a parameter: no tokenizer is additive.                  *)
(***************************************************************************)
EXTENDS Integers, Sequences, FiniteSets

CONSTANTS
  Texts,                 \* the texts chunk_text may be given
  CountTokens(_, _, _),  \* tokens of lines a to b of a text
  Target, Overlap        \* target_tokens, overlap_tokens

\* level 0: not a heading.  _HEADING knows no fences: a comment in a fenced
\* block may have a level too.  marker: the line is ``` (and a language).
Line == {l \in [level: 0..6, marker: BOOLEAN, size: Nat] : l.marker => l.level = 0}

ASSUME TextsAssumption  == Texts \subseteq Seq(Line)
ASSUME TokensAssumption ==   \* no tokenizer finds nothing in a text
  \A t \in Texts : \A a, b \in DOMAIN t :
    CountTokens(t, a, b) \in Nat /\ (a <= b => CountTokens(t, a, b) > 0)
ASSUME SizesAssumption  == Target \in Nat /\ Overlap \in Nat

VARIABLES
  text,         \* the argument
  cpc,          \* "split", "section", "pack", "carry"
  stack,        \* the headings (their lines) above the line being read
  sections,     \* the sections still to be packed
  first, next,  \* cur: lines first to next - 1
  curTok,       \* cur_tok
  back, backTok,\* the units carried over begin at line back
  chunks        \* the result so far

splitVars == <<stack, sections>>
packVars == <<first, next, curTok, back, backTok>>
chunkingVars == <<text, cpc, splitVars, packVars, chunks>>

Markers(a, b) == {p \in a..b : text[p].marker}
Odd(S) == Cardinality(S) % 2 = 1

\* _CODE pairs the markers of s in their order: lines a to b are one match.
IsFence(s, a, b) ==
  /\ a < b /\ text[a].marker /\ text[b].marker /\ Markers(a + 1, b - 1) = {}
  /\ Odd(Markers(s.from, a))

\* part.startswith("```"): a single marker at the beginning of s makes it one unit.
IsBlock(s, a, b) ==
  \/ IsFence(s, a, b)
  \/ a = s.from /\ b = s.to /\ Markers(a, b) = {a}

Ranges(s, p) == {[from |-> a, to |-> b] : a \in s.from..p, b \in p..s.to}
EachLine(s, p) == [from |-> p, to |-> p]   \* mutant: _CODE forgotten

\* The unit of section s that line p belongs to.
Unit(s, p) ==
  IF \E u \in Ranges(s, p) : IsBlock(s, u.from, u.to)
    THEN CHOOSE u \in Ranges(s, p) : IsBlock(s, u.from, u.to)
    ELSE [from |-> p, to |-> p]

Tokens(u) == CountTokens(text, u.from, u.to)

ChunkingInit ==
  /\ text \in Texts /\ cpc = "split"
  /\ stack = <<>> /\ sections = <<>> /\ chunks = <<>>
  /\ first = 1 /\ next = 1 /\ curTok = 0 /\ back = 1 /\ backTok = 0

-----------------------------------------------------------------------------
(* _split_headings                                                         *)

\* flush()
Flushed ==
  IF first = next THEN sections
  ELSE Append(sections, [trail |-> stack, from |-> first, to |-> next - 1])

\* while stack and stack[-1][0] >= level: stack.pop()
KeepsSiblings(h) == text[h].level <= text[next].level   \* mutant: pops only > level
Above(h) == text[h].level < text[next].level
Popped(n) == \A k \in (n + 1)..Len(stack) : ~Above(stack[k])

ReadHeading ==
  /\ cpc = "split" /\ next \in DOMAIN text /\ text[next].level > 0
  /\ sections' = Flushed
  /\ \E n \in 0..Len(stack) :
       /\ Popped(n) /\ (n > 0 => Above(stack[n]))
       /\ stack' = Append(SubSeq(stack, 1, n), next)
  /\ next' = next + 1 /\ first' = next + 1
  /\ UNCHANGED <<text, cpc, curTok, back, backTok, chunks>>

ReadLine ==
  /\ cpc = "split" /\ next \in DOMAIN text /\ text[next].level = 0
  /\ next' = next + 1
  /\ UNCHANGED <<text, cpc, splitVars, first, curTok, back, backTok, chunks>>

\* A text of headings alone is one section of its own lines.
EndText ==
  /\ cpc = "split" /\ next \notin DOMAIN text
  /\ sections' = IF Flushed = <<>> /\ text # <<>>
                   THEN <<[trail |-> <<>>, from |-> 1, to |-> Len(text)]>>
                   ELSE Flushed
  /\ cpc' = "section"
  /\ UNCHANGED <<text, stack, packVars, chunks>>

-----------------------------------------------------------------------------
(* _pack                                                                   *)

Sec == Head(sections)
NextUnit == Unit(Sec, next)
Cut(a, b, tok) == [sec |-> Sec, from |-> a, to |-> b, tok |-> tok]

PackWhole ==
  /\ cpc = "section" /\ sections # <<>> /\ Tokens(Sec) <= Target
  /\ chunks' = Append(chunks, Cut(Sec.from, Sec.to, Tokens(Sec)))
  /\ sections' = Tail(sections)
  /\ UNCHANGED <<text, cpc, stack, packVars>>

StartPacking ==
  /\ cpc = "section" /\ sections # <<>> /\ Tokens(Sec) > Target
  /\ cpc' = "pack" /\ first' = Sec.from /\ next' = Sec.from /\ curTok' = 0
  /\ UNCHANGED <<text, splitVars, back, backTok, chunks>>

TakeUnit ==
  /\ cpc = "pack" /\ next <= Sec.to
  /\ first = next \/ curTok + Tokens(NextUnit) <= Target
  /\ next' = NextUnit.to + 1 /\ curTok' = curTok + Tokens(NextUnit)
  /\ UNCHANGED <<text, cpc, splitVars, first, back, backTok, chunks>>

CutChunk ==
  /\ cpc = "pack" /\ next <= Sec.to
  /\ first # next /\ curTok + Tokens(NextUnit) > Target
  /\ chunks' = Append(chunks, Cut(first, next - 1, curTok))
  /\ cpc' = "carry" /\ back' = next /\ backTok' = 0
  /\ UNCHANGED <<text, splitVars, first, next, curTok>>

LastUnit == Unit(Sec, back - 1)
LooksTooLate == back > first /\ backTok < Overlap   \* mutant: checked before the unit is added
Carries == back > first /\ backTok + Tokens(LastUnit) <= Overlap

CarryUnit ==
  /\ cpc = "carry" /\ Carries
  /\ back' = LastUnit.from /\ backTok' = backTok + Tokens(LastUnit)
  /\ UNCHANGED <<text, cpc, splitVars, first, next, curTok, chunks>>

UnitForgotten == NextUnit.to + 1   \* mutant: the unit that did not fit is lost
Resumed == back

\* cur = back, and the unit that did not fit is appended whatever its size.
Resume ==
  /\ cpc = "carry" /\ ~Carries
  /\ first' = Resumed
  /\ next' = NextUnit.to + 1 /\ curTok' = backTok + Tokens(NextUnit)
  /\ cpc' = "pack"
  /\ UNCHANGED <<text, splitVars, back, backTok, chunks>>

EndSection ==
  /\ cpc = "pack" /\ next > Sec.to
  /\ chunks' = Append(chunks, Cut(first, next - 1, curTok))
  /\ sections' = Tail(sections) /\ cpc' = "section"
  /\ UNCHANGED <<text, stack, packVars>>

ChunkingNext ==
  \/ ReadHeading \/ ReadLine \/ EndText
  \/ PackWhole \/ StartPacking \/ TakeUnit \/ CutChunk \/ CarryUnit \/ Resume \/ EndSection

ChunkingSpec == ChunkingInit /\ [][ChunkingNext]_chunkingVars

Chunked == cpc = "section" /\ sections = <<>>

-----------------------------------------------------------------------------
(* Properties                                                              *)

Section == [trail: Seq(Nat), from: Nat, to: Nat]
Chunk == [sec: Section, from: Nat, to: Nat, tok: Nat]

ChunkingTypeOK ==
  /\ text \in Texts \cup {<<>>} /\ cpc \in {"split", "section", "pack", "carry"}
  /\ stack \in Seq(Nat) /\ sections \in Seq(Section)
  /\ first \in Nat /\ next \in Nat /\ curTok \in Nat /\ back \in Nat /\ backTok \in Nat
  /\ chunks \in Seq(Chunk)

\* A chunk over the target is one unit, which cannot be cut, and at most
\* Overlap tokens carried over: the seam never adds more than it promises.
ChunkBound ==
  \A k \in DOMAIN chunks :
    \/ chunks[k].tok <= Target
    \/ \E p \in chunks[k].from..chunks[k].to :
         chunks[k].tok <= Overlap + Tokens(Unit(chunks[k].sec, p))

Covered(p) == \E k \in DOMAIN chunks : p \in chunks[k].from..chunks[k].to
OnlyHeadings == \A p \in DOMAIN text : text[p].level > 0

\* No line is lost at a seam, and every chunk adds something: each line of the
\* text that is not a heading is in a chunk, and the chunks of a section advance
\* without a gap.  (A chunk may well begin where the one before it began: a short
\* chunk is carried over as a whole.)
NothingLost ==
  /\ Chunked => \A p \in DOMAIN text : text[p].level = 0 \/ OnlyHeadings => Covered(p)
  /\ \A k \in DOMAIN chunks \ {1} :
       LET c == chunks[k - 1]
           e == chunks[k]
       IN  e.sec = c.sec => e.from \in c.from..(c.to + 1) /\ c.to < e.to

\* The heading at line h is above line p when every heading between them is
\* deeper.
InScope(h, p) ==
  /\ text[h].level > 0 /\ h < p
  /\ \A q \in (h + 1)..p : text[q].level > 0 => text[q].level > text[h].level

\* "a chunk keeps its context even when retrieved in isolation": its breadcrumb
\* is the headings in whose scope its lines are, from the outermost in.
TrailInScope ==
  \A k \in DOMAIN chunks :
    LET t == chunks[k].sec.trail
    IN  /\ \A i, j \in DOMAIN t : i < j => t[i] < t[j]
        /\ ~OnlyHeadings =>
             {t[i] : i \in DOMAIN t} = {h \in DOMAIN text : InScope(h, chunks[k].from)}

\* The fences as a reader of the text sees them.
WholeText == [from |-> 1, to |-> Len(text)]
InFence(h) == Odd(Markers(1, h))
PlainFence(a, b) == IsFence(WholeText, a, b) /\ \A p \in a..b : text[p].level = 0
Opens(h, p) ==   \* h is the last heading before line p
  h < p /\ text[h].level > 0 /\ \A q \in (h + 1)..p : text[q].level = 0

AllOrNothing(c, a, b) ==
  (\E p \in a..b : p \in c.from..c.to) => {a, b} \subseteq c.from..c.to

\* "treats fenced code blocks as atomic": a chunk holds the whole of a fenced block
\* or nothing of it -- unless a line of the block reads like a heading, or the last
\* one before it did so inside another block and parted that block's markers.
FenceWhole ==
  \A k \in DOMAIN chunks : \A a, b \in DOMAIN text :
    PlainFence(a, b) /\ (\A h \in DOMAIN text : Opens(h, a) => ~InFence(h))
      => AllOrNothing(chunks[k], a, b)
=============================================================================
