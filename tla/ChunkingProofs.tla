--------------------------- MODULE ChunkingProofs ---------------------------
(***************************************************************************)
(* Theorems about Chunking, as a part of Prompt: what ingest() makes of    *)
(* any text, for any token counter, target and overlap.                    *)
(***************************************************************************)
EXTENDS Prompt, TLAPS, SequenceTheorems, FiniteSetTheorems

Lines == DOMAIN text
IsHeading(p) == text[p].level > 0
Within(s) == s.from..s.to

-----------------------------------------------------------------------------
(* The inductive invariant. *)

\* No unit of section s reaches over the seam before line p.
Seam(s, p) ==
  /\ p \in s.from..(s.to + 1)
  /\ \A q \in Within(s) : Unit(s, q).from < p => Unit(s, q).to < p

\* A section is what stands between two headings, or the whole of a text of headings.
SectionOK(s) ==
  /\ s.trail \in Seq(Nat) /\ s.from \in Lines /\ s.to \in Lines /\ s.from <= s.to
  /\ \A i, j \in DOMAIN s.trail : i < j => s.trail[i] < s.trail[j]
  /\ OnlyHeadings \/ /\ \A p \in Within(s) : ~IsHeading(p)
                     /\ s.from - 1 \in Lines => IsHeading(s.from - 1)
                     /\ s.to + 1 \in Lines => IsHeading(s.to + 1)
                     /\ Elements(s.trail) = {h \in Lines : InScope(h, s.from)}

SectionsInv ==
  /\ \A k \in DOMAIN sections : SectionOK(sections[k])
  /\ \A i, j \in DOMAIN sections : i < j => sections[i].to < sections[j].from

Waiting(p) == \E k \in DOMAIN sections : p \in Within(sections[k])

\* A line read next would be in the scope of heading h.
Open(h) ==
  IsHeading(h) /\ \A q \in (h + 1)..(next - 1) : IsHeading(q) => text[q].level > text[h].level

\* While the text is split: cur holds the lines since the last heading, and the stack
\* the headings a line here would have for its breadcrumb.
SplitInv ==
  cpc = "split" =>
    /\ first \in 1..next /\ next \in 1..(Len(text) + 1) /\ chunks = <<>>
    /\ \A p \in first..(next - 1) : ~IsHeading(p)
    /\ first - 1 \in Lines => IsHeading(first - 1)
    /\ \A p \in 1..(first - 1) : IsHeading(p) \/ Waiting(p)
    /\ \A k \in DOMAIN sections :
         sections[k].to < first /\ ~IsHeading(sections[k].from)
    /\ stack \in Seq(Nat) /\ Elements(stack) = {h \in 1..(next - 1) : Open(h)}
    /\ \A i, j \in DOMAIN stack : i < j => stack[i] < stack[j]

\* What a chunk of lines a to b may weigh.
Bounded(s, a, b, tok) ==
  tok <= Target \/ \E p \in a..b : tok <= Overlap + Tokens(Unit(s, p))

\* While a section is packed: cur is made of whole units of it.
PackInv ==
  /\ cpc \in {"pack", "carry"} =>
       /\ sections # <<>> /\ curTok \in Nat
       /\ Seam(Sec, first) /\ Seam(Sec, next) /\ first <= next
       /\ first = next => curTok = 0 /\ next <= Sec.to
       /\ first # next => curTok > 0
       /\ Bounded(Sec, first, next - 1, curTok)
  /\ cpc = "carry" =>
       /\ next <= Sec.to /\ Seam(Sec, back) /\ back \in first..next
       /\ backTok \in Nat /\ backTok <= Overlap

\* A chunk is a run of whole units of its section, of bounded weight.
ChunkOK(c) ==
  /\ SectionOK(c.sec)
  /\ Seam(c.sec, c.from) /\ Seam(c.sec, c.to + 1) /\ c.from <= c.to
  /\ c.tok \in Nat \ {0} /\ Bounded(c.sec, c.from, c.to, c.tok)

ChunksInv == chunks \in Seq(Chunk) /\ \A k \in DOMAIN chunks : ChunkOK(chunks[k])

\* Every line is in a chunk or waits in a section; of the section that is being packed
\* the lines before cur are in chunks.
Due(p) == ~IsHeading(p) \/ OnlyHeadings
KeptInv ==
  /\ cpc # "split" => \A p \in Lines : Due(p) => Covered(p) \/ Waiting(p)
  /\ cpc = "pack" => \A p \in Sec.from..(first - 1) : Covered(p)
  /\ cpc = "carry" => \A p \in Sec.from..(next - 1) : Covered(p)

\* The chunks of a section follow one another.
Follows(c, e) == e.sec = c.sec => e.from \in c.from..(c.to + 1) /\ c.to < e.to
Latest == chunks[Len(chunks)]
SeamInv ==
  /\ \A k \in DOMAIN chunks \ {1} : Follows(chunks[k - 1], chunks[k])
  /\ chunks # <<>> =>
       /\ cpc = "section" => \A k \in DOMAIN sections : sections[k] # Latest.sec
       /\ cpc = "pack" /\ Latest.sec = Sec =>
            first \in Latest.from..(Latest.to + 1) /\ Latest.to < next - 1
       /\ cpc = "carry" =>
            Latest.sec = Sec /\ Latest.from = first /\ Latest.to = next - 1

-----------------------------------------------------------------------------
(* Texts and their units. *)

TextOK == text \in Texts \cup {<<>>}

LEMMA TextFacts ==
  ASSUME TextOK
  PROVE  /\ Len(text) \in Nat /\ Lines = 1..Len(text)
         /\ \A p \in Lines : text[p].level \in 0..6 /\ text[p].marker \in BOOLEAN
<1>1. <<>> \in Seq(Line) /\ Len(<<>>) = 0
  BY EmptySeq
<1>2. text \in Seq(Line)
  BY <1>1, TextsAssumption DEF TextOK
<1>3. Len(text) \in Nat /\ Lines = 1..Len(text)
  BY <1>2, LenProperties DEF Lines
<1>4. \A p \in Lines : text[p] \in Line
  BY <1>2, <1>3, ElementOfSeq
<1> QED BY <1>3, <1>4 DEF Line

LEMMA TokenFacts ==
  ASSUME TextOK, NEW a \in Lines, NEW b \in Lines
  PROVE  CountTokens(text, a, b) \in Nat /\ (a <= b => CountTokens(text, a, b) > 0)
<1>1. CASE text \in Texts
  BY <1>1, TokensAssumption DEF Lines
<1>2. CASE text = <<>>
  BY <1>2, EmptySeq, TextFacts
<1> QED BY <1>1, <1>2 DEF TextOK

LEMMA MarkersAdd ==
  ASSUME NEW a \in Int, NEW b \in Int, NEW c \in Int, a <= b + 1, b <= c
  PROVE  /\ Cardinality(Markers(a, b)) \in Nat /\ Cardinality(Markers(b + 1, c)) \in Nat
         /\ Cardinality(Markers(a, c)) =
              Cardinality(Markers(a, b)) + Cardinality(Markers(b + 1, c))
<1>1. IsFiniteSet(a..b) /\ IsFiniteSet((b + 1)..c)
  BY FS_Interval
<1>2. Markers(a, b) \in SUBSET (a..b) /\ Markers(b + 1, c) \in SUBSET ((b + 1)..c)
  BY DEF Markers
<1>3. IsFiniteSet(Markers(a, b)) /\ IsFiniteSet(Markers(b + 1, c))
  BY <1>1, <1>2, FS_Subset
<1>4. Markers(a, c) = Markers(a, b) \cup Markers(b + 1, c)
  <2>1. \A p : p \in a..c <=> p \in a..b \/ p \in (b + 1)..c
    OBVIOUS
  <2> QED BY <2>1 DEF Markers
<1>5. Markers(a, b) \cap Markers(b + 1, c) = {}
  BY <1>2
<1>6. Cardinality({}) = 0
  BY FS_EmptySet
<1>7. Cardinality(Markers(a, c)) = Cardinality(Markers(a, b)) + Cardinality(Markers(b + 1, c))
                                     - Cardinality(Markers(a, b) \cap Markers(b + 1, c))
  BY <1>3, <1>4, FS_Union
<1>8. Cardinality(Markers(a, b)) \in Nat /\ Cardinality(Markers(b + 1, c)) \in Nat
  BY <1>3, FS_CardinalityType
<1>9. Cardinality(Markers(a, b) \cap Markers(b + 1, c)) = 0
  BY <1>5, <1>6
<1> QED
  <2> DEFINE m == Cardinality(Markers(a, b))
             n == Cardinality(Markers(b + 1, c))
  <2>1. m \in Nat /\ n \in Nat /\ Cardinality(Markers(a, c)) = m + n - 0
    BY <1>7, <1>8, <1>9
  <2> HIDE DEF m, n
  <2>2. m + n - 0 = m + n
    BY <2>1
  <2> QED BY <2>1, <2>2 DEF m, n

\* The marker that closes a fence opens none: fences that share a line begin together.
LEMMA FencesBegin ==
  ASSUME NEW s, s.from \in Int, NEW a \in Int, NEW b \in Int, NEW c \in Int, NEW e \in Int,
         s.from <= a, IsFence(s, a, b), IsFence(s, c, e), NEW p \in a..b, p \in c..e
  PROVE  ~(a < c)
<1> SUFFICES ASSUME a < c PROVE FALSE
  OBVIOUS
<1>1. a < b /\ text[b].marker /\ text[c].marker /\ Markers(a + 1, b - 1) = {}
  BY DEF IsFence
<1>2. c = b
  <2>1. c <= b
    OBVIOUS
  <2>2. c < b => c \in Markers(a + 1, b - 1)
    BY <1>1 DEF Markers
  <2> QED BY <1>1, <2>1, <2>2
<1>3. Markers(a + 1, b) = {b}
  <2>1. b \in Markers(a + 1, b)
    BY <1>1 DEF Markers
  <2>2. \A q \in Markers(a + 1, b) : q # b => q \in Markers(a + 1, b - 1)
    BY DEF Markers
  <2> QED BY <1>1, <2>1, <2>2
<1>4. Cardinality({b}) = 1
  <2>1. IsFiniteSet({}) /\ Cardinality({}) = 0
    BY FS_EmptySet
  <2>2. Cardinality({} \cup {b}) = Cardinality({}) + 1
    BY <2>1, FS_AddElement
  <2>3. {} \cup {b} = {b}
    OBVIOUS
  <2> QED BY <2>1, <2>2, <2>3
<1>5. /\ Cardinality(Markers(s.from, a)) \in Nat
      /\ Cardinality(Markers(s.from, b)) = Cardinality(Markers(s.from, a)) + 1
  <2>1. s.from <= a + 1 /\ a <= b
    BY <1>1
  <2>2. /\ Cardinality(Markers(s.from, a)) \in Nat
        /\ Cardinality(Markers(s.from, b)) =
             Cardinality(Markers(s.from, a)) + Cardinality(Markers(a + 1, b))
    BY <2>1, MarkersAdd
  <2> QED BY <1>3, <1>4, <2>2
<1>6. /\ Cardinality(Markers(s.from, a)) % 2 = 1
      /\ Cardinality(Markers(s.from, b)) % 2 = 1
  BY <1>2 DEF IsFence, Odd
<1>7. \A n \in Nat : ~(n % 2 = 1 /\ (n + 1) % 2 = 1)
  OBVIOUS
<1> QED BY <1>5, <1>6, <1>7

LEMMA FencesEnd ==
  ASSUME NEW s, NEW a \in Int, NEW b \in Int, NEW e \in Int, IsFence(s, a, b), IsFence(s, a, e)
  PROVE  ~(b < e)
<1> SUFFICES ASSUME b < e PROVE FALSE
  OBVIOUS
<1>1. a < b /\ text[b].marker /\ Markers(a + 1, e - 1) = {}
  BY DEF IsFence
<1>2. b \in (a + 1)..(e - 1)
  BY <1>1
<1> QED BY <1>1, <1>2 DEF Markers

\* Two blocks of a section that share a line are one.
LEMMA OneBlock ==
  ASSUME NEW s, s.from \in Int, s.to \in Int,
         NEW a \in Int, NEW b \in Int, NEW c \in Int, NEW e \in Int,
         s.from <= a, b <= s.to, s.from <= c, e <= s.to,
         IsBlock(s, a, b), IsBlock(s, c, e), NEW p \in a..b, p \in c..e
  PROVE  a = c /\ b = e
<1>1. CASE IsFence(s, a, b) /\ IsFence(s, c, e)
  <2>1. ~(a < c) /\ ~(c < a)
    BY <1>1, FencesBegin
  <2>2. a = c
    BY <2>1
  <2>3. ~(b < e) /\ ~(e < b)
    BY <1>1, <2>2, FencesEnd
  <2> QED BY <2>2, <2>3
<1>2. ASSUME NEW i \in Int, NEW j \in Int, s.from <= i, j <= s.to, IsFence(s, i, j),
             Markers(s.from, s.to) = {s.from}
      PROVE  FALSE
  <2>1. i < j /\ text[i].marker /\ text[j].marker
    BY <1>2 DEF IsFence
  <2>2. i \in Markers(s.from, s.to) /\ j \in Markers(s.from, s.to)
    BY <1>2, <2>1 DEF Markers
  <2> QED BY <1>2, <2>1, <2>2
<1>3. CASE ~IsFence(s, a, b)
  <2>1. a = s.from /\ b = s.to /\ Markers(s.from, s.to) = {s.from}
    BY <1>3 DEF IsBlock
  <2>2. ~IsFence(s, c, e)
    BY <1>2, <2>1
  <2> QED BY <2>1, <2>2 DEF IsBlock
<1>4. CASE ~IsFence(s, c, e)
  <2>1. c = s.from /\ e = s.to /\ Markers(s.from, s.to) = {s.from}
    BY <1>4 DEF IsBlock
  <2>2. ~IsFence(s, a, b)
    BY <1>2, <2>1
  <2> QED BY <2>1, <2>2 DEF IsBlock
<1> QED BY <1>1, <1>3, <1>4

LEMMA UnitFacts ==
  ASSUME TextOK, NEW s, s.from \in Lines, s.to \in Lines, NEW p \in Within(s)
  PROVE  LET u == Unit(s, p)
         IN  /\ u = [from |-> u.from, to |-> u.to]
             /\ u.from \in Lines /\ u.to \in Lines /\ p \in Lines
             /\ u.from \in s.from..p /\ u.to \in p..s.to
             /\ \/ IsBlock(s, u.from, u.to)
                \/ u.from = p /\ u.to = p /\ ~\E v \in Ranges(s, p) : IsBlock(s, v.from, v.to)
<1> USE TextFacts
<1> DEFINE u == Unit(s, p)
<1>1. CASE \E v \in Ranges(s, p) : IsBlock(s, v.from, v.to)
  <2>1. u \in Ranges(s, p) /\ IsBlock(s, u.from, u.to)
    BY <1>1 DEF Unit
  <2> HIDE DEF u
  <2>2. PICK a \in s.from..p, b \in p..s.to : u = [from |-> a, to |-> b]
    BY <2>1 DEF Ranges
  <2>3. u.from = a /\ u.to = b
    BY <2>2
  <2> QED BY <2>1, <2>2, <2>3 DEF Within, u
<1>2. CASE ~\E v \in Ranges(s, p) : IsBlock(s, v.from, v.to)
  <2>1. u = [from |-> p, to |-> p]
    BY <1>2 DEF Unit
  <2> HIDE DEF u
  <2> QED BY <1>2, <2>1 DEF Within, u
<1> QED BY <1>1, <1>2

\* The lines of a unit have it for their unit.
LEMMA UnitsApart ==
  ASSUME TextOK, NEW s, s.from \in Lines, s.to \in Lines, NEW p \in Within(s),
         NEW q \in Unit(s, p).from..Unit(s, p).to
  PROVE  q \in Within(s) /\ Unit(s, q) = Unit(s, p)
<1> USE TextFacts
<1> DEFINE u == Unit(s, p)
           v == Unit(s, q)
<1>1. /\ u = [from |-> u.from, to |-> u.to]
      /\ u.from \in Lines /\ u.to \in Lines
      /\ u.from \in s.from..p /\ u.to \in p..s.to
      /\ IsBlock(s, u.from, u.to) \/ (u.from = p /\ u.to = p)
  BY UnitFacts
<1>2. q \in Within(s)
  BY <1>1 DEF Within
<1>3. /\ v = [from |-> v.from, to |-> v.to]
      /\ v.from \in Lines /\ v.to \in Lines
      /\ v.from \in s.from..q /\ v.to \in q..s.to
      /\ IsBlock(s, v.from, v.to) \/ ~\E w \in Ranges(s, q) : IsBlock(s, w.from, w.to)
  BY <1>2, UnitFacts
<1> HIDE DEF u, v
<1>4. q \in u.from..u.to
  BY DEF u
<1>5. CASE IsBlock(s, u.from, u.to)
  <2>1. u.from \in s.from..q /\ u.to \in q..s.to
    BY <1>1, <1>4 DEF Within
  <2>2. u \in Ranges(s, q)
    BY <1>1, <2>1 DEF Ranges
  <2>3. IsBlock(s, v.from, v.to) /\ q \in v.from..v.to
    BY <1>3, <1>5, <2>2
  <2>4. u.from = v.from /\ u.to = v.to
    BY <1>1, <1>3, <1>4, <1>5, <2>3, OneBlock
  <2> QED BY <1>1, <1>2, <1>3, <2>4 DEF u, v
<1>6. CASE u.from = p /\ u.to = p
  BY <1>2, <1>4, <1>6
<1> QED BY <1>1, <1>5, <1>6

LEMMA SeamEnds ==
  ASSUME TextOK, NEW s, s.from \in Lines, s.to \in Lines, s.from <= s.to
  PROVE  Seam(s, s.from) /\ Seam(s, s.to + 1)
<1> USE TextFacts
<1>1. \A q \in Within(s) : Unit(s, q).from \in s.from..q /\ Unit(s, q).to \in q..s.to
  BY UnitFacts
<1> QED BY <1>1 DEF Seam, Within

LEMMA SeamUnit ==
  ASSUME TextOK, NEW s, s.from \in Lines, s.to \in Lines, NEW p \in Within(s)
  PROVE  Seam(s, Unit(s, p).from) /\ Seam(s, Unit(s, p).to + 1)
<1> USE TextFacts
<1> DEFINE u == Unit(s, p)
<1>1. u.from \in Lines /\ u.to \in Lines /\ u.from \in s.from..p /\ u.to \in p..s.to
  BY UnitFacts
<1>2. \A q \in u.from..u.to : Unit(s, q) = u
  BY UnitsApart
<1> HIDE DEF u
<1>3. ASSUME NEW q \in Within(s), NEW r \in u.from..u.to,
             r \in Unit(s, q).from..Unit(s, q).to
      PROVE  Unit(s, q) = u
  BY <1>2, <1>3, UnitsApart
<1>4. ASSUME NEW q \in Within(s)
      PROVE  /\ Unit(s, q).from < u.from => Unit(s, q).to < u.from
             /\ Unit(s, q).from < u.to + 1 => Unit(s, q).to < u.to + 1
  <2>1. /\ Unit(s, q).from \in Lines /\ Unit(s, q).to \in Lines
        /\ Unit(s, q).from <= Unit(s, q).to
    BY UnitFacts DEF Within
  <2>2. CASE Unit(s, q) = u
    BY <1>1, <2>2
  <2>3. CASE Unit(s, q) # u
    <3>1. u.from \notin Unit(s, q).from..Unit(s, q).to /\ u.to \notin Unit(s, q).from..Unit(s, q).to
      BY <1>1, <1>3, <2>3 DEF Within
    <3> QED BY <1>1, <2>1, <3>1
  <2> QED BY <2>2, <2>3
<1> QED BY <1>1, <1>4 DEF Seam, Within, u

\* The units on either side of a seam stay on their side.
LEMMA SeamSides ==
  ASSUME TextOK, NEW s, s.from \in Lines, s.to \in Lines, NEW p, Seam(s, p), NEW q \in Within(s)
  PROVE  /\ p <= q => p <= Unit(s, q).from
         /\ q < p => Unit(s, q).to < p
<1>1. Unit(s, q).from \in s.from..q /\ Unit(s, q).to \in q..s.to
  BY UnitFacts
<1> QED BY <1>1, TextFacts DEF Seam, Within

LEMMA UnitTokens ==
  ASSUME TextOK, NEW s, s.from \in Lines, s.to \in Lines, s.from <= s.to
  PROVE  /\ Tokens(s) \in Nat /\ Tokens(s) > 0
         /\ \A p \in Within(s) : Tokens(Unit(s, p)) \in Nat /\ Tokens(Unit(s, p)) > 0
<1>1. \A u : u.from \in Lines /\ u.to \in Lines =>
              Tokens(u) \in Nat /\ (u.from <= u.to => Tokens(u) > 0)
  BY TokenFacts DEF Tokens
<1>2. \A p \in Within(s) : /\ Unit(s, p).from \in Lines /\ Unit(s, p).to \in Lines
                           /\ Unit(s, p).from <= Unit(s, p).to
  <2> TAKE p \in Within(s)
  <2>1. /\ Unit(s, p).from \in Lines /\ Unit(s, p).to \in Lines
        /\ Unit(s, p).from \in s.from..p /\ Unit(s, p).to \in p..s.to
    BY UnitFacts
  <2> QED BY <2>1, TextFacts DEF Within
<1> QED BY <1>1, <1>2

-----------------------------------------------------------------------------
(* What depends on the text alone stays while the text does. *)

LEMMA SameUnits ==
  ASSUME text' = text
  PROVE  /\ \A s, p : Unit(s, p)' = Unit(s, p)
         /\ \A s, p : Seam(s, p)' <=> Seam(s, p)
         /\ \A u : Tokens(u)' = Tokens(u)
         /\ \A s, a, b, tok : Bounded(s, a, b, tok)' <=> Bounded(s, a, b, tok)
<1>1. \A s, a, b : IsBlock(s, a, b)' <=> IsBlock(s, a, b)
  BY DEF IsBlock, IsFence, Markers, Odd
<1>2. \A s, p : Unit(s, p)' = Unit(s, p)
  BY <1>1 DEF Unit
<1>3. \A u : Tokens(u)' = Tokens(u)
  BY DEF Tokens
<1>4. \A s, p : Seam(s, p)' <=> Seam(s, p)
  BY <1>2 DEF Seam, Within
<1>5. \A s, a, b, tok : Bounded(s, a, b, tok)' <=> Bounded(s, a, b, tok)
  BY <1>2, <1>3 DEF Bounded
<1> QED BY <1>2, <1>3, <1>4, <1>5

LEMMA SameSections ==
  ASSUME text' = text
  PROVE  /\ Lines' = Lines /\ (OnlyHeadings' <=> OnlyHeadings)
         /\ \A p : IsHeading(p)' <=> IsHeading(p)
         /\ \A p : Due(p)' <=> Due(p)
         /\ \A s : SectionOK(s)' <=> SectionOK(s)
<1>1. Lines' = Lines /\ (OnlyHeadings' <=> OnlyHeadings) /\ \A p : IsHeading(p)' <=> IsHeading(p)
  BY DEF Lines, OnlyHeadings, IsHeading
<1>2. \A h, p : InScope(h, p)' <=> InScope(h, p)
  BY DEF InScope
<1>3. \A s : {h \in Lines : InScope(h, s.from)}' = {h \in Lines : InScope(h, s.from)}
  BY <1>1, <1>2
<1>4. \A s : SectionOK(s)' <=> SectionOK(s)
  BY <1>1, <1>3 DEF SectionOK, Within
<1> QED BY <1>1, <1>4 DEF Due

LEMMA SameChunks ==
  ASSUME text' = text
  PROVE  \A c : ChunkOK(c)' <=> ChunkOK(c)
BY SameUnits, SameSections DEF ChunkOK

-----------------------------------------------------------------------------
(* Adding to the sections and the chunks, and leaving the section at their head. *)

LEMMA SectionAdded ==
  ASSUME sections \in Seq(Section), NEW s \in Section, sections' = Append(sections, s)
  PROVE  /\ sections' \in Seq(Section) /\ sections' # <<>>
         /\ DOMAIN sections' = 1..(Len(sections) + 1) /\ Len(sections) \in Nat
         /\ DOMAIN sections = 1..Len(sections)
         /\ \A k \in DOMAIN sections : sections'[k] = sections[k]
         /\ sections'[Len(sections) + 1] = s
         /\ \A p : Waiting(p)' <=> Waiting(p) \/ p \in Within(s)
<1>1. /\ sections' \in Seq(Section) /\ sections' # <<>>
      /\ DOMAIN sections' = 1..(Len(sections) + 1) /\ Len(sections) \in Nat
      /\ DOMAIN sections = 1..Len(sections)
      /\ \A k \in DOMAIN sections : sections'[k] = sections[k]
      /\ sections'[Len(sections) + 1] = s
  BY AppendProperties, LenProperties
<1>2. \A p : Waiting(p)' <=> Waiting(p) \/ p \in Within(s)
  BY <1>1 DEF Waiting, Within
<1> QED BY <1>1, <1>2

LEMMA SectionLeft ==
  ASSUME sections \in Seq(Section), sections # <<>>
  PROVE  /\ 1 \in DOMAIN sections /\ Sec = sections[1] /\ Sec \in Section
         /\ Tail(sections) \in Seq(Section)
         /\ \A k \in DOMAIN Tail(sections) :
              k + 1 \in DOMAIN sections /\ Tail(sections)[k] = sections[k + 1]
         /\ \A k \in DOMAIN sections \ {1} :
              k - 1 \in DOMAIN Tail(sections) /\ Tail(sections)[k - 1] = sections[k]
<1>1. Len(sections) \in Nat \ {0} /\ DOMAIN sections = 1..Len(sections)
  BY EmptySeq, LenProperties
<1>2. Sec = sections[1] /\ Sec \in Section
  BY <1>1, ElementOfSeq DEF Sec
<1>3. /\ Tail(sections) \in Seq(Section) /\ Len(Tail(sections)) = Len(sections) - 1
      /\ \A k \in 1..Len(Tail(sections)) : Tail(sections)[k] = sections[k + 1]
  BY HeadTailProperties
<1>4. DOMAIN Tail(sections) = 1..(Len(sections) - 1)
  BY <1>3, LenProperties
<1> QED BY <1>1, <1>2, <1>3, <1>4

LEMMA ChunkAdded ==
  ASSUME chunks \in Seq(Chunk), NEW c \in Chunk, chunks' = Append(chunks, c)
  PROVE  /\ chunks' \in Seq(Chunk) /\ chunks' # <<>> /\ Latest' = c
         /\ Len(chunks) \in Nat /\ DOMAIN chunks = 1..Len(chunks)
         /\ DOMAIN chunks' = 1..(Len(chunks) + 1)
         /\ \A k \in DOMAIN chunks : chunks'[k] = chunks[k]
         /\ chunks'[Len(chunks) + 1] = c
         /\ \A p : Covered(p)' <=> Covered(p) \/ p \in c.from..c.to
<1>1. /\ chunks' \in Seq(Chunk) /\ chunks' # <<>> /\ Len(chunks') = Len(chunks) + 1
      /\ DOMAIN chunks' = 1..(Len(chunks) + 1) /\ Len(chunks) \in Nat
      /\ DOMAIN chunks = 1..Len(chunks)
      /\ \A k \in DOMAIN chunks : chunks'[k] = chunks[k]
      /\ chunks'[Len(chunks) + 1] = c
  BY AppendProperties, LenProperties
<1>2. \A p : Covered(p)' <=> Covered(p) \/ p \in c.from..c.to
  BY <1>1 DEF Covered
<1> QED BY <1>1, <1>2 DEF Latest

-----------------------------------------------------------------------------
(* Splitting. *)

ChunkingInv ==
  /\ ChunkingTypeOK
  /\ SectionsInv /\ SplitInv /\ PackInv /\ ChunksInv /\ KeptInv /\ SeamInv

\* Nothing is said of chunks before the first is cut.
LEMMA NoChunks ==
  ASSUME cpc' = "split", chunks' = <<>>
  PROVE  PackInv' /\ ChunksInv' /\ KeptInv' /\ SeamInv'
<1>1. chunks' \in Seq(Chunk) /\ DOMAIN chunks' = {}
  BY EmptySeq, LenProperties
<1> QED BY <1>1 DEF PackInv, ChunksInv, KeptInv, SeamInv

\* flush() at a heading or at the end of the text.
LEMMA FlushKeeps ==
  ASSUME ChunkingTypeOK, SectionsInv, SplitInv, cpc = "split", text' = text,
         next \in Lines => IsHeading(next), sections' = Flushed
  PROVE  /\ sections' \in Seq(Section) /\ SectionsInv'
         /\ \A p \in 1..(next - 1) : IsHeading(p) \/ Waiting(p)'
         /\ \A k \in DOMAIN sections' :
              sections'[k].to < next /\ ~IsHeading(sections'[k].from)
<1> USE TextFacts
<1>1. /\ TextOK /\ first \in Nat /\ next \in Nat /\ sections \in Seq(Section)
      /\ first \in 1..next /\ next \in 1..(Len(text) + 1)
      /\ \A p \in first..(next - 1) : ~IsHeading(p)
      /\ \A p \in 1..(first - 1) : IsHeading(p) \/ Waiting(p)
      /\ \A k \in DOMAIN sections : sections[k].to < first /\ ~IsHeading(sections[k].from)
  BY DEF ChunkingTypeOK, SplitInv, TextOK
<1>2. CASE first = next
  <2>1. sections' = sections
    BY <1>2 DEF Flushed
  <2>2. \A p : Waiting(p)' <=> Waiting(p)
    BY <2>1 DEF Waiting, Within
  <2>3. SectionsInv'
    BY <2>1, SameSections DEF SectionsInv
  <2> QED BY <1>1, <1>2, <2>1, <2>2, <2>3
<1>3. CASE first # next
  <2> DEFINE s == [trail |-> stack, from |-> first, to |-> next - 1]
  <2>1. s \in Section /\ sections' = Append(sections, s)
    BY <1>1, <1>3 DEF Flushed, ChunkingTypeOK, Section
  <2>2. /\ sections' \in Seq(Section)
        /\ DOMAIN sections' = 1..(Len(sections) + 1) /\ Len(sections) \in Nat
        /\ DOMAIN sections = 1..Len(sections)
        /\ \A k \in DOMAIN sections : sections'[k] = sections[k]
        /\ sections'[Len(sections) + 1] = s
        /\ \A p : Waiting(p)' <=> Waiting(p) \/ p \in Within(s)
    BY <1>1, <2>1, SectionAdded
  <2>3. s.trail = stack /\ s.from = first /\ s.to = next - 1
    OBVIOUS
  <2> HIDE DEF s
  <2>4. first < next /\ first \in Lines /\ next - 1 \in Lines
    BY <1>1, <1>3
  <2>5. \A h : h \in 1..(next - 1) /\ Open(h) <=> h \in Lines /\ InScope(h, first)
    <3>1. ASSUME NEW h \in 1..(next - 1), Open(h) PROVE h \in Lines /\ InScope(h, first)
      BY <1>1, <2>4, <3>1 DEF Open, InScope, IsHeading
    <3>2. ASSUME NEW h \in Lines, InScope(h, first) PROVE h \in 1..(next - 1) /\ Open(h)
      BY <1>1, <2>4, <3>2 DEF Open, InScope, IsHeading
    <3> QED BY <3>1, <3>2
  <2>6. Elements(stack) = {h \in Lines : InScope(h, first)}
    BY <1>1, <2>5 DEF SplitInv
  <2>7. SectionOK(s)
    BY <1>1, <2>3, <2>4, <2>6 DEF SectionOK, Within, SplitInv
  <2>8. SectionsInv'
    <3>1. \A k \in DOMAIN sections' : SectionOK(sections'[k])
      BY <2>2, <2>7 DEF SectionsInv
    <3>2. ASSUME NEW i \in DOMAIN sections', NEW j \in DOMAIN sections', i < j
          PROVE  sections'[i].to < sections'[j].from
      <4>1. i \in DOMAIN sections
        BY <2>2, <3>2
      <4>2. CASE j \in DOMAIN sections
        BY <2>2, <3>2, <4>1, <4>2 DEF SectionsInv
      <4>3. CASE j \notin DOMAIN sections
        BY <1>1, <2>2, <2>3, <4>1, <4>3
      <4> QED BY <4>2, <4>3
    <3>3. \A x : SectionOK(x)' <=> SectionOK(x)
      BY SameSections
    <3> QED BY <3>1, <3>2, <3>3 DEF SectionsInv
  <2>9. \A p \in first..(next - 1) : p \in Within(s)
    BY <2>3 DEF Within
  <2>10. \A p \in 1..(next - 1) : IsHeading(p) \/ Waiting(p)'
    BY <1>1, <2>2, <2>4, <2>9
  <2>11. ASSUME NEW k \in DOMAIN sections'
         PROVE  sections'[k].to < next /\ ~IsHeading(sections'[k].from)
    <3>1. CASE k \in DOMAIN sections
      <4>1. sections[k] \in Section
        BY <1>1, <2>2, <3>1, ElementOfSeq
      <4>2. sections[k].to \in Nat
        BY <4>1 DEF Section
      <4> QED BY <1>1, <2>2, <2>4, <3>1, <4>2
    <3>2. CASE k \notin DOMAIN sections
      BY <1>1, <2>2, <2>3, <2>4, <3>2
    <3> QED BY <3>1, <3>2
  <2> QED BY <2>2, <2>8, <2>10, <2>11
<1> QED BY <1>2, <1>3

\* What is popped is exactly what the new heading is not below.
LEMMA StackKeeps ==
  ASSUME ChunkingTypeOK, SplitInv, ReadHeading
  PROVE  /\ stack' \in Seq(Nat) /\ Elements(stack') = {h \in 1..next : Open(h)'}
         /\ \A i, j \in DOMAIN stack' : i < j => stack'[i] < stack'[j]
<1> USE TextFacts
<1> PICK n \in 0..Len(stack) : /\ Popped(n) /\ (n > 0 => Above(stack[n]))
                               /\ stack' = Append(SubSeq(stack, 1, n), next)
  BY DEF ReadHeading
<1> DEFINE left == SubSeq(stack, 1, n)
<1>1. /\ TextOK /\ next \in Nat \ {0} /\ stack \in Seq(Nat) /\ cpc = "split" /\ next \in Lines
      /\ IsHeading(next) /\ text' = text /\ next' = next + 1
      /\ Elements(stack) = {h \in 1..(next - 1) : Open(h)}
      /\ \A i, j \in DOMAIN stack : i < j => stack[i] < stack[j]
  BY DEF ReadHeading, ChunkingTypeOK, SplitInv, TextOK, Lines, IsHeading
<1>2. Len(stack) \in Nat /\ DOMAIN stack = 1..Len(stack) /\ \A i \in DOMAIN stack : stack[i] \in Nat
  BY <1>1, LenProperties, ElementOfSeq
<1>3. left \in Seq(Nat) /\ Len(left) = n /\ \A i \in 1..n : left[i] = stack[i]
  <2>1. n \in Int /\ n >= 0 /\ \A i \in 1..n : stack[i] \in Nat
    BY <1>2
  <2>2. /\ left \in Seq(Nat) /\ Len(left) = (IF 1 <= n THEN n - 1 + 1 ELSE 0)
        /\ \A i \in 1..(n - 1 + 1) : left[i] = stack[1 + i - 1]
    BY <2>1, SubSeqProperties
  <2> HIDE DEF left
  <2>3. n - 1 + 1 = n /\ \A i \in 1..n : 1 + i - 1 = i
    BY <2>1
  <2> QED BY <2>1, <2>2, <2>3
<1> HIDE DEF left
<1>4. /\ stack' \in Seq(Nat) /\ Len(stack') = n + 1
      /\ \A i \in 1..n : stack'[i] = stack[i]
      /\ stack'[n + 1] = next
  BY <1>1, <1>3, AppendProperties DEF left
<1>5. DOMAIN stack' = 1..(n + 1)
  BY <1>4, LenProperties
<1>6. ASSUME NEW i \in DOMAIN stack
      PROVE  stack[i] \in 1..(next - 1) /\ Open(stack[i]) /\ IsHeading(stack[i])
  BY <1>1 DEF Elements, Open
<1>7. ASSUME NEW i \in DOMAIN stack PROVE i <= n <=> Above(stack[i])
  <2>1. CASE i > n
    BY <1>2, <2>1 DEF Popped
  <2>2. CASE i = n
    BY <1>2, <2>2
  <2>3. CASE i < n
    <3>6. n \in DOMAIN stack
      BY <1>2, <2>3
    <3>1. stack[i] < stack[n] /\ n \in DOMAIN stack
      BY <1>1, <2>3, <3>6
    <3>2. stack[n] \in (stack[i] + 1)..(next - 1) /\ IsHeading(stack[n])
      BY <1>2, <1>6, <3>1
    <3>3. text[stack[n]].level > text[stack[i]].level
      BY <1>6, <3>2 DEF Open
    <3>4. /\ text[stack[i]].level \in Int /\ text[stack[n]].level \in Int
          /\ text[next].level \in Int
      <4>1. stack[i] \in Lines /\ stack[n] \in Lines
        BY <1>1, <1>6, <3>1
      <4>2. \A p \in Lines : text[p].level \in 0..6
        BY <1>1
      <4>3. \A l \in 0..6 : l \in Int
        OBVIOUS
      <4> QED BY <1>1, <4>1, <4>2, <4>3
    <3>5. n > 0 /\ Above(stack[n])
      BY <1>2, <2>3
    <3> QED BY <2>3, <3>3, <3>4, <3>5 DEF Above
  <2> QED BY <1>2, <2>1, <2>2, <2>3
<1>8. \A h \in 1..next : Open(h)' <=> h = next \/ (h \in 1..(next - 1) /\ Open(h) /\ Above(h))
  <2>1. \A h : Open(h)' <=> /\ IsHeading(h)
                            /\ \A q \in (h + 1)..next : IsHeading(q) => text[q].level > text[h].level
    BY <1>1 DEF Open, IsHeading
  <2>2. ASSUME NEW h \in 1..(next - 1), Open(h), Above(h) PROVE Open(h)'
    BY <1>1, <2>1, <2>2 DEF Open, Above
  <2>3. ASSUME NEW h \in 1..(next - 1), Open(h)' PROVE Open(h) /\ Above(h)
    BY <1>1, <2>1, <2>3 DEF Open, Above
  <2>4. ASSUME NEW h, h = next PROVE Open(h)'
    BY <1>1, <2>1, <2>4
  <2> QED BY <1>1, <2>2, <2>3, <2>4
<1>9. ASSUME NEW h \in Elements(stack') PROVE h \in 1..next /\ Open(h)'
  <2>1. PICK i \in 1..(n + 1) : h = stack'[i]
    BY <1>5, <1>9 DEF Elements
  <2>2. CASE i = n + 1
    BY <1>1, <1>4, <1>8, <2>1, <2>2
  <2>3. CASE i \in 1..n
    <3>1. i \in DOMAIN stack /\ h = stack[i]
      BY <1>2, <1>4, <2>1, <2>3
    <3> QED BY <1>1, <1>6, <1>7, <1>8, <2>3, <3>1
  <2> QED BY <2>2, <2>3
<1>10. ASSUME NEW h \in 1..next, Open(h)' PROVE h \in Elements(stack')
  <2>1. CASE h = next
    BY <1>4, <1>5, <2>1 DEF Elements
  <2>2. CASE h # next
    <3>1. h \in Elements(stack) /\ Above(h)
      BY <1>1, <1>8, <1>10, <2>2
    <3>2. PICK i \in DOMAIN stack : h = stack[i]
      BY <3>1 DEF Elements
    <3>3. i \in 1..n
      BY <1>2, <1>7, <3>1, <3>2
    <3> QED BY <1>4, <1>5, <3>2, <3>3 DEF Elements
  <2> QED BY <2>1, <2>2
<1>11. ASSUME NEW i \in DOMAIN stack', NEW j \in DOMAIN stack', i < j
       PROVE  stack'[i] < stack'[j]
  <2>1. i \in 1..n /\ i \in DOMAIN stack
    BY <1>2, <1>5, <1>11
  <2>2. CASE j = n + 1
    BY <1>1, <1>4, <1>6, <2>1, <2>2
  <2>3. CASE j \in 1..n
    BY <1>1, <1>2, <1>4, <1>11, <2>1, <2>3
  <2> QED BY <1>5, <2>2, <2>3
<1> QED BY <1>4, <1>9, <1>10, <1>11

LEMMA HeadingStep ==
  ASSUME ChunkingInv, ReadHeading
  PROVE  ChunkingInv'
<1> USE TextFacts
<1>1. /\ cpc = "split" /\ cpc' = "split" /\ next \in Lines /\ IsHeading(next)
      /\ sections' = Flushed /\ next' = next + 1 /\ first' = next + 1
      /\ UNCHANGED <<text, curTok, back, backTok, chunks>>
  BY DEF ReadHeading, IsHeading, Lines
<1>2. /\ ChunkingTypeOK /\ SectionsInv /\ SplitInv /\ TextOK /\ next \in Nat /\ chunks = <<>>
  BY <1>1 DEF ChunkingInv, ChunkingTypeOK, TextOK, SplitInv
<1>3. /\ stack' \in Seq(Nat) /\ Elements(stack') = {h \in 1..next : Open(h)'}
      /\ \A i, j \in DOMAIN stack' : i < j => stack'[i] < stack'[j]
  BY <1>2, StackKeeps
<1>4. /\ sections' \in Seq(Section) /\ SectionsInv'
      /\ \A p \in 1..(next - 1) : IsHeading(p) \/ Waiting(p)'
      /\ \A k \in DOMAIN sections' : sections'[k].to < next /\ ~IsHeading(sections'[k].from)
  BY <1>1, <1>2, FlushKeeps
<1>5. ChunkingTypeOK'
  BY <1>1, <1>2, <1>3, <1>4 DEF ChunkingTypeOK
<1>6. SplitInv'
  <2>1. /\ first' \in 1..next' /\ next' \in 1..(Len(text') + 1) /\ chunks' = <<>>
        /\ first' - 1 = next /\ next' - 1 = next
    BY <1>1, <1>2
  <2>2. \A p : IsHeading(p)' <=> IsHeading(p)
    BY <1>1, SameSections
  <2>3. \A p \in 1..next : IsHeading(p)' \/ Waiting(p)'
    BY <1>1, <1>2, <1>4, <2>2
  <2>4. \A k \in DOMAIN sections' : sections'[k].to < first' /\ ~IsHeading(sections'[k].from)
    <3>1. \A k \in DOMAIN sections' : sections'[k] \in Section
      BY <1>4, ElementOfSeq, LenProperties
    <3>2. \A k \in DOMAIN sections' : sections'[k].to \in Nat
      BY <3>1 DEF Section
    <3> QED BY <1>1, <1>2, <1>4, <3>2
  <2>5. \A p \in first'..(next' - 1) : FALSE
    BY <1>1, <1>2
  <2> QED BY <1>1, <1>3, <2>1, <2>2, <2>3, <2>4, <2>5 DEF SplitInv
<1>7. cpc' = "split" /\ chunks' = <<>>
  BY <1>1, <1>2
<1>8. PackInv' /\ ChunksInv' /\ KeptInv' /\ SeamInv'
  BY <1>7, NoChunks
<1> QED BY <1>4, <1>5, <1>6, <1>8 DEF ChunkingInv

LEMMA LineStep ==
  ASSUME ChunkingInv, ReadLine
  PROVE  ChunkingInv'
<1> USE TextFacts
<1>1. /\ cpc = "split" /\ cpc' = "split" /\ next \in Lines /\ ~IsHeading(next)
      /\ next' = next + 1
      /\ UNCHANGED <<text, stack, sections, first, curTok, back, backTok, chunks>>
  BY DEF ReadLine, IsHeading, Lines, splitVars, ChunkingInv, ChunkingTypeOK, TextOK
<1>2. /\ ChunkingTypeOK /\ SectionsInv /\ SplitInv /\ TextOK /\ next \in Nat /\ first \in Nat
      /\ chunks = <<>>
  BY <1>1 DEF ChunkingInv, ChunkingTypeOK, TextOK, SplitInv
<1>3. ChunkingTypeOK' /\ SectionsInv'
  BY <1>1, <1>2, SameSections DEF ChunkingTypeOK, SectionsInv
<1>4. \A p : IsHeading(p)' <=> IsHeading(p)
  BY <1>1, SameSections
<1>5. \A p : Waiting(p)' <=> Waiting(p)
  BY <1>1 DEF Waiting, Within
<1>6. \A h : h \in 1..next /\ Open(h)' <=> h \in 1..(next - 1) /\ Open(h)
  <2>1. \A h : Open(h)' <=> /\ IsHeading(h)
                            /\ \A q \in (h + 1)..next : IsHeading(q) => text[q].level > text[h].level
    BY <1>1, <1>2 DEF Open, IsHeading
  <2>2. ASSUME NEW h \in 1..(next - 1), Open(h) PROVE Open(h)'
    BY <1>1, <1>2, <2>1, <2>2 DEF Open
  <2>3. ASSUME NEW h \in 1..next, Open(h)' PROVE h \in 1..(next - 1) /\ Open(h)
    BY <1>1, <1>2, <2>1, <2>3 DEF Open
  <2> QED BY <1>2, <2>2, <2>3
<1>7. SplitInv'
  <2>1. /\ first' \in 1..next' /\ next' \in 1..(Len(text') + 1) /\ chunks' = <<>>
        /\ next' - 1 = next
    BY <1>1, <1>2 DEF SplitInv
  <2>2. \A p \in first..next : ~IsHeading(p)
    BY <1>1, <1>2 DEF SplitInv
  <2>3. Elements(stack') = {h \in 1..next : Open(h)'}
    BY <1>1, <1>2, <1>6 DEF SplitInv
  <2>4. Lines' = Lines
    BY <1>1, SameSections
  <2> QED BY <1>1, <1>2, <1>4, <1>5, <2>1, <2>2, <2>3, <2>4 DEF SplitInv
<1>8. PackInv' /\ ChunksInv' /\ KeptInv' /\ SeamInv'
  BY <1>1, <1>2, NoChunks
<1> QED BY <1>3, <1>7, <1>8 DEF ChunkingInv

LEMMA EndStep ==
  ASSUME ChunkingInv, EndText
  PROVE  ChunkingInv'
<1> USE TextFacts
<1>1. /\ cpc = "split" /\ cpc' = "section" /\ next \notin Lines
      /\ UNCHANGED <<text, stack, first, next, curTok, back, backTok, chunks>>
  BY DEF EndText, packVars, Lines
<1>2. /\ ChunkingTypeOK /\ SectionsInv /\ SplitInv /\ TextOK /\ next \in Nat /\ first \in Nat
      /\ chunks = <<>> /\ next = Len(text) + 1
  BY <1>1 DEF ChunkingInv, ChunkingTypeOK, TextOK, SplitInv
<1>3. sections' \in Seq(Section) /\ SectionsInv' /\ \A p \in Lines : Due(p) => Waiting(p)'
  <2>1. CASE Flushed = <<>> /\ text # <<>>
    <3> DEFINE s == [trail |-> <<>>, from |-> 1, to |-> Len(text)]
    <3>1. sections' = <<s>>
      BY <2>1 DEF EndText
    <3>2. text \in Seq(Line)
      BY <1>2, EmptySeq, TextsAssumption DEF TextOK
    <3>3. Len(text) > 0
      BY <1>2, <2>1, <3>2, EmptySeq
    <3>4. first = next /\ sections = <<>>
      <4>1. Append(sections, [trail |-> stack, from |-> first, to |-> next - 1]) # <<>> \/ first = next
        <5>1. ASSUME first # next
              PROVE  [trail |-> stack, from |-> first, to |-> next - 1] \in Section
          BY <1>2, <5>1 DEF Section, ChunkingTypeOK, SplitInv
        <5> QED BY <1>2, <5>1, AppendProperties DEF ChunkingTypeOK
      <4> QED BY <2>1, <4>1 DEF Flushed
    <3>5. OnlyHeadings
      BY <1>1, <1>2, <3>4 DEF SplitInv, Waiting, OnlyHeadings, IsHeading, Lines
    <3>6. s \in Section /\ s.trail = <<>> /\ s.from = 1 /\ s.to = Len(text)
      BY <1>2, EmptySeq DEF Section
    <3> HIDE DEF s
    <3>7. sections' \in Seq(Section) /\ DOMAIN sections' = {1} /\ sections'[1] = s
      BY <3>1, <3>6
    <3>8. s.trail \in Seq(Nat) /\ DOMAIN s.trail = {}
      BY <3>6, EmptySeq, LenProperties
    <3>9. SectionOK(s)
      BY <1>2, <3>3, <3>5, <3>6, <3>8 DEF SectionOK
    <3>10. SectionsInv'
      BY <1>1, <3>7, <3>9, SameSections DEF SectionsInv
    <3>11. \A p \in Lines : Waiting(p)'
      BY <1>2, <3>6, <3>7 DEF Waiting, Within
    <3> QED BY <3>7, <3>10, <3>11
  <2>2. CASE ~(Flushed = <<>> /\ text # <<>>)
    <3>1. sections' = Flushed
      BY <2>2 DEF EndText
    <3>2. /\ sections' \in Seq(Section) /\ SectionsInv'
          /\ \A p \in 1..(next - 1) : IsHeading(p) \/ Waiting(p)'
          /\ \A k \in DOMAIN sections' : ~IsHeading(sections'[k].from)
      BY <1>1, <1>2, <3>1, FlushKeeps
    <3>3. ASSUME OnlyHeadings PROVE Lines = {}
      <4>1. CASE sections' = <<>>
        <5>1. text = <<>>
          BY <2>2, <3>1, <4>1
        <5> QED BY <1>2, <5>1, EmptySeq
      <4>2. CASE sections' # <<>>
        <5>1. 1 \in DOMAIN sections'
          BY <3>2, <4>2, EmptySeq, LenProperties
        <5>2. SectionOK(sections'[1])
          BY <1>1, <3>2, <5>1, SameSections DEF SectionsInv
        <5> QED BY <3>2, <3>3, <5>1, <5>2 DEF SectionOK, OnlyHeadings, IsHeading, Lines
      <4> QED BY <4>1, <4>2
    <3> QED BY <1>2, <3>2, <3>3 DEF Due
  <2> QED BY <2>1, <2>2
<1>4. ChunkingTypeOK'
  BY <1>1, <1>2, <1>3 DEF ChunkingTypeOK
<1>5. SplitInv' /\ PackInv'
  BY <1>1 DEF SplitInv, PackInv
<1>6. chunks' \in Seq(Chunk) /\ DOMAIN chunks' = {}
  BY <1>1, <1>2, EmptySeq, LenProperties
<1>7. ChunksInv' /\ SeamInv'
  BY <1>1, <1>2, <1>6 DEF ChunksInv, SeamInv
<1>8. KeptInv'
  BY <1>1, <1>3, SameSections DEF KeptInv
<1> QED BY <1>3, <1>4, <1>5, <1>7, <1>8 DEF ChunkingInv

-----------------------------------------------------------------------------
(* Packing. *)

LEMMA SecFacts ==
  ASSUME ChunkingTypeOK, SectionsInv, sections # <<>>
  PROVE  /\ TextOK /\ Sec \in Section /\ SectionOK(Sec)
         /\ Sec.from \in Lines /\ Sec.to \in Lines /\ Sec.from <= Sec.to
<1>1. TextOK /\ Sec = sections[1] /\ 1 \in DOMAIN sections /\ Sec \in Section
  BY SectionLeft DEF ChunkingTypeOK, TextOK
<1>2. SectionOK(Sec)
  BY <1>1 DEF SectionsInv
<1> QED BY <1>1, <1>2 DEF SectionOK

LEMMA ChunkCut ==
  ASSUME ChunkingTypeOK, ChunksInv, SeamInv, text' = text, NEW c \in Chunk, ChunkOK(c),
         chunks' = Append(chunks, c), chunks # <<>> => Follows(Latest, c)
  PROVE  /\ chunks' \in Seq(Chunk) /\ chunks' # <<>> /\ Latest' = c /\ ChunksInv'
         /\ \A p : Covered(p)' <=> Covered(p) \/ p \in c.from..c.to
         /\ \A k \in DOMAIN chunks' \ {1} : Follows(chunks'[k - 1], chunks'[k])
<1>1. /\ chunks' \in Seq(Chunk) /\ chunks' # <<>> /\ Latest' = c
      /\ Len(chunks) \in Nat /\ DOMAIN chunks = 1..Len(chunks)
      /\ DOMAIN chunks' = 1..(Len(chunks) + 1)
      /\ \A k \in DOMAIN chunks : chunks'[k] = chunks[k]
      /\ chunks'[Len(chunks) + 1] = c
      /\ \A p : Covered(p)' <=> Covered(p) \/ p \in c.from..c.to
  BY ChunkAdded DEF ChunkingTypeOK
<1>2. \A k \in DOMAIN chunks' : ChunkOK(chunks'[k])
  BY <1>1 DEF ChunksInv
<1>3. ChunksInv'
  BY <1>1, <1>2, SameChunks DEF ChunksInv
<1>4. ASSUME NEW k \in DOMAIN chunks' \ {1} PROVE Follows(chunks'[k - 1], chunks'[k])
  <2>1. CASE k = Len(chunks) + 1
    <3>1. k - 1 = Len(chunks) /\ k - 1 \in DOMAIN chunks
      BY <1>1, <1>4, <2>1
    <3>2. chunks # <<>> /\ chunks'[k - 1] = Latest
      BY <1>1, <3>1 DEF Latest
    <3> QED BY <1>1, <2>1, <3>1, <3>2
  <2>2. CASE k \in DOMAIN chunks \ {1}
    <3>1. k - 1 \in DOMAIN chunks
      BY <1>1, <2>2
    <3> QED BY <1>1, <2>2, <3>1 DEF SeamInv
  <2> QED BY <1>1, <1>4, <2>1, <2>2
<1> QED BY <1>1, <1>3, <1>4

LEMMA SectionDone ==
  ASSUME ChunkingTypeOK, SectionsInv, sections # <<>>, sections' = Tail(sections), text' = text
  PROVE  /\ sections' \in Seq(Section) /\ SectionsInv'
         /\ \A p : Waiting(p) => p \in Within(Sec) \/ Waiting(p)'
         /\ \A k \in DOMAIN sections' : sections'[k] # Sec
<1>1. /\ 1 \in DOMAIN sections /\ Sec = sections[1] /\ sections' \in Seq(Section)
      /\ \A k \in DOMAIN sections' :
           k + 1 \in DOMAIN sections /\ sections'[k] = sections[k + 1]
      /\ \A k \in DOMAIN sections \ {1} :
           k - 1 \in DOMAIN sections' /\ sections'[k - 1] = sections[k]
  BY SectionLeft DEF ChunkingTypeOK
<1>2. DOMAIN sections' \subseteq Nat \ {0}
  BY <1>1, LenProperties
<1>3. /\ \A k \in DOMAIN sections' : SectionOK(sections'[k])
      /\ \A i, j \in DOMAIN sections' : i < j => sections'[i].to < sections'[j].from
  BY <1>1, <1>2 DEF SectionsInv
<1>4. SectionsInv'
  BY <1>3, SameSections DEF SectionsInv
<1>5. \A p : Waiting(p) => p \in Within(Sec) \/ Waiting(p)'
  BY <1>1 DEF Waiting, Within
<1>6. ASSUME NEW k \in DOMAIN sections', sections'[k] = Sec PROVE FALSE
  <2>1. Sec.to < sections[k + 1].from /\ sections[k + 1] = Sec
    BY <1>1, <1>2, <1>6 DEF SectionsInv
  <2>2. Sec.from <= Sec.to /\ Sec.from \in Nat /\ Sec.to \in Nat
    BY SecFacts, TextFacts
  <2> QED BY <2>1, <2>2
<1> QED BY <1>1, <1>4, <1>5, <1>6

LEMMA WholeStep ==
  ASSUME ChunkingInv, PackWhole
  PROVE  ChunkingInv'
<1> USE TextFacts
<1> DEFINE c == Cut(Sec.from, Sec.to, Tokens(Sec))
<1>1. /\ cpc = "section" /\ cpc' = "section" /\ sections # <<>> /\ Tokens(Sec) <= Target
      /\ chunks' = Append(chunks, c) /\ sections' = Tail(sections)
      /\ UNCHANGED <<text, stack, first, next, curTok, back, backTok>>
  BY DEF PackWhole, packVars
<1>2. ChunkingTypeOK /\ SectionsInv /\ ChunksInv /\ KeptInv /\ SeamInv
  BY DEF ChunkingInv
<1>3. /\ TextOK /\ Sec \in Section /\ SectionOK(Sec)
      /\ Sec.from \in Lines /\ Sec.to \in Lines /\ Sec.from <= Sec.to
  BY <1>1, <1>2, SecFacts
<1>4. c.sec = Sec /\ c.from = Sec.from /\ c.to = Sec.to /\ c.tok = Tokens(Sec)
  BY DEF Cut
<1>5. Tokens(Sec) \in Nat /\ Tokens(Sec) > 0
  BY <1>3, UnitTokens
<1>6. c \in Chunk
  BY <1>3, <1>5 DEF Cut, Chunk, Section
<1> HIDE DEF c
<1>7. ChunkOK(c)
  BY <1>1, <1>3, <1>4, <1>5, SeamEnds DEF ChunkOK, Bounded
<1>8. chunks # <<>> => Follows(Latest, c)
  BY <1>1, <1>2, <1>4, SectionLeft DEF Follows, SeamInv, ChunkingTypeOK
<1>9. /\ chunks' \in Seq(Chunk) /\ chunks' # <<>> /\ Latest' = c /\ ChunksInv'
      /\ \A p : Covered(p)' <=> Covered(p) \/ p \in c.from..c.to
      /\ \A k \in DOMAIN chunks' \ {1} : Follows(chunks'[k - 1], chunks'[k])
  BY <1>1, <1>2, <1>6, <1>7, <1>8, ChunkCut
<1>10. /\ sections' \in Seq(Section) /\ SectionsInv'
       /\ \A p : Waiting(p) => p \in Within(Sec) \/ Waiting(p)'
       /\ \A k \in DOMAIN sections' : sections'[k] # Sec
  BY <1>1, <1>2, SectionDone
<1>11. ChunkingTypeOK' /\ SplitInv' /\ PackInv'
  BY <1>1, <1>2, <1>9, <1>10 DEF ChunkingTypeOK, SplitInv, PackInv
<1>12. KeptInv'
  <2>1. \A p \in Lines : Due(p) => Covered(p)' \/ Waiting(p)'
    BY <1>1, <1>2, <1>4, <1>9, <1>10 DEF KeptInv, Within
  <2> QED BY <1>1, <2>1, SameSections DEF KeptInv
<1>13. SeamInv'
  BY <1>1, <1>4, <1>9, <1>10 DEF SeamInv, Follows
<1> QED BY <1>9, <1>10, <1>11, <1>12, <1>13 DEF ChunkingInv

LEMMA StartStep ==
  ASSUME ChunkingInv, StartPacking
  PROVE  ChunkingInv'
<1> USE TextFacts
<1>1. /\ cpc = "section" /\ cpc' = "pack" /\ sections # <<>>
      /\ first' = Sec.from /\ next' = Sec.from /\ curTok' = 0
      /\ UNCHANGED <<text, stack, sections, back, backTok, chunks>>
  BY DEF StartPacking, splitVars
<1>2. ChunkingTypeOK /\ SectionsInv /\ ChunksInv /\ KeptInv /\ SeamInv
  BY DEF ChunkingInv
<1>3. /\ TextOK /\ Sec \in Section /\ SectionOK(Sec) /\ Sec' = Sec
      /\ Sec.from \in Lines /\ Sec.to \in Lines /\ Sec.from <= Sec.to
  BY <1>1, <1>2, SecFacts DEF Sec
<1>4. ChunkingTypeOK' /\ SectionsInv' /\ SplitInv' /\ ChunksInv'
  BY <1>1, <1>2, <1>3, SameSections, SameChunks
  DEF ChunkingTypeOK, SectionsInv, SplitInv, ChunksInv
<1>5. PackInv'
  <2>1. Seam(Sec, Sec.from)
    BY <1>3, SeamEnds
  <2>2. Bounded(Sec, Sec.from, Sec.from - 1, 0)
    BY SizesAssumption DEF Bounded
  <2> QED BY <1>1, <1>3, <2>1, <2>2, SameUnits DEF PackInv
<1>6. (\A p : Covered(p)' <=> Covered(p)) /\ (\A p : Waiting(p)' <=> Waiting(p))
  BY <1>1 DEF Covered, Waiting, Within
<1>7. KeptInv'
  BY <1>1, <1>2, <1>3, <1>6, SameSections DEF KeptInv
<1>8. SeamInv'
  <2>1. chunks # <<>> => Latest.sec # Sec
    BY <1>1, <1>2, SectionLeft DEF SeamInv, ChunkingTypeOK
  <2>2. Latest' = Latest
    BY <1>1 DEF Latest
  <2> QED BY <1>1, <1>2, <1>3, <2>1, <2>2 DEF SeamInv, Follows
<1> QED BY <1>4, <1>5, <1>7, <1>8 DEF ChunkingInv

\* The unit that packing has come to.
LEMMA UnitAhead ==
  ASSUME ChunkingInv, cpc \in {"pack", "carry"}, next <= Sec.to
  PROVE  /\ TextOK /\ next \in Within(Sec) /\ NextUnit.to \in next..Sec.to
         /\ Seam(Sec, NextUnit.to + 1) /\ Tokens(NextUnit) \in Nat /\ Tokens(NextUnit) > 0
         /\ Sec \in Section /\ SectionOK(Sec) /\ Sec.from \in Lines /\ Sec.to \in Lines
         /\ first \in Sec.from..next /\ Sec.from \in Nat /\ Sec.to \in Nat
<1>1. /\ ChunkingTypeOK /\ SectionsInv /\ sections # <<>> /\ Seam(Sec, next) /\ Seam(Sec, first)
      /\ first <= next
  BY DEF ChunkingInv, PackInv
<1>2. /\ TextOK /\ Sec \in Section /\ SectionOK(Sec)
      /\ Sec.from \in Lines /\ Sec.to \in Lines /\ Sec.from <= Sec.to
  BY <1>1, SecFacts
<1>3. next \in Within(Sec) /\ first \in Sec.from..next
  BY <1>1, <1>2, TextFacts DEF Seam, Within
<1>4. NextUnit.to \in next..Sec.to /\ Seam(Sec, NextUnit.to + 1)
  BY <1>2, <1>3, UnitFacts, SeamUnit DEF NextUnit
<1>5. Tokens(NextUnit) \in Nat /\ Tokens(NextUnit) > 0
  BY <1>2, <1>3, UnitTokens DEF NextUnit
<1> QED BY <1>2, <1>3, <1>4, <1>5, TextFacts

LEMMA TakeStep ==
  ASSUME ChunkingInv, TakeUnit
  PROVE  ChunkingInv'
<1>1. /\ cpc = "pack" /\ cpc' = "pack" /\ next <= Sec.to
      /\ first = next \/ curTok + Tokens(NextUnit) <= Target
      /\ next' = NextUnit.to + 1 /\ curTok' = curTok + Tokens(NextUnit)
      /\ UNCHANGED <<text, stack, sections, first, back, backTok, chunks>>
  BY DEF TakeUnit, splitVars
<1>2. ChunkingTypeOK /\ SectionsInv /\ PackInv /\ ChunksInv /\ KeptInv /\ SeamInv
  BY DEF ChunkingInv
<1>3. /\ TextOK /\ next \in Within(Sec) /\ NextUnit.to \in next..Sec.to
      /\ Seam(Sec, NextUnit.to + 1) /\ Tokens(NextUnit) \in Nat /\ Tokens(NextUnit) > 0
      /\ first \in Sec.from..next /\ Sec.from \in Nat /\ Sec.to \in Nat /\ Sec' = Sec
  BY <1>1, UnitAhead DEF Sec
<1>4. next \in Nat /\ first \in Nat /\ curTok \in Nat /\ (first = next => curTok = 0)
  BY <1>1, <1>2 DEF ChunkingTypeOK, PackInv
<1>5. ChunkingTypeOK' /\ SectionsInv' /\ SplitInv' /\ ChunksInv'
  <2>1. next' \in Nat /\ curTok' \in Nat
    BY <1>1, <1>3, <1>4
  <2>2. ChunkingTypeOK' /\ SplitInv'
    BY <1>1, <1>2, <2>1 DEF ChunkingTypeOK, SplitInv
  <2>3. SectionsInv' /\ ChunksInv'
    BY <1>1, <1>2, SameSections, SameChunks DEF SectionsInv, ChunksInv
  <2> QED BY <2>2, <2>3
<1>6. PackInv'
  <2>1. first' <= next' /\ first' # next' /\ curTok' \in Nat /\ curTok' > 0 /\ next' - 1 = NextUnit.to
    BY <1>1, <1>3, <1>4
  <2>2. Bounded(Sec, first, NextUnit.to, curTok')
    <3>1. CASE first = next
      <4>1. next \in first..NextUnit.to /\ curTok' = Tokens(Unit(Sec, next))
        BY <1>1, <1>3, <1>4, <3>1 DEF NextUnit
      <4>2. curTok' <= Overlap + Tokens(Unit(Sec, next))
        BY <1>3, <4>1, SizesAssumption DEF NextUnit
      <4> QED BY <4>1, <4>2 DEF Bounded
    <3>2. CASE curTok + Tokens(NextUnit) <= Target
      BY <1>1, <3>2 DEF Bounded
    <3> QED BY <1>1, <3>1, <3>2
  <2>3. Seam(Sec, first) /\ sections # <<>>
    BY <1>1, <1>2 DEF PackInv
  <2> QED BY <1>1, <1>3, <2>1, <2>2, <2>3, SameUnits DEF PackInv
<1>7. (\A p : Covered(p)' <=> Covered(p)) /\ (\A p : Waiting(p)' <=> Waiting(p))
  BY <1>1 DEF Covered, Waiting, Within
<1>8. KeptInv'
  BY <1>1, <1>2, <1>3, <1>7, SameSections DEF KeptInv
<1>9. SeamInv'
  <2>1. ASSUME chunks # <<>>, Latest.sec = Sec
        PROVE  first \in Latest.from..(Latest.to + 1) /\ Latest.to < next' - 1
    <3>1. first \in Latest.from..(Latest.to + 1) /\ Latest.to < next - 1
      BY <1>1, <1>2, <2>1 DEF SeamInv
    <3>2. Latest \in Chunk
      BY <1>2, <2>1, EmptySeq, LenProperties, ElementOfSeq DEF ChunkingTypeOK, Latest
    <3>3. Latest.to \in Nat
      BY <3>2 DEF Chunk
    <3> QED BY <1>1, <1>3, <1>4, <3>1, <3>3
  <2>2. Latest' = Latest
    BY <1>1 DEF Latest
  <2> QED BY <1>1, <1>2, <1>3, <2>1, <2>2 DEF SeamInv, Follows
<1> QED BY <1>5, <1>6, <1>8, <1>9 DEF ChunkingInv

LEMMA CutStep ==
  ASSUME ChunkingInv, CutChunk
  PROVE  ChunkingInv'
<1> DEFINE c == Cut(first, next - 1, curTok)
<1>1. /\ cpc = "pack" /\ cpc' = "carry" /\ next <= Sec.to /\ first # next
      /\ chunks' = Append(chunks, c) /\ back' = next /\ backTok' = 0
      /\ UNCHANGED <<text, stack, sections, first, next, curTok>>
  BY DEF CutChunk, splitVars
<1>2. ChunkingTypeOK /\ SectionsInv /\ PackInv /\ ChunksInv /\ KeptInv /\ SeamInv
  BY DEF ChunkingInv
<1>3. /\ Sec \in Section /\ SectionOK(Sec) /\ Sec' = Sec
      /\ first \in Sec.from..next /\ Sec.from \in Nat /\ Sec.to \in Nat
  BY <1>1, UnitAhead DEF Sec
<1>4. /\ next \in Nat /\ first \in Nat /\ curTok \in Nat /\ first < next /\ curTok > 0
      /\ Seam(Sec, first) /\ Seam(Sec, next) /\ Bounded(Sec, first, next - 1, curTok)
      /\ sections # <<>>
  BY <1>1, <1>2 DEF ChunkingTypeOK, PackInv
<1>5. c.sec = Sec /\ c.from = first /\ c.to = next - 1 /\ c.tok = curTok
  BY DEF Cut
<1>6. c \in Chunk
  BY <1>3, <1>4 DEF Cut, Chunk, Section
<1> HIDE DEF c
<1>7. c.to + 1 = next
  BY <1>4, <1>5
<1>8. ChunkOK(c)
  BY <1>3, <1>4, <1>5, <1>7 DEF ChunkOK
<1>9. chunks # <<>> => Follows(Latest, c)
  BY <1>1, <1>2, <1>5 DEF Follows, SeamInv
<1>10. /\ chunks' \in Seq(Chunk) /\ chunks' # <<>> /\ Latest' = c /\ ChunksInv'
       /\ \A p : Covered(p)' <=> Covered(p) \/ p \in c.from..c.to
       /\ \A k \in DOMAIN chunks' \ {1} : Follows(chunks'[k - 1], chunks'[k])
  BY <1>1, <1>2, <1>6, <1>8, <1>9, ChunkCut
<1>11. ChunkingTypeOK' /\ SplitInv' /\ SectionsInv'
  BY <1>1, <1>2, <1>10, SameSections DEF ChunkingTypeOK, SplitInv, SectionsInv
<1>12. PackInv'
  BY <1>1, <1>3, <1>4, SameUnits, SizesAssumption DEF PackInv
<1>13. KeptInv'
  <2>1. \A p : Waiting(p)' <=> Waiting(p)
    BY <1>1 DEF Waiting, Within
  <2>2. \A p \in Lines : Due(p) => Covered(p)' \/ Waiting(p)'
    BY <1>1, <1>2, <1>10, <2>1 DEF KeptInv
  <2>3. \A p \in Sec.from..(next - 1) : Covered(p)'
    <3>1. \A p \in Sec.from..(next - 1) : p \in Sec.from..(first - 1) \/ p \in first..(next - 1)
      BY <1>3, <1>4
    <3> QED BY <1>1, <1>2, <1>5, <1>10, <3>1 DEF KeptInv
  <2> QED BY <1>1, <1>3, <2>2, <2>3, SameSections DEF KeptInv
<1>14. SeamInv'
  BY <1>1, <1>3, <1>5, <1>10 DEF SeamInv, Follows
<1> QED BY <1>10, <1>11, <1>12, <1>13, <1>14 DEF ChunkingInv

LEMMA CarryStep ==
  ASSUME ChunkingInv, CarryUnit
  PROVE  ChunkingInv'
<1>1. /\ cpc = "carry" /\ cpc' = "carry" /\ back > first
      /\ backTok + Tokens(LastUnit) <= Overlap
      /\ back' = LastUnit.from /\ backTok' = backTok + Tokens(LastUnit)
      /\ UNCHANGED <<text, stack, sections, first, next, curTok, chunks>>
  BY DEF CarryUnit, Carries, splitVars
<1>2. /\ ChunkingTypeOK /\ SectionsInv /\ PackInv /\ ChunksInv /\ KeptInv /\ SeamInv
      /\ next <= Sec.to
  BY <1>1 DEF ChunkingInv, PackInv
<1>3. /\ TextOK /\ Sec \in Section /\ Sec.from \in Lines /\ Sec.to \in Lines /\ Sec' = Sec
      /\ first \in Sec.from..next /\ Sec.from \in Nat /\ Sec.to \in Nat
  BY <1>1, <1>2, UnitAhead DEF Sec
<1>4. /\ next \in Nat /\ first \in Nat /\ back \in Nat /\ backTok \in Nat
      /\ back \in first..next /\ Seam(Sec, first)
  BY <1>1, <1>2 DEF ChunkingTypeOK, PackInv
<1>5. back - 1 \in Within(Sec) /\ first <= back - 1
  BY <1>1, <1>2, <1>3, <1>4 DEF Within
<1>6. /\ LastUnit.from \in Sec.from..(back - 1) /\ LastUnit.from >= first
      /\ Seam(Sec, LastUnit.from) /\ Tokens(LastUnit) \in Nat
  BY <1>3, <1>4, <1>5, UnitFacts, UnitTokens, SeamUnit, SeamSides DEF LastUnit
<1>7. back' \in Nat /\ backTok' \in Nat /\ back' \in first..next
  BY <1>1, <1>3, <1>4, <1>6
<1>8. ChunkingTypeOK' /\ SplitInv'
  BY <1>1, <1>2, <1>7 DEF ChunkingTypeOK, SplitInv
<1>9. SectionsInv' /\ ChunksInv'
  BY <1>1, <1>2, SameSections, SameChunks DEF SectionsInv, ChunksInv
<1>10. PackInv'
  BY <1>1, <1>2, <1>3, <1>6, <1>7, SameUnits DEF PackInv
<1>11. (\A p : Covered(p)' <=> Covered(p)) /\ (\A p : Waiting(p)' <=> Waiting(p))
  BY <1>1 DEF Covered, Waiting, Within
<1>12. KeptInv'
  BY <1>1, <1>2, <1>3, <1>11, SameSections DEF KeptInv
<1>13. SeamInv'
  <2>1. Latest' = Latest
    BY <1>1 DEF Latest
  <2> QED BY <1>1, <1>2, <1>3, <2>1 DEF SeamInv, Follows
<1> QED BY <1>8, <1>9, <1>10, <1>12, <1>13 DEF ChunkingInv

LEMMA ResumeStep ==
  ASSUME ChunkingInv, Resume
  PROVE  ChunkingInv'
<1>1. /\ cpc = "carry" /\ cpc' = "pack"
      /\ first' = back /\ next' = NextUnit.to + 1 /\ curTok' = backTok + Tokens(NextUnit)
      /\ UNCHANGED <<text, stack, sections, back, backTok, chunks>>
  BY DEF Resume, Resumed, splitVars
<1>2. /\ ChunkingTypeOK /\ SectionsInv /\ PackInv /\ ChunksInv /\ KeptInv /\ SeamInv
      /\ next <= Sec.to
  BY <1>1 DEF ChunkingInv, PackInv
<1>3. /\ TextOK /\ next \in Within(Sec) /\ NextUnit.to \in next..Sec.to
      /\ Seam(Sec, NextUnit.to + 1) /\ Tokens(NextUnit) \in Nat /\ Tokens(NextUnit) > 0
      /\ first \in Sec.from..next /\ Sec.from \in Nat /\ Sec.to \in Nat /\ Sec' = Sec
  BY <1>1, <1>2, UnitAhead DEF Sec
<1>4. /\ next \in Nat /\ first \in Nat /\ back \in Nat /\ backTok \in Nat
      /\ back \in first..next /\ Seam(Sec, back) /\ backTok <= Overlap /\ sections # <<>>
  BY <1>1, <1>2 DEF ChunkingTypeOK, PackInv
<1>5. /\ first' \in Nat /\ next' \in Nat /\ curTok' \in Nat /\ curTok' > 0
      /\ first' <= next' /\ first' # next' /\ next' - 1 = NextUnit.to /\ next < next'
  <2>1. curTok' \in Nat /\ curTok' > 0
    BY <1>1, <1>3, <1>4
  <2>2. NextUnit.to \in Nat /\ next <= NextUnit.to
    BY <1>3, <1>4
  <2> QED BY <1>1, <1>4, <2>1, <2>2
<1>6. ChunkingTypeOK' /\ SplitInv'
  BY <1>1, <1>2, <1>5 DEF ChunkingTypeOK, SplitInv
<1>7. SectionsInv' /\ ChunksInv'
  BY <1>1, <1>2, SameSections, SameChunks DEF SectionsInv, ChunksInv
<1>8. PackInv'
  <2>1. next \in back..NextUnit.to
    BY <1>3, <1>4
  <2>2. curTok' <= Overlap + Tokens(NextUnit)
    BY <1>1, <1>3, <1>4, SizesAssumption
  <2>3. Bounded(Sec, back, NextUnit.to, curTok')
    BY <2>1, <2>2 DEF Bounded, NextUnit
  <2> QED BY <1>1, <1>3, <1>4, <1>5, <2>3, SameUnits DEF PackInv
<1>9. (\A p : Covered(p)' <=> Covered(p)) /\ (\A p : Waiting(p)' <=> Waiting(p))
  BY <1>1 DEF Covered, Waiting, Within
<1>10. KeptInv'
  <2>1. \A p \in Sec.from..(back - 1) : p \in Sec.from..(next - 1)
    BY <1>3, <1>4
  <2> QED BY <1>1, <1>2, <1>3, <1>9, <2>1, SameSections DEF KeptInv
<1>11. SeamInv'
  <2>1. Latest' = Latest
    BY <1>1 DEF Latest
  <2>2. chunks # <<>> => Latest.from = first /\ Latest.to = next - 1
    BY <1>1, <1>2 DEF SeamInv
  <2>3. chunks # <<>> => back \in Latest.from..(Latest.to + 1) /\ Latest.to < next' - 1
    BY <1>4, <1>5, <2>2
  <2> QED BY <1>1, <1>2, <1>3, <2>1, <2>3 DEF SeamInv, Follows
<1> QED BY <1>6, <1>7, <1>8, <1>10, <1>11 DEF ChunkingInv

LEMMA SectionEndStep ==
  ASSUME ChunkingInv, EndSection
  PROVE  ChunkingInv'
<1> DEFINE c == Cut(first, next - 1, curTok)
<1>1. /\ cpc = "pack" /\ cpc' = "section" /\ next > Sec.to
      /\ chunks' = Append(chunks, c) /\ sections' = Tail(sections)
      /\ UNCHANGED <<text, stack, first, next, curTok, back, backTok>>
  BY DEF EndSection, packVars
<1>2. /\ ChunkingTypeOK /\ SectionsInv /\ PackInv /\ ChunksInv /\ KeptInv /\ SeamInv
      /\ sections # <<>>
  BY <1>1 DEF ChunkingInv, PackInv
<1>3. /\ TextOK /\ Sec \in Section /\ SectionOK(Sec)
      /\ Sec.from \in Lines /\ Sec.to \in Lines /\ Sec.from <= Sec.to
  BY <1>2, SecFacts
<1>4. /\ next \in Nat /\ first \in Nat /\ curTok \in Nat /\ Sec.from \in Nat /\ Sec.to \in Nat
      /\ Seam(Sec, first) /\ Seam(Sec, next) /\ Bounded(Sec, first, next - 1, curTok)
      /\ first <= next /\ (first = next => next <= Sec.to) /\ (first # next => curTok > 0)
  BY <1>1, <1>2, <1>3, TextFacts DEF ChunkingTypeOK, PackInv
<1>5. first < next /\ next = Sec.to + 1 /\ first \in Sec.from..next /\ curTok > 0
  BY <1>1, <1>4 DEF Seam
<1>6. c.sec = Sec /\ c.from = first /\ c.to = next - 1 /\ c.tok = curTok
  BY DEF Cut
<1>7. c \in Chunk
  BY <1>3, <1>4, <1>5 DEF Cut, Chunk, Section
<1> HIDE DEF c
<1>8. c.to + 1 = next
  BY <1>4, <1>6
<1>9. ChunkOK(c)
  BY <1>3, <1>4, <1>5, <1>6, <1>8 DEF ChunkOK
<1>10. chunks # <<>> => Follows(Latest, c)
  BY <1>1, <1>2, <1>6 DEF Follows, SeamInv
<1>11. /\ chunks' \in Seq(Chunk) /\ chunks' # <<>> /\ Latest' = c /\ ChunksInv'
       /\ \A p : Covered(p)' <=> Covered(p) \/ p \in c.from..c.to
       /\ \A k \in DOMAIN chunks' \ {1} : Follows(chunks'[k - 1], chunks'[k])
  BY <1>1, <1>2, <1>7, <1>9, <1>10, ChunkCut
<1>12. /\ sections' \in Seq(Section) /\ SectionsInv'
       /\ \A p : Waiting(p) => p \in Within(Sec) \/ Waiting(p)'
       /\ \A k \in DOMAIN sections' : sections'[k] # Sec
  BY <1>1, <1>2, SectionDone
<1>13. ChunkingTypeOK' /\ SplitInv' /\ PackInv'
  BY <1>1, <1>2, <1>11, <1>12 DEF ChunkingTypeOK, SplitInv, PackInv
<1>14. KeptInv'
  <2>1. ASSUME NEW p \in Within(Sec) PROVE Covered(p)'
    <3>1. p \in Sec.from..(first - 1) \/ p \in first..(next - 1)
      BY <1>4, <1>5 DEF Within
    <3> QED BY <1>1, <1>2, <1>6, <1>11, <3>1 DEF KeptInv
  <2>2. \A p \in Lines : Due(p) => Covered(p)' \/ Waiting(p)'
    BY <1>1, <1>2, <1>11, <1>12, <2>1 DEF KeptInv
  <2> QED BY <1>1, <2>2, SameSections DEF KeptInv
<1>15. SeamInv'
  BY <1>1, <1>6, <1>11, <1>12 DEF SeamInv, Follows
<1> QED BY <1>11, <1>12, <1>13, <1>14, <1>15 DEF ChunkingInv

-----------------------------------------------------------------------------
(* The invariant holds along every behaviour of Prompt. *)

\* chunk_text has just been called, or its locals are gone.
Starting ==
  /\ TextOK /\ cpc = "split" /\ stack = <<>> /\ sections = <<>> /\ chunks = <<>>
  /\ first = 1 /\ next = 1 /\ curTok = 0 /\ back = 1 /\ backTok = 0

LEMMA FreshInv == Starting => ChunkingInv
<1> SUFFICES ASSUME Starting PROVE ChunkingInv
  OBVIOUS
<1> USE TextFacts
<1>1. /\ TextOK /\ cpc = "split" /\ stack = <<>> /\ sections = <<>> /\ chunks = <<>>
      /\ first = 1 /\ next = 1 /\ curTok = 0 /\ back = 1 /\ backTok = 0
  BY DEF Starting
<1>2. /\ stack \in Seq(Nat) /\ sections \in Seq(Section) /\ chunks \in Seq(Chunk)
      /\ DOMAIN stack = {} /\ DOMAIN sections = {} /\ DOMAIN chunks = {}
  BY <1>1, EmptySeq, LenProperties
<1>3. ChunkingTypeOK
  BY <1>1, <1>2 DEF ChunkingTypeOK, TextOK
<1>4. SplitInv
  <2>1. Elements(stack) = {} /\ 1..(next - 1) = {}
    BY <1>1, <1>2 DEF Elements
  <2>2. 0 \notin Lines
    BY <1>1
  <2> QED BY <1>1, <1>2, <2>1, <2>2 DEF SplitInv
<1>5. SectionsInv /\ PackInv /\ ChunksInv /\ KeptInv /\ SeamInv
  BY <1>1, <1>2 DEF SectionsInv, PackInv, ChunksInv, KeptInv, SeamInv
<1> QED BY <1>3, <1>4, <1>5 DEF ChunkingInv

LEMMA FreshInvNext == Starting' => ChunkingInv'
BY FreshInv, PTL

LEMMA InitFresh == Init => Starting
BY DEF Init, ChunkingInit, Starting, TextOK

LEMMA CollectFresh == Collect => Starting'
<1> SUFFICES ASSUME Collect PROVE Starting'
  OBVIOUS
<1>1. /\ text' = <<>> /\ cpc' = "split" /\ stack' = <<>> /\ sections' = <<>> /\ chunks' = <<>>
      /\ first' = 1 /\ next' = 1 /\ curTok' = 0 /\ back' = 1 /\ backTok' = 0
  BY DEF Collect, Chunked
<1> QED BY <1>1 DEF Starting, TextOK

LEMMA ChunkingUnchanged ==
  ASSUME ChunkingInv, UNCHANGED chunkingVars
  PROVE  ChunkingInv'
<1>1. UNCHANGED <<text, cpc, stack, sections, first, next, curTok, back, backTok, chunks>>
  BY DEF chunkingVars, splitVars, packVars
<1>2. /\ Latest' = Latest /\ Sec' = Sec
      /\ \A p : (Covered(p)' <=> Covered(p)) /\ (Waiting(p)' <=> Waiting(p))
      /\ \A h : Open(h)' <=> Open(h)
  BY <1>1 DEF Latest, Sec, Covered, Waiting, Within, Open, IsHeading
<1>3. ChunkingTypeOK' /\ SectionsInv' /\ ChunksInv'
  BY <1>1, SameSections, SameChunks DEF ChunkingInv, ChunkingTypeOK, SectionsInv, ChunksInv
<1>4. SplitInv'
  BY <1>1, <1>2, SameSections DEF ChunkingInv, SplitInv
<1>5. PackInv'
  BY <1>1, <1>2, SameUnits DEF ChunkingInv, PackInv
<1>6. KeptInv' /\ SeamInv'
  BY <1>1, <1>2, SameSections DEF ChunkingInv, KeptInv, SeamInv, Follows
<1> QED BY <1>3, <1>4, <1>5, <1>6 DEF ChunkingInv

LEMMA NextChunkingInv == ChunkingInv /\ [Next]_vars => ChunkingInv'
<1> SUFFICES ASSUME ChunkingInv, [Next]_vars PROVE ChunkingInv'
  OBVIOUS
<1>1. CASE Ingest
  <2>1. ReadHeading \/ ReadLine \/ EndText \/ PackWhole \/ StartPacking \/ TakeUnit
        \/ CutChunk \/ CarryUnit \/ Resume \/ EndSection
    BY <1>1 DEF Ingest, ChunkingNext
  <2> QED BY <2>1, HeadingStep, LineStep, EndStep, WholeStep, StartStep, TakeStep, CutStep,
             CarryStep, ResumeStep, SectionEndStep
<1>2. CASE Collect
  BY <1>2, CollectFresh, FreshInvNext
<1>3. CASE UNCHANGED chunkingVars
  BY <1>3, ChunkingUnchanged
<1> QED BY <1>1, <1>2, <1>3 DEF Next, vars

LEMMA Invariant == Spec => []ChunkingInv
BY InitFresh, FreshInv, NextChunkingInv, PTL DEF Spec

-----------------------------------------------------------------------------
(* What the invariant says of the chunks of any text. *)

\* chunk_text keeps to its sizes whatever the tokenizer: a chunk over target_tokens is
\* one sentence or code block, and at most overlap_tokens carried over from the last.
THEOREM BoundedChunks == Spec => []ChunkBound
<1>1. ChunkingInv => ChunkBound
  BY DEF ChunkingInv, ChunksInv, ChunkOK, Bounded, ChunkBound
<1> QED BY <1>1, Invariant, PTL

\* _pack loses no line at a seam: when the sections are packed every line that is not
\* a heading is in a chunk, and each chunk of a section adds lines without a gap.
THEOREM NoLineLost == Spec => []NothingLost
<1>1. ChunkingInv => NothingLost
  <2> SUFFICES ASSUME ChunkingInv PROVE NothingLost
    OBVIOUS
  <2>1. ASSUME Chunked, NEW p \in DOMAIN text, text[p].level = 0 \/ OnlyHeadings
        PROVE  Covered(p)
    <3>1. cpc # "split" /\ DOMAIN sections = {}
      BY <2>1, EmptySeq, LenProperties DEF Chunked
    <3>2. Due(p) /\ ~Waiting(p) /\ p \in Lines
      BY <2>1, <3>1 DEF Due, IsHeading, Waiting, Lines
    <3> QED BY <3>1, <3>2 DEF ChunkingInv, KeptInv
  <2>2. \A k \in DOMAIN chunks \ {1} : Follows(chunks[k - 1], chunks[k])
    BY DEF ChunkingInv, SeamInv
  <2> QED BY <2>1, <2>2 DEF NothingLost, Follows
<1> QED BY <1>1, Invariant, PTL

\* The range of a chunk lies in its section.
LEMMA ChunkWithin ==
  ASSUME ChunkingInv, NEW k \in DOMAIN chunks
  PROVE  LET c == chunks[k]
         IN  /\ ChunkOK(c) /\ c.from \in Nat /\ c.to \in Nat
             /\ c.sec.from \in Lines /\ c.sec.to \in Lines
             /\ c.from \in Within(c.sec) /\ c.to \in Within(c.sec)
<1> DEFINE c == chunks[k]
<1>1. ChunkOK(c) /\ c \in Chunk
  BY ElementOfSeq, LenProperties DEF ChunkingInv, ChunksInv
<1> HIDE DEF c
<1>2. /\ c.from \in Nat /\ c.to \in Nat /\ c.from <= c.to
      /\ c.sec.from \in Nat /\ c.sec.to \in Nat
      /\ c.sec.from \in Lines /\ c.sec.to \in Lines
  BY <1>1 DEF Chunk, Section, ChunkOK, SectionOK
<1>3. c.from \in c.sec.from..(c.sec.to + 1) /\ c.to + 1 \in c.sec.from..(c.sec.to + 1)
  BY <1>1 DEF ChunkOK, Seam
<1>4. c.from \in Within(c.sec) /\ c.to \in Within(c.sec)
  BY <1>2, <1>3 DEF Within
<1> QED BY <1>1, <1>2, <1>4 DEF c

\* The breadcrumb of a chunk is the headings its lines stand under, outermost first:
\* _split_headings pops a heading from its stack neither too early nor too late.
THEOREM TrailsInScope == Spec => []TrailInScope
<1>1. ChunkingInv => TrailInScope
  <2> SUFFICES ASSUME ChunkingInv, NEW k \in DOMAIN chunks
               PROVE  LET t == chunks[k].sec.trail
                      IN  /\ \A i, j \in DOMAIN t : i < j => t[i] < t[j]
                          /\ ~OnlyHeadings =>
                               Elements(t) = {h \in Lines : InScope(h, chunks[k].from)}
    BY DEF TrailInScope, Elements, Lines
  <2> DEFINE c == chunks[k]
             s == chunks[k].sec
  <2>1. /\ ChunkOK(c) /\ c.from \in Nat /\ s.from \in Lines /\ s.to \in Lines
        /\ c.from \in Within(s)
    BY ChunkWithin
  <2>2. SectionOK(s)
    BY <2>1 DEF ChunkOK
  <2> HIDE DEF c, s
  <2>3. CASE OnlyHeadings
    BY <2>2, <2>3 DEF SectionOK, s
  <2>4. CASE ~OnlyHeadings
    <3>1. /\ \A p \in Within(s) : ~IsHeading(p)
          /\ Elements(s.trail) = {h \in Lines : InScope(h, s.from)}
          /\ TextOK
      BY <2>2, <2>4 DEF SectionOK, ChunkingInv, ChunkingTypeOK, TextOK
    <3>2. s.from \in Int /\ s.to \in Int /\ s.from <= c.from /\ c.from <= s.to
      BY <2>1, <3>1, TextFacts DEF Within
    <3>3. ASSUME NEW h \in Lines, InScope(h, s.from) PROVE InScope(h, c.from)
      BY <2>1, <3>1, <3>2, <3>3, TextFacts DEF InScope, IsHeading, Within
    <3>4. ASSUME NEW h \in Lines, InScope(h, c.from) PROVE InScope(h, s.from)
      BY <2>1, <3>1, <3>2, <3>4, TextFacts DEF InScope, IsHeading, Within
    <3> QED BY <2>2, <3>1, <3>3, <3>4 DEF SectionOK, c, s
  <2> QED BY <2>3, <2>4
<1> QED BY <1>1, Invariant, PTL

\* A fenced block none of whose lines reads like a heading lies in one section.
LEMMA FenceInSection ==
  ASSUME TextOK, NEW s, SectionOK(s), NEW a \in Lines, NEW b \in Lines,
         \A q \in a..b : ~IsHeading(q),
         NEW p \in a..b, p \in Within(s)
  PROVE  ~OnlyHeadings /\ a \in s.from..p /\ b \in p..s.to
<1> USE TextFacts
<1>1. ~OnlyHeadings
  BY DEF OnlyHeadings, IsHeading, Lines
<1>2. /\ s.from \in Lines /\ s.to \in Lines
      /\ s.from - 1 \in Lines => IsHeading(s.from - 1)
      /\ s.to + 1 \in Lines => IsHeading(s.to + 1)
  BY <1>1 DEF SectionOK
<1>3. a >= s.from
  <2> SUFFICES ASSUME a < s.from PROVE FALSE
    BY <1>2
  <2>1. s.from - 1 \in a..b /\ s.from - 1 \in Lines
    BY <1>2 DEF Within
  <2> QED BY <1>2, <2>1
<1>4. b <= s.to
  <2> SUFFICES ASSUME b > s.to PROVE FALSE
    BY <1>2
  <2>1. s.to + 1 \in a..b /\ s.to + 1 \in Lines
    BY <1>2 DEF Within
  <2> QED BY <1>2, <2>1
<1> QED BY <1>1, <1>2, <1>3, <1>4

\* If the heading of a section stands outside every fence, its markers pair as they do
\* in the whole text.
LEMMA SamePairs ==
  ASSUME TextOK, NEW s, SectionOK(s), ~OnlyHeadings,
         NEW a \in Within(s), NEW b \in Lines, IsFence(WholeText, a, b),
         \A h \in Lines : Opens(h, a) => ~InFence(h)
  PROVE  IsFence(s, a, b)
<1> USE TextFacts
<1>1. /\ s.from \in Lines /\ s.to \in Lines /\ s.from <= a
      /\ \A q \in Within(s) : ~IsHeading(q)
      /\ s.from - 1 \in Lines => IsHeading(s.from - 1)
  BY DEF SectionOK, Within
<1> DEFINE h == s.from - 1
<1>2. a \in Int /\ h \in Int /\ 0 <= h /\ h <= a /\ h + 1 = s.from
  BY <1>1 DEF Within
<1>3. /\ Cardinality(Markers(1, h)) \in Nat /\ Cardinality(Markers(s.from, a)) \in Nat
      /\ Cardinality(Markers(1, a)) = Cardinality(Markers(1, h)) + Cardinality(Markers(s.from, a))
  BY <1>2, MarkersAdd
<1>4. Cardinality(Markers(1, h)) % 2 # 1
  <2>1. CASE h = 0
    <3>1. Markers(1, h) = {}
      BY <2>1 DEF Markers
    <3>2. Cardinality(Markers(1, h)) = 0
      BY <3>1, FS_EmptySet
    <3> QED BY <3>2
  <2>2. CASE h # 0
    <3>1. h \in Lines /\ text[h].level > 0
      BY <1>1, <1>2, <2>2 DEF IsHeading
    <3>2. \A q \in (h + 1)..a : text[q].level = 0
      <4> TAKE q \in (h + 1)..a
      <4>1. q \in Within(s) /\ q \in Lines
        BY <1>1, <1>2 DEF Within
      <4> QED BY <1>1, <4>1 DEF IsHeading
    <3>3. h < a
      BY <1>1, <1>2
    <3>4. Opens(h, a)
      BY <3>1, <3>2, <3>3 DEF Opens
    <3> QED BY <3>1, <3>4 DEF InFence, Odd
  <2> QED BY <2>1, <2>2
<1> HIDE DEF h
<1>5. WholeText.from = 1
  BY DEF WholeText
<1>6. Cardinality(Markers(1, a)) % 2 = 1
  BY <1>5 DEF IsFence, Odd
<1>7. \A m, n \in Nat : (m + n) % 2 = 1 /\ m % 2 # 1 => n % 2 = 1
  OBVIOUS
<1>8. Odd(Markers(s.from, a))
  BY <1>3, <1>4, <1>6, <1>7 DEF Odd
<1> QED BY <1>8 DEF IsFence

\* A fenced code block is never cut: a chunk holds the whole of it or nothing, unless
\* a line in it, or the last such line before it in another block, reads like a heading,
\* which _HEADING cannot tell from one.
THEOREM FencesWhole == Spec => []FenceWhole
<1>1. ChunkingInv => FenceWhole
  <2> SUFFICES ASSUME ChunkingInv, NEW k \in DOMAIN chunks, NEW a \in Lines, NEW b \in Lines,
                      PlainFence(a, b), \A h \in Lines : Opens(h, a) => ~InFence(h),
                      NEW p \in a..b, p \in chunks[k].from..chunks[k].to
               PROVE  {a, b} \subseteq chunks[k].from..chunks[k].to
    BY DEF FenceWhole, AllOrNothing, Lines
  <2> USE TextFacts
  <2> DEFINE c == chunks[k]
             s == chunks[k].sec
             u == Unit(s, p)
  <2>1. /\ ChunkOK(c) /\ c.from \in Nat /\ c.to \in Nat
        /\ s.from \in Lines /\ s.to \in Lines
        /\ c.from \in Within(s) /\ c.to \in Within(s)
    BY ChunkWithin
  <2>2. TextOK /\ SectionOK(s) /\ Seam(s, c.from) /\ Seam(s, c.to + 1)
    BY <2>1 DEF ChunkOK, ChunkingInv, ChunkingTypeOK, TextOK
  <2>3. p \in Within(s) /\ p \in c.from..c.to
    BY <2>1, <2>2 DEF Within
  <2>4. \A q \in a..b : ~IsHeading(q)
    BY DEF IsHeading, PlainFence
  <2>5. ~OnlyHeadings /\ a \in s.from..p /\ b \in p..s.to
    BY <2>2, <2>3, <2>4, FenceInSection
  <2>6. /\ u.from \in Lines /\ u.to \in Lines /\ u.from \in s.from..p /\ u.to \in p..s.to
        /\ IsBlock(s, u.from, u.to) \/ ~\E v \in Ranges(s, p) : IsBlock(s, v.from, v.to)
    BY <2>1, <2>2, <2>3, UnitFacts
  <2>7. /\ c.from <= p => c.from <= u.from
        /\ p < c.to + 1 => u.to < c.to + 1
    BY <2>1, <2>2, <2>3, SeamSides
  <2> HIDE DEF c, s, u
  <2>8. a \in Within(s)
    BY <2>1, <2>3, <2>5, <2>2 DEF Within
  <2>9. IsBlock(s, a, b)
    BY <2>2, <2>5, <2>8, SamePairs DEF PlainFence, IsBlock
  <2>10. IsBlock(s, u.from, u.to)
    <3> DEFINE v == [from |-> a, to |-> b]
    <3>1. v \in Ranges(s, p) /\ v.from = a /\ v.to = b
      BY <2>5 DEF Ranges
    <3> HIDE DEF v
    <3> QED BY <2>6, <2>9, <3>1
  <2>11. a = u.from /\ b = u.to
    <3>1. p \in u.from..u.to /\ p \in a..b /\ s.from <= a /\ b <= s.to
          /\ s.from <= u.from /\ u.to <= s.to
      BY <2>1, <2>2, <2>5, <2>6
    <3>2. /\ s.from \in Int /\ s.to \in Int /\ u.from \in Int /\ u.to \in Int
          /\ a \in Int /\ b \in Int
      BY <2>1, <2>2, <2>6
    <3>3. ASSUME NEW x \in Int, NEW y \in Int, IsBlock(s, x, y), s.from <= x, y <= s.to, p \in x..y
          PROVE  a = x /\ b = y
      BY <2>9, <3>1, <3>2, <3>3, OneBlock
    <3> QED BY <2>10, <3>1, <3>2, <3>3
  <2>12. c.from <= a /\ b <= c.to /\ a <= b
    BY <2>1, <2>2, <2>3, <2>7, <2>11
  <2>13. {a, b} \subseteq c.from..c.to
    BY <2>1, <2>2, <2>12
  <2> QED BY <2>13 DEF c
<1> QED BY <1>1, Invariant, PTL
=============================================================================
