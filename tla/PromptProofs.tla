---------------------------- MODULE PromptProofs ----------------------------
(***************************************************************************)
(* Theorems about Retrieval and Assembly, as parts of Prompt.              *)
(***************************************************************************)
EXTENDS ChunkingProofs

-----------------------------------------------------------------------------
(* Finite sets in order. *)

TotalOrder(S, precedes) ==
  /\ \A i \in S : <<i, i>> \notin precedes
  /\ \A i, j, k \in S : <<i, j>> \in precedes /\ <<j, k>> \in precedes => <<i, k>> \in precedes
  /\ \A i, j \in S : i = j \/ <<i, j>> \in precedes \/ <<j, i>> \in precedes

Preceding(S, precedes, i) == {j \in S : <<j, i>> \in precedes}

LEMMA PrecedingCount ==
  ASSUME NEW S, NEW precedes, IsFiniteSet(S), TotalOrder(S, precedes), NEW i \in S
  PROVE  /\ IsFiniteSet(Preceding(S, precedes, i))
         /\ Cardinality(Preceding(S, precedes, i)) \in 0..(Cardinality(S) - 1)
         /\ Cardinality(S) \in Nat
<1>1. Preceding(S, precedes, i) \in SUBSET (S \ {i})
  BY DEF Preceding, TotalOrder
<1>2. IsFiniteSet(S \ {i}) /\ Cardinality(S \ {i}) = Cardinality(S) - 1
  BY FS_RemoveElement
<1>3. /\ IsFiniteSet(Preceding(S, precedes, i))
      /\ Cardinality(Preceding(S, precedes, i)) <= Cardinality(S) - 1
  BY <1>1, <1>2, FS_Subset
<1>4. Cardinality(Preceding(S, precedes, i)) \in Nat /\ Cardinality(S) \in Nat
  BY <1>3, FS_CardinalityType
<1> QED BY <1>3, <1>4

LEMMA PrecedingGrows ==
  ASSUME NEW S, NEW precedes, IsFiniteSet(S), TotalOrder(S, precedes),
         NEW i \in S, NEW k \in S, <<i, k>> \in precedes
  PROVE  Cardinality(Preceding(S, precedes, i)) < Cardinality(Preceding(S, precedes, k))
<1> DEFINE A == Preceding(S, precedes, i)
           B == Preceding(S, precedes, k)
<1>1. A \in SUBSET B /\ i \in B /\ i \notin A
  BY DEF Preceding, TotalOrder
<1>2. IsFiniteSet(A) /\ IsFiniteSet(B) /\ Cardinality(A) \in Nat /\ Cardinality(B) \in Nat
  BY PrecedingCount, FS_CardinalityType
<1> HIDE DEF A, B
<1>3. Cardinality(A) <= Cardinality(B) /\ (Cardinality(B) = Cardinality(A) => A = B)
  BY <1>1, <1>2, FS_Subset
<1>4. A # B
  BY <1>1
<1>5. Cardinality(A) < Cardinality(B)
  BY <1>2, <1>3, <1>4
<1> QED BY <1>5 DEF A, B

\* InOrder counts through S, and follows the order.
LEMMA InOrderFacts ==
  ASSUME NEW S, NEW precedes, IsFiniteSet(S), TotalOrder(S, precedes)
  PROVE  LET at == InOrder(S, precedes)
             N  == Cardinality(S)
         IN  /\ N \in Nat /\ DOMAIN at = 1..N /\ at \in [1..N -> S]
             /\ \A i \in S : \E n \in 1..N : at[n] = i
             /\ \A m, n \in 1..N : <<at[m], at[n]>> \in precedes <=> m < n
             /\ \A m, n \in 1..N : at[m] = at[n] => m = n
             /\ \A n \in 1..N, i \in S : at[n] = i <=> Cardinality(Preceding(S, precedes, i)) = n - 1
<1> DEFINE N == Cardinality(S)
           at == InOrder(S, precedes)
           rank == [i \in S |-> Cardinality(Preceding(S, precedes, i))]
<1>1. N \in Nat
  BY FS_CardinalityType
<1>18. rank = [i \in S |-> rank[i]] /\ \A i \in S : rank[i] = Cardinality(Preceding(S, precedes, i))
  OBVIOUS
<1>2. \A i \in S : rank[i] \in 0..(N - 1)
  BY PrecedingCount
<1>3. \A i, k \in S : <<i, k>> \in precedes => rank[i] < rank[k]
  BY PrecedingGrows
<1>10. \A n \in 1..N : at[n] = CHOOSE i \in S : rank[i] = n - 1
  BY DEF InOrder, Preceding, N
<1>11. DOMAIN at = 1..N /\ at = [n \in 1..N |-> at[n]]
  <2> DEFINE place(n) == CHOOSE i \in S : Cardinality({j \in S : <<j, i>> \in precedes}) = n - 1
  <2>1. at = [n \in 1..N |-> place(n)]
    BY DEF InOrder, N
  <2> HIDE DEF place, at
  <2> QED BY <2>1
<1> HIDE DEF N, rank, at
<1>4. \A i, k \in S : rank[i] = rank[k] => i = k
  <2> TAKE i, k \in S
  <2>1. rank[i] \in Int /\ rank[k] \in Int
    BY <1>1, <1>2
  <2>2. i = k \/ <<i, k>> \in precedes \/ <<k, i>> \in precedes
    BY DEF TotalOrder
  <2> QED BY <1>3, <2>1, <2>2
<1>5. rank \in [S -> 0..(N - 1)]
  BY <1>2, <1>18
<1>6. rank \in Injection(S, 0..(N - 1))
  BY <1>4, <1>5 DEF Injection, IsInjective
<1>7. IsFiniteSet(0..(N - 1)) /\ Cardinality(0..(N - 1)) = N
  <2>1. 0 \in Int /\ N - 1 \in Int
    BY <1>1
  <2>2. IsFiniteSet(0..(N - 1)) /\ Cardinality(0..(N - 1)) = IF 0 > N - 1 THEN 0 ELSE N - 1 - 0 + 1
    BY <2>1, FS_Interval
  <2> QED BY <1>1, <2>2
<1>8. rank \in Surjection(S, 0..(N - 1))
  BY <1>6, <1>7, FS_Injection DEF N
<1>9. \A n \in 1..N : \E i \in S : rank[i] = n - 1
  <2> TAKE n \in 1..N
  <2>1. n - 1 \in 0..(N - 1)
    BY <1>1
  <2> QED BY <1>8, <2>1 DEF Surjection
<1>12. \A n \in 1..N : at[n] \in S /\ rank[at[n]] = n - 1
  BY <1>9, <1>10
<1>13. \A n \in 1..N, i \in S : at[n] = i <=> rank[i] = n - 1
  BY <1>4, <1>12
<1>14. \A i \in S : \E n \in 1..N : at[n] = i
  <2> TAKE i \in S
  <2>1. rank[i] + 1 \in 1..N /\ rank[i] = (rank[i] + 1) - 1
    BY <1>1, <1>2
  <2> QED BY <1>13, <2>1
<1>15. \A m, n \in 1..N : <<at[m], at[n]>> \in precedes <=> m < n
  <2> TAKE m, n \in 1..N
  <2>1. /\ at[m] \in S /\ at[n] \in S /\ rank[at[m]] = m - 1 /\ rank[at[n]] = n - 1
        /\ m \in Int /\ n \in Int
    BY <1>1, <1>12
  <2>2. <<at[m], at[n]>> \in precedes => m < n
    BY <1>3, <2>1
  <2>3. <<at[n], at[m]>> \in precedes => n < m
    BY <1>3, <2>1
  <2>4. at[m] = at[n] \/ <<at[m], at[n]>> \in precedes \/ <<at[n], at[m]>> \in precedes
    BY <2>1 DEF TotalOrder
  <2> QED BY <2>1, <2>2, <2>3, <2>4
<1>16. at \in [1..N -> S]
  BY <1>11, <1>12
<1>17. \A m, n \in 1..N : at[m] = at[n] => m = n
  BY <1>1, <1>12
<1> QED BY <1>1, <1>11, <1>13, <1>14, <1>15, <1>16, <1>17, <1>18 DEF N, at

-----------------------------------------------------------------------------
(* The items at some positions of a sequence, and the sequence in order. *)

Places(P) == InOrder(P, Earlier(P))

\* i counts through P from the lowest up.
LEMMA PlacesFacts ==
  ASSUME NEW P, IsFiniteSet(P), P \in SUBSET Nat
  PROVE  LET at == Places(P)
             N  == Cardinality(P)
         IN  /\ N \in Nat /\ DOMAIN at = 1..N /\ at \in [1..N -> P]
             /\ \A i \in P : \E n \in 1..N : at[n] = i
             /\ \A m, n \in 1..N : at[m] < at[n] <=> m < n
             /\ \A m, n \in 1..N : at[m] = at[n] => m = n
             /\ \A n \in 1..N, i \in P : at[n] = i <=> Cardinality({j \in P : j < i}) = n - 1
<1>1. \A i, j : <<i, j>> \in Earlier(P) <=> i \in P /\ j \in P /\ i < j
  BY DEF Earlier
<1>2. TotalOrder(P, Earlier(P))
  BY <1>1 DEF TotalOrder
<1>3. \A i \in P : Preceding(P, Earlier(P), i) = {j \in P : j < i}
  BY <1>1 DEF Preceding
<1> DEFINE at == Places(P)
           N  == Cardinality(P)
<1>4. /\ N \in Nat /\ DOMAIN at = 1..N /\ at \in [1..N -> P]
      /\ \A i \in P : \E n \in 1..N : at[n] = i
      /\ \A m, n \in 1..N : <<at[m], at[n]>> \in Earlier(P) <=> m < n
      /\ \A m, n \in 1..N : at[m] = at[n] => m = n
      /\ \A n \in 1..N, i \in P : at[n] = i <=> Cardinality(Preceding(P, Earlier(P), i)) = n - 1
  BY <1>2, InOrderFacts DEF Places
<1> HIDE DEF at, N
<1>5. \A m, n \in 1..N : at[m] < at[n] <=> m < n
  BY <1>1, <1>4
<1>6. \A n \in 1..N, i \in P : at[n] = i <=> Cardinality({j \in P : j < i}) = n - 1
  <2> TAKE n \in 1..N, i \in P
  <2>1. Preceding(P, Earlier(P), i) = {j \in P : j < i}
    BY <1>3
  <2> QED BY <1>4, <2>1
<1> QED BY <1>4, <1>5, <1>6 DEF at, N

LEMMA Positions ==
  ASSUME NEW T, NEW s \in Seq(T)
  PROVE  /\ Len(s) \in Nat /\ DOMAIN s = 1..Len(s) /\ DOMAIN s \in SUBSET Nat
         /\ IsFiniteSet(DOMAIN s) /\ Cardinality(DOMAIN s) = Len(s)
         /\ \A i \in DOMAIN s : s[i] \in T
<1>1. Len(s) \in Nat /\ DOMAIN s = 1..Len(s) /\ \A i \in 1..Len(s) : s[i] \in T
  BY LenProperties, ElementOfSeq
<1>2. 1 \in Int /\ Len(s) \in Int
  BY <1>1
<1>3. IsFiniteSet(1..Len(s)) /\ Cardinality(1..Len(s)) = IF 1 > Len(s) THEN 0 ELSE Len(s) - 1 + 1
  BY <1>2, FS_Interval
<1> QED BY <1>1, <1>3

LEMMA PickFacts ==
  ASSUME NEW T, NEW s \in Seq(T), NEW P \in SUBSET DOMAIN s
  PROVE  LET t  == Pick(s, P)
             at == Places(P)
             N  == Cardinality(P)
         IN  /\ t \in Seq(T) /\ Len(t) = N /\ DOMAIN t = 1..N /\ N \in 0..Len(s)
             /\ at \in [1..N -> P] /\ \A n \in 1..N : t[n] = s[at[n]]
             /\ \A i \in P : \E n \in 1..N : at[n] = i
             /\ \A m, n \in 1..N : at[m] < at[n] <=> m < n
             /\ \A m, n \in 1..N : at[m] = at[n] => m = n
<1> DEFINE at == Places(P)
           N  == Cardinality(P)
           t  == Pick(s, P)
<1>1. /\ IsFiniteSet(DOMAIN s) /\ DOMAIN s \in SUBSET Nat /\ Cardinality(DOMAIN s) = Len(s)
      /\ Len(s) \in Nat /\ \A i \in DOMAIN s : s[i] \in T
  BY Positions
<1>2. IsFiniteSet(P) /\ N <= Len(s) /\ P \in SUBSET Nat
  BY <1>1, FS_Subset
<1>3. /\ N \in Nat /\ DOMAIN at = 1..N /\ at \in [1..N -> P]
      /\ \A i \in P : \E n \in 1..N : at[n] = i
      /\ \A m, n \in 1..N : at[m] < at[n] <=> m < n
      /\ \A m, n \in 1..N : at[m] = at[n] => m = n
  BY <1>2, PlacesFacts
<1>4. t = [n \in DOMAIN at |-> s[at[n]]]
  BY DEF Pick, At, Places
<1> HIDE DEF at, N, t
<1>5. t \in [1..N -> T]
  BY <1>1, <1>3, <1>4
<1>6. t \in Seq(T)
  BY <1>3, <1>5, IsASeq
<1>7. Len(t) = N
  BY <1>3, <1>5, <1>6, LenProperties
<1>8. /\ DOMAIN t = 1..N /\ N \in 0..Len(s) /\ \A n \in 1..N : t[n] = s[at[n]]
  BY <1>1, <1>2, <1>3, <1>4
<1> QED BY <1>3, <1>6, <1>7, <1>8 DEF at, N, t

\* What sorted() relies on: the keys are comparable.
WeakOrder(D, beats) ==
  /\ \A i \in D : <<i, i>> \notin beats
  /\ \A i, j, k \in D : <<i, j>> \in beats /\ <<j, k>> \in beats => <<i, k>> \in beats
  /\ \A i, j, k \in D : <<i, k>> \in beats => <<i, j>> \in beats \/ <<j, k>> \in beats

LEMMA StableOrder ==
  ASSUME NEW D \in SUBSET Nat, NEW beats, NEW precedes, WeakOrder(D, beats),
         \A i, j \in D : <<i, j>> \in precedes <=>
                           <<i, j>> \in beats \/ (<<j, i>> \notin beats /\ i < j)
  PROVE  TotalOrder(D, precedes)
<1>1. \A i \in D : <<i, i>> \notin precedes
  <2> TAKE i \in D
  <2>1. i \in Nat /\ <<i, i>> \notin beats
    BY DEF WeakOrder
  <2> QED BY <2>1
<1>2. ASSUME NEW i \in D, NEW j \in D, NEW k \in D,
             <<i, j>> \in precedes, <<j, k>> \in precedes
      PROVE  <<i, k>> \in precedes
  <2>1. CASE <<i, j>> \in beats
    BY <1>2, <2>1 DEF WeakOrder
  <2>2. CASE <<i, j>> \notin beats /\ <<j, k>> \in beats
    BY <1>2, <2>2 DEF WeakOrder
  <2>3. CASE <<i, j>> \notin beats /\ <<j, k>> \notin beats
    <3>1. <<j, i>> \notin beats /\ <<k, j>> \notin beats /\ i < j /\ j < k
      BY <1>2, <2>3
    <3>2. <<k, i>> \notin beats /\ i < k
      BY <3>1 DEF WeakOrder
    <3> QED BY <3>2
  <2> QED BY <2>1, <2>2, <2>3
<1>3. \A i, j \in D : i = j \/ <<i, j>> \in precedes \/ <<j, i>> \in precedes
  <2> TAKE i, j \in D
  <2>1. i \in Nat /\ j \in Nat
    OBVIOUS
  <2> QED BY <2>1
<1> QED BY <1>1, <1>2, <1>3 DEF TotalOrder

LEMMA SortFacts ==
  ASSUME NEW T, NEW s \in Seq(T), NEW beats, WeakOrder(DOMAIN s, beats)
  PROVE  LET t  == SortedBy(s, beats)
             at == InOrder(DOMAIN s, Stable(s, beats))
         IN  /\ t \in Seq(T) /\ Len(t) = Len(s) /\ DOMAIN t = DOMAIN s /\ DOMAIN s = 1..Len(s)
             /\ Len(s) \in Nat
             /\ at \in [DOMAIN s -> DOMAIN s] /\ \A n \in DOMAIN s : t[n] = s[at[n]]
             /\ \A i \in DOMAIN s : \E n \in DOMAIN s : at[n] = i
             /\ \A m, n \in DOMAIN s : at[m] = at[n] => m = n
             /\ \A m, n \in DOMAIN s : <<at[m], at[n]>> \in beats => m < n
             /\ \A m, n \in DOMAIN s :
                  m < n /\ <<at[m], at[n]>> \notin beats => at[m] < at[n]
<1> DEFINE D  == DOMAIN s
           at == InOrder(D, Stable(s, beats))
           t  == SortedBy(s, beats)
<1>1. /\ IsFiniteSet(D) /\ D \in SUBSET Nat /\ Cardinality(D) = Len(s)
      /\ Len(s) \in Nat /\ D = 1..Len(s) /\ \A i \in D : s[i] \in T
  BY Positions
<1>2. \A i, j : <<i, j>> \in Stable(s, beats) <=>
                  i \in D /\ j \in D /\ (<<i, j>> \in beats \/ (<<j, i>> \notin beats /\ i < j))
  BY DEF Stable
<1>3. t = [n \in DOMAIN at |-> s[at[n]]]
  BY DEF SortedBy, At
<1>11. WeakOrder(D, beats)
  OBVIOUS
<1> HIDE DEF D
<1>4. TotalOrder(D, Stable(s, beats))
  BY <1>1, <1>2, <1>11, StableOrder
<1>5. /\ DOMAIN at = D /\ at \in [D -> D]
      /\ \A i \in D : \E n \in D : at[n] = i
      /\ \A m, n \in D : <<at[m], at[n]>> \in Stable(s, beats) <=> m < n
      /\ \A m, n \in D : at[m] = at[n] => m = n
  <2>1. /\ DOMAIN at = 1..Cardinality(D) /\ at \in [1..Cardinality(D) -> D]
        /\ \A i \in D : \E n \in 1..Cardinality(D) : at[n] = i
        /\ \A m, n \in 1..Cardinality(D) : <<at[m], at[n]>> \in Stable(s, beats) <=> m < n
        /\ \A m, n \in 1..Cardinality(D) : at[m] = at[n] => m = n
    <3>1. IsFiniteSet(D)
      BY <1>1
    <3> QED BY <3>1, <1>4, InOrderFacts
  <2>2. 1..Cardinality(D) = D
    BY <1>1
  <2> HIDE DEF at
  <2> QED BY <2>1, <2>2
<1> HIDE DEF at, t
<1>6. t \in [1..Len(s) -> T]
  BY <1>1, <1>3, <1>5
<1>7. t \in Seq(T) /\ Len(t) = Len(s) /\ DOMAIN t = D
  BY <1>1, <1>6, IsASeq, LenProperties
<1>8. \A n \in D : t[n] = s[at[n]]
  BY <1>3, <1>5
<1>9. \A m, n \in D : <<at[m], at[n]>> \in beats => m < n
  <2> TAKE m, n \in D
  <2>1. at[m] \in D /\ at[n] \in D
    BY <1>5
  <2>2. <<at[m], at[n]>> \in beats => <<at[m], at[n]>> \in Stable(s, beats)
    BY <1>2, <2>1
  <2> QED BY <1>5, <2>2
<1>10. \A m, n \in D : m < n /\ <<at[m], at[n]>> \notin beats => at[m] < at[n]
  <2> TAKE m, n \in D
  <2>1. at[m] \in D /\ at[n] \in D /\ (m < n => <<at[m], at[n]>> \in Stable(s, beats))
    BY <1>5
  <2> QED BY <1>2, <2>1
<1> QED BY <1>1, <1>5, <1>7, <1>8, <1>9, <1>10 DEF at, t, D
-----------------------------------------------------------------------------
(* Sums. *)

\* One pair for each unit of f[i].
Counted(f) == UNION {{i} \X (1..f[i]) : i \in DOMAIN f}

LEMMA CountedFacts ==
  ASSUME NEW I, IsFiniteSet(I), NEW f \in [I -> Nat]
  PROVE  /\ IsFiniteSet(Counted(f)) /\ Total(f) = Cardinality(Counted(f)) /\ Total(f) \in Nat
         /\ \A i, k : <<i, k>> \in Counted(f) <=> i \in I /\ k \in 1..f[i]
         /\ \A u \in Counted(f) : u = <<u[1], u[2]>> /\ u[1] \in I /\ u[2] \in 1..f[u[1]]
<1> DEFINE row(i) == {i} \X (1..f[i])
           R == {row(i) : i \in I}
           r == [i \in I |-> row(i)]
<1>1. \A i \in I : IsFiniteSet(row(i))
  <2> TAKE i \in I
  <2>1. f[i] \in Int /\ 1 \in Int
    OBVIOUS
  <2>2. IsFiniteSet(1..f[i]) /\ IsFiniteSet({i})
    BY <2>1, FS_Interval, FS_Singleton
  <2> QED BY <2>2, FS_Product
<1>2. Counted(f) = UNION R
  BY DEF Counted
<1>3. \A u : u \in UNION R <=> \E i \in I : u \in row(i)
  OBVIOUS
<1>4. IsFiniteSet(UNION R)
  <2> HIDE DEF row
  <2>1. r \in Surjection(I, R)
    BY DEF Surjection
  <2>2. IsFiniteSet(R)
    BY <2>1, FS_Surjection
  <2>3. \A T \in R : IsFiniteSet(T)
    BY <1>1
  <2> HIDE DEF R
  <2> QED BY <2>2, <2>3, FS_UNION
<1>5. \A i, k : <<i, k>> \in Counted(f) <=> i \in I /\ k \in 1..f[i]
  BY <1>2, <1>3
<1>6. \A u \in Counted(f) : u = <<u[1], u[2]>> /\ u[1] \in I /\ u[2] \in 1..f[u[1]]
  BY <1>2, <1>3
<1>7. Total(f) = Cardinality(Counted(f))
  BY DEF Total, Counted
<1> QED BY <1>2, <1>4, <1>5, <1>6, <1>7, FS_CardinalityType

\* A sum that can be found, term by term, in another is at most that other.
LEMMA TotalInjects ==
  ASSUME NEW I, IsFiniteSet(I), NEW f \in [I -> Nat],
         NEW J, IsFiniteSet(J), NEW g \in [J -> Nat],
         NEW h \in [J -> I], \A i, j \in J : h[i] = h[j] => i = j,
         \A j \in J : g[j] <= f[h[j]]
  PROVE  Total(g) <= Total(f)
<1> DEFINE H == [u \in Counted(g) |-> <<h[u[1]], u[2]>>]
<1>1. /\ IsFiniteSet(Counted(f)) /\ Total(f) = Cardinality(Counted(f))
      /\ \A i, k : <<i, k>> \in Counted(f) <=> i \in I /\ k \in 1..f[i]
  BY CountedFacts
<1>2. /\ Total(g) = Cardinality(Counted(g))
      /\ \A u \in Counted(g) : u = <<u[1], u[2]>> /\ u[1] \in J /\ u[2] \in 1..g[u[1]]
  BY CountedFacts
<1>3. H \in [Counted(g) -> Counted(f)]
  <2> SUFFICES ASSUME NEW u \in Counted(g) PROVE <<h[u[1]], u[2]>> \in Counted(f)
    OBVIOUS
  <2>1. /\ u[1] \in J /\ u[2] \in 1..g[u[1]] /\ h[u[1]] \in I /\ g[u[1]] \in Nat
        /\ f[h[u[1]]] \in Nat /\ g[u[1]] <= f[h[u[1]]]
    BY <1>2
  <2>2. u[2] \in 1..f[h[u[1]]]
    BY <2>1
  <2> QED BY <1>1, <2>1, <2>2
<1>4. ASSUME NEW u \in Counted(g), NEW v \in Counted(g), H[u] = H[v] PROVE u = v
  <2>1. h[u[1]] = h[v[1]] /\ u[2] = v[2]
    BY <1>4
  <2>2. u = <<u[1], u[2]>> /\ v = <<v[1], v[2]>> /\ u[1] \in J /\ v[1] \in J
    BY <1>2
  <2> QED BY <2>1, <2>2
<1>5. H \in Injection(Counted(g), Counted(f))
  BY <1>3, <1>4 DEF Injection, IsInjective
<1> QED BY <1>1, <1>2, <1>5, FS_Injection

\* A sum does not change when its terms are numbered otherwise.
LEMMA TotalMoves ==
  ASSUME NEW I, IsFiniteSet(I), NEW f \in [I -> Nat],
         NEW J, IsFiniteSet(J), NEW g \in [J -> Nat],
         NEW h \in Bijection(J, I), \A j \in J : g[j] = f[h[j]]
  PROVE  Total(g) = Total(f)
<1>0. /\ h \in [J -> I] /\ \A i, j \in J : h[i] = h[j] => i = j
      /\ \A i \in I : \E j \in J : h[j] = i
  BY DEF Bijection, Injection, Surjection, IsInjective
<1> DEFINE b == [i \in I |-> CHOOSE j \in J : h[j] = i]
<1>1. b \in [I -> J] /\ \A i \in I : h[b[i]] = i
  BY <1>0
<1>2. Total(g) \in Nat /\ Total(f) \in Nat
  BY CountedFacts
<1>3. Total(g) <= Total(f)
  <2>1. \A j \in J : g[j] <= f[h[j]]
    BY <1>0
  <2> QED BY <1>0, <2>1, TotalInjects
<1>4. Total(f) <= Total(g)
  <2> HIDE DEF b
  <2>1. \A i, j \in I : b[i] = b[j] => i = j
    BY <1>1
  <2>2. \A i \in I : f[i] <= g[b[i]]
    BY <1>1
  <2> QED BY <1>1, <2>1, <2>2, TotalInjects
<1> QED BY <1>2, <1>3, <1>4

LEMMA TotalAdds ==
  ASSUME NEW I, IsFiniteSet(I), NEW f \in [I -> Nat], NEW m \in I
  PROVE  Total(f) = Total([i \in I \ {m} |-> f[i]]) + f[m]
<1> DEFINE J == I \ {m}
           g == [i \in J |-> f[i]]
           R == {m} \X (1..f[m])
<1>1. g \in [J -> Nat] /\ f[m] \in Nat /\ \A i \in J : g[i] = f[i]
  OBVIOUS
<1>2. IsFiniteSet(J)
  BY FS_Difference
<1> HIDE DEF g, J
<1>3. /\ Total(f) = Cardinality(Counted(f))
      /\ \A i, k : <<i, k>> \in Counted(f) <=> i \in I /\ k \in 1..f[i]
      /\ \A u \in Counted(f) : u = <<u[1], u[2]>> /\ u[1] \in I /\ u[2] \in 1..f[u[1]]
  BY CountedFacts
<1>4. /\ IsFiniteSet(Counted(g)) /\ Total(g) = Cardinality(Counted(g)) /\ Total(g) \in Nat
      /\ \A i, k : <<i, k>> \in Counted(g) <=> i \in J /\ k \in 1..g[i]
      /\ \A u \in Counted(g) : u = <<u[1], u[2]>> /\ u[1] \in J /\ u[2] \in 1..g[u[1]]
  BY <1>1, <1>2, CountedFacts
<1>5. IsFiniteSet(R) /\ Cardinality(R) = f[m]
  <2>1. IsFiniteSet(1..f[m]) /\ Cardinality(1..f[m]) = f[m]
    BY <1>1, FS_Interval
  <2>2. IsFiniteSet({m}) /\ Cardinality({m}) = 1
    BY FS_Singleton
  <2>3. IsFiniteSet(R) /\ Cardinality(R) = Cardinality({m}) * Cardinality(1..f[m])
    <3> DEFINE S == {m}
               T == 1..f[m]
    <3>1. IsFiniteSet(S) /\ IsFiniteSet(T)
      BY <2>1, <2>2
    <3> HIDE DEF S, T
    <3>2. IsFiniteSet(S \X T) /\ Cardinality(S \X T) = Cardinality(S) * Cardinality(T)
      BY <3>1, FS_Product
    <3> QED BY <3>2 DEF S, T
  <2>4. Cardinality(R) = 1 * f[m]
    BY <2>1, <2>2, <2>3
  <2> QED BY <1>1, <2>3, <2>4
<1>6. Counted(f) = Counted(g) \cup R /\ Counted(g) \cap R = {}
  <2>1. \A u \in R : u = <<u[1], u[2]>> /\ u[1] = m /\ u[2] \in 1..f[m]
    OBVIOUS
  <2>2. \A i, k : <<i, k>> \in R <=> i = m /\ k \in 1..f[m]
    OBVIOUS
  <2> HIDE DEF R
  <2>3. I = J \cup {m} /\ m \notin J
    BY DEF J
  <2>4. ASSUME NEW u \in Counted(f) PROVE u \in Counted(g) \cup R
    <3>1. u = <<u[1], u[2]>> /\ u[1] \in I /\ u[2] \in 1..f[u[1]]
      BY <1>3
    <3>2. CASE u[1] = m
      BY <2>2, <3>1, <3>2
    <3>3. CASE u[1] \in J
      BY <1>1, <1>4, <3>1, <3>3
    <3> QED BY <2>3, <3>1, <3>2, <3>3
  <2>5. ASSUME NEW u \in Counted(g) PROVE u \in Counted(f) /\ u \notin R
    <3>1. u = <<u[1], u[2]>> /\ u[1] \in J /\ u[2] \in 1..f[u[1]]
      BY <1>1, <1>4
    <3> QED BY <1>3, <2>1, <2>3, <3>1
  <2>6. ASSUME NEW u \in R PROVE u \in Counted(f)
    <3>1. u = <<u[1], u[2]>> /\ u[1] \in I /\ u[2] \in 1..f[u[1]]
      BY <2>1, <2>3
    <3> QED BY <1>3, <3>1
  <2> QED BY <2>4, <2>5, <2>6
<1>7. Cardinality(Counted(g) \cup R) = Cardinality(Counted(g)) + Cardinality(R) - Cardinality({})
  <2> HIDE DEF R
  <2> QED BY <1>4, <1>5, <1>6, FS_Union
<1>8. Total(f) = Total(g) + f[m] - 0
  BY <1>3, <1>4, <1>5, <1>6, <1>7, FS_EmptySet
<1> QED BY <1>1, <1>4, <1>8 DEF g, J

LEMMA TotalSum ==
  ASSUME NEW I, IsFiniteSet(I), NEW f \in [I -> Nat], NEW g \in [I -> Nat],
         NEW k \in [I -> Nat], \A i \in I : k[i] = f[i] + g[i]
  PROVE  Total(k) = Total(f) + Total(g)
<1> DEFINE F == Counted(f)
           G == Counted(g)
           K == Counted(k)
           H == [u \in G |-> <<u[1], u[2] + f[u[1]]>>]
<1>1. /\ IsFiniteSet(F) /\ Total(f) = Cardinality(F) /\ Total(f) \in Nat
      /\ \A i, n : <<i, n>> \in F <=> i \in I /\ n \in 1..f[i]
      /\ \A u \in F : u = <<u[1], u[2]>> /\ u[1] \in I /\ u[2] \in 1..f[u[1]]
  BY CountedFacts
<1>2. /\ IsFiniteSet(G) /\ Total(g) = Cardinality(G) /\ Total(g) \in Nat
      /\ \A i, n : <<i, n>> \in G <=> i \in I /\ n \in 1..g[i]
      /\ \A u \in G : u = <<u[1], u[2]>> /\ u[1] \in I /\ u[2] \in 1..g[u[1]]
  BY CountedFacts
<1>3. /\ IsFiniteSet(K) /\ Total(k) = Cardinality(K) /\ Total(k) \in Nat
      /\ \A i, n : <<i, n>> \in K <=> i \in I /\ n \in 1..k[i]
      /\ \A u \in K : u = <<u[1], u[2]>> /\ u[1] \in I /\ u[2] \in 1..k[u[1]]
  BY CountedFacts
<1>4. \A i \in I : f[i] \in Nat /\ g[i] \in Nat /\ k[i] = f[i] + g[i]
  OBVIOUS
<1> HIDE DEF F, G, K
<1>5. F \subseteq K
  <2> SUFFICES ASSUME NEW u \in F PROVE u \in K
    OBVIOUS
  <2>1. u = <<u[1], u[2]>> /\ u[1] \in I /\ u[2] \in 1..f[u[1]]
    BY <1>1
  <2>2. u[2] \in 1..k[u[1]]
    BY <1>4, <2>1
  <2> QED BY <1>3, <2>1, <2>2
<1>6. H \in [G -> K \ F]
  <2> SUFFICES ASSUME NEW u \in G PROVE <<u[1], u[2] + f[u[1]]>> \in K \ F
    OBVIOUS
  <2>1. u[1] \in I /\ u[2] \in 1..g[u[1]]
    BY <1>2
  <2>2. u[2] + f[u[1]] \in 1..k[u[1]] /\ u[2] + f[u[1]] \notin 1..f[u[1]]
    BY <1>4, <2>1
  <2> QED BY <1>1, <1>3, <2>1, <2>2
<1>7. ASSUME NEW u \in G, NEW v \in G, H[u] = H[v] PROVE u = v
  <2>1. /\ u = <<u[1], u[2]>> /\ u[1] \in I /\ u[2] \in 1..g[u[1]]
        /\ v = <<v[1], v[2]>> /\ v[1] \in I /\ v[2] \in 1..g[v[1]]
    BY <1>2
  <2>2. u[1] = v[1] /\ u[2] + f[u[1]] = v[2] + f[v[1]]
    BY <1>7
  <2>3. u[2] = v[2]
    BY <1>4, <2>1, <2>2
  <2> QED BY <2>1, <2>2, <2>3
<1>8. ASSUME NEW w \in K \ F PROVE \E u \in G : H[u] = w
  <2>1. w = <<w[1], w[2]>> /\ w[1] \in I /\ w[2] \in 1..k[w[1]] /\ w[2] \notin 1..f[w[1]]
    BY <1>1, <1>3, <1>8
  <2> DEFINE u == <<w[1], w[2] - f[w[1]]>>
  <2>2. w[2] - f[w[1]] \in 1..g[w[1]] /\ (w[2] - f[w[1]]) + f[w[1]] = w[2]
    BY <1>4, <2>1
  <2>3. u \in G /\ H[u] = w
    BY <1>2, <2>1, <2>2
  <2> QED BY <2>3
<1>9. ExistsBijection(G, K \ F)
  <2>1. H \in Bijection(G, K \ F)
    BY <1>6, <1>7, <1>8 DEF Bijection, Injection, Surjection, IsInjective
  <2> QED BY <2>1 DEF ExistsBijection
<1>10. Cardinality(K \ F) = Cardinality(G)
  BY <1>2, <1>9, FS_Bijection
<1>11. Cardinality(K \ F) = Cardinality(K) - Cardinality(K \cap F)
  BY <1>3, FS_Difference
<1>12. K \cap F = F
  BY <1>5
<1>13. Total(g) = Total(k) - Total(f)
  BY <1>1, <1>2, <1>3, <1>10, <1>11, <1>12
<1> QED BY <1>1, <1>2, <1>3, <1>13
-----------------------------------------------------------------------------
(* The tokens of some of the items of a list. *)

LEMMA ItemFacts ==
  ASSUME NEW x \in Item
  PROVE  /\ x.tok \in Nat /\ x.tok > 0 /\ x.sents \in Nat /\ x.pii \in Nat /\ x.lex \in Nat
         /\ x.emb \in Int /\ x.rel \in Int /\ x.stamp \in Nat /\ x.value \in Nat
BY DEF Item

Countable(s, P) == IsFiniteSet(P) /\ \A i \in P : s[i].tok \in Nat
\* t[n] is s[h[n]], for all that is counted here.
Same(t, s, h, Q) == \A n \in Q : t[n].tok = s[h[n]].tok

LEMMA TermsDrawn ==
  ASSUME NEW s, NEW P, Countable(s, P), NEW t, NEW Q, Countable(t, Q),
         NEW h \in Injection(Q, P), Same(t, s, h, Q)
  PROVE  TokensAt(t, Q) <= TokensAt(s, P)
<1> DEFINE f == [i \in P |-> s[i].tok]
           g == [n \in Q |-> t[n].tok]
<1>1. f \in [P -> Nat] /\ g \in [Q -> Nat] /\ IsFiniteSet(P) /\ IsFiniteSet(Q)
  BY DEF Countable
<1>2. h \in [Q -> P] /\ \A m, n \in Q : h[m] = h[n] => m = n
  BY DEF Injection, IsInjective
<1>3. \A n \in Q : g[n] <= f[h[n]]
  BY <1>1, <1>2 DEF Same
<1> HIDE DEF f, g
<1>4. Total(g) <= Total(f)
  BY <1>1, <1>2, <1>3, TotalInjects
<1> QED BY <1>4 DEF TokensAt, f, g

LEMMA TermsMoved ==
  ASSUME NEW s, NEW P, Countable(s, P), NEW t, NEW Q, Countable(t, Q),
         NEW h \in Bijection(Q, P), Same(t, s, h, Q)
  PROVE  TokensAt(t, Q) = TokensAt(s, P)
<1> DEFINE f == [i \in P |-> s[i].tok]
           g == [n \in Q |-> t[n].tok]
<1>1. f \in [P -> Nat] /\ g \in [Q -> Nat] /\ IsFiniteSet(P) /\ IsFiniteSet(Q)
  BY DEF Countable
<1>2. h \in [Q -> P]
  BY DEF Bijection, Injection
<1>3. \A n \in Q : g[n] = f[h[n]]
  BY <1>1, <1>2 DEF Same
<1> HIDE DEF f, g
<1>4. Total(g) = Total(f)
  BY <1>1, <1>3, TotalMoves
<1> QED BY <1>4 DEF TokensAt, f, g

LEMMA ItemsCountable ==
  ASSUME NEW s \in Seq(Item), NEW P \in SUBSET DOMAIN s
  PROVE  Countable(s, P) /\ TokensAt(s, P) \in Nat
<1>1. IsFiniteSet(P)
  BY Positions, FS_Subset
<1>2. \A i \in P : s[i].tok \in Nat
  <2> TAKE i \in P
  <2>1. s[i] \in Item
    BY Positions
  <2> QED BY <2>1, ItemFacts
<1> DEFINE f == [i \in P |-> s[i].tok]
<1>3. f \in [P -> Nat]
  BY <1>2
<1> HIDE DEF f
<1>4. Total(f) \in Nat
  BY <1>1, <1>3, CountedFacts
<1> QED BY <1>1, <1>2, <1>4 DEF Countable, TokensAt, f

LEMMA TokensGrow ==
  ASSUME NEW s \in Seq(Item), NEW P \in SUBSET DOMAIN s, NEW Q \in SUBSET P
  PROVE  /\ TokensAt(s, P) \in Nat /\ TokensAt(s, Q) \in Nat
         /\ TokensAt(s, Q) <= TokensAt(s, P)
<1> DEFINE h == [n \in Q |-> n]
<1>1. h \in Injection(Q, P) /\ Same(s, s, h, Q)
  BY DEF Injection, IsInjective, Same
<1>2. Q \in SUBSET DOMAIN s
  OBVIOUS
<1> HIDE DEF h
<1>3. Countable(s, P) /\ Countable(s, Q) /\ TokensAt(s, P) \in Nat /\ TokensAt(s, Q) \in Nat
  BY <1>2, ItemsCountable
<1> QED BY <1>1, <1>3, TermsDrawn

LEMMA TokensAdd ==
  ASSUME NEW s \in Seq(Item), NEW P \in SUBSET DOMAIN s, NEW m \in P
  PROVE  TokensAt(s, P) = TokensAt(s, P \ {m}) + s[m].tok
<1> DEFINE f == [i \in P |-> s[i].tok]
<1>1. IsFiniteSet(P) /\ \A i \in P : s[i] \in Item
  BY Positions, FS_Subset
<1>2. f \in [P -> Nat]
  BY <1>1, ItemFacts
<1>3. Total(f) = Total([i \in P \ {m} |-> f[i]]) + f[m]
  <2> HIDE DEF f
  <2> QED BY <1>1, <1>2, TotalAdds
<1>4. [i \in P \ {m} |-> f[i]] = [i \in P \ {m} |-> s[i].tok] /\ f[m] = s[m].tok
  OBVIOUS
<1> QED BY <1>3, <1>4 DEF TokensAt

\* A part of a picked list has the tokens of the items it was picked from.
LEMMA TokensPicked ==
  ASSUME NEW s \in Seq(Item), NEW P \in SUBSET DOMAIN s
  PROVE  /\ Pick(s, P) \in Seq(Item) /\ TokensOf(Pick(s, P)) = TokensAt(s, P)
         /\ \A C \in SUBSET P : 
              TokensAt(Pick(s, P), {n \in DOMAIN Pick(s, P) : Places(P)[n] \in C}) = TokensAt(s, C)
<1> DEFINE t  == Pick(s, P)
           at == Places(P)
           N  == Cardinality(P)
<1>1. /\ t \in Seq(Item) /\ DOMAIN t = 1..N
      /\ at \in [1..N -> P] /\ \A n \in 1..N : t[n] = s[at[n]]
      /\ \A i \in P : \E n \in 1..N : at[n] = i
      /\ \A m, n \in 1..N : at[m] = at[n] => m = n
  BY PickFacts
<1> HIDE DEF t, at, N
<1>2. ASSUME NEW C \in SUBSET P PROVE TokensAt(t, {n \in 1..N : at[n] \in C}) = TokensAt(s, C)
  <2> DEFINE Q == {n \in 1..N : at[n] \in C}
             h == [n \in Q |-> at[n]]
  <2>1. /\ h \in [Q -> C] /\ \A n \in Q : h[n] = at[n] /\ n \in 1..N
        /\ \A i \in C : \E n \in Q : at[n] = i
    BY <1>1
  <2>2. Q \in SUBSET DOMAIN t /\ C \in SUBSET DOMAIN s
    BY <1>1
  <2> HIDE DEF Q, h
  <2>3. h \in Bijection(Q, C)
    BY <1>1, <2>1 DEF Bijection, Injection, Surjection, IsInjective
  <2>4. Same(t, s, h, Q)
    BY <1>1, <2>1 DEF Same
  <2>5. Countable(s, C) /\ Countable(t, Q)
    BY <1>1, <2>2, ItemsCountable
  <2>6. TokensAt(t, Q) = TokensAt(s, C)
    BY <2>3, <2>4, <2>5, TermsMoved
  <2> QED BY <2>6 DEF Q
<1>3. TokensOf(t) = TokensAt(s, P)
  <2>1. {n \in 1..N : at[n] \in P} = DOMAIN t
    BY <1>1
  <2> QED BY <1>2, <2>1 DEF TokensOf
<1> QED BY <1>1, <1>2, <1>3 DEF t, at, N

-----------------------------------------------------------------------------
(* 7 budget *)

LEMMA BudgetFacts ==
  ASSUME NEW s \in Seq(Item), NEW K \in SUBSET DOMAIN s, Available \in Nat,
         \A i \in DOMAIN s : i \in K <=> Fits(s, K, i)
  PROVE  /\ Pick(s, K) \in Seq(Item) /\ TokensOf(Pick(s, K)) <= Available
         /\ \A x \in Elements(s) \ Elements(Pick(s, K)) :
              TokensOf(Where(Pick(s, K), LAMBDA y : y \in OverIn(s, x))) + x.tok > Available
<1> DEFINE t  == Pick(s, K)
           at == Places(K)
           N  == Cardinality(K)
<1>1. /\ t \in Seq(Item) /\ DOMAIN t = 1..N /\ N \in Nat
      /\ at \in [1..N -> K] /\ \A n \in 1..N : t[n] = s[at[n]]
      /\ \A i \in K : \E n \in 1..N : at[n] = i
      /\ \A m, n \in 1..N : at[m] < at[n] <=> m < n
      /\ \A m, n \in 1..N : at[m] = at[n] => m = n
  BY PickFacts
<1>2. /\ TokensOf(t) = TokensAt(s, K)
      /\ \A C \in SUBSET K : TokensAt(t, {n \in DOMAIN t : at[n] \in C}) = TokensAt(s, C)
  BY TokensPicked
<1>12. IsFiniteSet(K) /\ DOMAIN s \in SUBSET Nat /\ \A i \in DOMAIN s : s[i] \in Item
  BY Positions, FS_Subset
<1> HIDE DEF t, at, N
<1>3. TokensAt(s, K) <= Available
  <2>1. CASE N = 0
    <3>1. K = {}
      BY <1>12, <2>1, FS_EmptySet DEF N
    <3>2. TokensAt(s, {}) = Total([i \in {} |-> s[i].tok])
      BY DEF TokensAt
    <3>3. Total([i \in {} |-> s[i].tok]) = Cardinality({})
      <4>1. UNION {{i} \X (1..[j \in {} |-> s[j].tok][i]) : i \in DOMAIN [j \in {} |-> s[j].tok]} = {}
        OBVIOUS
      <4> QED BY <4>1 DEF Total
    <3> QED BY <3>1, <3>2, <3>3, FS_EmptySet
  <2>2. CASE N # 0
    <3>1. N \in 1..N /\ at[N] \in K
      BY <1>1, <2>2
    <3> DEFINE m == at[N]
    <3>2. \A j \in K : j < m \/ j = m
      <4> TAKE j \in K
      <4>1. PICK n \in 1..N : at[n] = j
        BY <1>1
      <4>2. n < N \/ n = N
        BY <1>1, <4>1
      <4> QED BY <1>1, <3>1, <4>1, <4>2
    <3>3. {j \in K : j < m} = K \ {m}
      <4>1. m \in Nat
        BY <1>12, <3>1
      <4> QED BY <3>2, <4>1
    <3>4. TokensAt(s, {j \in K : j < m}) + s[m].tok <= Available
      BY <3>1 DEF Fits
    <3>5. TokensAt(s, K) = TokensAt(s, K \ {m}) + s[m].tok
      <4> HIDE DEF m
      <4> QED BY <3>1, TokensAdd DEF m
    <3> QED BY <3>3, <3>4, <3>5
  <2> QED BY <2>1, <2>2
<1>4. ASSUME NEW x \in Elements(s) \ Elements(t)
      PROVE  TokensOf(Where(t, LAMBDA y : y \in OverIn(s, x))) + x.tok > Available
  <2>1. PICK i \in DOMAIN s : s[i] = x
    BY <1>4 DEF Elements
  <2>2. i \notin K
    BY <1>1, <1>4, <2>1 DEF Elements
  <2> DEFINE C == {j \in K : j < i}
             Q == {n \in DOMAIN t : t[n] \in OverIn(s, x)}
             R == {n \in DOMAIN t : at[n] \in C}
  <2>3. ~(TokensAt(s, C) + x.tok <= Available)
    BY <2>1, <2>2 DEF Fits
  <2>4. TokensAt(t, R) = TokensAt(s, C)
    <3>1. C \in SUBSET K
      OBVIOUS
    <3> HIDE DEF C
    <3> QED BY <1>2, <3>1
  <2>5. R \subseteq Q
    <3> SUFFICES ASSUME NEW n \in 1..N, at[n] \in C PROVE t[n] \in OverIn(s, x)
      BY <1>1
    <3>1. at[n] \in DOMAIN s /\ at[n] < i /\ t[n] = s[at[n]]
      BY <1>1
    <3> QED BY <2>1, <3>1 DEF OverIn, Elements
  <2>6. Where(t, LAMBDA y : y \in OverIn(s, x)) = Pick(t, Q)
    BY DEF Where
  <2>7. Q \in SUBSET DOMAIN t /\ R \in SUBSET Q
    BY <2>5
  <2> HIDE DEF C, Q, R
  <2>8. TokensOf(Pick(t, Q)) = TokensAt(t, Q)
    BY <1>1, <2>7, TokensPicked
  <2>9. TokensAt(t, R) \in Nat /\ TokensAt(t, Q) \in Nat /\ TokensAt(t, R) <= TokensAt(t, Q)
    BY <1>1, <2>7, TokensGrow
  <2>10. x.tok \in Nat
    BY <1>12, <2>1, ItemFacts
  <2> QED BY <2>3, <2>4, <2>6, <2>8, <2>9, <2>10
<1> QED BY <1>1, <1>2, <1>3, <1>4 DEF t
-----------------------------------------------------------------------------
(* Products, and fractions compared by cross-multiplication. *)

LEMMA ProductGrows ==
  ASSUME NEW a \in Nat, NEW b \in Nat, NEW c \in Nat
  PROVE  /\ a * c \in Nat /\ (a <= b => a * c <= b * c) /\ (a < b /\ c > 0 => a * c < b * c)
OBVIOUS

LEMMA ProductCancels ==
  ASSUME NEW a \in Nat, NEW b \in Nat, NEW c \in Nat, c > 0
  PROVE  /\ a * c <= b * c => a <= b
         /\ a * c < b * c => a < b
OBVIOUS

LEMMA FractionsOrdered ==
  ASSUME NEW a \in Nat, NEW b \in Nat, NEW c \in Nat,
         NEW p \in Nat \ {0}, NEW q \in Nat \ {0}, NEW r \in Nat \ {0}
  PROVE  /\ a * q > b * p /\ b * r > c * q => a * r > c * p
         /\ a * r > c * p => a * q > b * p \/ b * r > c * q
<1>1. /\ a * q \in Nat /\ b * p \in Nat /\ b * r \in Nat /\ c * q \in Nat /\ a * r \in Nat
      /\ c * p \in Nat
  OBVIOUS
<1>2. (a * q) * r = (a * r) * q /\ (b * p) * r = (b * r) * p /\ (c * q) * p = (c * p) * q
  OBVIOUS
<1>3. ASSUME a * q > b * p, b * r > c * q PROVE a * r > c * p
  <2>1. (b * p) * r < (a * q) * r
    BY <1>1, <1>3, ProductGrows
  <2>2. (c * q) * p < (b * r) * p
    BY <1>1, <1>3, ProductGrows
  <2>3. (c * p) * q < (a * r) * q
    BY <1>1, <1>2, <2>1, <2>2
  <2> QED BY <1>1, <2>3, ProductCancels
<1>4. ASSUME a * q <= b * p, b * r <= c * q PROVE a * r <= c * p
  <2>1. (a * q) * r <= (b * p) * r
    BY <1>1, <1>4, ProductGrows
  <2>2. (b * r) * p <= (c * q) * p
    BY <1>1, <1>4, ProductGrows
  <2>3. (a * r) * q <= (c * p) * q
    BY <1>1, <1>2, <2>1, <2>2
  <2> QED BY <1>1, <2>3, ProductCancels
<1> QED BY <1>1, <1>3, <1>4

-----------------------------------------------------------------------------
(* What the lists of Retrieval and Assembly are made of. *)

LEMMA FirstOfFacts ==
  ASSUME NEW T, NEW s \in Seq(T), NEW n \in Nat
  PROVE  /\ FirstOf(s, n) \in Seq(T) /\ Len(FirstOf(s, n)) = Smaller(n, Len(s))
         /\ Smaller(n, Len(s)) \in 0..Len(s) /\ Len(s) \in Nat
         /\ DOMAIN FirstOf(s, n) = 1..Smaller(n, Len(s))
         /\ \A i \in 1..Smaller(n, Len(s)) : FirstOf(s, n)[i] = s[i]
<1> DEFINE m == Smaller(n, Len(s))
<1>1. Len(s) \in Nat /\ \A i \in 1..Len(s) : s[i] \in T
  BY Positions
<1>2. m \in 0..Len(s)
  BY <1>1 DEF Smaller
<1> HIDE DEF m
<1>3. \A i \in 1..m : s[i] \in T
  BY <1>1, <1>2
<1>4. /\ SubSeq(s, 1, m) \in Seq(T)
      /\ Len(SubSeq(s, 1, m)) = IF 1 <= m THEN m - 1 + 1 ELSE 0
      /\ \A i \in 1..m - 1 + 1 : SubSeq(s, 1, m)[i] = s[1 + i - 1]
  <2>1. m \in Int /\ 1 \in Int
    BY <1>1, <1>2
  <2> QED BY <1>3, <2>1, SubSeqProperties
<1>5. Len(SubSeq(s, 1, m)) = m
  BY <1>1, <1>2, <1>4
<1>6. \A i \in 1..m : SubSeq(s, 1, m)[i] = s[i]
  <2> TAKE i \in 1..m
  <2>1. i \in 1..m - 1 + 1 /\ 1 + i - 1 = i
    BY <1>1, <1>2
  <2> QED BY <1>4, <2>1
<1>7. DOMAIN SubSeq(s, 1, m) = 1..m
  BY <1>4, <1>5, LenProperties
<1> QED BY <1>1, <1>2, <1>4, <1>5, <1>6, <1>7 DEF FirstOf, m

LEMMA KeyOrder ==
  ASSUME NEW D, NEW beats, NEW key, \A i \in D : key[i] \in Int,
         \A i, j \in D : <<i, j>> \in beats <=> key[i] > key[j]
  PROVE  WeakOrder(D, beats)
BY DEF WeakOrder

LEMMA SimilarityType ==
  ASSUME NEW x \in Item
  PROVE  Similarity(x) \in Int /\ Relevance(x) \in Int /\ Score(x) \in Int
<1>1. Reach \in Int
  BY RetrievalAssumption
<1>2. Similarity(x) \in Int
  BY <1>1, ItemFacts DEF Similarity
<1>3. Relevance(x) \in Int
  BY <1>2, ItemFacts DEF Relevance
<1> QED BY <1>2, <1>3, ItemFacts DEF Score

LEMMA SortByFacts ==
  ASSUME NEW T, NEW s \in Seq(T), NEW key \in [DOMAIN s -> Int], NEW beats,
         \A i, j \in DOMAIN s : <<i, j>> \in beats <=> key[i] > key[j]
  PROVE  LET t  == SortedBy(s, beats)
             at == InOrder(DOMAIN s, Stable(s, beats))
         IN  /\ t \in Seq(T) /\ Len(t) = Len(s) /\ DOMAIN t = DOMAIN s /\ DOMAIN s = 1..Len(s)
             /\ Len(s) \in Nat
             /\ at \in [DOMAIN s -> DOMAIN s] /\ \A n \in DOMAIN s : t[n] = s[at[n]]
             /\ \A i \in DOMAIN s : \E n \in DOMAIN s : at[n] = i
             /\ \A m, n \in DOMAIN s : at[m] = at[n] => m = n
             /\ \A m, n \in DOMAIN s : m < n => key[at[m]] >= key[at[n]]
<1> DEFINE D == DOMAIN s
           t  == SortedBy(s, beats)
           at == InOrder(D, Stable(s, beats))
<1>1. WeakOrder(D, beats)
  BY KeyOrder
<1>2. /\ t \in Seq(T) /\ Len(t) = Len(s) /\ DOMAIN t = D /\ D = 1..Len(s)
      /\ Len(s) \in Nat
      /\ at \in [D -> D] /\ \A n \in D : t[n] = s[at[n]]
      /\ \A i \in D : \E n \in D : at[n] = i
      /\ \A m, n \in D : at[m] = at[n] => m = n
      /\ \A m, n \in D : <<at[m], at[n]>> \in beats => m < n
  BY <1>1, SortFacts
<1>3. \A i \in D : key[i] \in Int
  OBVIOUS
<1>4. \A i, j \in D : <<i, j>> \in beats <=> key[i] > key[j]
  OBVIOUS
<1> HIDE DEF D, t, at
<1>5. \A m, n \in D : m < n => key[at[m]] >= key[at[n]]
  <2> TAKE m, n \in D
  <2>1. at[m] \in D /\ at[n] \in D /\ m \in Nat /\ n \in Nat
    <3>1. at \in [D -> D]
      BY <1>2
    <3>2. D = 1..Len(s) /\ Len(s) \in Nat
      BY <1>2
    <3>3. at[m] \in D /\ at[n] \in D
      BY <3>1
    <3>4. m \in Nat /\ n \in Nat
      BY <3>2
    <3> QED BY <3>3, <3>4
  <2>2. key[at[m]] \in Int /\ key[at[n]] \in Int
    BY <1>3, <2>1
  <2>3. key[at[n]] > key[at[m]] => n < m
    BY <1>2, <1>4, <2>1
  <2> QED BY <2>1, <2>2, <2>3
<1> QED BY <1>2, <1>5 DEF D, t, at

\* Sorted by a score of the items.
LEMMA RankingFacts ==
  ASSUME NEW s \in Seq(Item)
  PROVE  /\ Sorted(s, Closer) \in Seq(Item)
         /\ Sorted(s, MoreRelevant) \in Seq(Item)
         /\ Sorted(s, ScoresHigher) \in Seq(Item)
         /\ \A i, j \in DOMAIN Sorted(s, ScoresHigher) : i < j =>
              Score(Sorted(s, ScoresHigher)[i]) >= Score(Sorted(s, ScoresHigher)[j])
<1>1. \A i \in DOMAIN s : Similarity(s[i]) \in Int /\ Relevance(s[i]) \in Int /\ Score(s[i]) \in Int
  <2> TAKE i \in DOMAIN s
  <2>1. s[i] \in Item
    BY Positions
  <2> QED BY <2>1, SimilarityType
<1>2. Sorted(s, Closer) \in Seq(Item)
  <2> DEFINE key == [i \in DOMAIN s |-> Similarity(s[i])]
             beats == {p \in (DOMAIN s) \X (DOMAIN s) : Closer(s[p[1]], s[p[2]])}
  <2>1. key \in [DOMAIN s -> Int] /\ \A i, j \in DOMAIN s : <<i, j>> \in beats <=> key[i] > key[j]
    BY <1>1 DEF Closer
  <2>2. Sorted(s, Closer) = SortedBy(s, beats)
    BY DEF Sorted
  <2> HIDE DEF key, beats
  <2> QED BY <2>1, <2>2, SortByFacts
<1>3. Sorted(s, MoreRelevant) \in Seq(Item)
  <2> DEFINE key == [i \in DOMAIN s |-> Relevance(s[i])]
             beats == {p \in (DOMAIN s) \X (DOMAIN s) : MoreRelevant(s[p[1]], s[p[2]])}
  <2>1. key \in [DOMAIN s -> Int] /\ \A i, j \in DOMAIN s : <<i, j>> \in beats <=> key[i] > key[j]
    BY <1>1 DEF MoreRelevant
  <2>2. Sorted(s, MoreRelevant) = SortedBy(s, beats)
    BY DEF Sorted
  <2> HIDE DEF key, beats
  <2> QED BY <2>1, <2>2, SortByFacts
<1>4. LET t == Sorted(s, ScoresHigher)
      IN  t \in Seq(Item) /\ \A i, j \in DOMAIN t : i < j => Score(t[i]) >= Score(t[j])
  <2> DEFINE key == [i \in DOMAIN s |-> Score(s[i])]
             beats == {p \in (DOMAIN s) \X (DOMAIN s) : ScoresHigher(s[p[1]], s[p[2]])}
             t == SortedBy(s, beats)
             at == InOrder(DOMAIN s, Stable(s, beats))
  <2>1. key \in [DOMAIN s -> Int] /\ \A i, j \in DOMAIN s : <<i, j>> \in beats <=> key[i] > key[j]
    BY <1>1 DEF ScoresHigher
  <2>2. Sorted(s, ScoresHigher) = t
    BY DEF Sorted
  <2>3. \A i \in DOMAIN s : key[i] = Score(s[i])
    OBVIOUS
  <2> HIDE DEF key, beats
  <2>4. /\ t \in Seq(Item) /\ DOMAIN t = DOMAIN s
        /\ at \in [DOMAIN s -> DOMAIN s] /\ \A n \in DOMAIN s : t[n] = s[at[n]]
        /\ \A m, n \in DOMAIN s : m < n => key[at[m]] >= key[at[n]]
    <3>1. key \in [DOMAIN s -> Int]
      BY <2>1
    <3>2. \A i, j \in DOMAIN s : <<i, j>> \in beats <=> key[i] > key[j]
      BY <2>1
    <3>3. /\ SortedBy(s, beats) \in Seq(Item) /\ DOMAIN SortedBy(s, beats) = DOMAIN s
      BY <3>1, <3>2, SortByFacts
    <3>4. \A n \in DOMAIN s : t[n] = s[at[n]]
      BY <3>1, <3>2, SortByFacts
    <3>5. at \in [DOMAIN s -> DOMAIN s]
      BY <3>1, <3>2, SortByFacts
    <3>6. \A m, n \in DOMAIN s : m < n => key[at[m]] >= key[at[n]]
      BY <3>1, <3>2, SortByFacts
    <3> QED BY <3>3, <3>4, <3>5, <3>6
  <2> HIDE DEF t, at
  <2>5. \A i, j \in DOMAIN t : i < j => Score(t[i]) >= Score(t[j])
    BY <2>3, <2>4
  <2> QED BY <2>2, <2>4, <2>5
<1> QED BY <1>2, <1>3, <1>4
-----------------------------------------------------------------------------
(* The two channels *)

ReadableAt(ranking) == {i \in DOMAIN ranking : Readable(ranking[i])}

LEMMA HitsFacts ==
  ASSUME NEW ranking \in Seq(Row)
  PROVE  LET P == ReadableAt(ranking)
             N == Smaller(RecallK, Cardinality(P))
         IN  /\ HitsIn(ranking) \in Seq(Item) /\ Len(HitsIn(ranking)) = N
             /\ DOMAIN HitsIn(ranking) = 1..N /\ N \in 0..RecallK /\ N <= Cardinality(P)
             /\ Places(P) \in [1..Cardinality(P) -> P] /\ Cardinality(P) \in Nat
             /\ \A n \in 1..N : HitsIn(ranking)[n] = ranking[Places(P)[n]].item
<1> DEFINE P  == ReadableAt(ranking)
           C  == Cardinality(P)
           at == Places(P)
           t  == Pick(ranking, P)
           N  == Smaller(RecallK, C)
           found == FirstOf(t, RecallK)
<1>1. P \in SUBSET DOMAIN ranking /\ RecallK \in Nat
  BY RetrievalAssumption DEF ReadableAt
<1>2. /\ t \in Seq(Row) /\ Len(t) = C /\ DOMAIN t = 1..C /\ C \in 0..Len(ranking)
      /\ at \in [1..C -> P] /\ \A n \in 1..C : t[n] = ranking[at[n]]
  <2> HIDE DEF P
  <2> QED BY <1>1, PickFacts
<1>3. C \in Nat /\ N \in 0..C /\ N <= RecallK /\ N \in Nat
  <2>1. Len(ranking) \in Nat
    BY LenProperties
  <2> HIDE DEF C
  <2> QED BY <1>1, <1>2, <2>1 DEF Smaller
<1>4. Where(ranking, Readable) = t
  BY DEF Where, ReadableAt
<1> HIDE DEF P, C, at, t
<1>5. /\ found \in Seq(Row) /\ Len(found) = N /\ DOMAIN found = 1..N
      /\ \A n \in 1..N : found[n] = t[n]
  BY <1>1, <1>2, FirstOfFacts
<1>6. HitsIn(ranking) = [n \in DOMAIN found |-> found[n].item]
  BY <1>4 DEF HitsIn
<1> HIDE DEF found, N
<1>7. \A n \in 1..N : found[n] \in Row /\ found[n].item \in Item
  <2> TAKE n \in 1..N
  <2>1. found[n] \in Row
    BY <1>5, Positions
  <2> QED BY <2>1 DEF Row
<1>8. HitsIn(ranking) \in [1..N -> Item] /\ \A n \in 1..N : HitsIn(ranking)[n] = found[n].item
  BY <1>5, <1>6, <1>7
<1>9. HitsIn(ranking) \in Seq(Item) /\ DOMAIN HitsIn(ranking) = 1..N
  <2>1. HitsIn(ranking) = [n \in 1..N |-> found[n].item]
    BY <1>5, <1>6
  <2>2. [n \in 1..N |-> found[n].item] \in Seq(Item)
    BY <1>3, <1>7, IsASeq
  <2> QED BY <1>8, <2>1, <2>2
<1>10. Len(HitsIn(ranking)) = N
  BY <1>3, <1>9, LenProperties
<1>11. \A n \in 1..N : n \in 1..C
  BY <1>3
<1>12. \A n \in 1..N : HitsIn(ranking)[n] = ranking[at[n]].item
  BY <1>2, <1>5, <1>8, <1>11
<1> QED BY <1>2, <1>3, <1>9, <1>10, <1>12 DEF P, C, at, N

\* The first page of a ranking answers like the whole of it, when it is full or the whole.
LEMMA PageFacts ==
  ASSUME NEW ranking \in Seq(Row), NEW f \in Nat,
         Len(HitsIn(FirstOf(ranking, f))) >= RecallK \/ f >= Len(ranking)
  PROVE  HitsIn(FirstOf(ranking, f)) = HitsIn(ranking)
<1> DEFINE page == FirstOf(ranking, f)
           m  == Smaller(f, Len(ranking))
           P  == ReadableAt(ranking)
           Q  == ReadableAt(page)
           C  == Cardinality(P)
           D  == Cardinality(Q)
           M  == Smaller(RecallK, C)
           N  == Smaller(RecallK, D)
<1>1. /\ page \in Seq(Row) /\ m \in 0..Len(ranking) /\ Len(ranking) \in Nat
      /\ DOMAIN page = 1..m /\ \A i \in 1..m : page[i] = ranking[i]
      /\ DOMAIN ranking = 1..Len(ranking)
  BY FirstOfFacts, Positions
<1>2. f >= Len(ranking) => m = Len(ranking)
  <2>1. Len(ranking) \in Nat
    BY LenProperties
  <2> QED BY <2>1 DEF Smaller
<1> HIDE DEF page, m
<1>3. Q = {i \in P : i <= m} /\ P \in SUBSET (1..Len(ranking))
  <2>1. \A i : i \in P <=> i \in 1..Len(ranking) /\ Readable(ranking[i])
    BY <1>1 DEF ReadableAt
  <2>2. \A i : i \in Q <=> i \in 1..m /\ Readable(page[i])
    BY <1>1 DEF ReadableAt
  <2>3. \A i : i \in 1..m <=> i \in 1..Len(ranking) /\ i <= m
    BY <1>1
  <2> HIDE DEF P, Q
  <2>4. \A i : i \in Q <=> i \in P /\ i <= m
    BY <1>1, <2>1, <2>2, <2>3
  <2> QED BY <2>1, <2>4
<1>4. /\ HitsIn(ranking) \in Seq(Item) /\ Len(HitsIn(ranking)) = M
      /\ \A n \in 1..M : HitsIn(ranking)[n] = ranking[Places(P)[n]].item
  BY HitsFacts
<1>5. /\ HitsIn(page) \in Seq(Item) /\ Len(HitsIn(page)) = N
      /\ \A n \in 1..N : HitsIn(page)[n] = page[Places(Q)[n]].item
  BY <1>1, HitsFacts
<1>6. Len(HitsIn(page)) >= RecallK \/ f >= Len(ranking)
  BY DEF page
<1> HIDE DEF P, Q
<1>7. /\ IsFiniteSet(P) /\ P \in SUBSET Nat /\ IsFiniteSet(Q) /\ Q \in SUBSET Nat
      /\ D <= C /\ C \in Nat /\ D \in Nat
  <2>1. IsFiniteSet(1..Len(ranking)) /\ 1..Len(ranking) \in SUBSET Nat
    BY <1>1, FS_Interval
  <2>2. IsFiniteSet(P) /\ Q \in SUBSET P
    BY <1>3, <2>1, FS_Subset
  <2>3. IsFiniteSet(Q) /\ D <= C
    BY <2>2, FS_Subset
  <2> QED BY <1>3, <2>1, <2>2, <2>3, FS_CardinalityType
<1>8. /\ Places(P) \in [1..C -> P]
      /\ \A n \in 1..C, i \in P : Places(P)[n] = i <=> Cardinality({j \in P : j < i}) = n - 1
  BY <1>7, PlacesFacts
<1>9. /\ Places(Q) \in [1..D -> Q]
      /\ \A n \in 1..D, i \in Q : Places(Q)[n] = i <=> Cardinality({j \in Q : j < i}) = n - 1
  BY <1>7, PlacesFacts
<1> HIDE DEF C, D
<1>10. \A n \in 1..D : Places(P)[n] = Places(Q)[n] /\ Places(Q)[n] \in Q
  <2> TAKE n \in 1..D
  <2> DEFINE i == Places(Q)[n]
  <2>1. i \in Q /\ i \in P /\ i <= m /\ n \in 1..C
    BY <1>3, <1>7, <1>9
  <2>2. {j \in Q : j < i} = {j \in P : j < i}
    <3>0. m \in 0..Len(ranking) /\ Len(ranking) \in Nat
      BY <1>1
    <3>1. i \in Nat /\ m \in Nat /\ P \in SUBSET Nat
      <4>1. P \in SUBSET Nat
        BY <1>7
      <4>2. m \in Nat
        BY <3>0
      <4> HIDE DEF i
      <4> QED BY <2>1, <4>1, <4>2
    <3>2. \A j \in P : j < i => j <= m
      BY <2>1, <3>1
    <3> HIDE DEF i
    <3> QED BY <1>3, <3>2
  <2>3. Cardinality({j \in Q : j < i}) = n - 1
    BY <1>9, <2>1
  <2> HIDE DEF i
  <2>4. Places(P)[n] = i
    BY <1>8, <2>1, <2>2, <2>3
  <2> QED BY <2>1, <2>4 DEF i
<1>11. RecallK \in Nat
  BY RetrievalAssumption
<1>12. M = N /\ M <= D
  <2>1. CASE N >= RecallK
    BY <1>7, <1>11, <2>1 DEF Smaller
  <2>2. CASE f >= Len(ranking)
    <3>0. m = Len(ranking) /\ Len(ranking) \in Nat
      BY <1>1, <1>2, <2>2
    <3>4. \A i \in P : i \in 1..Len(ranking)
      BY <1>3
    <3>5. \A i \in P : i <= m
      BY <3>0, <3>4
    <3>1. Q = P
      BY <1>3, <3>5
    <3> QED BY <1>7, <1>11, <3>1 DEF Smaller, C, D
  <2> QED BY <1>5, <1>6, <2>1, <2>2
<1>13. M \in Nat
  BY <1>7, <1>11 DEF Smaller
<1> HIDE DEF M, N
<1>14. \A n \in 1..M : HitsIn(page)[n] = HitsIn(ranking)[n]
  <2> TAKE n \in 1..M
  <2>1. n \in 1..D /\ n \in 1..N
    BY <1>7, <1>12, <1>13
  <2>2. Places(P)[n] = Places(Q)[n] /\ Places(Q)[n] \in Q
    BY <1>10, <2>1
  <2>5. m \in Nat /\ P \in SUBSET Nat /\ Places(Q)[n] \in 1..Len(ranking) /\ Places(Q)[n] <= m
    <3>1. m \in 0..Len(ranking) /\ Len(ranking) \in Nat
      BY <1>1
    <3> QED BY <1>3, <1>7, <2>2, <3>1
  <2>3. Places(Q)[n] \in 1..m
    BY <2>5
  <2>4. page[Places(Q)[n]] = ranking[Places(Q)[n]]
    BY <1>1, <2>3
  <2> QED BY <1>4, <1>5, <2>1, <2>2, <2>4
<1>15. HitsIn(page) = HitsIn(ranking)
  BY <1>4, <1>5, <1>12, <1>14, SeqEqual
<1> QED BY <1>15 DEF page

\* MayRead says what _authorized decides.
LEMMA IdealFacts ==
  ASSUME NEW ranking \in Seq(Row), query \in Query
  PROVE  HitsIn(ranking) = Ideal(ranking)
<1>1. \A i \in DOMAIN ranking :
        LET r == ranking[i]
        IN  r.live /\ MayRead(r.item) /\ Matches(r.item) <=> Readable(r)
  <2> TAKE i \in DOMAIN ranking
  <2> QED BY DEF Readable, Authorized, MayRead
<1> DEFINE P == {i \in DOMAIN ranking : Readable(ranking[i])}
           Q == {i \in DOMAIN ranking : ranking[i].live /\ MayRead(ranking[i].item)
                                          /\ Matches(ranking[i].item)}
<1>2. P = Q
  BY <1>1
<1>3. HitsIn(ranking) = LET found == FirstOf(Pick(ranking, P), RecallK)
                        IN  [i \in DOMAIN found |-> found[i].item]
  BY DEF HitsIn, Where
<1>4. Ideal(ranking) = LET found == FirstOf(Pick(ranking, Q), RecallK)
                       IN  [i \in DOMAIN found |-> found[i].item]
  BY DEF Ideal, Where
<1> HIDE DEF P, Q
<1> QED BY <1>2, <1>3, <1>4
LEMMA RankingTypes ==
  ASSUME rows \in Seq(Row)
  PROVE  /\ NearestFirst \in Seq(Row) /\ Len(NearestFirst) = Len(rows)
         /\ LiveRows \in Seq(Row) /\ Len(LiveRows) \in 0..Len(rows)
         /\ BestMatchFirst \in Seq(Row) /\ Len(BestMatchFirst) \in 0..Len(LiveRows)
<1>1. /\ Len(rows) \in Nat /\ DOMAIN rows = 1..Len(rows) /\ IsFiniteSet(DOMAIN rows)
      /\ \A i \in DOMAIN rows : rows[i] \in Row
  BY Positions
<1>2. NearestFirst \in Seq(Row) /\ Len(NearestFirst) = Len(rows)
  <2> DEFINE key == [i \in DOMAIN rows |-> Similarity(rows[i].item)]
             beats == {p \in (DOMAIN rows) \X (DOMAIN rows) :
                         Closer(rows[p[1]].item, rows[p[2]].item)}
  <2>1. \A i \in DOMAIN rows : Similarity(rows[i].item) \in Int
    <3> TAKE i \in DOMAIN rows
    <3>1. rows[i].item \in Item
      BY <1>1 DEF Row
    <3> QED BY <3>1, SimilarityType
  <2>2. key \in [DOMAIN rows -> Int]
    BY <2>1
  <2>3. \A i, j \in DOMAIN rows : <<i, j>> \in beats <=> key[i] > key[j]
    BY DEF Closer
  <2>4. NearestFirst = SortedBy(rows, beats)
    BY DEF NearestFirst, Sorted
  <2> HIDE DEF key, beats
  <2> QED BY <2>2, <2>3, <2>4, SortByFacts
<1> DEFINE A == {i \in DOMAIN rows : rows[i].live}
           B == {i \in DOMAIN rows : rows[i].live /\ rows[i].item.lex > 0}
           s == Pick(rows, B)
<1>3. LiveRows = Pick(rows, A) /\ A \in SUBSET DOMAIN rows
  BY DEF LiveRows, Where
<1>4. Where(rows, LAMBDA r : r.live /\ r.item.lex > 0) = s /\ B \in SUBSET A
  BY DEF Where
<1> HIDE DEF A, B
<1>5. LiveRows \in Seq(Row) /\ Len(LiveRows) = Cardinality(A) /\ Len(LiveRows) \in 0..Len(rows)
  BY <1>3, PickFacts
<1>6. s \in Seq(Row) /\ Len(s) = Cardinality(B)
  BY <1>3, <1>4, PickFacts
<1>7. Cardinality(B) <= Cardinality(A) /\ Cardinality(B) \in Nat
  BY <1>1, <1>3, <1>4, FS_Subset, FS_CardinalityType
<1> HIDE DEF s
<1>8. BestMatchFirst \in Seq(Row) /\ Len(BestMatchFirst) = Len(s)
  <2> DEFINE key == [i \in DOMAIN s |-> s[i].item.lex]
             beats == {p \in (DOMAIN s) \X (DOMAIN s) : s[p[1]].item.lex > s[p[2]].item.lex}
  <2>1. \A i \in DOMAIN s : s[i].item.lex \in Int
    <3> TAKE i \in DOMAIN s
    <3>1. s[i] \in Row
      BY <1>6, Positions
    <3> QED BY <3>1, ItemFacts DEF Row
  <2>2. key \in [DOMAIN s -> Int]
    BY <2>1
  <2>3. \A i, j \in DOMAIN s : <<i, j>> \in beats <=> key[i] > key[j]
    OBVIOUS
  <2>4. BestMatchFirst = SortedBy(s, beats)
    BY <1>4 DEF BestMatchFirst, Sorted
  <2> HIDE DEF key, beats
  <2>5. s \in Seq(Row)
    BY <1>6
  <2>6. SortedBy(s, beats) \in Seq(Row) /\ Len(SortedBy(s, beats)) = Len(s)
    BY <2>2, <2>3, <2>5, SortByFacts
  <2> QED BY <2>4, <2>6
<1> QED BY <1>1, <1>2, <1>5, <1>6, <1>7, <1>8

-----------------------------------------------------------------------------
(* Fusion *)

LEMMA PlaceFacts ==
  ASSUME NEW channel \in Seq(Item), NEW x
  PROVE  /\ Place(channel, x) \in 0..Len(channel) /\ Place(channel, x) \in Nat
         /\ Place(channel, x) > 0 =>
              Place(channel, x) \in DOMAIN channel /\ channel[Place(channel, x)].id = x.id
         /\ Place(channel, x) = 0 => \A i \in DOMAIN channel : channel[i].id # x.id
<1>1. Len(channel) \in Nat /\ DOMAIN channel = 1..Len(channel)
  BY LenProperties
<1>2. CASE \E i \in DOMAIN channel : channel[i].id = x.id
  <2>1. Place(channel, x) \in DOMAIN channel /\ channel[Place(channel, x)].id = x.id
    BY <1>2 DEF Place
  <2> QED BY <1>1, <2>1
<1>3. CASE ~\E i \in DOMAIN channel : channel[i].id = x.id
  <2>1. Place(channel, x) = 0
    BY <1>3 DEF Place
  <2> QED BY <1>1, <1>3, <2>1
<1> QED BY <1>2, <1>3

HitsOK == vecHits \in Seq(Item) /\ lexHits \in Seq(Item)

FusedAt == {i \in DOMAIN lexHits : Place(vecHits, lexHits[i]) = 0}

LEMMA FusedFacts ==
  ASSUME HitsOK
  PROVE  /\ FusedItems \in Seq(Item) /\ Pick(lexHits, FusedAt) \in Seq(Item)
         /\ FusedAt \in SUBSET DOMAIN lexHits
         /\ FusedItems = vecHits \o Pick(lexHits, FusedAt)
         /\ Len(FusedItems) = Len(vecHits) + Len(Pick(lexHits, FusedAt))
         /\ \A i \in DOMAIN FusedItems :
              \/ i \in DOMAIN vecHits /\ FusedItems[i] = vecHits[i]
              \/ /\ i - Len(vecHits) \in 1..Cardinality(FusedAt) /\ i \notin DOMAIN vecHits
                 /\ Places(FusedAt)[i - Len(vecHits)] \in FusedAt
                 /\ FusedItems[i] = lexHits[Places(FusedAt)[i - Len(vecHits)]]
         /\ \A i \in DOMAIN FusedItems : FusedItems[i] \in Item /\ Place(vecHits, FusedItems[i]) + Place(lexHits, FusedItems[i]) > 0
<1> DEFINE R == FusedAt
           C == Cardinality(R)
           t == Pick(lexHits, R)
           at == Places(R)
           m == Len(vecHits)
<1>1. vecHits \in Seq(Item) /\ lexHits \in Seq(Item) /\ R \in SUBSET DOMAIN lexHits
  BY DEF HitsOK, FusedAt
<1> HIDE DEF R
<1>2. /\ t \in Seq(Item) /\ Len(t) = C /\ DOMAIN t = 1..C /\ C \in 0..Len(lexHits)
      /\ at \in [1..C -> R] /\ \A n \in 1..C : t[n] = lexHits[at[n]]
  BY <1>1, PickFacts
<1>3. FusedItems = vecHits \o t
  BY DEF FusedItems, Where, FusedAt, R
<1>4. m \in Nat /\ DOMAIN vecHits = 1..m /\ Len(lexHits) \in Nat /\ DOMAIN lexHits = 1..Len(lexHits)
  BY <1>1, LenProperties
<1>5. C \in Nat
  <2>1. Len(lexHits) \in Nat /\ C \in 0..Len(lexHits)
    BY <1>2, <1>4
  <2> HIDE DEF C
  <2> QED BY <2>1
<1> HIDE DEF t, at, C, m
<1>6. /\ FusedItems \in Seq(Item) /\ Len(FusedItems) = m + C
      /\ \A i \in 1..m + C : FusedItems[i] = IF i <= m THEN vecHits[i] ELSE t[i - m]
  BY <1>1, <1>2, <1>3, ConcatProperties DEF m
<1>7. DOMAIN FusedItems = 1..m + C /\ \A i \in 1..m + C : FusedItems[i] \in Item
  BY <1>6, Positions
<1>8. ASSUME NEW i \in DOMAIN FusedItems
      PROVE  \/ i \in DOMAIN vecHits /\ FusedItems[i] = vecHits[i]
             \/ /\ i - m \in 1..C /\ at[i - m] \in R /\ FusedItems[i] = lexHits[at[i - m]]
                /\ i \notin DOMAIN vecHits
  <2>1. i \in 1..m + C
    BY <1>7
  <2>2. CASE i <= m
    <3>1. i \in 1..m
      BY <1>4, <1>5, <2>1, <2>2
    <3> QED BY <1>4, <1>6, <2>1, <2>2, <3>1
  <2>3. CASE ~(i <= m)
    <3>1. i - m \in 1..C /\ i \notin 1..m
      BY <1>4, <1>5, <2>1, <2>3
    <3>2. FusedItems[i] = t[i - m]
      BY <1>6, <2>1, <2>3
    <3>3. at[i - m] \in R /\ t[i - m] = lexHits[at[i - m]]
      BY <1>2, <3>1
    <3> QED BY <1>4, <3>1, <3>2, <3>3
  <2> QED BY <2>2, <2>3
<1>9. ASSUME NEW i \in DOMAIN FusedItems
      PROVE  Place(vecHits, FusedItems[i]) + Place(lexHits, FusedItems[i]) > 0
  <2> DEFINE x == FusedItems[i]
             v == Place(vecHits, x)
             l == Place(lexHits, x)
  <2>1. /\ v \in Nat /\ l \in Nat
        /\ v = 0 => \A j \in DOMAIN vecHits : vecHits[j].id # x.id
        /\ l = 0 => \A j \in DOMAIN lexHits : lexHits[j].id # x.id
    BY <1>1, PlaceFacts
  <2>2. (\E j \in DOMAIN vecHits : vecHits[j] = x) \/ \E j \in DOMAIN lexHits : lexHits[j] = x
    BY <1>1, <1>8
  <2> HIDE DEF x, v, l
  <2>3. v # 0 \/ l # 0
    BY <2>1, <2>2
  <2>4. v + l > 0
    BY <2>1, <2>3
  <2> QED BY <2>4 DEF x, v, l
<1> QED BY <1>1, <1>2, <1>3, <1>6, <1>7, <1>8, <1>9 DEF R, t, at, C, m

LEMMA RrfFacts ==
  ASSUME HitsOK, NEW x, Place(vecHits, x) + Place(lexHits, x) > 0
  PROVE  Rrf(x).num \in Nat /\ Rrf(x).den \in Nat \ {0}
<1> DEFINE v == Place(vecHits, x)
           l == Place(lexHits, x)
<1>1. v \in Nat /\ l \in Nat /\ RrfK \in Nat /\ v + l > 0
  BY PlaceFacts, RetrievalAssumption DEF HitsOK
<1>2. Rrf(x) = CASE l = 0 -> [num |-> 1, den |-> RrfK + v]
                 [] v = 0 -> [num |-> 1, den |-> RrfK + l]
                 [] OTHER -> [num |-> 2 * RrfK + v + l, den |-> (RrfK + v) * (RrfK + l)]
  BY DEF Rrf
<1> HIDE DEF v, l
<1>3. CASE l = 0
  BY <1>1, <1>2, <1>3
<1>4. CASE l # 0 /\ v = 0
  BY <1>1, <1>2, <1>4
<1>5. CASE l # 0 /\ v # 0
  <2>1. Rrf(x) = [num |-> 2 * RrfK + v + l, den |-> (RrfK + v) * (RrfK + l)]
    BY <1>2, <1>5
  <2>2. RrfK + v \in Nat /\ RrfK + l \in Nat /\ RrfK + v > 0 /\ RrfK + l > 0
    BY <1>1, <1>5
  <2>3. 0 * (RrfK + l) < (RrfK + v) * (RrfK + l)
    BY <2>2, ProductGrows
  <2>4. (RrfK + v) * (RrfK + l) \in Nat /\ 0 * (RrfK + l) = 0 /\ 2 * RrfK + v + l \in Nat
    BY <1>1, <2>2
  <2> QED BY <2>1, <2>3, <2>4
<1> QED BY <1>3, <1>4, <1>5

LEMMA FusedOrder ==
  ASSUME HitsOK
  PROVE  WeakOrder(DOMAIN FusedItems,
                   {p \in (DOMAIN FusedItems) \X (DOMAIN FusedItems) :
                      Outscores(FusedItems[p[1]], FusedItems[p[2]])})
<1> DEFINE D == DOMAIN FusedItems
           n == [i \in D |-> Rrf(FusedItems[i]).num]
           d == [i \in D |-> Rrf(FusedItems[i]).den]
           beats == {p \in D \X D : Outscores(FusedItems[p[1]], FusedItems[p[2]])}
<1>1. \A i \in D : n[i] \in Nat /\ d[i] \in Nat \ {0}
  BY FusedFacts, RrfFacts
<1>2. \A i, j \in D : <<i, j>> \in beats <=> n[i] * d[j] > n[j] * d[i]
  BY DEF Outscores
<1> HIDE DEF D, n, d, beats
<1>3. \A i \in D : <<i, i>> \notin beats
  <2> TAKE i \in D
  <2>1. n[i] * d[i] \in Nat
    BY <1>1
  <2> QED BY <1>2, <2>1
<1>4. ASSUME NEW i \in D, NEW j \in D, NEW k \in D
      PROVE  /\ <<i, j>> \in beats /\ <<j, k>> \in beats => <<i, k>> \in beats
             /\ <<i, k>> \in beats => <<i, j>> \in beats \/ <<j, k>> \in beats
  <2>1. /\ n[i] \in Nat /\ n[j] \in Nat /\ n[k] \in Nat
        /\ d[i] \in Nat \ {0} /\ d[j] \in Nat \ {0} /\ d[k] \in Nat \ {0}
    BY <1>1
  <2>2. /\ n[i] * d[j] > n[j] * d[i] /\ n[j] * d[k] > n[k] * d[j] => n[i] * d[k] > n[k] * d[i]
        /\ n[i] * d[k] > n[k] * d[i] => n[i] * d[j] > n[j] * d[i] \/ n[j] * d[k] > n[k] * d[j]
    BY <2>1, FractionsOrdered
  <2> QED BY <1>2, <2>2
<1> QED BY <1>3, <1>4 DEF WeakOrder, D, beats
-----------------------------------------------------------------------------
(* Types: every stage makes lists of items out of lists of items. *)

LEMMA ConstantTypes ==
  /\ RecallK \in Nat /\ OverFetch \in Nat /\ Widening \in Nat /\ RrfK \in Nat
  /\ EphemeralK \in Nat /\ MaxWrites \in Nat /\ MinSimilarity \in Int /\ Reach \in Int
  /\ RecallK > 0 /\ OverFetch > 0 /\ Widening > 1
  /\ RerankK \in Nat /\ SystemTok \in Nat /\ UserTok \in Nat /\ InstructionTok \in Nat
  /\ BlockTok \in Nat /\ LabelTok \in Nat /\ Halving \in Nat /\ Halving > 0 /\ MaxItemTok \in Nat
  /\ Margin \in 0..10 /\ AbstainBelow \in Int
BY RetrievalAssumption, AssemblyAssumption

LEMMA ItemTok ==
  ASSUME NEW x \in Item, NEW n \in Nat, n > 0
  PROVE  [x EXCEPT !.tok = n] \in Item
BY DEF Item

LEMMA DeadRows ==
  ASSUME rows \in Seq(Row), NEW id
  PROVE  Dead(id) \in Seq(Row)
<1>1. Len(rows) \in Nat /\ DOMAIN rows = 1..Len(rows)
  BY LenProperties
<1>2. \A r \in DOMAIN rows : (IF rows[r].item.id = id THEN [rows[r] EXCEPT !.live = FALSE] ELSE rows[r]) \in Row
  <2> TAKE r \in DOMAIN rows
  <2>1. rows[r] \in Row
    BY Positions
  <2> QED BY <2>1 DEF Row
<1>3. Dead(id) \in [1..Len(rows) -> Row]
  BY <1>1, <1>2 DEF Dead
<1> QED BY <1>1, <1>3, IsASeq

LEMMA StartTypes ==
  ASSUME RetrievalTypeOK, StartSearch
  PROVE  RetrievalTypeOK'
<1>1. /\ Len(rows) \in Nat /\ Len(LiveRows) \in 0..Len(rows)
  BY RankingTypes, LenProperties DEF RetrievalTypeOK
<1>2. RecallK * OverFetch \in Nat /\ RecallK + Tombstones \in Nat
  BY <1>1, ConstantTypes DEF Tombstones
<1>3. fetch' \in Nat
  BY <1>1, <1>2 DEF StartSearch, Smaller, Larger
<1> QED BY <1>3 DEF RetrievalTypeOK, StartSearch

LEMMA WriteTypes ==
  ASSUME RetrievalTypeOK, Write
  PROVE  RetrievalTypeOK'
<1>1. rows \in Seq(Row) /\ LiveRows \in Seq(Row)
  BY RankingTypes DEF RetrievalTypeOK
<1>2. rows' \in Seq(Row)
  <2>1. CASE rows' = LiveRows
    BY <1>1, <2>1
  <2>2. CASE \E r \in Elements(LiveRows) : rows' = Dead(r.item.id)
    BY <1>1, <2>2, DeadRows
  <2>3. CASE \E r \in Elements(LiveRows), x \in Items :
               /\ x.id = r.item.id /\ x.ver # r.item.ver
               /\ rows' = Append(Dead(r.item.id), [item |-> x, live |-> TRUE])
    <3>1. PICK r \in Elements(LiveRows), x \in Items :
                 rows' = Append(Dead(r.item.id), [item |-> x, live |-> TRUE])
      BY <2>3
    <3>2. [item |-> x, live |-> TRUE] \in Row
      BY RetrievalAssumption DEF Row
    <3>3. Dead(r.item.id) \in Seq(Row)
      BY <1>1, DeadRows
    <3> QED BY <3>1, <3>2, <3>3, AppendProperties
  <2> QED BY <2>1, <2>2, <2>3 DEF Write
<1>3. writes' \in 0..MaxWrites
  BY ConstantTypes DEF Write, RetrievalTypeOK
<1>4. UNCHANGED <<query, fetch, vecHits, lexHits, pool, candidates>>
  BY DEF Write, hits
<1> QED BY <1>2, <1>3, <1>4 DEF RetrievalTypeOK

LEMMA HitsTypes ==
  ASSUME RetrievalTypeOK, SearchReturns \/ LexicalReturns
  PROVE  RetrievalTypeOK'
<1>1. NearestFirst \in Seq(Row) /\ BestMatchFirst \in Seq(Row) /\ fetch \in Nat
  BY RankingTypes DEF RetrievalTypeOK
<1>2. FirstOf(NearestFirst, fetch) \in Seq(Row) /\ FirstOf(BestMatchFirst, fetch) \in Seq(Row)
  BY <1>1, FirstOfFacts
<1>3. /\ HitsIn(FirstOf(NearestFirst, fetch)) \in Seq(Item)
      /\ HitsIn(FirstOf(BestMatchFirst, fetch)) \in Seq(Item)
  BY <1>2, HitsFacts
<1> QED BY <1>3 DEF RetrievalTypeOK, SearchReturns, LexicalReturns

LEMMA WideningTypes ==
  ASSUME RetrievalTypeOK, SearchWidens \/ StartLexical \/ LexicalWidens \/ VectorsOnly
  PROVE  RetrievalTypeOK'
<1>1. Len(rows) \in Nat /\ Len(LiveRows) \in Nat
  <2>1. Len(rows) \in Nat /\ LiveRows \in Seq(Row)
    BY RankingTypes, LenProperties DEF RetrievalTypeOK
  <2> QED BY <2>1, LenProperties
<1>2. fetch * Widening \in Nat /\ RecallK * OverFetch \in Nat
  BY ConstantTypes DEF RetrievalTypeOK
<1>3. fetch' \in Nat
  BY <1>1, <1>2 DEF RetrievalTypeOK, SearchWidens, StartLexical, LexicalWidens, VectorsOnly, Smaller, hits
<1>4. /\ UNCHANGED <<query, rows, vecHits, lexHits, pool, writes>>
      /\ candidates' = candidates \/ candidates' = vecHits
  BY DEF SearchWidens, StartLexical, LexicalWidens, VectorsOnly, hits
<1> QED BY <1>3, <1>4 DEF RetrievalTypeOK

\* sorted(fused, key=rrf): a permutation of what both channels found.
Ranked == {p \in (DOMAIN FusedItems) \X (DOMAIN FusedItems) :
             Outscores(FusedItems[p[1]], FusedItems[p[2]])}

LEMMA FuseTypes ==
  ASSUME RetrievalTypeOK, Fuse
  PROVE  RetrievalTypeOK'
<1>1. FusedItems \in Seq(Item) /\ WeakOrder(DOMAIN FusedItems, Ranked)
  BY FusedFacts, FusedOrder DEF RetrievalTypeOK, HitsOK, Ranked
<1>2. SortedBy(FusedItems, Ranked) \in Seq(Item)
  BY <1>1, SortFacts
<1>3. Sorted(FusedItems, Outscores) \in Seq(Item)
  BY <1>2 DEF Sorted, Ranked
<1>4. candidates' \in Seq(Item)
  BY <1>3, FirstOfFacts, ConstantTypes DEF Fuse
<1>5. UNCHANGED <<query, rows, fetch, vecHits, lexHits, pool, writes>>
  BY DEF Fuse, hits
<1> QED BY <1>4, <1>5 DEF RetrievalTypeOK

LEMMA MergeTypes ==
  ASSUME RetrievalTypeOK, MergeEphemeral
  PROVE  RetrievalTypeOK'
<1> DEFINE best == FirstOf(Sorted(pool, Closer), EphemeralK)
           P == {i \in DOMAIN best : Similarity(best[i]) >= MinSimilarity}
<1>1. pool \in Seq(Item) /\ candidates \in Seq(Item)
  BY DEF RetrievalTypeOK
<1>2. best \in Seq(Item)
  BY <1>1, RankingFacts, FirstOfFacts, ConstantTypes
<1>3. candidates' = candidates \o Pick(best, P)
  BY DEF MergeEphemeral, Where
<1>4. P \in SUBSET DOMAIN best
  OBVIOUS
<1> HIDE DEF best, P
<1>5. candidates' \in Seq(Item)
  BY <1>1, <1>2, <1>3, <1>4, PickFacts, ConcatProperties
<1>6. UNCHANGED <<query, rows, fetch, vecHits, lexHits, pool, writes>>
  BY DEF MergeEphemeral, hits
<1> QED BY <1>5, <1>6 DEF RetrievalTypeOK

LEMMA RetrievalTypes ==
  ASSUME RetrievalTypeOK, RetrievalNext
  PROVE  RetrievalTypeOK'
<1>1. \/ StartSearch \/ Write \/ SearchReturns \/ LexicalReturns
      \/ SearchWidens \/ StartLexical \/ LexicalWidens \/ VectorsOnly \/ Fuse \/ MergeEphemeral
  BY DEF RetrievalNext
<1> QED BY <1>1, StartTypes, WriteTypes, HitsTypes, WideningTypes, FuseTypes, MergeTypes
LEMMA AvailableType ==
  ASSUME query \in Query
  PROVE  /\ Available \in Nat /\ Raw \in Int /\ Ceiling \in Int /\ Headroom \in Int
         /\ Raw >= 0 => Available + Headroom = Raw
         /\ Raw = Ceiling - SystemTok - UserTok
<1>1. Ceiling \in Int /\ Raw = Ceiling - SystemTok - UserTok
  BY DEF Query, Ceiling, Raw
<1>2. Raw \in Int /\ 10 - Margin \in Nat
  BY <1>1, ConstantTypes
<1> DEFINE m == Raw * (10 - Margin)
           q == m \div 10
<1>3. m \in Int /\ (Raw >= 0 => m >= 0)
  <2>1. m \in Int
    BY <1>2
  <2>2. Raw >= 0 => m >= 0
    BY <1>2, ProductGrows
  <2> QED BY <2>1, <2>2
<1> HIDE DEF m
<1>4. q \in Int /\ (m >= 0 => q >= 0)
  BY <1>3
<1> HIDE DEF q
<1>5. Available = Larger(0, q) /\ Headroom = Raw - q
  BY DEF Available, Headroom, m, q
<1> QED BY <1>1, <1>2, <1>3, <1>4, <1>5 DEF Larger

LEMMA PickType ==
  ASSUME NEW T, NEW s \in Seq(T), NEW P \in SUBSET DOMAIN s
  PROVE  Pick(s, P) \in Seq(T)
BY PickFacts

LEMMA CompressedType ==
  ASSUME NEW x \in Item
  PROVE  Compressed(x) \in Item
<1>1. CASE x.tok <= MaxItemTok \/ x.sents <= 1
  BY <1>1 DEF Compressed
<1>2. CASE ~(x.tok <= MaxItemTok \/ x.sents <= 1)
  <2> DEFINE a == KeptSentences(x)
             b == Larger(1, x.tok \div x.sents)
  <2>1. x.sents \in Nat /\ x.sents > 0 /\ x.tok \in Nat /\ Halving \in Nat /\ Halving > 0
    BY <1>2, ItemFacts, ConstantTypes
  <2>2. a \in Nat /\ a > 0
    <3>1. x.sents \div Halving \in Int
      BY <2>1
    <3> QED BY <3>1 DEF KeptSentences, Larger
  <2>3. b \in Nat /\ b > 0
    <3>1. x.tok \div x.sents \in Int
      BY <2>1
    <3> QED BY <3>1 DEF Larger
  <2>4. Compressed(x) = [x EXCEPT !.tok = a * b]
    BY <1>2 DEF Compressed
  <2> HIDE DEF a, b
  <2>5. a * b \in Nat /\ a * b > 0
    <3>1. 0 * b < a * b
      BY <2>2, <2>3, ProductGrows
    <3> QED BY <2>2, <2>3, <3>1
  <2> QED BY <2>4, <2>5, ItemTok
<1> QED BY <1>1, <1>2

LEMMA RedactedType ==
  ASSUME NEW x \in Item
  PROVE  /\ Redacted(x) \in Item /\ Redacted(x).tok - x.tok \in Nat
         /\ Redacted(x).src = x.src
<1>1. x.tok \in Nat /\ x.tok > 0 /\ x.pii \in Nat
  BY ItemFacts
<1>2. [x EXCEPT !.tok = x.tok + x.pii] \in Item
  BY <1>1, ItemTok
<1>3. CASE Redacted(x) = x
  BY <1>1, <1>3
<1>4. CASE Redacted(x) = [x EXCEPT !.tok = x.tok + x.pii]
  <2>1. Redacted(x).tok = x.tok + x.pii /\ Redacted(x).src = x.src
    BY <1>4 DEF Item
  <2> QED BY <1>1, <1>2, <1>4, <2>1
<1> QED BY <1>3, <1>4 DEF Redacted

LEMMA EachType ==
  ASSUME NEW s \in Seq(Item)
  PROVE  /\ [i \in DOMAIN s |-> Compressed(s[i])] \in Seq(Item)
         /\ [i \in DOMAIN s |-> Redacted(s[i])] \in Seq(Item)
<1>1. Len(s) \in Nat /\ DOMAIN s = 1..Len(s) /\ \A i \in DOMAIN s : s[i] \in Item
  BY Positions
<1>2. \A i \in DOMAIN s : Compressed(s[i]) \in Item /\ Redacted(s[i]) \in Item
  BY <1>1, CompressedType, RedactedType
<1>3. /\ [i \in DOMAIN s |-> Compressed(s[i])] \in [1..Len(s) -> Item]
      /\ [i \in DOMAIN s |-> Redacted(s[i])] \in [1..Len(s) -> Item]
  BY <1>1, <1>2
<1> QED BY <1>1, <1>2, IsASeq

LEMMA RerankTypes ==
  ASSUME RetrievalTypeOK, AssemblyTypeOK, Rerank \/ Rank
  PROVE  AssemblyTypeOK'
<1>1. candidates \in Seq(Item) /\ ranked \in Seq(Item)
  BY DEF RetrievalTypeOK, AssemblyTypeOK
<1>2. /\ FirstOf(Sorted(candidates, MoreRelevant), RerankK) \in Seq(Item)
      /\ Sorted(ranked, ScoresHigher) \in Seq(Item)
  BY <1>1, RankingFacts, FirstOfFacts, ConstantTypes
<1>3. ranked' \in Seq(Item) /\ low' \in BOOLEAN
  BY <1>2 DEF Rerank, Rank, AssemblyTypeOK
<1>4. UNCHANGED <<filtered, kept, prompt>>
  BY DEF Rerank, Rank
<1> QED BY <1>3, <1>4 DEF AssemblyTypeOK

FreshAt(r) == {i \in DOMAIN r : Fresh(r[i])}
UnopposedAt(s) == {i \in DOMAIN s : Unopposed(s, i)}

LEMMA ResolvedType ==
  ASSUME NEW r \in Seq(Item)
  PROVE  /\ Where(r, Fresh) = Pick(r, FreshAt(r)) /\ Where(r, Fresh) \in Seq(Item)
         /\ \A s : Resolved(s) = Pick(s, UnopposedAt(s))
         /\ Resolved(Where(r, Fresh)) \in Seq(Item)
<1>1. Where(r, Fresh) = Pick(r, FreshAt(r)) /\ FreshAt(r) \in SUBSET DOMAIN r
  BY DEF Where, FreshAt
<1>2. \A s : Resolved(s) = Pick(s, UnopposedAt(s)) /\ UnopposedAt(s) \in SUBSET DOMAIN s
  BY DEF Resolved, UnopposedAt
<1>3. Where(r, Fresh) \in Seq(Item)
  BY <1>1, PickType
<1> QED BY <1>1, <1>2, <1>3, PickType

LEMMA FilterTypes ==
  ASSUME AssemblyTypeOK, Filter
  PROVE  AssemblyTypeOK'
<1>1. Resolved(Where(ranked, Fresh)) \in Seq(Item)
  BY ResolvedType DEF AssemblyTypeOK
<1>2. filtered' \in Seq(Item)
  <2> DEFINE s == Resolved(Where(ranked, Fresh))
  <2>1. PICK K \in SUBSET DOMAIN s : filtered' = Pick(s, K)
    BY DEF Filter
  <2> HIDE DEF s
  <2>2. s \in Seq(Item)
    BY <1>1 DEF s
  <2> QED BY <2>1, <2>2, PickType
<1>3. UNCHANGED <<low, ranked, kept, prompt>>
  BY DEF Filter
<1> QED BY <1>2, <1>3 DEF AssemblyTypeOK

LEMMA CompressTypes ==
  ASSUME AssemblyTypeOK, Compress
  PROVE  AssemblyTypeOK'
<1>1. filtered \in Seq(Item)
  BY DEF AssemblyTypeOK
<1>2. filtered' \in Seq(Item)
  BY <1>1, EachType DEF Compress
<1> QED BY <1>2 DEF AssemblyTypeOK, Compress

LEMMA BudgetTypes ==
  ASSUME AssemblyTypeOK, Budget
  PROVE  AssemblyTypeOK'
<1>1. filtered \in Seq(Item)
  BY DEF AssemblyTypeOK
<1>2. PICK K \in SUBSET DOMAIN filtered : kept' = Pick(filtered, K)
  BY DEF Budget
<1>3. kept' \in Seq(Item)
  BY <1>1, <1>2, PickType
<1> QED BY <1>3 DEF AssemblyTypeOK, Budget

\* The sections of a prompt: what _prepare has redacted, by source.
RedactedKept == [i \in DOMAIN kept |-> Redacted(kept[i])]
SourceAt(s, sources) == {i \in DOMAIN s : s[i].src \in sources}

LEMMA FromFacts ==
  ASSUME NEW s \in Seq(Item), NEW sources
  PROVE  /\ From(s, sources) = Pick(s, SourceAt(s, sources)) /\ From(s, sources) \in Seq(Item)
         /\ SourceAt(s, sources) \in SUBSET DOMAIN s
<1>1. From(s, sources) = Pick(s, SourceAt(s, sources))
  BY DEF From, Where, SourceAt
<1>2. SourceAt(s, sources) \in SUBSET DOMAIN s
  BY DEF SourceAt
<1> QED BY <1>1, <1>2, PickType

SectionsOf(p) ==
  p.memory \in Seq(Item) /\ p.conversation \in Seq(Item) /\ p.numbered \in Seq(Item)

LEMMA ShownFacts ==
  ASSUME NEW p, SectionsOf(p)
  PROVE  /\ Shown(p) \in Seq(Item) /\ TokensOf(Shown(p)) \in Nat /\ Overhead(p) \in Nat
<1>1. p.memory \o p.conversation \in Seq(Item)
  BY ConcatProperties DEF SectionsOf
<1>2. Shown(p) \in Seq(Item)
  <2>1. (p.memory \o p.conversation) \o p.numbered \in Seq(Item)
    BY <1>1, ConcatProperties DEF SectionsOf
  <2> QED BY <2>1 DEF Shown
<1>3. TokensOf(Shown(p)) \in Nat
  BY <1>2, ItemsCountable DEF TokensOf
<1>4. Cardinality(Blocks(p)) \in Nat
  <2>1. IsFiniteSet({"memory", "conversation", "numbered"})
    <3>1. IsFiniteSet({} \cup {"memory"})
      BY FS_EmptySet, FS_AddElement
    <3>2. IsFiniteSet(({} \cup {"memory"}) \cup {"conversation"})
      BY <3>1, FS_AddElement
    <3>3. IsFiniteSet((({} \cup {"memory"}) \cup {"conversation"}) \cup {"numbered"})
      BY <3>2, FS_AddElement
    <3>4. {"memory", "conversation", "numbered"} = (({} \cup {"memory"}) \cup {"conversation"}) \cup {"numbered"}
      OBVIOUS
    <3> QED BY <3>3, <3>4
  <2>2. Blocks(p) \in SUBSET {"memory", "conversation", "numbered"}
    BY DEF Blocks
  <2> QED BY <2>1, <2>2, FS_Subset, FS_CardinalityType
<1>5. Len(Shown(p)) \in Nat
  BY <1>2, LenProperties
<1>6. BlockTok * Cardinality(Blocks(p)) \in Nat /\ LabelTok * Len(Shown(p)) \in Nat
  BY <1>4, <1>5, ConstantTypes
<1>7. Overhead(p) \in Nat
  BY <1>6, ConstantTypes DEF Overhead
<1> QED BY <1>2, <1>3, <1>7

LEMMA BuildTypes ==
  ASSUME AssemblyTypeOK, Build
  PROVE  AssemblyTypeOK'
<1> DEFINE s == RedactedKept
           p == [memory |-> From(s, {"long_term_memory"}),
                 conversation |-> From(s, {"current_conversation"}),
                 numbered |-> From(s, Untrusted), tokens |-> 0, ok |-> TRUE]
<1>1. s \in Seq(Item)
  BY EachType DEF AssemblyTypeOK, RedactedKept
<1>2. prompt' = [p EXCEPT !.tokens = SystemTok + UserTok + TokensOf(Shown(p)) + Overhead(p)]
  BY DEF Build, RedactedKept
<1>3. SectionsOf(p)
  BY <1>1, FromFacts DEF SectionsOf
<1>4. SystemTok + UserTok + TokensOf(Shown(p)) + Overhead(p) \in Nat
  BY <1>3, ShownFacts, ConstantTypes
<1>5. prompt' \in BuiltPrompt
  BY <1>2, <1>3, <1>4 DEF BuiltPrompt, SectionsOf
<1> QED BY <1>5 DEF AssemblyTypeOK, Build

LEMMA ValidateTypes ==
  ASSUME AssemblyTypeOK, Validate
  PROVE  AssemblyTypeOK'
<1>1. prompt' \in BuiltPrompt
  BY DEF AssemblyTypeOK, Validate, BuiltPrompt
<1> QED BY <1>1 DEF AssemblyTypeOK, Validate

LEMMA AssemblyTypes ==
  ASSUME RetrievalTypeOK, AssemblyTypeOK, AssemblyNext
  PROVE  RetrievalTypeOK' /\ AssemblyTypeOK'
<1>1. (Rerank \/ Rank) \/ Filter \/ Compress \/ Budget \/ Build \/ Validate
  BY DEF AssemblyNext
<1>2. UNCHANGED <<query, rows, fetch, vecHits, lexHits, pool, candidates, writes>>
  BY <1>1 DEF Rerank, Rank, Filter, Compress, Budget, Build, Validate, Stage, hits
<1>3. RetrievalTypeOK'
  BY <1>2 DEF RetrievalTypeOK
<1> QED BY <1>1, <1>3, RerankTypes, FilterTypes, CompressTypes, BudgetTypes, BuildTypes, ValidateTypes

LEMMA StoredType ==
  ASSUME ChunkingInv, NEW layout \in Layouts
  PROVE  Stored(layout) \in Seq(Row)
<1>1. layout \in Seq(Row)
  BY LayoutsAssumption
<1>2. Len(layout) \in Nat /\ DOMAIN layout = 1..Len(layout)
  BY <1>1, LenProperties
<1>3. ASSUME NEW r \in DOMAIN layout
      PROVE  (IF r \in DOMAIN chunks THEN [layout[r] EXCEPT !.item.tok = chunks[r].tok]
                                     ELSE layout[r]) \in Row
  <2>1. layout[r] \in Row /\ layout[r].item \in Item
    <3>1. layout[r] \in Row
      BY <1>1, Positions
    <3> QED BY <3>1 DEF Row
  <2>2. CASE r \in DOMAIN chunks
    <3>1. chunks[r].tok \in Nat /\ chunks[r].tok > 0
      BY <2>2 DEF ChunkingInv, ChunksInv, ChunkOK
    <3>2. [layout[r].item EXCEPT !.tok = chunks[r].tok] \in Item
      BY <2>1, <3>1, ItemTok
    <3>3. [layout[r] EXCEPT !.item.tok = chunks[r].tok]
            = [layout[r] EXCEPT !.item = [layout[r].item EXCEPT !.tok = chunks[r].tok]]
      BY <2>1 DEF Row
    <3> DEFINE x == [layout[r].item EXCEPT !.tok = chunks[r].tok]
    <3> HIDE DEF x
    <3>4. [layout[r] EXCEPT !.item = x] \in Row
      <4>1. x \in Item
        BY <3>2 DEF x
      <4> QED BY <2>1, <4>1 DEF Row
    <3> QED BY <2>2, <3>3, <3>4 DEF x
  <2> QED BY <2>1, <2>2
<1>4. Stored(layout) \in [1..Len(layout) -> Row]
  BY <1>2, <1>3 DEF Stored
<1> QED BY <1>2, <1>4, IsASeq

LEMMA CollectTypes ==
  ASSUME ChunkingInv, RetrievalTypeOK, AssemblyTypeOK, Collect
  PROVE  RetrievalTypeOK' /\ AssemblyTypeOK'
<1>1. rows' \in Seq(Row)
  BY StoredType DEF Collect
<1>2. pool' \in Seq(Item)
  <2>1. pool' \in Seq(Items)
    BY RetrievalAssumption DEF Collect
  <2> QED BY <2>1, SeqMonotonic, RetrievalAssumption
<1>3. query' \in Queries /\ UNCHANGED <<fetch, vecHits, lexHits, candidates, writes, assemblyVars>>
  BY DEF Collect, hits
<1>4. RetrievalTypeOK'
  BY <1>1, <1>2, <1>3 DEF RetrievalTypeOK
<1> QED BY <1>3, <1>4 DEF AssemblyTypeOK, assemblyVars

LEMMA InitTypes == Init => RetrievalTypeOK /\ AssemblyTypeOK
<1> SUFFICES ASSUME Init PROVE RetrievalTypeOK /\ AssemblyTypeOK
  OBVIOUS
<1>1. <<>> \in Seq(Row) /\ <<>> \in Seq(Item)
  BY EmptySeq
<1>2. query \in Queries
  BY RetrievalAssumption DEF Init
<1>3. RetrievalTypeOK
  BY <1>1, <1>2, ConstantTypes DEF Init, RetrievalTypeOK
<1>4. prompt \in BuiltPrompt
  BY <1>1 DEF Init, NoPrompt, BuiltPrompt
<1> QED BY <1>1, <1>3, <1>4 DEF Init, AssemblyTypeOK

LEMMA UnchangedTypes ==
  ASSUME RetrievalTypeOK /\ AssemblyTypeOK
  PROVE  /\ UNCHANGED retrievalVars => RetrievalTypeOK'
         /\ UNCHANGED assemblyVars => AssemblyTypeOK'
<1>1. UNCHANGED retrievalVars => RetrievalTypeOK'
  BY DEF RetrievalTypeOK, retrievalVars, hits
<1>2. UNCHANGED assemblyVars => AssemblyTypeOK'
  BY DEF AssemblyTypeOK, assemblyVars
<1> QED BY <1>1, <1>2

\* The type invariant goes with the inductive invariant of Chunking: a stored chunk has
\* the tokens chunk_text counted.
PromptTypes == ChunkingInv /\ RetrievalTypeOK /\ AssemblyTypeOK

LEMMA NextTypes == PromptTypes /\ [Next]_vars => PromptTypes'
<1> SUFFICES ASSUME ChunkingInv, RetrievalTypeOK, AssemblyTypeOK, [Next]_vars
             PROVE  RetrievalTypeOK' /\ AssemblyTypeOK'
  BY NextChunkingInv DEF PromptTypes
<1>1. CASE Ingest \/ UNCHANGED vars
  <2>1. UNCHANGED <<retrievalVars, assemblyVars>>
    BY <1>1 DEF Ingest, vars
  <2> QED BY <2>1, UnchangedTypes
<1>2. CASE Collect
  BY <1>2, CollectTypes
<1>3. CASE RetrievalNext /\ UNCHANGED <<chunkingVars, assemblyVars>>
  BY <1>3, RetrievalTypes, UnchangedTypes
<1>4. CASE AssemblyNext /\ UNCHANGED chunkingVars
  BY <1>4, AssemblyTypes
<1> QED BY <1>1, <1>2, <1>3, <1>4 DEF Next

LEMMA TypesInvariant == Spec => []PromptTypes
<1>1. Init => PromptTypes
  BY InitFresh, FreshInv, InitTypes DEF PromptTypes
<1> QED BY <1>1, NextTypes, PTL DEF Spec

\* Every stage of _prepare makes lists of items, whatever is stored, asked and written
\* in between, and no count of it is ever negative.
THEOREM TypeCorrect == Spec => []TypeOK
<1>1. PromptTypes => TypeOK
  BY DEF PromptTypes, TypeOK, ChunkingInv
<1> QED BY <1>1, TypesInvariant, PTL
-----------------------------------------------------------------------------
(* The late stages: each is entered by one action only. *)

LEMMA LateStages ==
  ASSUME [Next]_vars, stage' \in {"filter", "compress", "budget", "build", "validate", "done"}
  PROVE  \/ Rank /\ stage' = "filter"
         \/ Filter /\ stage' = "compress"
         \/ Compress /\ stage' = "budget"
         \/ Budget /\ stage' = "build"
         \/ Build /\ stage' = "validate"
         \/ Validate /\ stage' = "done"
         \/ UNCHANGED <<retrievalVars, assemblyVars>> /\ stage' = stage
<1>1. CASE Ingest \/ UNCHANGED vars
  BY <1>1 DEF Ingest, vars, retrievalVars
<1>2. CASE Collect
  BY <1>2 DEF Collect
<1>3. CASE RetrievalNext
  BY <1>3 DEF RetrievalNext, StartSearch, SearchWidens, SearchReturns, Write, StartLexical,
              VectorsOnly, LexicalWidens, LexicalReturns, Fuse, MergeEphemeral
<1>4. CASE AssemblyNext
  <2>1. /\ Rerank => stage' = "rank"
        /\ Rank => stage' = "filter"
        /\ Filter => stage' = "compress"
        /\ Compress => stage' = "budget"
        /\ Budget => stage' = "build"
        /\ Build => stage' = "validate"
        /\ Validate => stage' = "done"
    BY DEF Rerank, Rank, Filter, Compress, Budget, Build, Validate, Stage
  <2>2. ~Rerank
    BY <2>1
  <2>3. CASE Rank
    BY <2>1, <2>3
  <2>4. CASE Filter
    BY <2>1, <2>4
  <2>5. CASE Compress
    BY <2>1, <2>5
  <2>6. CASE Budget
    BY <2>1, <2>6
  <2>7. CASE Build
    BY <2>1, <2>7
  <2>8. CASE Validate
    BY <2>1, <2>8
  <2> QED BY <1>4, <2>2, <2>3, <2>4, <2>5, <2>6, <2>7, <2>8 DEF AssemblyNext
<1> QED BY <1>1, <1>2, <1>3, <1>4 DEF Next

Trimmed(s, t, room) ==
  /\ TokensOf(t) <= room
  /\ \A x \in Elements(s) \ Elements(t) :
       TokensOf(Where(t, LAMBDA y : y \in OverIn(s, x))) + x.tok > room

LEMMA TrimmedMeans == TrimmedForRoom <=> (stage = "build" => Trimmed(filtered, kept, Available))
BY DEF TrimmedForRoom, Trimmed

LEMMA TrimmedMeansNext ==
  TrimmedForRoom' <=> (stage = "build" => Trimmed(filtered, kept, Available))'
BY TrimmedMeans, PTL

LEMMA BudgetTrims ==
  ASSUME PromptTypes, Budget
  PROVE  TrimmedForRoom'
<1>1. filtered \in Seq(Item) /\ query \in Query /\ query' = query /\ filtered' = filtered
  BY RetrievalAssumption DEF PromptTypes, RetrievalTypeOK, AssemblyTypeOK, Budget, Stage
<1>2. PICK K \in SUBSET DOMAIN filtered :
        (\A i \in DOMAIN filtered : i \in K <=> Fits(filtered, K, i)) /\ kept' = Pick(filtered, K)
  BY DEF Budget
<1>3. Available \in Nat /\ Available' = Available
  BY <1>1, AvailableType DEF Available, Raw, Ceiling
<1>4. Trimmed(filtered, Pick(filtered, K), Available)
  BY <1>1, <1>2, <1>3, BudgetFacts DEF Trimmed
<1>5. Trimmed(filtered', kept', Available')
  BY <1>1, <1>2, <1>3, <1>4
<1> QED BY <1>5, TrimmedMeansNext

\* A list that fits is trimmed for room; nothing after that touches it.
TrimmedInv == PromptTypes /\ TrimmedForRoom

LEMMA NextTrimmed == TrimmedInv /\ [Next]_vars => TrimmedInv'
<1> SUFFICES ASSUME PromptTypes, TrimmedForRoom, [Next]_vars PROVE TrimmedForRoom'
  BY NextTypes DEF TrimmedInv
<1>1. CASE stage' # "build"
  BY <1>1, TrimmedMeansNext
<1>2. CASE Budget
  BY <1>2, BudgetTrims
<1>3. CASE UNCHANGED <<retrievalVars, assemblyVars>>
  <2>1. stage' = stage /\ filtered' = filtered /\ kept' = kept /\ Available' = Available
    BY <1>3 DEF Available, Raw, Ceiling, retrievalVars, assemblyVars
  <2> QED BY <2>1, TrimmedMeans, TrimmedMeansNext
<1> QED BY <1>1, <1>2, <1>3, LateStages

\* BudgetManager.fit, for any items, window and margin: what it leaves out would not fit
\* behind the items ranked above it, and what it keeps does.
THEOREM TrimsForRoom == Spec => []TrimmedForRoom
<1>1. Init => TrimmedInv
  <2>1. Init => PromptTypes
    BY InitFresh, FreshInv, InitTypes DEF PromptTypes
  <2> QED BY <2>1 DEF Init, TrimmedInv, TrimmedForRoom
<1> QED BY <1>1, NextTrimmed, PTL DEF Spec, TrimmedInv

-----------------------------------------------------------------------------
(* 8 build, 9 validate *)

\* The items of t are items of s, at different positions of P.
Drawn(t, s, P) == \E h \in Injection(DOMAIN t, P) : Same(t, s, h, DOMAIN t)

LEMMA PickDrawn ==
  ASSUME NEW s \in Seq(Item), NEW P \in SUBSET DOMAIN s
  PROVE  Drawn(Pick(s, P), s, P)
<1> DEFINE t == Pick(s, P)
           h == Places(P)
<1>1. /\ h \in [1..Cardinality(P) -> P] /\ DOMAIN t = 1..Cardinality(P)
      /\ \A n \in 1..Cardinality(P) : t[n] = s[h[n]]
      /\ \A m, n \in 1..Cardinality(P) : h[m] = h[n] => m = n
  BY PickFacts
<1> HIDE DEF t, h
<1>2. h \in Injection(DOMAIN t, P) /\ Same(t, s, h, DOMAIN t)
  BY <1>1 DEF Injection, IsInjective, Same
<1> QED BY <1>2 DEF Drawn, t

LEMMA ConcatDrawn ==
  ASSUME NEW s, NEW P, NEW Q, P \cap Q = {}, NEW t \in Seq(Item), NEW u \in Seq(Item),
         Drawn(t, s, P), Drawn(u, s, Q)
  PROVE  Drawn(t \o u, s, P \cup Q)
<1>1. PICK g \in Injection(DOMAIN t, P) : Same(t, s, g, DOMAIN t)
  BY DEF Drawn
<1>2. PICK h \in Injection(DOMAIN u, Q) : Same(u, s, h, DOMAIN u)
  BY DEF Drawn
<1> DEFINE m == Len(t)
           N == Len(t) + Len(u)
           k == [n \in 1..N |-> IF n <= m THEN g[n] ELSE h[n - m]]
<1>3. m \in Nat /\ Len(u) \in Nat /\ DOMAIN t = 1..m /\ DOMAIN u = 1..Len(u)
  BY LenProperties
<1>4. /\ t \o u \in Seq(Item) /\ Len(t \o u) = N
      /\ \A n \in 1..N : (t \o u)[n] = IF n <= m THEN t[n] ELSE u[n - m]
  BY ConcatProperties
<1>5. DOMAIN (t \o u) = 1..N
  BY <1>4, LenProperties
<1>6. /\ g \in [1..m -> P] /\ \A i, j \in 1..m : g[i] = g[j] => i = j
      /\ \A i \in 1..m : t[i].tok = s[g[i]].tok
  BY <1>1, <1>3 DEF Injection, IsInjective, Same
<1>7. /\ h \in [1..Len(u) -> Q] /\ \A i, j \in 1..Len(u) : h[i] = h[j] => i = j
      /\ \A i \in 1..Len(u) : u[i].tok = s[h[i]].tok
  BY <1>2, <1>3 DEF Injection, IsInjective, Same
<1>8. ASSUME NEW n \in 1..N
      PROVE  \/ n <= m /\ n \in 1..m /\ k[n] = g[n] /\ (t \o u)[n] = t[n] /\ k[n] \in P
             \/ n > m /\ n - m \in 1..Len(u) /\ k[n] = h[n - m] /\ (t \o u)[n] = u[n - m] /\ k[n] \in Q
  <2>1. CASE n <= m
    <3>1. n \in 1..m /\ k[n] = g[n]
      BY <1>3, <2>1
    <3> QED BY <1>4, <1>6, <2>1, <3>1
  <2>2. CASE n > m
    <3>1. n - m \in 1..Len(u) /\ ~(n <= m)
      BY <1>3, <2>2
    <3>2. k[n] = h[n - m]
      BY <3>1
    <3> QED BY <1>4, <1>7, <2>2, <3>1, <3>2
  <2>3. n <= m \/ n > m
    BY <1>3
  <2> QED BY <2>1, <2>2, <2>3
<1>9. k = [n \in 1..N |-> k[n]]
  OBVIOUS
<1> HIDE DEF k
<1>10. k \in [1..N -> P \cup Q]
  BY <1>8, <1>9
<1>11. ASSUME NEW i \in 1..N, NEW j \in 1..N, k[i] = k[j] PROVE i = j
  <2>1. (i <= m /\ j <= m) \/ (i > m /\ j > m)
    BY <1>8, <1>11
  <2>2. CASE i <= m /\ j <= m
    <3>1. i \in 1..m /\ j \in 1..m /\ k[i] = g[i] /\ k[j] = g[j]
      BY <1>3, <1>8, <2>2
    <3> QED BY <1>6, <1>11, <3>1
  <2>3. CASE i > m /\ j > m
    <3>1. i - m \in 1..Len(u) /\ j - m \in 1..Len(u) /\ k[i] = h[i - m] /\ k[j] = h[j - m]
      BY <1>3, <1>8, <2>3
    <3>2. i - m = j - m
      BY <1>7, <1>11, <3>1
    <3> QED BY <1>3, <3>2
  <2> QED BY <2>1, <2>2, <2>3
<1>12. \A n \in 1..N : (t \o u)[n].tok = s[k[n]].tok
  <2> TAKE n \in 1..N
  <2>1. CASE n \in 1..m /\ k[n] = g[n] /\ (t \o u)[n] = t[n]
    BY <1>6, <2>1
  <2>2. CASE n - m \in 1..Len(u) /\ k[n] = h[n - m] /\ (t \o u)[n] = u[n - m]
    BY <1>7, <2>2
  <2> QED BY <1>8, <2>1, <2>2
<1>13. k \in Injection(1..N, P \cup Q) /\ Same(t \o u, s, k, 1..N)
  BY <1>10, <1>11, <1>12 DEF Injection, IsInjective, Same
<1> QED BY <1>5, <1>13 DEF Drawn

LEMMA DrawnTokens ==
  ASSUME NEW s \in Seq(Item), NEW P \in SUBSET DOMAIN s, NEW t \in Seq(Item), Drawn(t, s, P)
  PROVE  TokensOf(t) <= TokensOf(s) /\ TokensOf(t) \in Nat /\ TokensOf(s) \in Nat
<1>1. PICK h \in Injection(DOMAIN t, P) : Same(t, s, h, DOMAIN t)
  BY DEF Drawn
<1>2. Countable(s, P) /\ Countable(t, DOMAIN t) /\ TokensAt(t, DOMAIN t) \in Nat
  BY ItemsCountable
<1>3. TokensAt(t, DOMAIN t) <= TokensAt(s, P)
  BY <1>1, <1>2, TermsDrawn
<1>4. /\ TokensAt(s, P) \in Nat /\ TokensAt(s, DOMAIN s) \in Nat
      /\ TokensAt(s, P) <= TokensAt(s, DOMAIN s)
  BY TokensGrow
<1> QED BY <1>2, <1>3, <1>4 DEF TokensOf

LEMMA RedactedTokens ==
  ASSUME NEW s, s \in Seq(Item)
  PROVE  LET r == [i \in DOMAIN s |-> Redacted(s[i])]
         IN  TokensOf(r) = TokensOf(s) + Growth(s) /\ Growth(s) \in Nat
<1> DEFINE D == DOMAIN s
           r == [i \in D |-> Redacted(s[i])]
           f == [i \in D |-> s[i].tok]
           g == [i \in D |-> Redacted(s[i]).tok - s[i].tok]
           k == [i \in D |-> r[i].tok]
<1>1. IsFiniteSet(D) /\ \A i \in D : s[i] \in Item
  BY Positions
<1>2. \A i \in D : s[i].tok \in Nat /\ Redacted(s[i]) \in Item /\ Redacted(s[i]).tok - s[i].tok \in Nat
  BY <1>1, ItemFacts, RedactedType
<1>3. \A i \in D : Redacted(s[i]).tok \in Nat
  BY <1>2, ItemFacts
<1>4. f \in [D -> Nat] /\ g \in [D -> Nat] /\ k \in [D -> Nat]
  BY <1>2, <1>3
<1>5. \A i \in D : k[i] = f[i] + g[i]
  BY <1>2, <1>3
<1>6. /\ TokensOf(r) = Total(k) /\ TokensOf(s) = Total(f) /\ Growth(s) = Total(g)
  BY DEF TokensOf, TokensAt, Growth
<1> HIDE DEF f, g, k
<1> HIDE DEF D
<1>7. Total(k) = Total(f) + Total(g)
  <2>1. IsFiniteSet(D)
    BY <1>1
  <2> QED BY ONLY <2>1, <1>4, <1>5, TotalSum
<1>8. Total(g) \in Nat
  <2>1. IsFiniteSet(D)
    BY <1>1
  <2> QED BY ONLY <2>1, <1>4, CountedFacts
<1> QED BY <1>6, <1>7, <1>8 DEF D
LEMMA SameShown ==
  ASSUME NEW p, NEW q, p.memory = q.memory, p.conversation = q.conversation,
         p.numbered = q.numbered
  PROVE  Shown(p) = Shown(q) /\ Overhead(p) = Overhead(q) /\ (Balanced(p) <=> Balanced(q))
<1>1. Shown(p) = Shown(q)
  BY DEF Shown
<1>2. \A b \in {"memory", "conversation", "numbered"} : p[b] = q[b]
  OBVIOUS
<1>3. Blocks(p) = Blocks(q)
  BY <1>2 DEF Blocks
<1>4. Overhead(p) = Overhead(q)
  BY <1>1, <1>3 DEF Overhead
<1> QED BY <1>1, <1>4 DEF Balanced

\* What build shows of the kept items, and what it costs.
LEMMA ShownTokens ==
  ASSUME NEW s \in Seq(Item), NEW p,
         p.memory = From(s, {"long_term_memory"}),
         p.conversation = From(s, {"current_conversation"}),
         p.numbered = From(s, Untrusted)
  PROVE  TokensOf(Shown(p)) <= TokensOf(s) /\ TokensOf(Shown(p)) \in Nat /\ TokensOf(s) \in Nat
<1> DEFINE A == SourceAt(s, {"long_term_memory"})
           B == SourceAt(s, {"current_conversation"})
           C == SourceAt(s, Untrusted)
<1>1. /\ A \cap B = {} /\ (A \cup B) \cap C = {}
      /\ A \cup B \cup C \in SUBSET DOMAIN s
  BY AssemblyAssumption DEF SourceAt
<1>2. /\ p.memory = Pick(s, A) /\ p.conversation = Pick(s, B) /\ p.numbered = Pick(s, C)
      /\ p.memory \in Seq(Item) /\ p.conversation \in Seq(Item) /\ p.numbered \in Seq(Item)
      /\ A \in SUBSET DOMAIN s /\ B \in SUBSET DOMAIN s /\ C \in SUBSET DOMAIN s
  BY FromFacts
<1> HIDE DEF A, B, C
<1>3. Drawn(p.memory, s, A) /\ Drawn(p.conversation, s, B) /\ Drawn(p.numbered, s, C)
  BY <1>2, PickDrawn
<1>4. Drawn(p.memory \o p.conversation, s, A \cup B)
  BY <1>1, <1>2, <1>3, ConcatDrawn
<1>5. p.memory \o p.conversation \in Seq(Item)
  BY <1>2, ConcatProperties
<1>6. Drawn((p.memory \o p.conversation) \o p.numbered, s, (A \cup B) \cup C)
  BY <1>1, <1>2, <1>3, <1>4, <1>5, ConcatDrawn
<1>7. Shown(p) = (p.memory \o p.conversation) \o p.numbered
  BY DEF Shown
<1>8. Shown(p) \in Seq(Item)
  BY <1>2, <1>5, <1>7, ConcatProperties
<1>9. Drawn(Shown(p), s, A \cup B \cup C)
  BY <1>6, <1>7
<1> QED BY <1>1, <1>8, <1>9, DrawnTokens

\* From build on: the prompt costs at most what was available for its items, and what
\* redaction and the blocks add; and from validate on the verdict is about this prompt.
BuiltForRoom ==
  /\ stage \in {"validate", "done"} =>
       prompt.tokens <= SystemTok + UserTok + Available + Growth(kept) + Overhead(prompt)
  /\ stage = "done" => (prompt.ok <=> prompt.tokens <= Ceiling /\ Balanced(prompt))

RoomInv == PromptTypes /\ TrimmedForRoom /\ BuiltForRoom

LEMMA SameRoom ==
  ASSUME query' = query
  PROVE  Available' = Available /\ Ceiling' = Ceiling /\ Raw' = Raw
BY DEF Available, Raw, Ceiling

LEMMA SameBalance ==
  ASSUME query' = query
  PROVE  Balanced(prompt)' <=> Balanced(prompt')
BY DEF Balanced, Shown, Total

LEMMA BuildFits ==
  ASSUME PromptTypes, TrimmedForRoom, Build
  PROVE  BuiltForRoom'
<1> DEFINE s == RedactedKept
           p == [memory |-> From(s, {"long_term_memory"}),
                 conversation |-> From(s, {"current_conversation"}),
                 numbered |-> From(s, Untrusted), tokens |-> 0, ok |-> TRUE]
           n == SystemTok + UserTok + TokensOf(Shown(p)) + Overhead(p)
<1>1. stage = "build" /\ stage' = "validate" /\ query' = query /\ kept' = kept /\ kept \in Seq(Item)
      /\ query \in Query
  BY RetrievalAssumption DEF Build, Stage, PromptTypes, RetrievalTypeOK, AssemblyTypeOK
<1>2. prompt' = [p EXCEPT !.tokens = n]
  BY DEF Build, RedactedKept
<1>3. /\ p.memory = From(s, {"long_term_memory"}) /\ p.conversation = From(s, {"current_conversation"})
      /\ p.numbered = From(s, Untrusted)
      /\ prompt'.memory = p.memory /\ prompt'.conversation = p.conversation
      /\ prompt'.numbered = p.numbered /\ prompt'.tokens = n
  BY <1>2
<1>4. TokensOf(s) = TokensOf(kept) + Growth(kept) /\ Growth(kept) \in Nat
  BY <1>1, RedactedTokens DEF RedactedKept
<1>5. s \in Seq(Item)
  BY <1>1, EachType DEF RedactedKept
<1> HIDE DEF s, p
<1>6. TokensOf(Shown(p)) <= TokensOf(s) /\ TokensOf(Shown(p)) \in Nat /\ TokensOf(s) \in Nat
  BY <1>3, <1>5, ShownTokens
<1>7. Overhead(prompt') = Overhead(p)
  BY <1>3, SameShown
<1>8. SectionsOf(p)
  BY <1>3, <1>5, FromFacts DEF SectionsOf
<1>9. Overhead(p) \in Nat
  BY <1>8, ShownFacts
<1>10. TokensOf(kept) <= Available
  BY <1>1, TrimmedMeans DEF Trimmed
<1>11. TokensOf(kept) \in Nat /\ Available \in Nat
  BY <1>1, ItemsCountable, AvailableType DEF TokensOf
<1>12. n <= SystemTok + UserTok + Available + Growth(kept) + Overhead(p)
  BY <1>4, <1>6, <1>9, <1>10, <1>11, ConstantTypes
<1>13. Available' = Available
  BY <1>1, SameRoom
<1>14. prompt'.tokens <= SystemTok + UserTok + Available' + Growth(kept') + Overhead(prompt')
  BY <1>1, <1>3, <1>7, <1>12, <1>13
<1> QED BY <1>1, <1>14 DEF BuiltForRoom

LEMMA ValidateDecides ==
  ASSUME PromptTypes, BuiltForRoom, Validate
  PROVE  BuiltForRoom'
<1>1. /\ stage = "validate" /\ stage' = "done" /\ query' = query /\ kept' = kept
      /\ prompt' = [prompt EXCEPT !.ok = (prompt.tokens <= Ceiling /\ Balanced(prompt))]
      /\ prompt \in BuiltPrompt
  BY DEF Validate, Stage, PromptTypes, AssemblyTypeOK
<1>2. /\ prompt'.memory = prompt.memory /\ prompt'.conversation = prompt.conversation
      /\ prompt'.numbered = prompt.numbered /\ prompt'.tokens = prompt.tokens
      /\ prompt'.ok = (prompt.tokens <= Ceiling /\ Balanced(prompt))
  BY <1>1 DEF BuiltPrompt
<1>3. Overhead(prompt') = Overhead(prompt) /\ (Balanced(prompt') <=> Balanced(prompt))
  BY <1>2, SameShown
<1>4. Available' = Available /\ Ceiling' = Ceiling
  BY <1>1, SameRoom
<1>5. prompt.tokens <= SystemTok + UserTok + Available + Growth(kept) + Overhead(prompt)
  BY <1>1 DEF BuiltForRoom
<1>6. prompt'.tokens <= SystemTok + UserTok + Available' + Growth(kept') + Overhead(prompt')
  BY <1>1, <1>2, <1>3, <1>4, <1>5
<1>7. prompt'.ok <=> prompt'.tokens <= Ceiling' /\ Balanced(prompt)'
  BY <1>1, <1>2, <1>3, <1>4, SameBalance
<1> QED BY <1>6, <1>7 DEF BuiltForRoom

LEMMA NextRoom == RoomInv /\ [Next]_vars => RoomInv'
<1> SUFFICES ASSUME PromptTypes, TrimmedForRoom, BuiltForRoom, [Next]_vars PROVE BuiltForRoom'
  BY NextTrimmed DEF RoomInv, TrimmedInv
<1>1. CASE stage' \notin {"validate", "done"}
  BY <1>1 DEF BuiltForRoom
<1>2. CASE Build
  BY <1>2, BuildFits
<1>3. CASE Validate
  BY <1>3, ValidateDecides
<1>4. CASE UNCHANGED <<retrievalVars, assemblyVars>>
  <2>1. /\ stage' = stage /\ prompt' = prompt /\ kept' = kept
        /\ query' = query /\ Available' = Available /\ Ceiling' = Ceiling
    BY <1>4, SameRoom DEF retrievalVars, assemblyVars
  <2>2. Balanced(prompt)' <=> Balanced(prompt)
    BY <2>1 DEF Balanced, Shown, Total
  <2> QED BY <2>1, <2>2 DEF BuiltForRoom
<1> QED BY <1>1, <1>2, <1>3, <1>4, LateStages

\* validate(), for any request and margin: no prompt over the ceiling is passed, and one
\* of a request that fits without its context is refused only when redaction and the
\* blocks outgrow the safety margin, or for an unbalanced delimiter.
THEOREM MarginSuffices == Spec => []HeadroomSuffices
<1>1. Init => RoomInv
  <2>1. Init => PromptTypes
    BY InitFresh, FreshInv, InitTypes DEF PromptTypes
  <2>2. Init => TrimmedForRoom /\ BuiltForRoom
    BY DEF Init, TrimmedForRoom, BuiltForRoom
  <2> QED BY <2>1, <2>2 DEF RoomInv
<1>2. RoomInv => HeadroomSuffices
  <2> SUFFICES ASSUME RoomInv, stage = "done"
               PROVE  /\ prompt.ok => prompt.tokens <= Ceiling
                      /\ ~prompt.ok => \/ Raw < 0
                                       \/ Overhead(prompt) + Growth(kept) > Headroom
                                       \/ ~Balanced(prompt)
    BY DEF HeadroomSuffices
  <2>1. /\ prompt.tokens <= SystemTok + UserTok + Available + Growth(kept) + Overhead(prompt)
        /\ prompt.ok <=> prompt.tokens <= Ceiling /\ Balanced(prompt)
    BY DEF RoomInv, BuiltForRoom
  <2>2. query \in Query /\ prompt \in BuiltPrompt /\ kept \in Seq(Item)
    BY RetrievalAssumption DEF RoomInv, PromptTypes, RetrievalTypeOK, AssemblyTypeOK
  <2>3. /\ Available \in Nat /\ Raw \in Int /\ Ceiling \in Int /\ Headroom \in Int
        /\ Raw >= 0 => Available + Headroom = Raw
        /\ Raw = Ceiling - SystemTok - UserTok
    BY <2>2, AvailableType
  <2>4. Growth(kept) \in Nat
    BY <2>2, RedactedTokens
  <2>5. Overhead(prompt) \in Nat /\ prompt.tokens \in Nat
    BY <2>2, ShownFacts DEF SectionsOf, BuiltPrompt
  <2>6. Raw >= 0 /\ Overhead(prompt) + Growth(kept) <= Headroom => prompt.tokens <= Ceiling
    BY <2>1, <2>3, <2>4, <2>5, ConstantTypes
  <2> QED BY <2>1, <2>3, <2>4, <2>5, <2>6
<1> QED BY <1>1, <1>2, NextRoom, PTL DEF Spec
-----------------------------------------------------------------------------
(* Recall is complete, and authorized. *)

SearchAnswers == vecHits' = Ideal(NearestFirst)
LexicalAnswers == lexHits' = Ideal(BestMatchFirst)

\* search() leaves with the hits of the whole index, whatever page it looked at.
LEMMA SearchIsBest ==
  ASSUME PromptTypes, SearchReturns
  PROVE  SearchAnswers /\ vecHits' = HitsIn(NearestFirst)
<1>1. /\ NearestFirst \in Seq(Row) /\ Len(NearestFirst) = Len(rows) /\ fetch \in Nat
      /\ query \in Query
  BY RankingTypes, RetrievalAssumption DEF PromptTypes, RetrievalTypeOK
<1>2. Len(HitsIn(FirstOf(NearestFirst, fetch))) >= RecallK \/ fetch >= Len(NearestFirst)
  BY <1>1 DEF SearchReturns, VectorPageIsEnough
<1>3. vecHits' = HitsIn(NearestFirst)
  BY <1>1, <1>2, PageFacts DEF SearchReturns
<1> QED BY <1>1, <1>3, IdealFacts DEF SearchAnswers

\* An empty index has no hits.
LEMMA EmptySearchIsBest ==
  ASSUME PromptTypes, StartSearch, rows = <<>>, vecHits = <<>>
  PROVE  SearchAnswers
<1>1. NearestFirst \in Seq(Row) /\ Len(NearestFirst) = Len(rows) /\ query \in Query
  BY RankingTypes, RetrievalAssumption DEF PromptTypes, RetrievalTypeOK
<1>2. Len(NearestFirst) = 0
  BY <1>1, EmptySeq
<1>3. ReadableAt(NearestFirst) = {}
  <2>1. DOMAIN NearestFirst = 1..Len(NearestFirst)
    BY <1>1, LenProperties
  <2> QED BY <1>2, <2>1 DEF ReadableAt
<1>4. /\ HitsIn(NearestFirst) \in Seq(Item)
      /\ Len(HitsIn(NearestFirst)) = Smaller(RecallK, Cardinality(ReadableAt(NearestFirst)))
  BY <1>1, HitsFacts
<1>5. Len(HitsIn(NearestFirst)) = 0
  BY <1>3, <1>4, FS_EmptySet, ConstantTypes DEF Smaller
<1>6. HitsIn(NearestFirst) = <<>>
  BY <1>4, <1>5, EmptySeq
<1> QED BY <1>1, <1>6, IdealFacts DEF SearchAnswers, StartSearch

\* lexical_search() too: a page shorter than was asked for is all there is.
LEMMA LexicalIsBest ==
  ASSUME PromptTypes, LexicalReturns
  PROVE  LexicalAnswers /\ lexHits' = HitsIn(BestMatchFirst)
<1>1. /\ BestMatchFirst \in Seq(Row) /\ Len(BestMatchFirst) \in 0..Len(LiveRows)
      /\ Len(LiveRows) \in 0..Len(rows) /\ Len(rows) \in Nat /\ fetch \in Nat /\ query \in Query
  BY RankingTypes, RetrievalAssumption, LenProperties DEF PromptTypes, RetrievalTypeOK
<1>2. Len(HitsIn(FirstOf(BestMatchFirst, fetch))) >= RecallK \/ fetch >= Len(BestMatchFirst)
  BY <1>1 DEF LexicalReturns, LexicalPageIsEnough
<1>3. lexHits' = HitsIn(BestMatchFirst)
  BY <1>1, <1>2, PageFacts DEF LexicalReturns
<1> QED BY <1>1, <1>3, IdealFacts DEF LexicalAnswers

\* No hit is left from before when search() is called.
NotSearched == stage \in {"ingest", "search"} => vecHits = <<>>
SearchInv == PromptTypes /\ NotSearched

LEMMA EarlyStages ==
  ASSUME RetrievalNext
  PROVE  /\ stage # "ingest" /\ stage' # "ingest"
         /\ stage' = "search" => stage = "search" /\ vecHits' = vecHits
         /\ stage = "search" /\ stage' = "between" => SearchReturns \/ (StartSearch /\ rows = <<>>)
         /\ stage = "lexical" /\ stage' = "fuse" => LexicalReturns
<1>1. CASE StartSearch
  BY <1>1 DEF StartSearch
<1>2. CASE SearchWidens
  BY <1>2 DEF SearchWidens
<1>3. CASE SearchReturns
  BY <1>3 DEF SearchReturns
<1>4. CASE Write
  BY <1>4 DEF Write
<1>5. CASE StartLexical \/ VectorsOnly
  BY <1>5 DEF StartLexical, VectorsOnly
<1>6. CASE LexicalWidens
  BY <1>6 DEF LexicalWidens
<1>7. CASE LexicalReturns
  BY <1>7 DEF LexicalReturns
<1>8. CASE Fuse \/ MergeEphemeral
  BY <1>8 DEF Fuse, MergeEphemeral
<1> QED BY <1>1, <1>2, <1>3, <1>4, <1>5, <1>6, <1>7, <1>8 DEF RetrievalNext

LEMMA AssemblyStages ==
  ASSUME AssemblyNext
  PROVE  /\ stage \notin {"ingest", "search", "between", "lexical", "fuse", "merge"}
         /\ stage' \notin {"ingest", "search", "between", "lexical", "fuse", "merge"}
         /\ UNCHANGED <<query, rows, hits, pool, candidates, writes>>
<1>1. CASE Rerank \/ Rank
  BY <1>1 DEF Rerank, Rank, Stage
<1>2. CASE Filter
  BY <1>2 DEF Filter, Stage
<1>3. CASE Compress
  BY <1>3 DEF Compress, Stage
<1>4. CASE Budget
  BY <1>4 DEF Budget, Stage
<1>5. CASE Build
  BY <1>5 DEF Build, Stage
<1>6. CASE Validate
  BY <1>6 DEF Validate, Stage
<1> QED BY <1>1, <1>2, <1>3, <1>4, <1>5, <1>6 DEF AssemblyNext

LEMMA NextSearch == SearchInv /\ [Next]_vars => SearchInv'
<1> SUFFICES ASSUME PromptTypes, NotSearched, [Next]_vars PROVE NotSearched'
  BY NextTypes DEF SearchInv
<1>1. CASE Ingest \/ UNCHANGED vars
  BY <1>1 DEF Ingest, vars, retrievalVars, hits, NotSearched
<1>2. CASE Collect
  BY <1>2 DEF Collect, hits, NotSearched
<1>3. CASE RetrievalNext
  BY <1>3, EarlyStages DEF NotSearched
<1>4. CASE AssemblyNext
  BY <1>4, AssemblyStages DEF NotSearched
<1> QED BY <1>1, <1>2, <1>3, <1>4 DEF Next

\* VectorStore.search and lexical_search, for any index, page size and widening: they
\* return the recall_k best chunks the caller may read, out of all there are, and no
\* other tenant's or principal's.
THEOREM BestAndAuthorized == Spec => BestAuthorized
<1>1. Init => SearchInv
  <2>1. Init => PromptTypes
    BY InitFresh, FreshInv, InitTypes DEF PromptTypes
  <2>2. Init => NotSearched
    BY DEF Init, NotSearched
  <2> QED BY <2>1, <2>2 DEF SearchInv
<1>2. ASSUME SearchInv, [Next]_vars
      PROVE  [/\ stage = "search" /\ stage' = "between" => vecHits' = Ideal(NearestFirst)
              /\ stage = "lexical" /\ stage' = "fuse" => lexHits' = Ideal(BestMatchFirst)]_retrievalVars
  <2>1. CASE RetrievalNext
    <3>1. stage = "search" /\ stage' = "between" => SearchAnswers
      BY <1>2, <2>1, EarlyStages, SearchIsBest, EmptySearchIsBest DEF SearchInv, NotSearched
    <3>2. stage = "lexical" /\ stage' = "fuse" => LexicalAnswers
      BY <1>2, <2>1, EarlyStages, LexicalIsBest DEF SearchInv
    <3> QED BY <3>1, <3>2 DEF SearchAnswers, LexicalAnswers
  <2>2. CASE Ingest \/ UNCHANGED vars
    BY <2>2 DEF Ingest, vars
  <2>3. CASE Collect
    BY <2>3 DEF Collect
  <2>4. CASE AssemblyNext
    BY <2>4, AssemblyStages
  <2> QED BY <1>2, <2>1, <2>2, <2>3, <2>4 DEF Next
<1> QED BY <1>1, <1>2, NextSearch, PTL DEF Spec, BestAuthorized
-----------------------------------------------------------------------------
(* A chunk has one live row, and is a hit of a channel once. *)

IdsOnce(s) == \A i, j \in DOMAIN s : s[i].id = s[j].id => i = j

\* The rows of t are rows of s, at different positions.
Selects(t, s) ==
  \E h \in Injection(DOMAIN t, DOMAIN s) : \A n \in DOMAIN t : t[n] = s[h[n]]

LEMMA SelectsOnce ==
  ASSUME NEW s, NEW t, Selects(t, s), LiveOnce(s)
  PROVE  LiveOnce(t)
<1>1. PICK h \in Injection(DOMAIN t, DOMAIN s) : \A n \in DOMAIN t : t[n] = s[h[n]]
  BY DEF Selects
<1>2. h \in [DOMAIN t -> DOMAIN s] /\ \A i, j \in DOMAIN t : h[i] = h[j] => i = j
  BY DEF Injection, IsInjective
<1> QED BY <1>1, <1>2 DEF LiveOnce

LEMMA PickSelects ==
  ASSUME NEW T, NEW s \in Seq(T), NEW P \in SUBSET DOMAIN s
  PROVE  Selects(Pick(s, P), s)
<1> DEFINE t == Pick(s, P)
           h == Places(P)
           C == Cardinality(P)
<1>1. /\ h \in [1..C -> P] /\ DOMAIN t = 1..C
      /\ \A n \in 1..C : t[n] = s[h[n]]
      /\ \A m, n \in 1..C : h[m] = h[n] => m = n
  BY PickFacts
<1> HIDE DEF t, h, C
<1>2. h \in Injection(DOMAIN t, DOMAIN s) /\ \A n \in DOMAIN t : t[n] = s[h[n]]
  BY <1>1 DEF Injection, IsInjective
<1> QED BY <1>2 DEF Selects, t

LEMMA SortSelects ==
  ASSUME NEW T, NEW s \in Seq(T), NEW beats, WeakOrder(DOMAIN s, beats)
  PROVE  Selects(SortedBy(s, beats), s)
<1> DEFINE t == SortedBy(s, beats)
           h == InOrder(DOMAIN s, Stable(s, beats))
<1>1. /\ h \in [DOMAIN s -> DOMAIN s] /\ DOMAIN t = DOMAIN s
      /\ \A n \in DOMAIN s : t[n] = s[h[n]]
      /\ \A m, n \in DOMAIN s : h[m] = h[n] => m = n
  BY SortFacts
<1> HIDE DEF t, h
<1>2. h \in Injection(DOMAIN t, DOMAIN s) /\ \A n \in DOMAIN t : t[n] = s[h[n]]
  BY <1>1 DEF Injection, IsInjective
<1> QED BY <1>2 DEF Selects, t

LEMMA RankingsOnce ==
  ASSUME rows \in Seq(Row), LiveOnce(rows)
  PROVE  LiveOnce(LiveRows) /\ LiveOnce(NearestFirst) /\ LiveOnce(BestMatchFirst)
<1>1. \A i \in DOMAIN rows : rows[i].item \in Item
  <2> TAKE i \in DOMAIN rows
  <2>1. rows[i] \in Row
    BY Positions
  <2> QED BY <2>1 DEF Row
<1>2. LiveOnce(LiveRows)
  <2> DEFINE P == {i \in DOMAIN rows : rows[i].live}
  <2>1. LiveRows = Pick(rows, P) /\ P \in SUBSET DOMAIN rows
    BY DEF LiveRows, Where
  <2> HIDE DEF P
  <2> QED BY <2>1, PickSelects, SelectsOnce
<1>3. LiveOnce(NearestFirst)
  <2> DEFINE key == [i \in DOMAIN rows |-> Similarity(rows[i].item)]
             beats == {p \in (DOMAIN rows) \X (DOMAIN rows) :
                         Closer(rows[p[1]].item, rows[p[2]].item)}
  <2>1. \A i \in DOMAIN rows : key[i] \in Int
    BY <1>1, SimilarityType
  <2>2. \A i, j \in DOMAIN rows : <<i, j>> \in beats <=> key[i] > key[j]
    BY DEF Closer
  <2>3. NearestFirst = SortedBy(rows, beats)
    BY DEF NearestFirst, Sorted
  <2> HIDE DEF key, beats
  <2>4. WeakOrder(DOMAIN rows, beats)
    BY <2>1, <2>2, KeyOrder
  <2> QED BY <2>3, <2>4, SortSelects, SelectsOnce
<1>4. LiveOnce(BestMatchFirst)
  <2> DEFINE B == {i \in DOMAIN rows : rows[i].live /\ rows[i].item.lex > 0}
             s == Pick(rows, B)
             key == [i \in DOMAIN s |-> s[i].item.lex]
             beats == {p \in (DOMAIN s) \X (DOMAIN s) : s[p[1]].item.lex > s[p[2]].item.lex}
  <2>1. Where(rows, LAMBDA r : r.live /\ r.item.lex > 0) = s /\ B \in SUBSET DOMAIN rows
    BY DEF Where
  <2>2. BestMatchFirst = SortedBy(s, beats)
    BY <2>1 DEF BestMatchFirst, Sorted
  <2>3. s \in Seq(Row) /\ LiveOnce(s)
    <3> HIDE DEF B
    <3> QED BY <2>1, PickType, PickSelects, SelectsOnce
  <2> HIDE DEF s
  <2>4. \A i \in DOMAIN s : key[i] \in Int
    <3> TAKE i \in DOMAIN s
    <3>1. s[i] \in Row
      BY <2>3, Positions
    <3> QED BY <3>1, ItemFacts DEF Row
  <2>5. \A i, j \in DOMAIN s : <<i, j>> \in beats <=> key[i] > key[j]
    OBVIOUS
  <2> HIDE DEF key, beats
  <2>6. WeakOrder(DOMAIN s, beats)
    BY <2>4, <2>5, KeyOrder
  <2> QED BY <2>2, <2>3, <2>6, SortSelects, SelectsOnce
<1> QED BY <1>2, <1>3, <1>4

LEMMA HitsOnce ==
  ASSUME NEW ranking \in Seq(Row), LiveOnce(ranking)
  PROVE  IdsOnce(HitsIn(ranking)) /\ Len(HitsIn(ranking)) <= RecallK
<1> DEFINE P == ReadableAt(ranking)
           C == Cardinality(P)
           N == Smaller(RecallK, C)
           at == Places(P)
<1>1. /\ Len(HitsIn(ranking)) = N /\ DOMAIN HitsIn(ranking) = 1..N /\ N \in 0..RecallK
      /\ N <= C /\ C \in Nat
      /\ at \in [1..C -> P]
      /\ \A n \in 1..N : HitsIn(ranking)[n] = ranking[at[n]].item
  BY HitsFacts
<1>2. P \in SUBSET DOMAIN ranking /\ \A i \in P : ranking[i].live
  BY DEF ReadableAt, Readable
<1>3. \A m, n \in 1..C : at[m] = at[n] => m = n
  <2> HIDE DEF P
  <2> QED BY <1>2, PickFacts
<1>7. RecallK \in Nat
  BY ConstantTypes
<1> HIDE DEF P, C, at, N
<1>4. N \in Nat /\ \A n \in 1..N : n \in 1..C
  BY <1>1, <1>7
<1>5. ASSUME NEW i \in 1..N, NEW j \in 1..N, HitsIn(ranking)[i].id = HitsIn(ranking)[j].id
      PROVE  i = j
  <2>1. /\ at[i] \in P /\ at[j] \in P /\ at[i] \in DOMAIN ranking /\ at[j] \in DOMAIN ranking
        /\ ranking[at[i]].live /\ ranking[at[j]].live
    BY <1>1, <1>2, <1>4
  <2>2. ranking[at[i]].item.id = ranking[at[j]].item.id
    BY <1>1, <1>5
  <2>3. at[i] = at[j]
    BY <2>1, <2>2 DEF LiveOnce
  <2> QED BY <1>3, <1>4, <2>3
<1>6. N <= RecallK
  BY <1>1, <1>7
<1> QED BY <1>1, <1>5, <1>6 DEF IdsOnce

LEMMA WriteOnce ==
  ASSUME rows \in Seq(Row), LiveOnce(rows), Write
  PROVE  LiveOnce(rows')
<1>1. ASSUME NEW id
      PROVE  /\ Dead(id) \in Seq(Row) /\ DOMAIN Dead(id) = DOMAIN rows
             /\ \A i \in DOMAIN rows : /\ Dead(id)[i].live => rows[i].live /\ Dead(id)[i].item.id # id
                                       /\ Dead(id)[i].item = rows[i].item
             /\ LiveOnce(Dead(id))
  <2>1. \A i \in DOMAIN rows : rows[i] \in Row
    BY Positions
  <2>2. /\ DOMAIN Dead(id) = DOMAIN rows
        /\ \A i \in DOMAIN rows : Dead(id)[i] = IF rows[i].item.id = id
                                                  THEN [rows[i] EXCEPT !.live = FALSE] ELSE rows[i]
    BY DEF Dead
  <2>3. \A i \in DOMAIN rows : /\ Dead(id)[i].live => rows[i].live /\ Dead(id)[i].item.id # id
                               /\ Dead(id)[i].item = rows[i].item
    BY <2>1, <2>2 DEF Row
  <2>4. LiveOnce(Dead(id))
    BY <2>2, <2>3 DEF LiveOnce
  <2> QED BY <2>2, <2>3, <2>4, DeadRows
<1>2. CASE rows' = LiveRows
  BY <1>2, RankingsOnce
<1>3. CASE \E r \in Elements(LiveRows) : rows' = Dead(r.item.id)
  BY <1>1, <1>3
<1>4. CASE \E r \in Elements(LiveRows), x \in Items :
             /\ x.id = r.item.id /\ x.ver # r.item.ver
             /\ rows' = Append(Dead(r.item.id), [item |-> x, live |-> TRUE])
  <2>1. PICK r \in Elements(LiveRows), x \in Items :
               x.id = r.item.id /\ rows' = Append(Dead(r.item.id), [item |-> x, live |-> TRUE])
    BY <1>4
  <2> DEFINE d == Dead(x.id)
             e == [item |-> x, live |-> TRUE]
  <2>2. /\ d \in Seq(Row) /\ LiveOnce(d) /\ e \in Row /\ rows' = Append(d, e)
        /\ \A i \in DOMAIN d : d[i].live => d[i].item.id # x.id
    <3>1. e \in Row
      BY RetrievalAssumption DEF Row
    <3> QED BY <1>1, <2>1, <3>1
  <2>3. e.live /\ e.item.id = x.id
    OBVIOUS
  <2> HIDE DEF d, e
  <2>4. /\ Len(d) \in Nat /\ DOMAIN d = 1..Len(d) /\ DOMAIN rows' = 1..(Len(d) + 1)
        /\ rows'[Len(d) + 1] = e /\ \A i \in DOMAIN d : rows'[i] = d[i]
    BY <2>2, AppendProperties, LenProperties
  <2>5. ASSUME NEW i \in DOMAIN rows', NEW j \in DOMAIN rows',
               rows'[i].live, rows'[j].live, rows'[i].item.id = rows'[j].item.id
        PROVE  i = j
    <3>1. (i \in DOMAIN d \/ i = Len(d) + 1) /\ (j \in DOMAIN d \/ j = Len(d) + 1)
      BY <2>4
    <3>2. CASE i \in DOMAIN d /\ j \in DOMAIN d
      BY <2>2, <2>4, <2>5, <3>2 DEF LiveOnce
    <3>3. CASE i \in DOMAIN d /\ j = Len(d) + 1
      BY <2>2, <2>3, <2>4, <2>5, <3>3
    <3>4. CASE i = Len(d) + 1 /\ j \in DOMAIN d
      BY <2>2, <2>3, <2>4, <2>5, <3>4
    <3> QED BY <3>1, <3>2, <3>3, <3>4
  <2> QED BY <2>5 DEF LiveOnce
<1> QED BY <1>2, <1>3, <1>4 DEF Write

LEMMA StoredOnce ==
  ASSUME NEW layout \in Layouts
  PROVE  LiveOnce(Stored(layout))
<1>1. layout \in Seq(Row) /\ LiveOnce(layout)
  BY LayoutsAssumption
<1>2. \A r \in DOMAIN layout : layout[r] \in Row /\ layout[r].item \in Item
  <2> TAKE r \in DOMAIN layout
  <2>1. layout[r] \in Row
    BY <1>1, Positions
  <2> QED BY <2>1 DEF Row
<1>3. /\ DOMAIN Stored(layout) = DOMAIN layout
      /\ \A r \in DOMAIN layout : Stored(layout)[r] =
           IF r \in DOMAIN chunks THEN [layout[r] EXCEPT !.item.tok = chunks[r].tok] ELSE layout[r]
  BY DEF Stored
<1>4. \A r \in DOMAIN layout : /\ Stored(layout)[r].live = layout[r].live
                               /\ Stored(layout)[r].item.id = layout[r].item.id
  BY <1>2, <1>3 DEF Row, Item
<1> QED BY <1>1, <1>3, <1>4 DEF LiveOnce
-----------------------------------------------------------------------------
(* Reciprocal ranks: who stands above in one channel and not below in the other has
   the greater sum. *)

LEMMA BothBetter ==
  ASSUME NEW a \in Nat \ {0}, NEW b \in Nat \ {0}, NEW c \in Nat \ {0}, NEW d \in Nat \ {0},
         a <= c, b <= d, a < c \/ b < d
  PROVE  (a + b) * (c * d) > (c + d) * (a * b)
<1> DEFINE P == a * c
           Q == b * d
<1>1. P \in Nat /\ P > 0 /\ Q \in Nat /\ Q > 0
  <2>1. 0 * c < a * c /\ 0 * d < b * d
    BY ProductGrows
  <2> QED BY <2>1
<1>2. (a + b) * (c * d) = d * P + c * Q
  OBVIOUS
<1>3. (c + d) * (a * b) = b * P + a * Q
  OBVIOUS
<1> HIDE DEF P, Q
<1>4. /\ b * P <= d * P /\ (b < d => b * P < d * P) /\ b * P \in Nat /\ d * P \in Nat
  BY <1>1, ProductGrows
<1>5. /\ a * Q <= c * Q /\ (a < c => a * Q < c * Q) /\ a * Q \in Nat /\ c * Q \in Nat
  BY <1>1, ProductGrows
<1> QED BY <1>2, <1>3, <1>4, <1>5

LEMMA OneMore ==
  ASSUME NEW a \in Nat \ {0}, NEW b \in Nat \ {0}, NEW c \in Nat \ {0}, a <= c
  PROVE  (a + b) * c > a * b
<1>1. a * b <= c * b /\ c * b \in Nat /\ a * b \in Nat
  BY ProductGrows
<1>2. 0 * c < a * c /\ a * c \in Nat
  BY ProductGrows
<1>3. (a + b) * c = a * c + c * b /\ 0 * c = 0
  OBVIOUS
<1> QED BY <1>1, <1>2, <1>3

LEMMA DominatorOutscores ==
  ASSUME HitsOK, Len(vecHits) <= RecallK, Len(lexHits) <= RecallK,
         NEW x, NEW y, Dominates(x, y),
         Place(vecHits, x) + Place(lexHits, x) > 0, Place(vecHits, y) + Place(lexHits, y) > 0
  PROVE  Outscores(x, y)
<1> DEFINE v == Place(vecHits, x)
           l == Place(lexHits, x)
           w == Place(vecHits, y)
           m == Place(lexHits, y)
           k == RrfK
           top == RecallK + 1
           At1(p) == IF p = 0 THEN top ELSE p
<1>1. k \in Nat /\ RecallK \in Nat
  BY ConstantTypes
<1>2. Len(vecHits) \in Nat /\ Len(lexHits) \in Nat
  BY LenProperties DEF HitsOK
<1>3. v \in 0..RecallK /\ l \in 0..RecallK /\ w \in 0..RecallK /\ m \in 0..RecallK
  <2>1. v \in 0..Len(vecHits) /\ w \in 0..Len(vecHits) /\ l \in 0..Len(lexHits) /\ m \in 0..Len(lexHits)
    BY PlaceFacts DEF HitsOK
  <2> QED BY <1>1, <1>2, <2>1
<1>4. /\ IdPlace(vecHits, x) = At1(v) /\ IdPlace(vecHits, y) = At1(w)
      /\ IdPlace(lexHits, x) = At1(l) /\ IdPlace(lexHits, y) = At1(m)
  <2>1. ASSUME NEW c \in Seq(Item), NEW z PROVE IdPlace(c, z) = At1(Place(c, z))
    <3>1. CASE \E i \in DOMAIN c : c[i].id = z.id
      <4>1. Place(c, z) = CHOOSE i \in DOMAIN c : c[i].id = z.id
        BY <3>1 DEF Place
      <4>2. IdPlace(c, z) = CHOOSE i \in DOMAIN c : c[i].id = z.id
        BY <3>1 DEF IdPlace
      <4>3. Place(c, z) # 0
        <5>1. Place(c, z) \in DOMAIN c
          BY <3>1, <4>1
        <5>2. DOMAIN c = 1..Len(c)
          BY LenProperties
        <5> QED BY <5>1, <5>2
      <4> QED BY <4>1, <4>2, <4>3
    <3>2. CASE ~\E i \in DOMAIN c : c[i].id = z.id
      BY <3>2 DEF IdPlace, Place
    <3> QED BY <3>1, <3>2
  <2> HIDE DEF At1
  <2> QED BY <2>1 DEF HitsOK
<1>5. /\ At1(v) <= At1(w) /\ At1(l) <= At1(m) /\ (At1(v) < At1(w) \/ At1(l) < At1(m))
  BY <1>4 DEF Dominates
<1>6. v + l > 0 /\ w + m > 0
  OBVIOUS
<1>7. /\ Rrf(x) = CASE l = 0 -> [num |-> 1, den |-> k + v]
                    [] v = 0 -> [num |-> 1, den |-> k + l]
                    [] OTHER -> [num |-> 2 * k + v + l, den |-> (k + v) * (k + l)]
      /\ Rrf(y) = CASE m = 0 -> [num |-> 1, den |-> k + w]
                    [] w = 0 -> [num |-> 1, den |-> k + m]
                    [] OTHER -> [num |-> 2 * k + w + m, den |-> (k + w) * (k + m)]
  BY DEF Rrf
<1> HIDE DEF v, l, w, m, k
<1>8. /\ w # 0 => v # 0 /\ v <= w
      /\ m # 0 => l # 0 /\ l <= m
      /\ v = 0 => w = 0
      /\ l = 0 => m = 0
      /\ l # 0 /\ m # 0 /\ v # 0 /\ w # 0 => v < w \/ l < m
      /\ l = 0 /\ m = 0 => v < w
      /\ v = 0 /\ w = 0 => l < m
  BY <1>1, <1>3, <1>5, <1>6
<1>9. Outscores(x, y) <=> Rrf(x).num * Rrf(y).den > Rrf(y).num * Rrf(x).den
  BY DEF Outscores
<1>10. CASE l = 0
  <2>1. m = 0 /\ v < w /\ v # 0 /\ w # 0
    BY <1>3, <1>6, <1>8, <1>10
  <2>2. Rrf(x) = [num |-> 1, den |-> k + v] /\ Rrf(y) = [num |-> 1, den |-> k + w]
    BY <1>7, <1>10, <2>1
  <2>3. 1 * (k + w) > 1 * (k + v)
    BY <1>1, <1>3, <2>1
  <2> QED BY <1>9, <2>2, <2>3
<1>11. CASE l # 0 /\ v = 0
  <2>1. w = 0 /\ l < m /\ m # 0
    BY <1>3, <1>6, <1>8, <1>11
  <2>2. Rrf(x) = [num |-> 1, den |-> k + l] /\ Rrf(y) = [num |-> 1, den |-> k + m]
    BY <1>7, <1>11, <2>1
  <2>3. 1 * (k + m) > 1 * (k + l)
    BY <1>1, <1>3, <2>1
  <2> QED BY <1>9, <2>2, <2>3
<1>12. CASE l # 0 /\ v # 0
  <2>1. Rrf(x) = [num |-> 2 * k + v + l, den |-> (k + v) * (k + l)]
    BY <1>7, <1>12
  <2>2. k + v \in Nat \ {0} /\ k + l \in Nat \ {0} /\ 2 * k + v + l = (k + v) + (k + l)
    BY <1>1, <1>3, <1>12
  <2>3. CASE m = 0
    <3>1. w # 0 /\ v <= w /\ k + w \in Nat \ {0} /\ k + v <= k + w
      BY <1>1, <1>3, <1>6, <1>8, <2>3
    <3>2. Rrf(y) = [num |-> 1, den |-> k + w]
      BY <1>7, <2>3
    <3>3. ((k + v) + (k + l)) * (k + w) > (k + v) * (k + l)
      BY <2>2, <3>1, OneMore
    <3>4. (k + v) * (k + l) = 1 * ((k + v) * (k + l))
      BY <2>2
    <3> QED BY <1>9, <2>1, <2>2, <3>2, <3>3, <3>4
  <2>4. CASE m # 0 /\ w = 0
    <3>1. l <= m /\ k + m \in Nat \ {0} /\ k + l <= k + m
      BY <1>1, <1>3, <1>8, <2>4
    <3>2. Rrf(y) = [num |-> 1, den |-> k + m]
      BY <1>7, <2>4
    <3>3. ((k + l) + (k + v)) * (k + m) > (k + l) * (k + v)
      BY <2>2, <3>1, OneMore
    <3>4. /\ (k + l) * (k + v) = 1 * ((k + v) * (k + l))
          /\ ((k + l) + (k + v)) * (k + m) = ((k + v) + (k + l)) * (k + m)
      BY <2>2, <3>1
    <3>5. ((k + v) + (k + l)) * (k + m) > 1 * ((k + v) * (k + l))
      BY <3>3, <3>4
    <3> QED BY <1>9, <2>1, <2>2, <3>2, <3>5
  <2>5. CASE m # 0 /\ w # 0
    <3>1. /\ k + w \in Nat \ {0} /\ k + m \in Nat \ {0} /\ k + v <= k + w /\ k + l <= k + m
          /\ (k + v < k + w \/ k + l < k + m) /\ 2 * k + w + m = (k + w) + (k + m)
      BY <1>1, <1>3, <1>8, <1>12, <2>5
    <3>2. Rrf(y) = [num |-> 2 * k + w + m, den |-> (k + w) * (k + m)]
      BY <1>7, <2>5
    <3>3. ((k + v) + (k + l)) * ((k + w) * (k + m)) > ((k + w) + (k + m)) * ((k + v) * (k + l))
      BY <2>2, <3>1, BothBetter
    <3> QED BY <1>9, <2>1, <2>2, <3>1, <3>2, <3>3
  <2> QED BY <2>3, <2>4, <2>5
<1> QED BY <1>10, <1>11, <1>12
-----------------------------------------------------------------------------
(* The fused list: one item for each chunk a channel found. *)

LEMMA SameId ==
  ASSUME NEW x, NEW y, x.id = y.id
  PROVE  /\ \A c : Place(c, x) = Place(c, y)
         /\ \A z : Dominates(x, z) <=> Dominates(y, z)
BY DEF Place, Dominates, IdPlace

LEMMA FusedOnce ==
  ASSUME HitsOK, IdsOnce(vecHits), IdsOnce(lexHits)
  PROVE  IdsOnce(FusedItems)
<1> DEFINE m == Len(vecHits)
           C == Cardinality(FusedAt)
           at == Places(FusedAt)
           F == FusedItems
<1>1. \A i \in DOMAIN F :
        \/ i \in DOMAIN vecHits /\ F[i] = vecHits[i]
        \/ i - m \in 1..C /\ i \notin DOMAIN vecHits /\ at[i - m] \in FusedAt /\ F[i] = lexHits[at[i - m]]
  BY FusedFacts
<1>2. FusedAt \in SUBSET DOMAIN lexHits /\ FusedItems \in Seq(Item)
  BY FusedFacts
<1>3. \A k, n \in 1..C : at[k] = at[n] => k = n
  <2>1. lexHits \in Seq(Item)
    BY DEF HitsOK
  <2> QED BY <1>2, <2>1, PickFacts
<1>4. \A i \in DOMAIN F : i \in Nat
  BY <1>2, Positions
<1>5. m \in Nat
  BY LenProperties DEF HitsOK
<1>6. \A k \in FusedAt : \A i \in DOMAIN vecHits : vecHits[i].id # lexHits[k].id
  <2>1. vecHits \in Seq(Item) /\ \A k \in FusedAt : Place(vecHits, lexHits[k]) = 0
    BY DEF HitsOK, FusedAt
  <2> QED BY <2>1, PlaceFacts
<1> HIDE DEF m, C, at, F
<1>7. ASSUME NEW i \in DOMAIN F, NEW j \in DOMAIN F, F[i].id = F[j].id PROVE i = j
  <2>1. CASE i \in DOMAIN vecHits /\ F[i] = vecHits[i] /\ j \in DOMAIN vecHits /\ F[j] = vecHits[j]
    BY <1>7, <2>1 DEF IdsOnce
  <2>2. CASE /\ i \in DOMAIN vecHits /\ F[i] = vecHits[i]
             /\ at[j - m] \in FusedAt /\ F[j] = lexHits[at[j - m]]
    BY <1>6, <1>7, <2>2
  <2>3. CASE /\ j \in DOMAIN vecHits /\ F[j] = vecHits[j]
             /\ at[i - m] \in FusedAt /\ F[i] = lexHits[at[i - m]]
    BY <1>6, <1>7, <2>3
  <2>4. CASE /\ i - m \in 1..C /\ at[i - m] \in FusedAt /\ F[i] = lexHits[at[i - m]]
             /\ j - m \in 1..C /\ at[j - m] \in FusedAt /\ F[j] = lexHits[at[j - m]]
    <3>1. at[i - m] = at[j - m]
      BY <1>2, <1>7, <2>4 DEF IdsOnce
    <3>2. i - m = j - m
      BY <1>3, <2>4, <3>1
    <3> QED BY <1>4, <1>5, <3>2
  <2> QED BY <1>1, <2>1, <2>2, <2>3, <2>4
<1> QED BY <1>7 DEF IdsOnce, F

LEMMA Represented ==
  ASSUME HitsOK, NEW x \in Elements(vecHits) \cup Elements(lexHits)
  PROVE  \E k \in DOMAIN FusedItems : FusedItems[k].id = x.id
<1> DEFINE m == Len(vecHits)
           C == Cardinality(FusedAt)
           at == Places(FusedAt)
           F == FusedItems
<1>1. /\ FusedItems \in Seq(Item) /\ Len(F) = m + Len(Pick(lexHits, FusedAt))
      /\ FusedAt \in SUBSET DOMAIN lexHits
      /\ \A i \in DOMAIN F :
           \/ i \in DOMAIN vecHits /\ F[i] = vecHits[i]
           \/ i \notin DOMAIN vecHits /\ F[i] = lexHits[at[i - m]]
  BY FusedFacts
<1>2. vecHits \in Seq(Item) /\ lexHits \in Seq(Item)
  BY DEF HitsOK
<1>3. Len(Pick(lexHits, FusedAt)) = C /\ \A i \in FusedAt : \E n \in 1..C : at[n] = i
  BY <1>1, <1>2, PickFacts
<1>4. m \in Nat /\ DOMAIN vecHits = 1..m
  BY <1>2, LenProperties
<1>5. C \in Nat
  <2>1. Len(lexHits) \in Nat /\ C \in 0..Len(lexHits)
    BY <1>1, <1>2, PickFacts, LenProperties
  <2> HIDE DEF C
  <2> QED BY <2>1
<1>6. DOMAIN F = 1..(m + C)
  BY <1>1, <1>3, LenProperties
<1> HIDE DEF m, C, at, F
<1>7. ASSUME NEW i \in DOMAIN vecHits PROVE \E k \in DOMAIN F : F[k] = vecHits[i]
  <2>1. i \in DOMAIN F
    BY <1>4, <1>5, <1>6
  <2> QED BY <1>1, <2>1
<1>8. ASSUME NEW i \in FusedAt PROVE \E k \in DOMAIN F : F[k] = lexHits[i]
  <2>1. PICK n \in 1..C : at[n] = i
    BY <1>3
  <2>2. m + n \in DOMAIN F /\ m + n \notin DOMAIN vecHits /\ (m + n) - m = n
    BY <1>4, <1>5, <1>6
  <2> QED BY <1>1, <2>1, <2>2
<1>9. CASE x \in Elements(vecHits)
  BY <1>7, <1>9 DEF Elements, F
<1>10. CASE x \in Elements(lexHits)
  <2>1. PICK j \in DOMAIN lexHits : lexHits[j] = x
    BY <1>10 DEF Elements
  <2>2. CASE Place(vecHits, x) = 0
    BY <1>8, <2>1, <2>2 DEF FusedAt, F
  <2>3. CASE Place(vecHits, x) # 0
    <3>1. Place(vecHits, x) \in DOMAIN vecHits /\ vecHits[Place(vecHits, x)].id = x.id
      BY <1>2, <2>3, PlaceFacts
    <3> QED BY <1>7, <3>1 DEF F
  <2> QED BY <2>2, <2>3
<1> QED BY <1>9, <1>10

FairlyFused ==
  /\ IdsOnce(candidates)
  /\ \A x \in Elements(vecHits) \cup Elements(lexHits) : \A j \in DOMAIN candidates :
       Dominates(x, candidates[j]) => \E i \in 1..(j - 1) : candidates[i].id = x.id

LEMMA FuseIsFair ==
  ASSUME HitsOK, IdsOnce(vecHits), IdsOnce(lexHits),
         Len(vecHits) <= RecallK, Len(lexHits) <= RecallK, Fuse
  PROVE  FairlyFused'
<1> DEFINE F == FusedItems
           t == SortedBy(F, Ranked)
           at == InOrder(DOMAIN F, Stable(F, Ranked))
           N == Smaller(RecallK, Len(t))
           c == FirstOf(t, RecallK)
<1>1. FusedItems \in Seq(Item) /\ WeakOrder(DOMAIN FusedItems, Ranked)
  BY FusedFacts, FusedOrder DEF Ranked
<1>2. /\ t \in Seq(Item) /\ Len(t) = Len(F) /\ DOMAIN F = 1..Len(F) /\ Len(F) \in Nat
      /\ at \in [DOMAIN F -> DOMAIN F] /\ \A n \in DOMAIN F : t[n] = F[at[n]]
      /\ \A i \in DOMAIN F : \E n \in DOMAIN F : at[n] = i
      /\ \A i, n \in DOMAIN F : at[i] = at[n] => i = n
      /\ \A i, n \in DOMAIN F : <<at[i], at[n]>> \in Ranked => i < n
  BY <1>1, SortFacts
<1>3. candidates' = c
  BY DEF Fuse, Sorted, Ranked
<1>4. UNCHANGED <<vecHits, lexHits>>
  BY DEF Fuse, hits
<1>5. IdsOnce(F)
  BY FusedOnce
<1>6. \A i, j \in DOMAIN F : Outscores(F[i], F[j]) => <<i, j>> \in Ranked
  BY DEF Ranked
<1>7. \A i \in DOMAIN F : Place(vecHits, F[i]) + Place(lexHits, F[i]) > 0
  BY FusedFacts
<1>8. \A x \in Elements(vecHits) \cup Elements(lexHits) : \E k \in DOMAIN F : F[k].id = x.id
  BY Represented
<1>9. RecallK \in Nat
  BY ConstantTypes
<1> HIDE DEF F, at, t
<1>10. DOMAIN c = 1..N /\ N \in 0..Len(t) /\ \A n \in 1..N : c[n] = t[n]
  BY <1>2, <1>9, FirstOfFacts
<1> HIDE DEF c, N
<1>11. \A n \in 1..N : n \in DOMAIN F /\ c[n] = F[at[n]] /\ at[n] \in DOMAIN F
  <2> TAKE n \in 1..N
  <2>1. Len(F) \in Nat /\ N \in 0..Len(F)
    BY <1>2, <1>10
  <2>2. n \in 1..Len(F)
    BY <2>1
  <2> QED BY <1>2, <1>10, <2>2
<1>12. IdsOnce(c)
  <2> SUFFICES ASSUME NEW i \in 1..N, NEW j \in 1..N, c[i].id = c[j].id PROVE i = j
    BY <1>10 DEF IdsOnce
  <2>1. at[i] = at[j]
    BY <1>5, <1>11 DEF IdsOnce
  <2> QED BY <1>2, <1>11, <2>1
<1>13. ASSUME NEW x \in Elements(vecHits) \cup Elements(lexHits), NEW j \in DOMAIN c, Dominates(x, c[j])
       PROVE  \E i \in 1..(j - 1) : c[i].id = x.id
  <2>1. PICK k \in DOMAIN F : F[k].id = x.id
    BY <1>8
  <2>2. PICK n \in DOMAIN F : at[n] = k
    BY <1>2
  <2>3. j \in 1..N /\ j \in DOMAIN F /\ at[j] \in DOMAIN F /\ c[j] = F[at[j]]
    BY <1>10, <1>11
  <2>4. Dominates(F[k], F[at[j]])
    BY <1>13, <2>1, <2>3, SameId
  <2>5. /\ Place(vecHits, F[k]) + Place(lexHits, F[k]) > 0
        /\ Place(vecHits, F[at[j]]) + Place(lexHits, F[at[j]]) > 0
    BY <1>7, <2>3
  <2>6. Outscores(F[k], F[at[j]])
    BY <2>4, <2>5, DominatorOutscores
  <2>7. <<at[n], at[j]>> \in Ranked
    BY <1>6, <2>2, <2>3, <2>6
  <2>8. n < j
    BY <1>2, <2>3, <2>7
  <2>9. n \in 1..(j - 1) /\ n \in 1..N
    <3>1. n \in Nat /\ n > 0
      <4>1. DOMAIN F = 1..Len(F) /\ Len(F) \in Nat
        BY <1>2
      <4>2. n \in 1..Len(F)
        BY <4>1
      <4> QED BY ONLY <4>1, <4>2
    <3>2. Len(t) \in Nat
      BY <1>2
    <3>3. N \in Nat
      BY <1>10, <3>2
    <3> QED BY <2>3, <2>8, <3>1, <3>3
  <2>10. c[n].id = x.id
    BY <1>11, <2>1, <2>2, <2>9
  <2> QED BY <2>9, <2>10
<1>14. \A x, y : Dominates(x, y)' <=> Dominates(x, y)
  BY <1>4 DEF Dominates
<1> QED BY <1>3, <1>4, <1>12, <1>13, <1>14 DEF FairlyFused

\* One live row per chunk, each chunk a hit once, at most recall_k hits of a channel.
RowsOnce == LiveOnce(rows)
HitsAreOnce ==
  IdsOnce(vecHits) /\ IdsOnce(lexHits) /\ Len(vecHits) <= RecallK /\ Len(lexHits) <= RecallK
FusedInv == PromptTypes /\ RowsOnce /\ HitsAreOnce /\ FusedOnceAndFairly

\* Only VectorsOnly, which is for requests that are not hybrid, and Fuse lead to "merge".
LEMMA MergeStages ==
  ASSUME [Next]_vars, stage' = "merge"
  PROVE  Fuse \/ ~query'.hybrid \/ UNCHANGED retrievalVars
<1>1. CASE Ingest \/ UNCHANGED vars
  BY <1>1 DEF Ingest, vars
<1>2. CASE Collect
  BY <1>2 DEF Collect
<1>3. CASE RetrievalNext
  BY <1>3 DEF RetrievalNext, StartSearch, SearchWidens, SearchReturns, Write, StartLexical,
              VectorsOnly, LexicalWidens, LexicalReturns, Fuse, MergeEphemeral
<1>4. CASE AssemblyNext
  BY <1>4, AssemblyStages
<1> QED BY <1>1, <1>2, <1>3, <1>4 DEF Next

LEMMA RetrievalOnce ==
  ASSUME PromptTypes, RowsOnce, HitsAreOnce, RetrievalNext
  PROVE  RowsOnce' /\ HitsAreOnce'
<1>1. rows \in Seq(Row) /\ NearestFirst \in Seq(Row) /\ BestMatchFirst \in Seq(Row)
  BY RankingTypes DEF PromptTypes, RetrievalTypeOK
<1>2. LiveOnce(NearestFirst) /\ LiveOnce(BestMatchFirst)
  BY <1>1, RankingsOnce DEF RowsOnce
<1>3. CASE SearchReturns
  <2>1. IdsOnce(vecHits') /\ Len(vecHits') <= RecallK
    BY <1>1, <1>2, <1>3, SearchIsBest, HitsOnce
  <2> QED BY <1>3, <2>1 DEF SearchReturns, RowsOnce, HitsAreOnce
<1>4. CASE LexicalReturns
  <2>1. IdsOnce(lexHits') /\ Len(lexHits') <= RecallK
    BY <1>1, <1>2, <1>4, LexicalIsBest, HitsOnce
  <2> QED BY <1>4, <2>1 DEF LexicalReturns, RowsOnce, HitsAreOnce
<1>5. CASE Write
  <2>1. LiveOnce(rows')
    BY <1>1, <1>5, WriteOnce DEF RowsOnce
  <2> QED BY <1>5, <2>1 DEF Write, hits, RowsOnce, HitsAreOnce
<1>6. CASE StartSearch \/ SearchWidens \/ StartLexical \/ LexicalWidens
  BY <1>6 DEF StartSearch, SearchWidens, StartLexical, LexicalWidens, RowsOnce, HitsAreOnce
<1>7. CASE VectorsOnly \/ Fuse \/ MergeEphemeral
  BY <1>7 DEF VectorsOnly, Fuse, MergeEphemeral, hits, RowsOnce, HitsAreOnce
<1> QED BY <1>3, <1>4, <1>5, <1>6, <1>7 DEF RetrievalNext

LEMMA NextOnce ==
  ASSUME PromptTypes, RowsOnce, HitsAreOnce, [Next]_vars
  PROVE  RowsOnce' /\ HitsAreOnce'
<1>1. CASE Ingest \/ UNCHANGED vars
  BY <1>1 DEF Ingest, vars, retrievalVars, hits, RowsOnce, HitsAreOnce
<1>2. CASE Collect
  <2>1. LiveOnce(rows')
    BY <1>2, StoredOnce DEF Collect
  <2> QED BY <1>2, <2>1 DEF Collect, hits, RowsOnce, HitsAreOnce
<1>3. CASE RetrievalNext
  BY <1>3, RetrievalOnce
<1>4. CASE AssemblyNext
  BY <1>4, AssemblyStages DEF hits, RowsOnce, HitsAreOnce
<1> QED BY <1>1, <1>2, <1>3, <1>4 DEF Next

LEMMA FusedMeans ==
  FusedOnceAndFairly <=> (stage = "merge" /\ query.hybrid => FairlyFused)
BY DEF FusedOnceAndFairly, FairlyFused, IdsOnce

LEMMA FusedMeansNext ==
  FusedOnceAndFairly' <=> (stage = "merge" /\ query.hybrid => FairlyFused)'
BY FusedMeans, PTL

LEMMA NextFused == FusedInv /\ [Next]_vars => FusedInv'
<1> SUFFICES ASSUME PromptTypes, RowsOnce, HitsAreOnce, FusedOnceAndFairly, [Next]_vars,
                    stage' = "merge", query'.hybrid
             PROVE  FairlyFused'
  BY NextTypes, NextOnce, FusedMeansNext DEF FusedInv
<1>1. CASE Fuse
  BY <1>1, FuseIsFair DEF PromptTypes, RetrievalTypeOK, HitsOK, HitsAreOnce
<1>2. CASE UNCHANGED retrievalVars
  <2>1. FairlyFused
    BY <1>2, FusedMeans DEF retrievalVars
  <2>2. UNCHANGED <<vecHits, lexHits, candidates>>
    BY <1>2 DEF retrievalVars, hits
  <2> QED BY <2>1, <2>2 DEF FairlyFused, Dominates
<1> QED BY <1>1, <1>2, MergeStages

\* The fused list names each chunk once and keeps the order both channels agree on,
\* for any recall_k, rrf_k and index, and whatever is written between the channels.
THEOREM FusesFairly == Spec => []FusedOnceAndFairly
<1>1. Init => FusedInv
  <2> SUFFICES ASSUME Init PROVE FusedInv
    OBVIOUS
  <2>1. PromptTypes
    BY InitFresh, FreshInv, InitTypes DEF PromptTypes
  <2>2. rows = <<>> /\ vecHits = <<>> /\ lexHits = <<>> /\ stage = "ingest"
    BY DEF Init
  <2>3. RecallK \in Nat
    BY ConstantTypes
  <2>4. RowsOnce /\ HitsAreOnce
    BY <2>2, <2>3 DEF RowsOnce, HitsAreOnce, LiveOnce, IdsOnce
  <2>5. FusedOnceAndFairly
    BY <2>2 DEF FusedOnceAndFairly
  <2> QED BY <2>1, <2>4, <2>5 DEF FusedInv
<1>2. FusedInv => FusedOnceAndFairly
  BY DEF FusedInv
<1> QED BY <1>1, <1>2, NextFused, PTL DEF Spec
-----------------------------------------------------------------------------
(* The filter: three times items are picked, and each time their order is kept. *)

\* t are items of s, h says where they stood; all those at P are there.
Thins(t, s, h, P) ==
  /\ \A n \in DOMAIN t : h[n] \in P /\ t[n] = s[h[n]]
  /\ \A i \in P : \E n \in DOMAIN t : h[n] = i
  /\ \A m, n \in DOMAIN t : m < n => h[m] < h[n]

LEMMA PickThins ==
  ASSUME NEW s \in Seq(Item), NEW P \in SUBSET DOMAIN s
  PROVE  Thins(Pick(s, P), s, Places(P), P) /\ Pick(s, P) \in Seq(Item)
<1> DEFINE t == Pick(s, P)
           h == Places(P)
           C == Cardinality(P)
<1>1. /\ t \in Seq(Item) /\ DOMAIN t = 1..C
      /\ h \in [1..C -> P] /\ \A n \in 1..C : t[n] = s[h[n]]
      /\ \A i \in P : \E n \in 1..C : h[n] = i
      /\ \A m, n \in 1..C : h[m] < h[n] <=> m < n
  BY PickFacts
<1> HIDE DEF t, h, C
<1> QED BY <1>1 DEF Thins, t, h

\* The first of the positions in a set.
LEMMA Foremost ==
  ASSUME NEW s \in Seq(Item), NEW P \in SUBSET DOMAIN s, P # {}
  PROVE  \E i \in P : \A j \in P : i <= j
<1> DEFINE C == Cardinality(P)
           h == Places(P)
           t == Pick(s, P)
<1>1. /\ C \in 0..Len(s) /\ h \in [1..C -> P] /\ t \in Seq(Item) /\ Len(t) = C
      /\ \A i \in P : \E n \in 1..C : h[n] = i
      /\ \A m, n \in 1..C : h[m] < h[n] <=> m < n
      /\ \A m, n \in 1..C : h[m] = h[n] => m = n
  BY PickFacts
<1>2. C \in Nat
  BY <1>1, LenProperties
<1>3. P \in SUBSET Nat
  BY Positions
<1> HIDE DEF C, h, t
<1>4. 1 \in 1..C
  BY <1>1, <1>2
<1>5. ASSUME NEW j \in P PROVE h[1] <= j
  <2>1. PICK n \in 1..C : h[n] = j
    BY <1>1
  <2>2. n = 1 \/ 1 < n
    BY <1>2
  <2>3. h[1] = h[n] \/ h[1] < h[n]
    BY <1>1, <1>4, <2>2
  <2>4. h[1] \in Nat /\ h[n] \in Nat
    BY <1>1, <1>3, <1>4
  <2> QED BY <2>1, <2>3, <2>4
<1> QED BY <1>1, <1>4, <1>5

ScoreSorted(s) == \A i, j \in DOMAIN s : i < j => Score(s[i]) >= Score(s[j])

LEMMA NearEachOther ==
  ASSUME NEW x \in Item, NEW y \in Item, Near(x, y)
  PROVE  Near(y, x)
<1>1. x.emb \in Int /\ y.emb \in Int /\ DupWidth \in Nat
  BY ItemFacts, AssemblyAssumption
<1> QED BY <1>1 DEF Near

Keepable(t) ==
  \A i, j \in DOMAIN t : i < j =>
    /\ Score(t[i]) >= Score(t[j])
    /\ ~Near(t[i], t[j])
    /\ t[i].fact = t[j].fact /\ t[i].fact # NoFact => t[i].value = t[j].value

Agreeing(r, x) == {y \in Elements(r) : Fresh(y) /\ y.fact = x.fact}
Droppable(r, t, x) ==
  \/ ~Fresh(x)
  \/ x.fact # NoFact /\ \E y, z \in Agreeing(r, x) :
       y # x /\ Score(y) >= Score(x) /\ z.value # y.value
  \/ \E y \in OverIn(r, x) \cap Elements(t) : Near(x, y)

LEMMA UnopposedAgree ==
  ASSUME NEW f \in Seq(Item), NEW p \in DOMAIN f, NEW q \in DOMAIN f, p < q,
         Unopposed(f, p), Unopposed(f, q), f[p].fact = f[q].fact, f[p].fact # NoFact
  PROVE  f[p].value = f[q].value
<1>1. p \in Group(f, q) /\ q \in Group(f, p)
  BY DEF Group
<1>2. CASE \A j \in Group(f, p) : f[j].value = f[p].value
  BY <1>1, <1>2
<1>3. CASE \A j \in Group(f, q) : f[j].value = f[q].value
  BY <1>1, <1>3
<1>4. CASE Winner(f, p) /\ Winner(f, q)
  <2>1. f[p] \in Item /\ f[q] \in Item /\ p \in Nat /\ q \in Nat
    BY Positions
  <2>2. /\ Score(f[p]) \in Int /\ Score(f[q]) \in Int /\ f[p].stamp \in Nat /\ f[q].stamp \in Nat
    BY <2>1, SimilarityType, ItemFacts
  <2>3. /\ \/ Score(f[q]) > Score(f[p])
           \/ Score(f[q]) = Score(f[p]) /\ f[q].stamp > f[p].stamp
           \/ Score(f[q]) = Score(f[p]) /\ f[q].stamp = f[p].stamp /\ q <= p
        /\ \/ Score(f[p]) > Score(f[q])
           \/ Score(f[p]) = Score(f[q]) /\ f[p].stamp > f[q].stamp
           \/ Score(f[p]) = Score(f[q]) /\ f[p].stamp = f[q].stamp /\ p <= q
    BY <1>1, <1>4 DEF Winner
  <2> QED BY <2>1, <2>2, <2>3
<1> QED BY <1>2, <1>3, <1>4 DEF Unopposed

\* The first occurrence of x in f lost to another item.
LEMMA Opposed ==
  ASSUME NEW f \in Seq(Item), NEW n \in DOMAIN f, ~Unopposed(f, n),
         \A j \in DOMAIN f : f[j] = f[n] => n <= j
  PROVE  /\ f[n].fact # NoFact
         /\ \E y, z \in {f[j] : j \in Group(f, n)} :
              y # f[n] /\ Score(y) >= Score(f[n]) /\ z.value # y.value
<1>1. /\ f[n].fact # NoFact /\ ~Winner(f, n)
      /\ \E j \in Group(f, n) : f[j].value # f[n].value
  BY DEF Unopposed
<1>2. PICK o \in Group(f, n) : f[o].value # f[n].value
  BY <1>1
<1>3. PICK m \in Group(f, n) :
        ~ (\/ Score(f[n]) > Score(f[m])
           \/ Score(f[n]) = Score(f[m]) /\ f[n].stamp > f[m].stamp
           \/ Score(f[n]) = Score(f[m]) /\ f[n].stamp = f[m].stamp /\ n <= m)
  BY <1>1 DEF Winner
<1>4. m \in DOMAIN f /\ n \in Group(f, n)
  BY DEF Group
<1>5. f[m] \in Item /\ f[n] \in Item
  BY <1>4, Positions
<1>6. Score(f[m]) \in Int /\ Score(f[n]) \in Int
  BY <1>5, SimilarityType
<1>7. Score(f[m]) >= Score(f[n])
  BY <1>3, <1>6
<1>8. f[m] # f[n]
  BY <1>3, <1>4
<1>9. f[o].value # f[m].value \/ f[n].value # f[m].value
  BY <1>2
<1> QED BY <1>1, <1>4, <1>7, <1>8, <1>9

LEMMA KeptIsKeepable ==
  ASSUME NEW r \in Seq(Item), ScoreSorted(r), NEW f \in Seq(Item), NEW s \in Seq(Item),
         NEW t \in Seq(Item), NEW K \in SUBSET DOMAIN s,
         NEW a, Thins(f, r, a, FreshAt(r)),
         NEW b, Thins(s, f, b, UnopposedAt(f)),
         NEW c, Thins(t, s, c, K), \A i \in DOMAIN s : i \in K <=> New(s, K, i)
  PROVE  Keepable(t)
<1> SUFFICES ASSUME NEW i \in DOMAIN t, NEW j \in DOMAIN t, i < j
             PROVE  /\ Score(t[i]) >= Score(t[j])
                    /\ ~Near(t[i], t[j])
                    /\ t[i].fact = t[j].fact /\ t[i].fact # NoFact => t[i].value = t[j].value
  BY DEF Keepable
<1>1. /\ c[i] \in K /\ c[j] \in K /\ c[i] < c[j] /\ t[i] = s[c[i]] /\ t[j] = s[c[j]]
      /\ c[i] \in DOMAIN s /\ c[j] \in DOMAIN s
  BY DEF Thins
<1>2. /\ b[c[i]] < b[c[j]] /\ s[c[i]] = f[b[c[i]]] /\ s[c[j]] = f[b[c[j]]]
      /\ b[c[i]] \in UnopposedAt(f) /\ b[c[j]] \in UnopposedAt(f)
  BY <1>1 DEF Thins
<1>3. /\ b[c[i]] \in DOMAIN f /\ b[c[j]] \in DOMAIN f
      /\ Unopposed(f, b[c[i]]) /\ Unopposed(f, b[c[j]])
  BY <1>2 DEF UnopposedAt
<1>4. /\ a[b[c[i]]] < a[b[c[j]]] /\ f[b[c[i]]] = r[a[b[c[i]]]] /\ f[b[c[j]]] = r[a[b[c[j]]]]
      /\ a[b[c[i]]] \in FreshAt(r) /\ a[b[c[j]]] \in FreshAt(r)
  BY <1>2, <1>3 DEF Thins
<1>5. Score(t[i]) >= Score(t[j])
  <2>1. a[b[c[i]]] \in DOMAIN r /\ a[b[c[j]]] \in DOMAIN r
    BY <1>4 DEF FreshAt
  <2> QED BY <1>1, <1>2, <1>4, <2>1 DEF ScoreSorted
<1>6. ~Near(t[i], t[j])
  BY <1>1 DEF New
<1>7. ASSUME t[i].fact = t[j].fact, t[i].fact # NoFact PROVE t[i].value = t[j].value
  <2>1. t[i] = f[b[c[i]]] /\ t[j] = f[b[c[j]]]
    BY <1>1, <1>2
  <2> QED BY <1>2, <1>3, <1>7, <2>1, UnopposedAgree
<1> QED BY <1>5, <1>6, <1>7

LEMMA DroppedIsDroppable ==
  ASSUME NEW r \in Seq(Item), NEW f \in Seq(Item), NEW s \in Seq(Item),
         NEW t \in Seq(Item), NEW K \in SUBSET DOMAIN s,
         NEW a, Thins(f, r, a, FreshAt(r)),
         NEW b, Thins(s, f, b, UnopposedAt(f)),
         NEW c, Thins(t, s, c, K), \A i \in DOMAIN s : i \in K <=> New(s, K, i),
         NEW x \in Elements(r) \ Elements(t)
  PROVE  Droppable(r, t, x)
<1> SUFFICES ASSUME Fresh(x) PROVE Droppable(r, t, x)
  BY DEF Droppable
<1>1. \A n \in DOMAIN f : a[n] \in DOMAIN r /\ f[n] = r[a[n]] /\ Fresh(f[n]) /\ f[n] \in Elements(r)
  BY DEF Thins, FreshAt, Elements
<1> DEFINE I == {n \in DOMAIN f : f[n] = x}
<1>2. I # {}
  <2>1. PICK k \in DOMAIN r : r[k] = x
    BY DEF Elements
  <2>2. k \in FreshAt(r)
    BY <2>1 DEF FreshAt
  <2>3. PICK n \in DOMAIN f : a[n] = k
    BY <2>2 DEF Thins
  <2> QED BY <1>1, <2>1, <2>3
<1>3. PICK n \in I : \A j \in I : n <= j
  <2>1. I \in SUBSET DOMAIN f
    OBVIOUS
  <2> HIDE DEF I
  <2> QED BY <1>2, <2>1, Foremost
<1>4. n \in DOMAIN f /\ f[n] = x /\ \A j \in DOMAIN f : f[j] = f[n] => n <= j
  BY <1>3
<1>5. CASE ~Unopposed(f, n)
  <2>1. /\ x.fact # NoFact
        /\ \E y, z \in {f[j] : j \in Group(f, n)} :
             y # x /\ Score(y) >= Score(x) /\ z.value # y.value
    <3>1. /\ f[n].fact # NoFact
          /\ \E y, z \in {f[j] : j \in Group(f, n)} :
               y # f[n] /\ Score(y) >= Score(f[n]) /\ z.value # y.value
      <4> HIDE DEF I
      <4> QED BY <1>4, <1>5, Opposed
    <3> QED BY <1>4, <3>1
  <2>2. \A y \in {f[j] : j \in Group(f, n)} : y \in Agreeing(r, x)
    BY <1>1, <1>4 DEF Group, Agreeing
  <2> QED BY <2>1, <2>2 DEF Droppable
<1>6. CASE Unopposed(f, n)
  <2>1. PICK d \in DOMAIN s : b[d] = n
    BY <1>4, <1>6 DEF Thins, UnopposedAt
  <2>2. s[d] = x
    BY <1>4, <2>1 DEF Thins
  <2>3. d \notin K
    BY <2>2 DEF Thins, Elements
  <2>4. PICK j \in K : j < d /\ Near(s[j], s[d])
    BY <2>3 DEF New
  <2>5. s[j] \in Elements(t)
    BY DEF Thins, Elements
  <2>6. b[j] \in DOMAIN f /\ b[d] \in DOMAIN f /\ s[j] = f[b[j]] /\ s[d] = f[b[d]] /\ b[j] < b[d]
    BY <2>4 DEF Thins, UnopposedAt
  <2>7. a[b[j]] < a[b[d]]
    BY <2>6 DEF Thins
  <2>8. s[j] \in OverIn(r, x)
    <3>1. a[b[j]] \in DOMAIN r /\ a[b[d]] \in DOMAIN r /\ r[a[b[j]]] = s[j] /\ r[a[b[d]]] = x
      BY <1>1, <2>2, <2>6
    <3>2. s[j] \in Elements(r)
      BY <3>1 DEF Elements
    <3> QED BY <2>7, <3>1, <3>2 DEF OverIn
  <2>9. Near(x, s[j])
    <3>1. s[j] \in Item /\ s[d] \in Item
      BY Positions
    <3> QED BY <2>2, <2>4, <3>1, NearEachOther
  <2> QED BY <2>5, <2>8, <2>9 DEF Droppable
<1> QED BY <1>5, <1>6
Justified(r, t) == Keepable(t) /\ \A x \in Elements(r) \ Elements(t) : Droppable(r, t, x)

LEMMA FilterMeans == FilterJustified <=> (stage = "compress" => Justified(ranked, filtered))
BY DEF FilterJustified, Justified, Keepable, Droppable, Agreeing, SameFact

LEMMA FilterMeansNext ==
  FilterJustified' <=> (stage = "compress" => Justified(ranked, filtered))'
BY FilterMeans, PTL

\* What the filter is given is ranked: its rule against duplicates keeps the better ones.
RankedFirst == stage = "filter" => ScoreSorted(ranked)
FilterInv == PromptTypes /\ RankedFirst /\ FilterJustified

LEMMA FilterIsJust ==
  ASSUME PromptTypes, RankedFirst, Filter
  PROVE  Justified(ranked', filtered')
<1> DEFINE r == ranked
           f == Where(r, Fresh)
           s == Resolved(f)
<1>1. r \in Seq(Item) /\ ScoreSorted(r) /\ ranked' = ranked
  BY DEF PromptTypes, AssemblyTypeOK, RankedFirst, Filter, Stage
<1>2. PICK K \in SUBSET DOMAIN s :
        (\A i \in DOMAIN s : i \in K <=> New(s, K, i)) /\ filtered' = Pick(s, K)
  BY DEF Filter
<1>3. /\ f = Pick(r, FreshAt(r)) /\ f \in Seq(Item) /\ s = Pick(f, UnopposedAt(f))
      /\ s \in Seq(Item)
  BY <1>1, ResolvedType
<1>4. FreshAt(r) \in SUBSET DOMAIN r
  BY DEF FreshAt
<1>5. UnopposedAt(f) \in SUBSET DOMAIN f
  BY DEF UnopposedAt
<1> HIDE DEF r, f, s
<1>6. Thins(f, r, Places(FreshAt(r)), FreshAt(r))
  BY <1>1, <1>3, <1>4, PickThins
<1>7. Thins(s, f, Places(UnopposedAt(f)), UnopposedAt(f))
  BY <1>3, <1>5, PickThins
<1>8. Thins(filtered', s, Places(K), K) /\ filtered' \in Seq(Item)
  BY <1>2, <1>3, PickThins
<1>9. Keepable(filtered')
  BY <1>1, <1>2, <1>3, <1>6, <1>7, <1>8, KeptIsKeepable
<1>10. \A x \in Elements(r) \ Elements(filtered') : Droppable(r, filtered', x)
  BY <1>1, <1>2, <1>3, <1>6, <1>7, <1>8, DroppedIsDroppable
<1> QED BY <1>1, <1>9, <1>10 DEF Justified, r

LEMMA NextFiltered == FilterInv /\ [Next]_vars => FilterInv'
<1> SUFFICES ASSUME PromptTypes, RankedFirst, FilterJustified, [Next]_vars
             PROVE  RankedFirst' /\ FilterJustified'
  BY NextTypes DEF FilterInv
<1>1. ASSUME stage' = "filter" PROVE ScoreSorted(ranked')
  <2>1. CASE Rank
    <3>1. ranked \in Seq(Item)
      BY DEF PromptTypes, AssemblyTypeOK
    <3> QED BY <2>1, <3>1, RankingFacts DEF Rank, ScoreSorted
  <2>2. CASE UNCHANGED <<retrievalVars, assemblyVars>> /\ stage' = stage
    BY <1>1, <2>2 DEF RankedFirst, assemblyVars
  <2> QED BY <1>1, <2>1, <2>2, LateStages
<1>2. ASSUME stage' = "compress" PROVE Justified(ranked', filtered')
  <2>1. CASE Filter
    BY <2>1, FilterIsJust
  <2>2. CASE UNCHANGED <<retrievalVars, assemblyVars>> /\ stage' = stage
    BY <1>2, <2>2, FilterMeans DEF assemblyVars
  <2> QED BY <1>2, <2>1, <2>2, LateStages
<1>3. RankedFirst'
  BY <1>1 DEF RankedFirst
<1>4. FilterJustified'
  BY <1>2, FilterMeansNext
<1> QED BY <1>3, <1>4

\* The filter keeps the ranking and drops an item for one of its reasons only, for any
\* items, scores, facts and embeddings.
THEOREM FiltersJustly == Spec => []FilterJustified
<1>1. Init => FilterInv
  <2>1. Init => PromptTypes
    BY InitFresh, FreshInv, InitTypes DEF PromptTypes
  <2>2. Init => RankedFirst /\ FilterJustified
    BY DEF Init, RankedFirst, FilterJustified
  <2> QED BY <2>1, <2>2 DEF FilterInv
<1>2. FilterInv => FilterJustified
  BY DEF FilterInv
<1> QED BY <1>1, <1>2, NextFiltered, PTL DEF Spec
=============================================================================
