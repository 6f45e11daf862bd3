------------------------ MODULE MemoryManagerProofs -------------------------
(***************************************************************************)
(* Theorems about MemoryManager, for any workers, scopes, facts and turns, *)
(* any bound on the records and any time to live.                          *)
(***************************************************************************)
EXTENDS MemoryManager, TLAPS, SequenceTheorems, FiniteSetTheorems

-----------------------------------------------------------------------------
(* Types. *)

Waiting == [record: Record, scope: Scopes]

LEMMA Constants ==
  /\ \A turn \in Turns : turn \in Seq(Record)
  /\ MaxRecords \in Nat /\ ReadK \in Nat
  /\ NoFact \notin Facts /\ Forever \notin Nat
BY MemoryAssumption

\* The record a worker stores next, and what remains.
LEMMA NextRecord ==
  ASSUME TypeOK, NEW w \in Workers, todo[w] # <<>>
  PROVE  /\ Head(todo[w]).record \in Record /\ Head(todo[w]).scope \in Scopes
         /\ [todo EXCEPT ![w] = Tail(@)] \in [Workers -> Seq(Waiting)]
<1>1. todo[w] \in Seq(Waiting)
  BY DEF TypeOK, Waiting
<1>2. Head(todo[w]) \in Waiting /\ Tail(todo[w]) \in Seq(Waiting)
  BY <1>1, HeadTailProperties
<1> QED BY <1>2 DEF Waiting, TypeOK

LEMMA RowFields ==
  ASSUME TypeOK, NEW i \in Ids
  PROVE  /\ rows[i] \in Row /\ i \in Nat /\ i < nextId
         /\ rows[i].imp \in 0..10 /\ rows[i].created \in Nat /\ rows[i].used \in Nat
         /\ rows[i].scope \in Scopes /\ rows[i].value \in Values
         /\ rows[i].fact \in Facts \cup {NoFact} /\ rows[i].ttl \in Nat \cup {Forever}
<1>1. rows[i] \in Row /\ i \in 1..(nextId - 1) /\ nextId \in Nat
  BY DEF TypeOK, Ids
<1> QED BY <1>1 DEF Row

\* What Merge and Insert do to the table.
Merged(i, rec) ==
  rows' = [rows EXCEPT ![i].value = rec.value, ![i].created = now,
                       ![i].imp = HigherImportance(@, rec.imp)]

NewRow(rec, scope) ==
  [fact |-> rec.fact, value |-> rec.value, imp |-> rec.imp, ttl |-> rec.ttl,
   scope |-> scope, created |-> now, used |-> now]

LEMMA MergeEffect ==
  ASSUME TypeOK, NEW i \in Ids, NEW rec \in Record, Merged(i, rec)
  PROVE  /\ DOMAIN rows' = Ids /\ rows' \in [Ids -> Row]
         /\ \A j \in Ids \ {i} : rows'[j] = rows[j]
         /\ rows'[i].value = rec.value /\ rows'[i].fact = rows[i].fact
         /\ rows'[i].scope = rows[i].scope /\ rows'[i].imp >= rows[i].imp
<1> DEFINE row == [rows[i] EXCEPT !.value = rec.value, !.created = now,
                                  !.imp = HigherImportance(rows[i].imp, rec.imp)]
<1>1. HigherImportance(rows[i].imp, rec.imp) \in 0..10
      /\ HigherImportance(rows[i].imp, rec.imp) >= rows[i].imp
  BY RowFields DEF HigherImportance, Record
<1>2. row \in Row /\ row.value = rec.value /\ row.fact = rows[i].fact
      /\ row.scope = rows[i].scope /\ row.imp >= rows[i].imp
  BY <1>1, RowFields DEF Row, Record, TypeOK
<1>3. rows' = [rows EXCEPT ![i] = row]
  BY DEF Merged
<1> HIDE DEF row
<1> QED BY <1>2, <1>3 DEF TypeOK, Ids

LEMMA InsertEffect ==
  ASSUME TypeOK, NEW rec \in Record, NEW scope \in Scopes,
         rows' = [i \in Ids \cup {nextId} |-> IF i = nextId THEN NewRow(rec, scope) ELSE rows[i]]
  PROVE  /\ DOMAIN rows' = Ids \cup {nextId} /\ nextId \notin Ids
         /\ rows' \in [Ids \cup {nextId} -> Row]
         /\ \A j \in Ids : rows'[j] = rows[j]
         /\ rows'[nextId] = NewRow(rec, scope)
<1>1. NewRow(rec, scope) \in Row
  BY DEF NewRow, Row, Record, TypeOK
<1>2. nextId \notin Ids
  BY DEF TypeOK
<1>3. \A j \in Ids : rows[j] \in Row
  BY RowFields
<1> HIDE DEF Ids
<1> QED BY <1>1, <1>2, <1>3

\* What Retrieve does: rows that have expired go, those read are marked as used.
LEMMA RetrieveEffect ==
  ASSUME TypeOK, NEW scope \in Scopes, Retrieve(scope)
  PROVE  /\ DOMAIN rows' = Alive /\ Alive \subseteq Ids /\ rows' \in [Alive -> Row]
         /\ \A i \in Alive : rows'[i] = rows[i] \/ rows'[i] = [rows[i] EXCEPT !.used = now]
         /\ \A x \in read' : \E i \in Alive : x = rows'[i]
<1>1. PICK S \in SUBSET {i \in Alive : rows[i].scope = scope} :
        /\ rows' = [i \in Alive |-> IF i \in S THEN [rows[i] EXCEPT !.used = now] ELSE rows[i]]
        /\ read' = {rows'[i] : i \in S}
  BY DEF Retrieve
<1>2. Alive \subseteq Ids
  BY DEF Alive
<1>3. \A i \in Alive : rows[i] \in Row /\ [rows[i] EXCEPT !.used = now] \in Row
  BY <1>2, RowFields DEF Row, TypeOK
<1> HIDE DEF Alive
<1> QED BY <1>1, <1>2, <1>3

LEMMA InitTypeOK == Init => TypeOK
<1> SUFFICES ASSUME Init PROVE TypeOK
  OBVIOUS
<1>1. DOMAIN rows = {} /\ rows \in [{} -> Row]
  BY DEF Init
<1>2. todo \in [Workers -> Seq([record: Record, scope: Scopes])]
  BY DEF Init
<1>3. DOMAIN rows \subseteq 1..(nextId - 1) /\ rows \in [DOMAIN rows -> Row]
  BY <1>1
<1>4. nextId \in Nat \ {0} /\ now \in Nat /\ holder = "free" /\ owed = FALSE /\ read = {}
  BY DEF Init
<1> QED BY <1>2, <1>3, <1>4 DEF TypeOK, Ids

LEMMA NextTypeOK == TypeOK /\ [Next]_vars => TypeOK'
<1> SUFFICES ASSUME TypeOK, [Next]_vars PROVE TypeOK'
  OBVIOUS
<1>1. ASSUME NEW w \in Workers, NEW scope \in Scopes, NEW turn \in Turns,
             ExtractAndStore(w, scope, turn)
      PROVE  TypeOK'
  <2> DEFINE waiting == [n \in DOMAIN turn |-> [record |-> turn[n], scope |-> scope]]
  <2>1. turn \in Seq(Record)
    BY Constants
  <2>2. waiting \in Seq(Waiting)
    <3>1. Len(turn) \in Nat /\ DOMAIN turn = 1..Len(turn)
      BY <2>1, LenProperties
    <3>2. \A n \in 1..Len(turn) : [record |-> turn[n], scope |-> scope] \in Waiting
      BY <2>1, ElementOfSeq DEF Waiting
    <3> QED BY <3>1, <3>2, IsASeq
  <2>3. todo' = [todo EXCEPT ![w] = waiting]
    BY <1>1 DEF ExtractAndStore
  <2> HIDE DEF waiting
  <2>4. todo' \in [Workers -> Seq(Waiting)]
    BY <2>2, <2>3 DEF TypeOK, Waiting
  <2> QED BY <1>1, <2>4 DEF ExtractAndStore, TypeOK, Ids, Waiting
<1>2. ASSUME NEW w \in Workers, Merge(w) PROVE TypeOK'
  <2>1. PICK i \in Ids : Merged(i, Head(todo[w]).record)
    BY <1>2 DEF Merge, Merged, SameFact, WithinScope
  <2>2. DOMAIN rows' = Ids /\ rows' \in [Ids -> Row]
    BY <1>2, <2>1, NextRecord, MergeEffect DEF Merge
  <2>3. todo' \in [Workers -> Seq(Waiting)]
    BY <1>2, NextRecord DEF Merge, StoreNext
  <2> QED BY <1>2, <2>2, <2>3 DEF Merge, TypeOK, Ids, Waiting
<1>3. ASSUME NEW w \in Workers, Insert(w) PROVE TypeOK'
  <2>1. rows' = [i \in Ids \cup {nextId} |->
                   IF i = nextId THEN NewRow(Head(todo[w]).record, Head(todo[w]).scope)
                   ELSE rows[i]]
    BY <1>3 DEF Insert, NewRow
  <2>2. DOMAIN rows' = Ids \cup {nextId} /\ rows' \in [Ids \cup {nextId} -> Row]
    <3>1. Head(todo[w]).record \in Record /\ Head(todo[w]).scope \in Scopes
      BY <1>3, NextRecord DEF Insert
    <3> QED BY <2>1, <3>1, InsertEffect
  <2>3. todo' \in [Workers -> Seq(Waiting)]
    BY <1>3, NextRecord DEF Insert, StoreNext
  <2>4. nextId' = nextId + 1 /\ Ids \cup {nextId} \subseteq 1..(nextId' - 1)
    BY <1>3 DEF Insert, TypeOK
  <2>5. /\ nextId' \in Nat \ {0} /\ holder' = "bound" /\ now' = now /\ read' = read
        /\ owed' = owed
    BY <1>3 DEF Insert, TypeOK
  <2>6. DOMAIN rows' \subseteq 1..(nextId' - 1) /\ rows' \in [DOMAIN rows' -> Row]
    BY <2>2, <2>4
  <2> QED BY <2>3, <2>5, <2>6 DEF TypeOK, Ids, Waiting
<1>4. CASE EnforceBound
  <2>1. DOMAIN rows' \subseteq Ids /\ rows' \in [DOMAIN rows' -> Row]
    BY <1>4, RowFields DEF EnforceBound, TypeOK, Ids
  <2> QED BY <1>4, <2>1 DEF EnforceBound, TypeOK, Ids
<1>5. ASSUME NEW scope \in Scopes, Retrieve(scope) PROVE TypeOK'
  <2>1. DOMAIN rows' \subseteq Ids /\ rows' \in [DOMAIN rows' -> Row] /\ read' \subseteq Row
    BY <1>5, RetrieveEffect
  <2> QED BY <1>5, <2>1 DEF Retrieve, TypeOK, Ids
<1>6. ASSUME NEW i \in Ids, Forget(i) PROVE TypeOK'
  <2>1. DOMAIN rows' \subseteq Ids /\ rows' \in [DOMAIN rows' -> Row]
    BY <1>6, RowFields DEF Forget, Ids
  <2> QED BY <1>6, <2>1 DEF Forget, TypeOK, Ids
<1>7. CASE Crash
  <2>1. todo' \in [Workers -> Seq(Waiting)]
    BY <1>7 DEF Crash
  <2> QED BY <1>7, <2>1 DEF Crash, TypeOK, Ids, Waiting
<1>8. CASE Restart
  BY <1>8 DEF Restart, TypeOK, Ids
<1>9. CASE Tick
  <2>1. now' \in Nat /\ read' \subseteq Row
    BY <1>9 DEF Tick, TypeOK
  <2> QED BY <1>9, <2>1 DEF Tick, TypeOK, Ids
<1>10. CASE UNCHANGED vars
  BY <1>10 DEF vars, TypeOK, Ids
<1> QED BY <1>1, <1>2, <1>3, <1>4, <1>5, <1>6, <1>7, <1>8, <1>9, <1>10 DEF Next

\* Every variable keeps its type, rows and what is waiting to be stored included.
THEOREM MemoryTyping == Spec => []TypeOK
BY InitTypeOK, NextTypeOK, PTL DEF Spec

-----------------------------------------------------------------------------
(* Facts.  That a row holds the latest value of its fact rests on there being *)
(* no second row of it.                                                       *)

FactInv == OneRowPerFact /\ FactIsLatest

\* Rows that are gone or keep their fact, scope and value disturb neither.
LEMMA RowsKept ==
  ASSUME FactInv, DOMAIN rows' \subseteq Ids, latest' = latest,
         \A i \in DOMAIN rows' : /\ rows'[i].fact = rows[i].fact
                                 /\ rows'[i].scope = rows[i].scope
                                 /\ rows'[i].value = rows[i].value
  PROVE  FactInv'
BY DEF FactInv, OneRowPerFact, FactIsLatest, Ids

LEMMA RememberedValue ==
  ASSUME NEW rec, NEW scope, rec.fact # NoFact, latest' = Remembered(rec, scope)
  PROVE  /\ <<rec.fact, scope>> \in DOMAIN latest'
         /\ latest'[<<rec.fact, scope>>] = rec.value
         /\ \A fs \in DOMAIN latest : fs \in DOMAIN latest'
         /\ \A fs \in DOMAIN latest : fs # <<rec.fact, scope>> => latest'[fs] = latest[fs]
BY DEF Remembered

LEMMA MergeFacts ==
  ASSUME TypeOK, FactInv, NEW w \in Workers, Merge(w)
  PROVE  FactInv'
<1> DEFINE rec == Head(todo[w]).record
           scope == Head(todo[w]).scope
<1>1. rec \in Record /\ scope \in Scopes
  BY NextRecord DEF Merge
<1>2. PICK i \in SameFact(rec, scope) : Merged(i, rec)
  BY DEF Merge, Merged
<1>3. latest' = Remembered(rec, scope)
  BY DEF Merge
<1> HIDE DEF rec, scope
<1>4. i \in Ids /\ rec.fact # NoFact /\ rows[i].fact = rec.fact /\ rows[i].scope = scope
  BY <1>2 DEF SameFact, WithinScope
<1>5. /\ DOMAIN rows' = Ids
      /\ \A j \in Ids \ {i} : rows'[j] = rows[j]
      /\ rows'[i].value = rec.value /\ rows'[i].fact = rows[i].fact
      /\ rows'[i].scope = rows[i].scope
  BY <1>1, <1>2, <1>4, MergeEffect
<1>6. \A j \in Ids : rows'[j].fact = rows[j].fact /\ rows'[j].scope = rows[j].scope
  BY <1>5
<1>7. OneRowPerFact'
  BY <1>5, <1>6 DEF FactInv, OneRowPerFact, Ids
<1>8. ASSUME NEW j \in Ids, rows[j].fact # NoFact
      PROVE  /\ <<rows[j].fact, rows[j].scope>> \in DOMAIN latest'
             /\ rows'[j].value = latest'[<<rows[j].fact, rows[j].scope>>]
  <2>1. CASE j = i
    BY <1>3, <1>4, <1>5, <2>1, RememberedValue
  <2>2. CASE j # i
    <3>1. <<rows[j].fact, rows[j].scope>> # <<rec.fact, scope>>
      BY <1>4, <2>2 DEF FactInv, OneRowPerFact
    <3>2. /\ <<rows[j].fact, rows[j].scope>> \in DOMAIN latest
          /\ rows[j].value = latest[<<rows[j].fact, rows[j].scope>>]
      BY <1>8 DEF FactInv, FactIsLatest
    <3>3. \A fs \in DOMAIN latest :
            fs # <<rec.fact, scope>> => fs \in DOMAIN latest' /\ latest'[fs] = latest[fs]
      <4>1. rec.fact # NoFact
        BY <1>4
      <4> QED BY <1>3, <4>1 DEF Remembered
    <3> DEFINE fs == <<rows[j].fact, rows[j].scope>>
    <3>4. fs \in DOMAIN latest' /\ latest'[fs] = latest[fs]
      BY <3>1, <3>2, <3>3
    <3> QED BY <1>5, <2>2, <3>2, <3>4
  <2> QED BY <2>1, <2>2
<1>9. FactIsLatest'
  BY <1>5, <1>6, <1>8 DEF FactIsLatest, Ids
<1> QED BY <1>7, <1>9 DEF FactInv

LEMMA InsertFacts ==
  ASSUME TypeOK, FactInv, NEW w \in Workers, Insert(w)
  PROVE  FactInv'
<1> DEFINE rec == Head(todo[w]).record
           scope == Head(todo[w]).scope
<1>1. rec \in Record /\ scope \in Scopes
  BY NextRecord DEF Insert
<1>2. /\ rows' = [i \in Ids \cup {nextId} |-> IF i = nextId THEN NewRow(rec, scope) ELSE rows[i]]
      /\ SameFact(rec, scope) = {} /\ latest' = Remembered(rec, scope)
  BY DEF Insert, NewRow
<1> HIDE DEF rec, scope
<1>3. /\ DOMAIN rows' = Ids \cup {nextId} /\ nextId \notin Ids
      /\ \A j \in Ids : rows'[j] = rows[j]
      /\ rows'[nextId] = NewRow(rec, scope)
  BY <1>1, <1>2, InsertEffect
<1>4. /\ rows'[nextId].fact = rec.fact /\ rows'[nextId].scope = scope
      /\ rows'[nextId].value = rec.value
  BY <1>3 DEF NewRow
<1>5. \A j \in Ids : rows[j].fact # NoFact => ~(rows[j].fact = rec.fact /\ rows[j].scope = scope)
  BY <1>2 DEF SameFact, WithinScope
<1>6. OneRowPerFact'
  <2> SUFFICES ASSUME NEW i \in Ids \cup {nextId}, NEW j \in Ids \cup {nextId},
                      rows'[i].fact # NoFact, rows'[i].fact = rows'[j].fact,
                      rows'[i].scope = rows'[j].scope
               PROVE  i = j
    BY <1>3 DEF OneRowPerFact, Ids
  <2>1. CASE i \in Ids /\ j \in Ids
    BY <1>3, <2>1 DEF FactInv, OneRowPerFact
  <2>2. CASE i = nextId /\ j \in Ids
    BY <1>3, <1>4, <1>5, <2>2
  <2>3. CASE i \in Ids /\ j = nextId
    BY <1>3, <1>4, <1>5, <2>3
  <2> QED BY <2>1, <2>2, <2>3
<1>7. FactIsLatest'
  <2> SUFFICES ASSUME NEW j \in Ids \cup {nextId}, rows'[j].fact # NoFact
               PROVE  /\ <<rows'[j].fact, rows'[j].scope>> \in DOMAIN latest'
                      /\ rows'[j].value = latest'[<<rows'[j].fact, rows'[j].scope>>]
    BY <1>3 DEF FactIsLatest, Ids
  <2>1. CASE j = nextId
    BY <1>2, <1>4, <2>1, RememberedValue
  <2>2. CASE j \in Ids
    <3>1. /\ rows'[j] = rows[j] /\ <<rows[j].fact, rows[j].scope>> \in DOMAIN latest
          /\ rows[j].value = latest[<<rows[j].fact, rows[j].scope>>]
      BY <1>3, <2>2 DEF FactInv, FactIsLatest
    <3>2. CASE rec.fact = NoFact
      BY <1>2, <3>1, <3>2 DEF Remembered
    <3>3. CASE rec.fact # NoFact
      <4>1. <<rows[j].fact, rows[j].scope>> # <<rec.fact, scope>>
        BY <1>5, <2>2, <3>1
      <4>2. \A fs \in DOMAIN latest :
              fs # <<rec.fact, scope>> => fs \in DOMAIN latest' /\ latest'[fs] = latest[fs]
        BY <1>2, <3>3, RememberedValue
      <4> DEFINE fs == <<rows[j].fact, rows[j].scope>>
      <4>3. fs \in DOMAIN latest' /\ latest'[fs] = latest[fs]
        BY <3>1, <4>1, <4>2
      <4> QED BY <3>1, <4>3
    <3> QED BY <3>2, <3>3
  <2> QED BY <2>1, <2>2
<1> QED BY <1>6, <1>7 DEF FactInv

LEMMA NextFactInv == TypeOK /\ FactInv /\ [Next]_vars => FactInv'
<1> SUFFICES ASSUME TypeOK, FactInv, [Next]_vars PROVE FactInv'
  OBVIOUS
<1>1. ASSUME NEW w \in Workers, Merge(w) \/ Insert(w) PROVE FactInv'
  BY <1>1, MergeFacts, InsertFacts
<1>2. CASE EnforceBound
  <2>1. DOMAIN rows' \subseteq Ids /\ (\A i \in DOMAIN rows' : rows'[i] = rows[i]) /\ latest' = latest
    BY <1>2 DEF EnforceBound, Ids
  <2> QED BY <2>1, RowsKept
<1>3. ASSUME NEW scope \in Scopes, Retrieve(scope) PROVE FactInv'
  <2>1. DOMAIN rows' \subseteq Ids /\ latest' = latest
    BY <1>3, RetrieveEffect DEF Retrieve
  <2>2. ASSUME NEW i \in DOMAIN rows'
        PROVE  /\ rows'[i].fact = rows[i].fact /\ rows'[i].scope = rows[i].scope
               /\ rows'[i].value = rows[i].value
    <3>1. i \in Ids /\ (rows'[i] = rows[i] \/ rows'[i] = [rows[i] EXCEPT !.used = now])
      BY <1>3, <2>1, RetrieveEffect
    <3> QED BY <3>1, RowFields DEF Row
  <2> QED BY <2>1, <2>2, RowsKept
<1>4. ASSUME NEW i \in Ids, Forget(i) PROVE FactInv'
  <2>1. DOMAIN rows' \subseteq Ids /\ (\A j \in DOMAIN rows' : rows'[j] = rows[j]) /\ latest' = latest
    BY <1>4 DEF Forget, Ids
  <2> QED BY <2>1, RowsKept
<1>5. ASSUME rows' = rows, latest' = latest PROVE FactInv'
  BY <1>5, RowsKept DEF Ids
<1> QED BY <1>1, <1>2, <1>3, <1>4, <1>5
     DEF Next, ExtractAndStore, Crash, Restart, Tick, vars

LEMMA AlwaysFacts == Spec => [](TypeOK /\ FactInv)
<1>1. Init => FactInv
  BY DEF Init, FactInv, OneRowPerFact, FactIsLatest, Ids
<1> QED BY <1>1, InitTypeOK, NextTypeOK, NextFactInv, PTL DEF Spec

\* However the turns of any number of workers interleave, a fact has one row per scope.
THEOREM FactsMerge == Spec => []OneRowPerFact
<1>1. FactInv => OneRowPerFact
  BY DEF FactInv
<1> QED BY <1>1, AlwaysFacts, PTL

\* The row of a fact holds the value last stored for it in its own scope.
THEOREM FactsLatest == Spec => []FactIsLatest
<1>1. FactInv => FactIsLatest
  BY DEF FactInv
<1> QED BY <1>1, AlwaysFacts, PTL

-----------------------------------------------------------------------------
(* What is read, evicted and kept. *)

LEMMA NextReadsAlive == TypeOK /\ ReadsAlive /\ [Next]_vars => ReadsAlive'
<1> SUFFICES ASSUME TypeOK, ReadsAlive, [Next]_vars PROVE ReadsAlive'
  OBVIOUS
<1>1. ASSUME NEW scope \in Scopes, Retrieve(scope) PROVE ReadsAlive'
  <2> SUFFICES ASSUME NEW x \in read' PROVE x.ttl = Forever \/ now - x.created <= x.ttl
    BY <1>1 DEF ReadsAlive, Retrieve
  <2>1. PICK i \in Alive : x = rows'[i]
    BY <1>1, RetrieveEffect
  <2>2. i \in Ids /\ ~Expired(i)
    BY DEF Alive
  <2>3. x.ttl = rows[i].ttl /\ x.created = rows[i].created
    BY <1>1, <2>1, <2>2, RetrieveEffect, RowFields DEF Row
  <2>4. now \in Nat /\ rows[i].created \in Nat /\ rows[i].ttl \in Nat \cup {Forever}
    BY <2>2, RowFields DEF TypeOK
  <2>5. rows[i].ttl = Forever \/ ~(now - rows[i].created > rows[i].ttl)
    BY <2>2 DEF Expired
  <2> QED BY <2>3, <2>4, <2>5
<1>2. ASSUME read' = {} PROVE ReadsAlive'
  BY <1>2 DEF ReadsAlive
<1>3. ASSUME read' = read, now' = now PROVE ReadsAlive'
  BY <1>3 DEF ReadsAlive
<1> QED BY <1>1, <1>2, <1>3
     DEF Next, ExtractAndStore, Merge, Insert, EnforceBound, Forget, Crash, Restart, Tick, vars

\* retrieve() returns nothing that has outlived its ttl.
THEOREM LiveReads == Spec => []ReadsAlive
<1>1. Init => ReadsAlive
  BY DEF Init, ReadsAlive
<1> QED BY <1>1, InitTypeOK, NextTypeOK, NextReadsAlive, PTL DEF Spec

\* No pinned row is lost to the bound or unpinned by a merge: only a forget() of it or
\* its ttl removes it.
THEOREM PinnedRowsStay == Spec => PinnedSurvives
<1> DEFINE Stays == \A i \in Ids : Pinned(i) /\ ~Expired(i) =>
                      Forget(i) \/ (i \in DOMAIN rows' /\ rows'[i].imp >= 9)
<1>1. TypeOK /\ [Next]_vars => [Stays]_vars
  <2> SUFFICES ASSUME TypeOK, Next, NEW i \in Ids, Pinned(i), ~Expired(i)
               PROVE  Forget(i) \/ (i \in DOMAIN rows' /\ rows'[i].imp >= 9)
    OBVIOUS
  <2>1. rows[i].imp >= 9 /\ rows[i].imp \in Nat
    BY RowFields DEF Pinned
  <2>2. ASSUME NEW w \in Workers, Merge(w) PROVE i \in DOMAIN rows' /\ rows'[i].imp >= 9
    <3>1. PICK j \in Ids : Merged(j, Head(todo[w]).record)
      BY <2>2 DEF Merge, Merged, SameFact, WithinScope
    <3>2. /\ DOMAIN rows' = Ids /\ rows' \in [Ids -> Row]
          /\ \A k \in Ids \ {j} : rows'[k] = rows[k]
          /\ rows'[j].imp >= rows[j].imp
      <4>1. Head(todo[w]).record \in Record
        BY <2>2, NextRecord DEF Merge
      <4> QED BY <3>1, <4>1, MergeEffect
    <3>3. rows'[i].imp \in Nat /\ rows'[i].imp >= rows[i].imp
      BY <2>1, <3>2 DEF Row
    <3> QED BY <2>1, <3>2, <3>3
  <2>3. ASSUME NEW w \in Workers, Insert(w) PROVE i \in DOMAIN rows' /\ rows'[i].imp >= 9
    <3>1. rows' = [k \in Ids \cup {nextId} |->
                     IF k = nextId THEN NewRow(Head(todo[w]).record, Head(todo[w]).scope)
                     ELSE rows[k]]
      BY <2>3 DEF Insert, NewRow
    <3>2. Head(todo[w]).record \in Record /\ Head(todo[w]).scope \in Scopes
      BY <2>3, NextRecord DEF Insert
    <3> QED BY <2>1, <3>1, <3>2, InsertEffect
  <2>4. CASE EnforceBound
    <3>1. ASSUME NEW V, Victims(V) PROVE i \notin V
      BY <3>1 DEF Victims, Evictable
    <3> QED BY <2>1, <2>4, <3>1 DEF EnforceBound, Ids
  <2>5. ASSUME NEW scope \in Scopes, Retrieve(scope) PROVE i \in DOMAIN rows' /\ rows'[i].imp >= 9
    <3>1. i \in Alive
      BY DEF Alive
    <3> QED BY <2>1, <2>5, <3>1, RetrieveEffect, RowFields DEF Row
  <2>6. ASSUME NEW j \in Ids, Forget(j) PROVE Forget(i) \/ (i \in DOMAIN rows' /\ rows'[i].imp >= 9)
    BY <2>1, <2>6 DEF Forget
  <2>7. ASSUME rows' = rows PROVE i \in DOMAIN rows' /\ rows'[i].imp >= 9
    BY <2>1, <2>7 DEF Ids
  <2> QED BY <2>2, <2>3, <2>4, <2>5, <2>6, <2>7 DEF Next, ExtractAndStore, Crash, Restart, Tick
<1> QED BY <1>1, InitTypeOK, NextTypeOK, PTL DEF Spec, PinnedSurvives

-----------------------------------------------------------------------------
(* The bound.  It holds between calls, so the invariant also says what is true *)
(* of a process that died between two calls; an eviction that was skipped owes *)
(* nothing to the table's state before it: the next one makes up for all.      *)

Within == Cardinality(Ids) <= MaxRecords \/ \A i \in Ids : Pinned(i)
BoundInv == holder \in {"free", "down"} /\ ~owed => Within

LEMMA FiniteIds ==
  ASSUME TypeOK
  PROVE  /\ IsFiniteSet(Ids) /\ Cardinality(Ids) \in Nat
         /\ \A S \in SUBSET Ids : IsFiniteSet(S) /\ Cardinality(S) \in Nat
<1>1. Ids \subseteq 1..(nextId - 1) /\ nextId \in Nat
  BY DEF TypeOK
<1>2. IsFiniteSet(1..(nextId - 1))
  BY <1>1, FS_Interval
<1>3. IsFiniteSet(Ids)
  BY <1>1, <1>2, FS_Subset
<1>4. \A S \in SUBSET Ids : IsFiniteSet(S)
  BY <1>3, FS_Subset
<1> QED BY <1>3, <1>4, FS_CardinalityType

LEMMA MinOfTwo ==
  ASSUME NEW a \in Nat, NEW b \in Nat
  PROVE  Min({a, b}) \in {a, b} /\ Min({a, b}) <= a /\ Min({a, b}) <= b
<1>1. \E x \in {a, b} : \A y \in {a, b} : x =< y
  <2>1. CASE a <= b
    BY <2>1
  <2>2. CASE ~(a <= b)
    BY <2>2
  <2> QED BY <2>1, <2>2
<1>2. Min({a, b}) \in {a, b} /\ \A y \in {a, b} : Min({a, b}) =< y
  BY <1>1 DEF Min
<1> QED BY <1>2

\* A table that only loses rows, or whose rows stay pinned, stays within the bound.
LEMMA WithinKept ==
  ASSUME TypeOK, Within, DOMAIN rows' \subseteq Ids,
         \A i \in DOMAIN rows' : Pinned(i) => rows'[i].imp >= 9
  PROVE  Within'
<1>1. CASE Cardinality(Ids) <= MaxRecords
  <2>1. Cardinality(DOMAIN rows') <= Cardinality(Ids) /\ Cardinality(DOMAIN rows') \in Nat
    BY FiniteIds, FS_Subset
  <2> QED BY <1>1, <2>1, FiniteIds, Constants DEF Within, Ids
<1>2. CASE \A i \in Ids : Pinned(i)
  BY <1>2 DEF Within, Ids, Pinned
<1> QED BY <1>1, <1>2 DEF Within

\* Whatever the table holds, _enforce_bound leaves it within the bound.
LEMMA EnforceWithin ==
  ASSUME TypeOK, EnforceBound
  PROVE  Within'
<1>1. CASE ~(Cardinality(Ids) > MaxRecords)
  <2>1. rows' = rows
    BY <1>1 DEF EnforceBound
  <2>2. Cardinality(Ids) <= MaxRecords
    BY <1>1, FiniteIds, Constants
  <2> QED BY <2>1, <2>2 DEF Within, Ids
<1>2. CASE Cardinality(Ids) > MaxRecords
  <2>1. PICK V \in SUBSET Ids : Victims(V) /\ rows' = [i \in Ids \ V |-> rows[i]]
    BY <1>2 DEF EnforceBound
  <2>2. DOMAIN rows' = Ids \ V /\ \A i \in Ids \ V : rows'[i] = rows[i]
    BY <2>1
  <2> DEFINE over == Over(Cardinality(Ids))
             evictable == Cardinality(Evictable)
  <2>3. /\ Evictable \subseteq Ids /\ evictable \in Nat
        /\ over \in Nat /\ over = Cardinality(Ids) - MaxRecords
    BY <1>2, FiniteIds, Constants DEF Evictable, Over
  <2>4. V \subseteq Evictable /\ Cardinality(V) = Min({over, evictable})
    BY <2>1 DEF Victims
  <2> HIDE DEF over, evictable
  <2>5. Cardinality(V) = over \/ Cardinality(V) = evictable
    BY <2>3, <2>4, MinOfTwo
  <2>6. CASE Cardinality(V) = over
    <3>1. Cardinality(Ids \ V) = Cardinality(Ids) - Cardinality(Ids \cap V)
      BY FiniteIds, FS_Difference
    <3>2. Ids \cap V = V
      OBVIOUS
    <3>3. Cardinality(Ids \ V) = MaxRecords
      <4>1. Cardinality(V) = Cardinality(Ids) - MaxRecords
        BY <2>3, <2>6
      <4>2. Cardinality(Ids \ V) = Cardinality(Ids) - Cardinality(V)
        BY <3>1, <3>2, Zenon
      <4>3. Cardinality(Ids) \in Nat /\ MaxRecords \in Nat
        BY FiniteIds, Constants
      <4> QED BY <4>1, <4>2, <4>3
    <3> QED BY <2>2, <3>3, Constants DEF Within, Ids
  <2>7. CASE Cardinality(V) = evictable
    <3>1. V = Evictable
      BY <2>3, <2>4, <2>7, FiniteIds, FS_Subset DEF evictable
    <3>2. \A i \in Ids \ V : rows[i].imp >= 9
      BY <3>1 DEF Evictable, Pinned
    <3> QED BY <2>2, <3>2 DEF Within, Ids, Pinned
  <2> QED BY <2>5, <2>6, <2>7
<1> QED BY <1>1, <1>2

LEMMA NextBoundInv == TypeOK /\ BoundInv /\ [Next]_vars => BoundInv'
<1> SUFFICES ASSUME TypeOK, BoundInv, [Next]_vars PROVE BoundInv'
  OBVIOUS
<1>1. ASSUME NEW w \in Workers, Merge(w) PROVE BoundInv'
  <2>1. PICK j \in Ids : Merged(j, Head(todo[w]).record)
    BY <1>1 DEF Merge, Merged, SameFact, WithinScope
  <2>2. /\ DOMAIN rows' = Ids /\ rows' \in [Ids -> Row]
        /\ \A k \in Ids \ {j} : rows'[k] = rows[k]
        /\ rows'[j].imp >= rows[j].imp
    <3>1. Head(todo[w]).record \in Record
      BY <1>1, NextRecord DEF Merge
    <3> QED BY <2>1, <3>1, MergeEffect
  <2>3. \A i \in Ids : Pinned(i) => rows'[i].imp >= 9
    <3> TAKE i \in Ids
    <3>1. rows'[i].imp \in Nat /\ rows[i].imp \in Nat /\ rows'[i].imp >= rows[i].imp
      BY <2>2, RowFields DEF Row
    <3> QED BY <3>1 DEF Pinned
  <2>4. holder = "free" /\ holder' = holder /\ owed' = owed
    BY <1>1 DEF Merge
  <2> QED BY <2>2, <2>3, <2>4, WithinKept DEF BoundInv
<1>2. ASSUME holder' = "bound" PROVE BoundInv'
  BY <1>2 DEF BoundInv
<1>3. CASE EnforceBound
  BY <1>3, EnforceWithin DEF BoundInv
<1>4. ASSUME NEW scope \in Scopes, Retrieve(scope) PROVE BoundInv'
  <2>1. holder = "free" /\ holder' = holder /\ owed' = owed
    BY <1>4 DEF Retrieve
  <2>2. DOMAIN rows' \subseteq Ids
    BY <1>4, RetrieveEffect
  <2>3. ASSUME NEW i \in DOMAIN rows', Pinned(i) PROVE rows'[i].imp >= 9
    <3>1. i \in Ids /\ (rows'[i] = rows[i] \/ rows'[i] = [rows[i] EXCEPT !.used = now])
      BY <1>4, <2>2, RetrieveEffect
    <3>2. rows'[i].imp = rows[i].imp
      BY <3>1, RowFields DEF Row
    <3> QED BY <2>3, <3>2 DEF Pinned
  <2> QED BY <2>1, <2>2, <2>3, WithinKept DEF BoundInv
<1>5. ASSUME NEW i \in Ids, Forget(i) PROVE BoundInv'
  <2>1. /\ holder = "free" /\ holder' = holder /\ owed' = owed
        /\ DOMAIN rows' \subseteq Ids /\ \A j \in DOMAIN rows' : rows'[j] = rows[j]
    BY <1>5 DEF Forget
  <2> QED BY <2>1, WithinKept DEF BoundInv, Pinned
<1>6. CASE Crash
  <2>1. /\ rows' = rows /\ owed' = (owed \/ holder = "bound")
        /\ holder \in {"free", "bound", "down"}
    BY <1>6 DEF Crash, TypeOK
  <2>2. CASE owed'
    BY <2>2 DEF BoundInv
  <2>3. CASE ~owed'
    BY <2>1, <2>3 DEF BoundInv, Within, Ids, Pinned
  <2> QED BY <2>2, <2>3
<1>7. CASE Restart
  BY <1>7 DEF Restart, BoundInv, Within, Ids, Pinned
<1>8. ASSUME rows' = rows, holder' = holder, owed' = owed PROVE BoundInv'
  BY <1>8 DEF BoundInv, Within, Ids, Pinned
<1> QED BY <1>1, <1>2, <1>3, <1>4, <1>5, <1>6, <1>7, <1>8
     DEF Next, ExtractAndStore, Insert, Tick, vars

\* Between calls the table is within memory_max_records or holds pinned rows only,
\* whatever was stored by whom, unless a crash skipped an eviction that is still owed.
THEOREM BoundHolds == Spec => []BoundKept
<1>1. Init => BoundInv
  <2> SUFFICES ASSUME Init PROVE Within
    BY DEF BoundInv
  <2>1. Ids = {}
    BY DEF Init, Ids
  <2> QED BY <2>1 DEF Within
<1>2. BoundInv => BoundKept
  BY DEF BoundInv, BoundKept, Within
<1> QED BY <1>1, <1>2, InitTypeOK, NextTypeOK, NextBoundInv, PTL DEF Spec
=============================================================================
