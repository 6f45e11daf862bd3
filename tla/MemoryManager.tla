--------------------------- MODULE MemoryManager ----------------------------
(***************************************************************************)
(* contextx/memory.py: remembered facts and exchanges in one SQLite table, *)
(* shared by all scopes and bounded as a whole.                            *)
(*                                                                         *)
(* Each store(), retrieve() and forget() holds the process-wide lock, but  *)
(* extract_and_store() takes it once per record, so the turns of several   *)
(* requests interleave record by record.  store() commits its INSERT and   *)
(* then enforces the bound in a second transaction; the process may die    *)
(* between the two.  Time is counted in days, the unit of the recency      *)
(* score; importance in tenths.                                            *)
(***************************************************************************)
EXTENDS Naturals, Sequences, FiniteSets, FiniteSetsExt

CONSTANTS
  Workers,     \* requests writing memory at the same time
  Scopes,
  Facts,       \* fact keys
  NoFact,      \* fact_key = None
  Values,      \* fact values
  Turns,       \* what one exchange may leave: the sequences of records to store
  MaxRecords,  \* memory_max_records
  ReadK,       \* memory_read_k
  Forever,     \* ttl_s = None
  MaxId,       \* bound on the INSERTs
  MaxTime      \* bound on the clock

Record == [fact: Facts \cup {NoFact}, value: Values, imp: 0..10, ttl: Nat \cup {Forever}]
Row == [fact: Facts \cup {NoFact}, value: Values, imp: 0..10, ttl: Nat \cup {Forever},
        scope: Scopes, created: Nat, used: Nat]

ASSUME MemoryAssumption ==
  /\ Turns \subseteq Seq(Record)
  /\ MaxRecords \in Nat /\ ReadK \in Nat /\ MaxId \in Nat /\ MaxTime \in Nat
  /\ NoFact \notin Facts /\ Forever \notin Nat

VARIABLES
  rows,    \* the table: id -> row
  nextId,  \* AUTOINCREMENT
  now,     \* time.time()
  holder,  \* "free"; "bound": a store() has committed and goes on to _enforce_bound;
           \* "down": the process died
  todo,    \* per worker: the records extract_and_store has yet to store, and their scope
  read,    \* the rows the last retrieve() returned
  latest,  \* (auxiliary) value last stored for <<fact, scope>>
  owed     \* (auxiliary) a crash skipped an eviction, and none was done since

vars == <<rows, nextId, now, holder, todo, read, latest, owed>>

Pinned(r) == rows[r].imp >= 9
Ids == DOMAIN rows

Init ==
  /\ rows = [i \in {} |-> 0] /\ nextId = 1 /\ now = 0
  /\ holder = "free"
  /\ todo = [w \in Workers |-> <<>>]
  /\ read = {}
  /\ latest = [fs \in {} |-> 0] /\ owed = FALSE

\* extract_and_store: the exchange, then the facts extracted from it.
ExtractAndStore(w, scope, turn) ==
  /\ holder # "down" /\ todo[w] = <<>>
  /\ todo' = [todo EXCEPT ![w] = [n \in DOMAIN turn |-> [record |-> turn[n], scope |-> scope]]]
  /\ UNCHANGED <<rows, nextId, now, holder, read, latest, owed>>

StoreNext(w) == todo' = [todo EXCEPT ![w] = Tail(@)]

AnyScope(rec, scope) == {i \in Ids : rows[i].fact = rec.fact}   \* mutant: scope forgotten
SameValue(rec, scope) ==   \* mutant: the row of an outdated value is not looked for
  {i \in Ids : rows[i].fact = rec.fact /\ rows[i].scope = scope /\ rows[i].value = rec.value}
WithinScope(rec, scope) == {i \in Ids : rows[i].fact = rec.fact /\ rows[i].scope = scope}
SameFact(rec, scope) == IF rec.fact = NoFact THEN {} ELSE WithinScope(rec, scope)

Remembered(rec, scope) ==
  IF rec.fact = NoFact THEN latest
  ELSE [fs \in DOMAIN latest \cup {<<rec.fact, scope>>} |->
          IF fs = <<rec.fact, scope>> THEN rec.value ELSE latest[fs]]

SummedImportance(old, new) == old + new  \* mutant: importance + ?
HigherImportance(old, new) == IF old >= new THEN old ELSE new

\* UPDATE ... WHERE id: the type and the ttl of the row stay; no bound to enforce.
Merge(w) ==
  /\ holder = "free" /\ todo[w] # <<>>
  /\ LET rec == Head(todo[w]).record
         scope == Head(todo[w]).scope
     IN  /\ \E i \in SameFact(rec, scope) :
              rows' = [rows EXCEPT ![i].value = rec.value, ![i].created = now,
                                   ![i].imp = HigherImportance(@, rec.imp)]
         /\ latest' = Remembered(rec, scope)
  /\ StoreNext(w)
  /\ UNCHANGED <<nextId, now, holder, read, owed>>

\* INSERT, COMMIT.
Insert(w) ==
  /\ holder = "free" /\ todo[w] # <<>> /\ nextId <= MaxId
  /\ LET rec == Head(todo[w]).record
         scope == Head(todo[w]).scope
         row == [fact |-> rec.fact, value |-> rec.value, imp |-> rec.imp, ttl |-> rec.ttl,
                 scope |-> scope, created |-> now, used |-> now]
     IN  /\ SameFact(rec, scope) = {}
         /\ rows' = [i \in Ids \cup {nextId} |-> IF i = nextId THEN row ELSE rows[i]]
         /\ latest' = Remembered(rec, scope)
  /\ nextId' = nextId + 1 /\ holder' = "bound"
  /\ StoreNext(w)
  /\ UNCHANGED <<now, read, owed>>

\* importance / (1 + days since last use), compared without dividing; ties by id.
EvictsBefore(i, j) ==
  LET a == rows[i].imp * (1 + now - rows[j].used)
      b == rows[j].imp * (1 + now - rows[i].used)
  IN  a < b \/ (a = b /\ i < j)

EveryRow == Ids   \* mutant: WHERE importance < 0.9 forgotten
Evictable == {i \in Ids : ~Pinned(i)}
OneTooFew(n) == n - MaxRecords - 1   \* mutant
Over(n) == n - MaxRecords

\* The first `over` of the evictable rows in eviction order, or all of them.
Victims(V) ==
  /\ V \subseteq Evictable
  /\ Cardinality(V) = Min({Over(Cardinality(Ids)), Cardinality(Evictable)})
  /\ \A i \in V, j \in Evictable \ V : EvictsBefore(i, j)

EnforceBound ==
  /\ holder = "bound" /\ holder' = "free"
  /\ IF Cardinality(Ids) > MaxRecords
       THEN \E V \in SUBSET Ids : Victims(V) /\ rows' = [i \in Ids \ V |-> rows[i]]
       ELSE UNCHANGED rows
  /\ owed' = FALSE
  /\ UNCHANGED <<nextId, now, todo, read, latest>>

Expired(i) == rows[i].ttl # Forever /\ now - rows[i].created > rows[i].ttl

NotExpired == Ids   \* mutant: expire() is not called first
Alive == {i \in Ids : ~Expired(i)}

\* expire, then the ReadK best rows of the scope (which ones is up to the
\* embedder), whose usage is bumped.
Retrieve(scope) ==
  /\ holder = "free"
  /\ LET inScope == {i \in Alive : rows[i].scope = scope}
     IN  \E S \in SUBSET inScope :
           /\ Cardinality(S) = Min({ReadK, Cardinality(inScope)})
           /\ rows' = [i \in Alive |-> IF i \in S THEN [rows[i] EXCEPT !.used = now] ELSE rows[i]]
           /\ read' = {rows'[i] : i \in S}
  /\ UNCHANGED <<nextId, now, holder, todo, latest, owed>>

\* forget() with a condition of the caller's, here on one row.
Forget(i) ==
  /\ holder = "free"
  /\ rows' = [j \in Ids \ {i} |-> rows[j]]
  /\ UNCHANGED <<nextId, now, holder, todo, read, latest, owed>>

\* The process dies: what was committed stays, the turns in flight are gone.
Crash ==
  /\ holder # "down"
  /\ holder' = "down" /\ todo' = [w \in Workers |-> <<>>]
  /\ read' = {} /\ owed' = (owed \/ holder = "bound")
  /\ UNCHANGED <<rows, nextId, now, latest>>

\* MemoryManager(): the table is opened as it is, and no bound enforced on it.
Restart ==
  /\ holder = "down" /\ holder' = "free"
  /\ UNCHANGED <<rows, nextId, now, todo, read, latest, owed>>

Tick ==
  /\ now < MaxTime /\ now' = now + 1 /\ read' = {}
  /\ UNCHANGED <<rows, nextId, holder, todo, latest, owed>>

Next ==
  \/ \E w \in Workers : \/ \E scope \in Scopes, turn \in Turns : ExtractAndStore(w, scope, turn)
                        \/ Merge(w) \/ Insert(w)
  \/ EnforceBound
  \/ \E scope \in Scopes : Retrieve(scope)
  \/ \E i \in Ids : Forget(i)
  \/ Crash \/ Restart \/ Tick

Spec == Init /\ [][Next]_vars

-----------------------------------------------------------------------------
(* Properties                                                              *)

TypeOK ==
  /\ Ids \subseteq 1..(nextId - 1) /\ rows \in [Ids -> Row]
  /\ nextId \in Nat \ {0} /\ now \in Nat /\ holder \in {"free", "bound", "down"} /\ owed \in BOOLEAN
  /\ todo \in [Workers -> Seq([record: Record, scope: Scopes])]
  /\ read \subseteq Row

\* "fact merge on `fact_key` (update in place, no duplicates)", per scope, with
\* the turns of several workers interleaved.
OneRowPerFact ==
  \A i, j \in Ids :
    rows[i].fact # NoFact /\ rows[i].fact = rows[j].fact /\ rows[i].scope = rows[j].scope => i = j

\* "so users don't overwrite each other": the row of a fact holds the value last
\* stored for it in its own scope, whoever stored what elsewhere.
FactIsLatest ==
  \A i \in Ids :
    rows[i].fact # NoFact => /\ <<rows[i].fact, rows[i].scope>> \in DOMAIN latest
                             /\ rows[i].value = latest[<<rows[i].fact, rows[i].scope>>]

\* "never evict pinned": the bound removes no pinned row, however many there
\* are, retrieve() only what has expired, and merging a fact never unpins it.
PinnedSurvives ==
  [][\A i \in Ids : Pinned(i) /\ ~Expired(i) =>
       Forget(i) \/ (i \in DOMAIN rows' /\ rows'[i].imp >= 9)]_vars

\* "bounded: capped at memory_max_records", as far as the code keeps it: between
\* calls the table is within its bound or all pinned, unless a crash skipped an
\* eviction -- and then the next insertion makes up for it.
BoundKept ==
  holder = "free" /\ ~owed => Cardinality(Ids) <= MaxRecords \/ \A i \in Ids : Pinned(i)

\* retrieve() returns nothing that has outlived the ttl its row carries.
ReadsAlive == \A r \in read : r.ttl = Forever \/ now - r.created <= r.ttl
=============================================================================
