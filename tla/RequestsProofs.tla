--------------------------- MODULE RequestsProofs ---------------------------
(***************************************************************************)
(* Theorems about Requests, for any clients and requests, any backend, any *)
(* number of threads and any bounds.  Fairness plays no part in them.      *)
(***************************************************************************)
EXTENDS Requests, TLAPS, SequenceTheorems, FiniteSetTheorems

-----------------------------------------------------------------------------
(* The inductive invariant.  None of the invariants that the runs check is   *)
(* inductive as it stands: each rests on which request may be where, and on  *)
(* a request being in a queue at most once.                                  *)

Ats == {"new", "lock", "pool", "thread", "loop"} \cup Ended
Steps == {"none", "apply", "prepare", "complete", "chat", "dispatch", "remember",
          "audit", "next"}
Talks == Seq({"call", "result"} \X Nat)

Bounded(r) == turn[r].tries <= Limit(r) /\ turn[r].open <= MaxCalls

\* Which request may be at which step, and with how many tool calls open.
StepOK(r) ==
  /\ (at[r] = "thread") <=> (step[r] # "none")
  /\ step[r] = "apply" => kind[r] = "write"
  /\ step[r] = "prepare" => kind[r] # "write" /\ turn[r].answer = "none"
  /\ step[r] = "complete" => kind[r] \in {"query", "tools"}
  /\ step[r] \in {"chat", "dispatch"} => kind[r] = "tools"
  /\ step[r] \in {"remember", "audit"} => kind[r] \in {"query", "tools"}
  /\ step[r] = "next" => kind[r] = "stream" /\ turn[r].answer # "none"
  /\ step[r] = "dispatch" => turn[r].open > 0
  /\ step[r] = "chat" \/ turn[r].answer = "none" => turn[r].open = 0
  /\ kind[r] # "stream" /\ at[r] \in {"new", "lock", "pool"} => turn[r].answer = "none"
  /\ at[r] = "lock" => kind[r] = "write"

\* How much of an exchange is remembered when it has been finished.
Whole(r) == IF turn[r].answer = "blocked" THEN "none" ELSE "all"

\* What a request has left behind at any point of its life.
TurnOK(r) ==
  LET t == turn[r] IN
  /\ t.valid <=> t.answer \notin {"none", "blocked"}
  /\ ~t.valid => t.memory = "none" /\ talk[r] = <<>>
  /\ kind[r] = "write" => t.answer = "none" /\ t.audit = 0
  /\ kind[r] # "stream" => ~t.left /\ (at[r] = "loop" => t.out # "none") /\ at[r] # "gone"
  /\ at[r] \in {"new", "lock", "pool", "thread", "rejected"} => t.out = "none"
  /\ at[r] = "returned" => t.out = "ok"
  /\ at[r] = "raised" => t.out = "error"
  /\ step[r] \in {"complete", "chat", "dispatch", "remember"} => t.valid
  /\ kind[r] \in {"query", "tools"} =>
       /\ t.audit = (IF t.out = "ok" THEN 1 ELSE 0)
       /\ t.out = "ok" \/ step[r] = "audit" => t.memory = Whole(r)
  /\ kind[r] = "stream" =>
       /\ t.audit = 0
       /\ t.out = "none" => t.memory = "none"
       /\ t.out = "ok" => t.memory = Whole(r)
       /\ t.out = "error" => t.memory \in {"none", "part"}

\* A conversation in which c calls are answered and o are open.  Calls are numbered in
\* the order they are made; an answered one has exactly one result, and it stands after
\* its call.
InOrder(m, c, o) ==
  /\ \A i \in DOMAIN m :
       /\ m[i][1] = "call" => m[i][2] \in 1..(c + o)
       /\ m[i][1] = "result" => m[i][2] \in 1..c
  /\ \A n \in 1..c : \E j \in DOMAIN m : m[j] = <<"result", n>>
  /\ \A i, j \in DOMAIN m :
       m[i][2] = m[j][2] /\ m[j][1] = "result" => i = j \/ (i < j /\ m[i][1] = "call")

TalkOK(r) == InOrder(talk[r], turn[r].calls, turn[r].open)

\* Each queue holds those who are in it, once; of those at the lock only the first
\* has gone further.
PoolInv ==
  /\ \A i \in DOMAIN pool : at[pool[i]] = "pool"
  /\ \A i, j \in DOMAIN pool : pool[i] = pool[j] => i = j

Queued(r) == kind[r] = "write" /\ at[r] \in {"lock", "pool", "thread", "loop"}

LockInv ==
  /\ \A r \in Clients : Queued(r) => \E i \in DOMAIN lock : lock[i] = r
  /\ \A i \in DOMAIN lock : Queued(lock[i]) /\ (i > 1 => at[lock[i]] = "lock")
  /\ \A i, j \in DOMAIN lock : lock[i] = lock[j] => i = j

LocalOK(r) == Bounded(r) /\ StepOK(r) /\ TurnOK(r) /\ TalkOK(r)
IInv == TypeOK /\ PoolInv /\ LockInv /\ \A r \in Clients : LocalOK(r)

-----------------------------------------------------------------------------
LEMMA Constants ==
  /\ \A k \in Assignments : k \in [Clients -> Kinds]
  /\ Threads \in Nat /\ MaxPieces \in Nat /\ MaxCalls \in Nat
  /\ MaxRetries \in Nat /\ MaxIters \in Nat
BY RequestsAssumption, LLMAssumption

-----------------------------------------------------------------------------
(* An action changes one request and the queues; what the steps below need  *)
(* of the request they take, and what they show about the others.           *)

LEMMA Local ==
  ASSUME TypeOK, NEW r \in Clients
  PROVE  /\ at \in [Clients -> Ats] /\ step \in [Clients -> Steps]
         /\ turn \in [Clients -> Turn] /\ talk \in [Clients -> Talks]
         /\ at[r] \in Ats /\ step[r] \in Steps /\ turn[r] \in Turn /\ talk[r] \in Talks
         /\ kind[r] \in Kinds /\ backend \in Backends
         /\ lock \in Seq(Clients) /\ pool \in Seq(Clients)
         /\ cached \subseteq {"answer", "degraded"}
<1>1. /\ at \in [Clients -> Ats] /\ step \in [Clients -> Steps]
      /\ turn \in [Clients -> Turn] /\ talk \in [Clients -> Talks]
  BY DEF TypeOK, Ats, Steps, Talks
<1>2. kind[r] \in Kinds
  BY Constants DEF TypeOK
<1> QED BY <1>1, <1>2 DEF TypeOK

\* r takes a step: it goes to a and s, with t kept about it and m in its conversation.
Moves(r, a, s, t, m) ==
  /\ at' = [at EXCEPT ![r] = a] /\ step' = [step EXCEPT ![r] = s]
  /\ turn' = [turn EXCEPT ![r] = t] /\ talk' = [talk EXCEPT ![r] = m]
  /\ kind' = kind /\ backend' = backend

Frame(r) ==
  /\ at' \in [Clients -> Ats] /\ step' \in [Clients -> Steps]
  /\ turn' \in [Clients -> Turn] /\ talk' \in [Clients -> Talks]
  /\ kind' = kind /\ backend' = backend
  /\ \A x \in Clients \ {r} : /\ at'[x] = at[x] /\ step'[x] = step[x]
                              /\ turn'[x] = turn[x] /\ talk'[x] = talk[x]

Moved(r, a, s, t, m) ==
  /\ at'[r] = a /\ step'[r] = s /\ turn'[r] = t /\ talk'[r] = m
  /\ kind'[r] = kind[r] /\ Frame(r)

LEMMA MovesFrame ==
  ASSUME TypeOK, NEW r \in Clients, NEW a \in Ats, NEW s \in Steps, NEW t \in Turn,
         NEW m \in Talks, Moves(r, a, s, t, m)
  PROVE  Moved(r, a, s, t, m)
BY Local DEF Moves, Moved, Frame

LEMMA SameTalk ==
  ASSUME NEW r \in Clients, TalkOK(r), talk'[r] = talk[r],
         turn'[r].calls = turn[r].calls, turn'[r].open = turn[r].open
  PROVE  TalkOK(r)'
BY DEF TalkOK

LEMMA ApplyStep ==
  ASSUME TypeOK, NEW r \in Clients, LocalOK(r), Apply(r)
  PROVE  Frame(r) /\ LocalOK(r)'
<1>1. at[r] = "thread" /\ step[r] = "apply"
  BY DEF Apply, Job, EndJob, KeepQueues
<1> DEFINE t == [turn[r] EXCEPT !.out = "ok"]
<1>2. t \in Turn
  BY <1>1, Local DEF Turn
<1>3. Moves(r, "loop", "none", t, talk[r])
  BY <1>1, Local DEF Moves, Apply, Job, EndJob, KeepQueues
<1>4. Moved(r, "loop", "none", t, talk[r])
  <2> HIDE DEF t
  <2> QED BY <1>1, <1>2, <1>3, Local, MovesFrame DEF Ats, Steps
<1>5. Bounded(r)'
  BY <1>1, <1>4, Local, Constants DEF LocalOK, Moved, Bounded, Limit, StepOK, Turn
<1>6. StepOK(r)'
  BY <1>1, <1>4, Local DEF LocalOK, Moved, StepOK, TurnOK, Turn
<1>7. TurnOK(r)'
  BY <1>1, <1>4, Local DEF LocalOK, Moved, StepOK, TurnOK, Turn, Whole
<1>8. TalkOK(r)'
  BY <1>4, Local, SameTalk DEF LocalOK, Moved, Turn
<1> QED BY <1>4, <1>5, <1>6, <1>7, <1>8 DEF LocalOK, Moved

LEMMA RaiseStep ==
  ASSUME TypeOK, NEW r \in Clients, LocalOK(r), Raise(r)
  PROVE  Frame(r) /\ LocalOK(r)'
<1>1. PICK m \in {"none", "part", "all"} :
        /\ at[r] = "thread"
        /\ \/ step[r] \in {"apply", "prepare", "audit"} /\ m = turn[r].memory
           \/ step[r] = "complete" /\ m = "none"
           \/ step[r] = "remember"
           \/ step[r] = "next" /\ turn[r].valid /\ m # "all"
        /\ turn' = [turn EXCEPT ![r].out = "error", ![r].memory = m]
  BY Local DEF Raise, EndJob, KeepQueues
<1> DEFINE t == [turn[r] EXCEPT !.out = "error", !.memory = m]
<1>2. t \in Turn
  BY <1>1, Local DEF Turn
<1>3. Moves(r, "loop", "none", t, talk[r])
  BY <1>1, Local DEF Moves, Raise, EndJob, KeepQueues
<1>4. Moved(r, "loop", "none", t, talk[r])
  <2> HIDE DEF t
  <2> QED BY <1>1, <1>2, <1>3, Local, MovesFrame DEF Ats, Steps
<1>5. Bounded(r)'
  BY <1>1, <1>4, Local, Constants DEF LocalOK, Moved, Bounded, Limit, StepOK, Turn
<1>6. StepOK(r)'
  BY <1>1, <1>4, Local DEF LocalOK, Moved, StepOK, TurnOK, Turn
<1>7. TurnOK(r)'
  BY <1>1, <1>4, Local DEF LocalOK, Moved, StepOK, TurnOK, Turn, Whole
<1>8. TalkOK(r)'
  BY <1>4, Local, SameTalk DEF LocalOK, Moved, Turn
<1> QED BY <1>4, <1>5, <1>6, <1>7, <1>8 DEF LocalOK, Moved

LEMMA PrepareStep ==
  ASSUME TypeOK, NEW r \in Clients, LocalOK(r), Prepare(r)
  PROVE  Frame(r) /\ LocalOK(r)'
<1> DEFINE Next2(valid) == IF ~valid THEN "audit"
                         ELSE IF kind[r] = "tools" /\ UsesTools(backend) THEN "chat"
                         ELSE "complete"
<1>1. PICK valid \in BOOLEAN :
        /\ turn' = [turn EXCEPT ![r].valid = valid,
                                ![r].answer = IF valid THEN "open" ELSE "blocked"]
        /\ IF kind[r] = "stream" THEN EndJob(r) ELSE GoOn(r, Next2(valid))
  BY DEF Prepare
<1>2. /\ at[r] = "thread" /\ step[r] = "prepare"
      /\ kind' = kind /\ backend' = backend /\ talk' = talk
  BY DEF Prepare, Job, KeepQueues
<1> DEFINE t == [turn[r] EXCEPT !.valid = valid,
                               !.answer = IF valid THEN "open" ELSE "blocked"]
           a == IF kind[r] = "stream" THEN "loop" ELSE "thread"
           s == IF kind[r] = "stream" THEN "none" ELSE Next2(valid)
<1>3. t \in Turn
  BY <1>1, Local DEF Turn
<1>4. Moves(r, a, s, t, talk[r])
  <2>1. at' = [at EXCEPT ![r] = a] /\ step' = [step EXCEPT ![r] = s]
    <3>1. CASE kind[r] = "stream"
      BY <1>1, <3>1 DEF EndJob
    <3>2. CASE kind[r] # "stream"
      <4> HIDE DEF Next2
      <4>1. step' = [step EXCEPT ![r] = Next2(valid)] /\ at' = at
        BY <1>1, <3>2 DEF GoOn
      <4> QED BY <4>1, <3>2, <1>2, Local
    <3> QED BY <3>1, <3>2
  <2> QED BY <2>1, <1>1, <1>2, Local DEF Moves
<1>5. a \in Ats /\ s \in Steps
  BY <1>1 DEF Ats, Steps
<1>6. Moved(r, a, s, t, talk[r])
  <2> HIDE DEF t, a, s
  <2> QED BY <1>3, <1>4, <1>5, Local, MovesFrame
<1>7. Bounded(r)'
  BY <1>2, <1>6, Local, Constants DEF LocalOK, Moved, Bounded, Limit, StepOK, Turn
<1>8. StepOK(r)'
  <2>1. CASE kind[r] = "stream"
    BY <1>1, <1>2, <1>6, <2>1, Local DEF LocalOK, Moved, StepOK, TurnOK, Turn
  <2>2. CASE kind[r] # "stream"
    <3>1. kind[r] \in {"query", "tools"} /\ turn[r].open = 0
      BY <1>2, <2>2, Local DEF LocalOK, StepOK, Kinds
    <3>2. at'[r] = "thread" /\ turn'[r].open = 0 /\ kind'[r] = kind[r]
      BY <1>6, <2>2, <3>1, Local DEF Moved, Turn
    <3>3. \/ step'[r] \in {"audit", "complete"}
          \/ step'[r] = "chat" /\ kind[r] = "tools"
      BY <1>6, <2>2 DEF Moved
    <3> HIDE DEF t, a, s
    <3> QED BY <3>1, <3>2, <3>3 DEF StepOK
  <2> QED BY <2>1, <2>2
<1>9. TurnOK(r)'
  BY <1>1, <1>2, <1>6, Local DEF LocalOK, Moved, StepOK, TurnOK, Turn, Whole
<1>10. TalkOK(r)'
  BY <1>6, Local, SameTalk DEF LocalOK, Moved, Turn
<1> QED BY <1>6, <1>7, <1>8, <1>9, <1>10 DEF LocalOK, Moved

LEMMA RememberStep ==
  ASSUME TypeOK, NEW r \in Clients, LocalOK(r), Remember(r)
  PROVE  Frame(r) /\ LocalOK(r)'
<1>1. at[r] = "thread" /\ step[r] = "remember"
  BY DEF Remember, Job, GoOn, KeepQueues
<1> DEFINE t == [turn[r] EXCEPT !.memory = "all"]
<1>2. t \in Turn
  BY <1>1, Local DEF Turn
<1>3. Moves(r, "thread", "audit", t, talk[r])
  BY <1>1, Local DEF Moves, Remember, Job, GoOn, KeepQueues
<1>4. Moved(r, "thread", "audit", t, talk[r])
  <2> HIDE DEF t
  <2> QED BY <1>1, <1>2, <1>3, Local, MovesFrame DEF Ats, Steps
<1>5. Bounded(r)'
  BY <1>1, <1>4, Local, Constants DEF LocalOK, Moved, Bounded, Limit, StepOK, Turn
<1>6. StepOK(r)'
  BY <1>1, <1>4, Local DEF LocalOK, Moved, StepOK, TurnOK, Turn
<1>7. TurnOK(r)'
  BY <1>1, <1>4, Local DEF LocalOK, Moved, StepOK, TurnOK, Turn, Whole
<1>8. TalkOK(r)'
  BY <1>4, Local, SameTalk DEF LocalOK, Moved, Turn
<1> QED BY <1>4, <1>5, <1>6, <1>7, <1>8 DEF LocalOK, Moved

LEMMA AuditStep ==
  ASSUME TypeOK, NEW r \in Clients, LocalOK(r), Audit(r)
  PROVE  Frame(r) /\ LocalOK(r)'
<1>1. at[r] = "thread" /\ step[r] = "audit"
  BY DEF Audit, Job, EndJob, KeepQueues
<1> DEFINE t == [turn[r] EXCEPT !.audit = @ + 1, !.out = "ok"]
<1>2. t \in Turn
  <2>1. turn[r].audit + 1 \in Nat
    BY Local DEF Turn
  <2> QED BY <2>1, Local DEF Turn
<1>3. Moves(r, "loop", "none", t, talk[r])
  BY <1>1, Local DEF Moves, Audit, Job, EndJob, KeepQueues
<1>4. Moved(r, "loop", "none", t, talk[r])
  <2> HIDE DEF t
  <2> QED BY <1>1, <1>2, <1>3, Local, MovesFrame DEF Ats, Steps
<1>5. Bounded(r)'
  BY <1>1, <1>4, Local, Constants DEF LocalOK, Moved, Bounded, Limit, StepOK, Turn
<1>6. StepOK(r)'
  BY <1>1, <1>4, Local DEF LocalOK, Moved, StepOK, TurnOK, Turn
<1>7. TurnOK(r)'
  BY <1>1, <1>4, Local DEF LocalOK, Moved, StepOK, TurnOK, Turn, Whole
<1>8. TalkOK(r)'
  BY <1>4, Local, SameTalk DEF LocalOK, Moved, Turn
<1> QED BY <1>4, <1>5, <1>6, <1>7, <1>8 DEF LocalOK, Moved

LEMMA YieldPieceStep ==
  ASSUME TypeOK, NEW r \in Clients, LocalOK(r), YieldPiece(r)
  PROVE  Frame(r) /\ LocalOK(r)'
<1>1. at[r] = "thread" /\ step[r] = "next" /\ turn[r].tries < (IF turn[r].valid THEN MaxPieces ELSE 1)
  BY DEF YieldPiece, Job, EndJob, KeepQueues
<1> DEFINE t == [turn[r] EXCEPT !.tries = @ + 1]
<1>2. t \in Turn
  <2>1. turn[r].tries + 1 \in Nat
    BY Local DEF Turn
  <2> QED BY <2>1, Local DEF Turn
<1>3. Moves(r, "loop", "none", t, talk[r])
  BY <1>1, Local DEF Moves, YieldPiece, Job, EndJob, KeepQueues
<1>4. Moved(r, "loop", "none", t, talk[r])
  <2> HIDE DEF t
  <2> QED BY <1>1, <1>2, <1>3, Local, MovesFrame DEF Ats, Steps
<1>5. Bounded(r)'
  BY <1>1, <1>4, Local, Constants DEF LocalOK, Moved, Bounded, Limit, StepOK, Turn
<1>6. StepOK(r)'
  BY <1>1, <1>4, Local DEF LocalOK, Moved, StepOK, TurnOK, Turn
<1>7. TurnOK(r)'
  BY <1>1, <1>4, Local DEF LocalOK, Moved, StepOK, TurnOK, Turn, Whole
<1>8. TalkOK(r)'
  BY <1>4, Local, SameTalk DEF LocalOK, Moved, Turn
<1> QED BY <1>4, <1>5, <1>6, <1>7, <1>8 DEF LocalOK, Moved

LEMMA ExhaustStep ==
  ASSUME TypeOK, NEW r \in Clients, LocalOK(r), Exhaust(r)
  PROVE  Frame(r) /\ LocalOK(r)'
<1>1. at[r] = "thread" /\ step[r] = "next"
  BY DEF Exhaust, Job, EndJob, KeepQueues
<1> DEFINE t == [turn[r] EXCEPT !.out = "ok", !.memory = MemoryOf(turn[r])]
<1>2. t \in Turn
  BY <1>1, Local DEF Turn, MemoryOf
<1>3. Moves(r, "loop", "none", t, talk[r])
  BY <1>1, Local DEF Moves, Exhaust, Job, EndJob, KeepQueues
<1>4. Moved(r, "loop", "none", t, talk[r])
  <2> HIDE DEF t
  <2> QED BY <1>1, <1>2, <1>3, Local, MovesFrame DEF Ats, Steps
<1>5. Bounded(r)'
  BY <1>1, <1>4, Local, Constants DEF LocalOK, Moved, Bounded, Limit, StepOK, Turn
<1>6. StepOK(r)'
  BY <1>1, <1>4, Local DEF LocalOK, Moved, StepOK, TurnOK, Turn
<1>7. TurnOK(r)'
  BY <1>1, <1>4, Local DEF LocalOK, Moved, StepOK, TurnOK, Turn, Whole, MemoryOf
<1>8. TalkOK(r)'
  BY <1>4, Local, SameTalk DEF LocalOK, Moved, Turn
<1> QED BY <1>4, <1>5, <1>6, <1>7, <1>8 DEF LocalOK, Moved

LEMMA BreakStreamStep ==
  ASSUME TypeOK, NEW r \in Clients, LocalOK(r), BreakStream(r)
  PROVE  Frame(r) /\ LocalOK(r)'
<1>1. PICK x \in {"degraded", "raise"} :
        /\ at[r] = "thread" /\ step[r] = "next" /\ turn[r].answer = "open"
        /\ turn' = IF x = "degraded" THEN [turn EXCEPT ![r].answer = "degraded"]
                                     ELSE [turn EXCEPT ![r].out = "error"]
  BY Local DEF AfterStreamFails, BreakStream, Job, EndJob, KeepQueues
<1> DEFINE t == IF x = "degraded" THEN [turn[r] EXCEPT !.answer = "degraded"]
                                ELSE [turn[r] EXCEPT !.out = "error"]
<1>2. t \in Turn
  BY <1>1, Local DEF Turn
<1>3. Moves(r, "loop", "none", t, talk[r])
  BY <1>1, Local DEF Moves, BreakStream, Job, EndJob, KeepQueues
<1>4. Moved(r, "loop", "none", t, talk[r])
  <2> HIDE DEF t
  <2> QED BY <1>1, <1>2, <1>3, Local, MovesFrame DEF Ats, Steps
<1>5. Bounded(r)'
  BY <1>1, <1>4, Local, Constants DEF LocalOK, Moved, Bounded, Limit, StepOK, Turn
<1>6. StepOK(r)'
  BY <1>1, <1>4, Local DEF LocalOK, Moved, StepOK, TurnOK, Turn
<1>7. TurnOK(r)'
  BY <1>1, <1>4, Local DEF LocalOK, Moved, StepOK, TurnOK, Turn, Whole
<1>8. TalkOK(r)'
  BY <1>4, Local, SameTalk DEF LocalOK, Moved, Turn
<1> QED BY <1>4, <1>5, <1>6, <1>7, <1>8 DEF LocalOK, Moved

LEMMA ServeCachedStep ==
  ASSUME TypeOK, NEW r \in Clients, LocalOK(r), ServeCached(r)
  PROVE  Frame(r) /\ LocalOK(r)'
<1>1. PICK c \in cached : /\ at[r] = "thread" /\ step[r] = "complete"
                         /\ turn' = [turn EXCEPT ![r].answer = c]
  BY Local DEF ServeCached, Job, GoOn, KeepQueues
<1> DEFINE t == [turn[r] EXCEPT !.answer = c]
<1>2. t \in Turn
  BY <1>1, Local DEF Turn
<1>3. Moves(r, "thread", "remember", t, talk[r])
  BY <1>1, Local DEF Moves, ServeCached, Job, GoOn, KeepQueues
<1>4. Moved(r, "thread", "remember", t, talk[r])
  <2> HIDE DEF t
  <2> QED BY <1>1, <1>2, <1>3, Local, MovesFrame DEF Ats, Steps
<1>5. Bounded(r)'
  BY <1>1, <1>4, Local, Constants DEF LocalOK, Moved, Bounded, Limit, StepOK, Turn
<1>6. StepOK(r)'
  BY <1>1, <1>4, Local DEF LocalOK, Moved, StepOK, TurnOK, Turn
<1>7. TurnOK(r)'
  BY <1>1, <1>4, Local DEF LocalOK, Moved, StepOK, TurnOK, Turn, Whole
<1>8. TalkOK(r)'
  BY <1>4, Local, SameTalk DEF LocalOK, Moved, Turn
<1> QED BY <1>4, <1>5, <1>6, <1>7, <1>8 DEF LocalOK, Moved

LEMMA ChatLimitStep ==
  ASSUME TypeOK, NEW r \in Clients, LocalOK(r), ChatLimit(r)
  PROVE  Frame(r) /\ LocalOK(r)'
<1>1. at[r] = "thread" /\ step[r] = "chat"
  BY DEF ChatLimit, Job, GoOn, KeepQueues
<1> DEFINE t == [turn[r] EXCEPT !.answer = "limit"]
<1>2. t \in Turn
  BY <1>1, Local DEF Turn
<1>3. Moves(r, "thread", "remember", t, talk[r])
  BY <1>1, Local DEF Moves, ChatLimit, Job, GoOn, KeepQueues
<1>4. Moved(r, "thread", "remember", t, talk[r])
  <2> HIDE DEF t
  <2> QED BY <1>1, <1>2, <1>3, Local, MovesFrame DEF Ats, Steps
<1>5. Bounded(r)'
  BY <1>1, <1>4, Local, Constants DEF LocalOK, Moved, Bounded, Limit, StepOK, Turn
<1>6. StepOK(r)'
  BY <1>1, <1>4, Local DEF LocalOK, Moved, StepOK, TurnOK, Turn
<1>7. TurnOK(r)'
  BY <1>1, <1>4, Local DEF LocalOK, Moved, StepOK, TurnOK, Turn, Whole
<1>8. TalkOK(r)'
  BY <1>4, Local, SameTalk DEF LocalOK, Moved, Turn
<1> QED BY <1>4, <1>5, <1>6, <1>7, <1>8 DEF LocalOK, Moved

LEMMA CompleteStep ==
  ASSUME TypeOK, NEW r \in Clients, LocalOK(r), Complete(r)
  PROVE  Frame(r) /\ LocalOK(r)'
<1>1. PICK x \in {"answer", "degraded", "again", "raise"} :
        /\ x = "again" => turn[r].tries < MaxRetries /\ kind[r] # "tools"
        /\ \/ /\ x \in {"answer", "degraded"}
              /\ turn' = [turn EXCEPT ![r].answer = x] /\ GoOn(r, "remember")
           \/ /\ x = "again" /\ turn' = [turn EXCEPT ![r].tries = @ + 1]
              /\ UNCHANGED <<at, step>>
           \/ x = "raise" /\ turn' = [turn EXCEPT ![r].out = "error"] /\ EndJob(r)
  <2>1. PICK o \in Outcomes(CallFrom(r)) :
          LET then == AfterCall(CallFrom(r), turn[r].tries, o)
          IN  \/ /\ then \in {"answer", "degraded"}
                 /\ turn' = [turn EXCEPT ![r].answer = then] /\ GoOn(r, "remember")
              \/ /\ then = "again" /\ turn' = [turn EXCEPT ![r].tries = @ + 1]
                 /\ UNCHANGED <<at, step>>
              \/ then = "raise" /\ turn' = [turn EXCEPT ![r].out = "error"] /\ EndJob(r)
    BY DEF Complete
  <2> DEFINE then == AfterCall(CallFrom(r), turn[r].tries, o)
  <2>0. o \in {"answer", "transient", "fatal"}
    BY <2>1 DEF Outcomes
  <2>2. then = "again" => turn[r].tries < MaxRetries /\ kind[r] # "tools"
    <3>1. kind[r] = "tools" => o = "answer"
      BY <2>1 DEF CallFrom, Outcomes
    <3>2. o = "answer" => then = "answer"
      BY DEF AfterCall
    <3>3. then = "again" => turn[r].tries < MaxRetries
      BY <2>0 DEF AfterCall
    <3> QED BY <3>1, <3>2, <3>3
  <2> HIDE DEF then
  <2>3. \/ /\ then \in {"answer", "degraded"}
           /\ turn' = [turn EXCEPT ![r].answer = then] /\ GoOn(r, "remember")
        \/ /\ then = "again" /\ turn' = [turn EXCEPT ![r].tries = @ + 1]
           /\ UNCHANGED <<at, step>>
        \/ then = "raise" /\ turn' = [turn EXCEPT ![r].out = "error"] /\ EndJob(r)
    BY <2>1 DEF then
  <2> QED BY <2>2, <2>3
<1>2. /\ at[r] = "thread" /\ step[r] = "complete"
      /\ kind' = kind /\ backend' = backend /\ talk' = talk
  BY DEF Complete, Job, KeepQueues
<1> DEFINE t == CASE x \in {"answer", "degraded"} -> [turn[r] EXCEPT !.answer = x]
                  [] x = "again" -> [turn[r] EXCEPT !.tries = turn[r].tries + 1]
                  [] OTHER -> [turn[r] EXCEPT !.out = "error"]
           a == IF x = "raise" THEN "loop" ELSE "thread"
           s == CASE x \in {"answer", "degraded"} -> "remember"
                  [] x = "again" -> "complete"
                  [] OTHER -> "none"
<1>3. t \in Turn
  <2>1. turn[r].tries + 1 \in Nat
    BY Local DEF Turn
  <2>2. CASE x \in {"answer", "degraded"}
    BY <2>2, Local DEF Turn
  <2>3. CASE x = "again"
    BY <2>1, <2>3, Local DEF Turn
  <2>4. CASE x = "raise"
    BY <2>4, Local DEF Turn
  <2> QED BY <1>1, <2>2, <2>3, <2>4
<1>4. Moves(r, a, s, t, talk[r])
  BY <1>1, <1>2, Local DEF Moves, GoOn, EndJob
<1>5. a \in Ats /\ s \in Steps
  BY <1>1 DEF Ats, Steps
<1>6. Moved(r, a, s, t, talk[r])
  <2> HIDE DEF t, a, s
  <2> QED BY <1>3, <1>4, <1>5, Local, MovesFrame
<1>7. Bounded(r)'
  BY <1>1, <1>2, <1>6, Local, Constants DEF LocalOK, Moved, Bounded, Limit, StepOK, Turn
<1>8. StepOK(r)'
  BY <1>1, <1>2, <1>6, Local DEF LocalOK, Moved, StepOK, TurnOK, Turn
<1>9. TurnOK(r)'
  BY <1>1, <1>2, <1>6, Local DEF LocalOK, Moved, StepOK, TurnOK, Turn, Whole
<1>10. TalkOK(r)'
  BY <1>6, Local, SameTalk DEF LocalOK, Moved, Turn
<1> QED BY <1>6, <1>7, <1>8, <1>9, <1>10 DEF LocalOK, Moved

-----------------------------------------------------------------------------
(* The conversation with tools. *)

LEMMA AskingElements ==
  ASSUME NEW m \in Talks, NEW c \in Nat, NEW n \in Nat
  PROVE  /\ Asking(m, c, n) \in Talks
         /\ Len(Asking(m, c, n)) = Len(m) + n
         /\ \A i \in 1..Len(m) : Asking(m, c, n)[i] = m[i]
         /\ \A i \in (Len(m) + 1)..(Len(m) + n) :
              Asking(m, c, n)[i] = <<"call", c + (i - Len(m))>>
<1> DEFINE new == [i \in 1..n |-> <<"call", c + i>>]
<1>1. new \in Seq({"call", "result"} \X Nat)
  <2>1. \A i \in 1..n : <<"call", c + i>> \in {"call", "result"} \X Nat
    OBVIOUS
  <2> QED BY <2>1, IsASeq
<1>2. Len(new) = n /\ m \in Seq({"call", "result"} \X Nat) /\ Len(m) \in Nat
  BY DEF Talks
<1> HIDE DEF new
<1>3. /\ m \o new \in Talks /\ Len(m \o new) = Len(m) + n
      /\ \A i \in 1..(Len(m) + n) :
           (m \o new)[i] = IF i <= Len(m) THEN m[i] ELSE new[i - Len(m)]
  BY <1>1, <1>2, ConcatProperties DEF Talks
<1>4. \A i \in (Len(m) + 1)..(Len(m) + n) : new[i - Len(m)] = <<"call", c + (i - Len(m))>>
  BY <1>2 DEF new
<1> QED BY <1>2, <1>3, <1>4 DEF Asking, new

LEMMA AnsweringElements ==
  ASSUME NEW m \in Talks, NEW n \in Nat, NEW tool
  PROVE  /\ Answering(m, n, tool) \in Talks
         /\ Len(Answering(m, n, tool)) = Len(m) + 1
         /\ \A i \in 1..Len(m) : Answering(m, n, tool)[i] = m[i]
         /\ Answering(m, n, tool)[Len(m) + 1] = <<"result", n>>
BY AppendProperties DEF Answering, Talks

LEMMA AskingInOrder ==
  ASSUME NEW m \in Talks, NEW c \in Nat, NEW n \in Nat, InOrder(m, c, 0)
  PROVE  Asking(m, c, n) \in Talks /\ InOrder(Asking(m, c, n), c, n)
<1> DEFINE new == Asking(m, c, n)
<1>1. /\ new \in Talks /\ Len(new) = Len(m) + n
      /\ \A i \in 1..Len(m) : new[i] = m[i]
      /\ \A i \in (Len(m) + 1)..(Len(m) + n) : new[i] = <<"call", c + (i - Len(m))>>
  BY AskingElements
<1> HIDE DEF new
<1>2. DOMAIN new = 1..(Len(m) + n) /\ DOMAIN m = 1..Len(m) /\ Len(m) \in Nat
  BY <1>1 DEF Talks
<1>3. \A i \in 1..Len(m) : new[i] = m[i] /\ m[i][2] \in 1..c
  <2>1. \A i \in 1..Len(m) : m[i][1] \in {"call", "result"}
    BY DEF Talks
  <2> QED BY <1>1, <1>2, <2>1 DEF InOrder
<1>4. \A i \in DOMAIN new \ (1..Len(m)) : new[i][1] = "call" /\ new[i][2] \in (c + 1)..(c + n)
  <2>1. \A i \in DOMAIN new \ (1..Len(m)) : i \in (Len(m) + 1)..(Len(m) + n)
    BY <1>2
  <2> QED BY <1>1, <1>2, <2>1
<1>5. \A i \in DOMAIN new : /\ new[i][1] = "call" => new[i][2] \in 1..(c + n)
                            /\ new[i][1] = "result" => new[i][2] \in 1..c
  <2> TAKE i \in DOMAIN new
  <2>1. CASE i \in 1..Len(m)
    BY <1>3, <2>1
  <2>2. CASE i \notin 1..Len(m)
    BY <1>4, <2>2
  <2> QED BY <2>1, <2>2
<1>6. \A k \in 1..c : \E j \in DOMAIN new : new[j] = <<"result", k>>
  <2> TAKE k \in 1..c
  <2>1. PICK j \in 1..Len(m) : m[j] = <<"result", k>>
    BY <1>2 DEF InOrder
  <2> QED BY <1>2, <1>3, <2>1
<1>7. ASSUME NEW i \in DOMAIN new, NEW j \in DOMAIN new,
             new[i][2] = new[j][2], new[j][1] = "result"
      PROVE  i = j \/ (i < j /\ new[i][1] = "call")
  <2>1. j \in 1..Len(m)
    BY <1>4, <1>7
  <2>2. i \in 1..Len(m)
    BY <1>3, <1>4, <1>7, <2>1
  <2> QED BY <1>2, <1>3, <1>7, <2>1, <2>2 DEF InOrder
<1> QED BY <1>1, <1>5, <1>6, <1>7 DEF InOrder, new

LEMMA AnsweringInOrder ==
  ASSUME NEW m \in Talks, NEW c \in Nat, NEW o \in Nat \ {0}, NEW tool, InOrder(m, c, o)
  PROVE  Answering(m, c + 1, tool) \in Talks /\ InOrder(Answering(m, c + 1, tool), c + 1, o - 1)
<1> DEFINE new == Answering(m, c + 1, tool)
           last == Len(m) + 1
<1>1. /\ new \in Talks /\ Len(new) = last
      /\ \A i \in 1..Len(m) : new[i] = m[i]
      /\ new[last] = <<"result", c + 1>>
  BY AnsweringElements
<1> HIDE DEF new
<1>2. DOMAIN new = 1..last /\ DOMAIN m = 1..Len(m) /\ Len(m) \in Nat
  BY <1>1 DEF Talks
<1>3. \A i \in 1..Len(m) : new[i] = m[i] /\ m[i][1] \in {"call", "result"}
  BY <1>1 DEF Talks
<1>4. \A i \in DOMAIN new : i \in 1..Len(m) \/ i = last
  BY <1>2
<1>5. \A i \in DOMAIN new : /\ new[i][1] = "call" => new[i][2] \in 1..(c + 1 + (o - 1))
                            /\ new[i][1] = "result" => new[i][2] \in 1..(c + 1)
  <2> TAKE i \in DOMAIN new
  <2>1. CASE i \in 1..Len(m)
    <3>1. /\ m[i][1] = "call" => m[i][2] \in 1..(c + o)
          /\ m[i][1] = "result" => m[i][2] \in 1..c
      BY <1>2, <2>1 DEF InOrder
    <3> QED BY <1>3, <2>1, <3>1
  <2>2. CASE i = last
    BY <1>1, <2>2
  <2> QED BY <1>4, <2>1, <2>2
<1>6. \A k \in 1..(c + 1) : \E j \in DOMAIN new : new[j] = <<"result", k>>
  <2> TAKE k \in 1..(c + 1)
  <2>1. CASE k = c + 1
    BY <1>1, <1>2, <2>1
  <2>2. CASE k # c + 1
    <3>1. k \in 1..c
      BY <2>2
    <3>2. PICK j \in 1..Len(m) : m[j] = <<"result", k>>
      BY <1>2, <3>1 DEF InOrder
    <3> QED BY <1>2, <1>3, <3>2
  <2> QED BY <2>1, <2>2
<1>7. ASSUME NEW i \in DOMAIN new, NEW j \in DOMAIN new,
             new[i][2] = new[j][2], new[j][1] = "result"
      PROVE  i = j \/ (i < j /\ new[i][1] = "call")
  <2>1. CASE i \in 1..Len(m) /\ j \in 1..Len(m)
    BY <1>2, <1>3, <1>7, <2>1 DEF InOrder
  <2>2. CASE j = last /\ i \in 1..Len(m)
    <3>1. m[i][2] = c + 1 /\ (m[i][1] = "result" => m[i][2] \in 1..c)
      BY <1>1, <1>2, <1>3, <1>7, <2>2 DEF InOrder
    <3> QED BY <1>2, <1>3, <2>2, <3>1
  <2>3. CASE i = last /\ j \in 1..Len(m)
    <3>1. m[j][2] = c + 1 /\ m[j][2] \in 1..c
      BY <1>1, <1>2, <1>3, <1>7, <2>3 DEF InOrder
    <3> QED BY <3>1
  <2> QED BY <1>4, <2>1, <2>2, <2>3
<1> QED BY <1>1, <1>5, <1>6, <1>7 DEF InOrder, new

LEMMA ChatStep ==
  ASSUME TypeOK, NEW r \in Clients, LocalOK(r), Chat(r)
  PROVE  Frame(r) /\ LocalOK(r)'
<1>1. /\ at[r] = "thread" /\ step[r] = "chat" /\ turn[r].tries < MaxIters
      /\ kind' = kind /\ backend' = backend
  BY DEF Chat, Job, KeepQueues
<1>2. CASE /\ turn' = [turn EXCEPT ![r].answer = "answer"] /\ GoOn(r, "remember")
           /\ talk' = talk
  <2> DEFINE t == [turn[r] EXCEPT !.answer = "answer"]
  <2>1. t \in Turn
    BY Local DEF Turn
  <2>2. Moves(r, "thread", "remember", t, talk[r])
    BY <1>1, <1>2, Local DEF Moves, GoOn
  <2>3. Moved(r, "thread", "remember", t, talk[r])
    <3> HIDE DEF t
    <3> QED BY <2>1, <2>2, Local, MovesFrame DEF Ats, Steps
  <2>4. Bounded(r)' /\ StepOK(r)'
    BY <1>1, <2>3, Local, Constants DEF LocalOK, Moved, Bounded, Limit, StepOK, Turn
  <2>5. TurnOK(r)'
    BY <1>1, <2>3, Local DEF LocalOK, Moved, StepOK, TurnOK, Turn, Whole
  <2>6. TalkOK(r)'
    BY <2>3, Local, SameTalk DEF LocalOK, Moved, Turn
  <2> QED BY <2>3, <2>4, <2>5, <2>6 DEF LocalOK, Moved
<1>3. CASE turn' = [turn EXCEPT ![r].out = "error"] /\ EndJob(r) /\ talk' = talk
  <2> DEFINE t == [turn[r] EXCEPT !.out = "error"]
  <2>1. t \in Turn
    BY Local DEF Turn
  <2>2. Moves(r, "loop", "none", t, talk[r])
    BY <1>1, <1>3, Local DEF Moves, EndJob
  <2>3. Moved(r, "loop", "none", t, talk[r])
    <3> HIDE DEF t
    <3> QED BY <2>1, <2>2, Local, MovesFrame DEF Ats, Steps
  <2>4. Bounded(r)' /\ StepOK(r)'
    BY <1>1, <2>3, Local, Constants DEF LocalOK, Moved, Bounded, Limit, StepOK, Turn
  <2>5. TurnOK(r)'
    BY <1>1, <2>3, Local DEF LocalOK, Moved, StepOK, TurnOK, Turn, Whole
  <2>6. TalkOK(r)'
    BY <2>3, Local, SameTalk DEF LocalOK, Moved, Turn
  <2> QED BY <2>3, <2>4, <2>5, <2>6 DEF LocalOK, Moved
<1>4. ASSUME NEW n \in 1..MaxCalls,
             talk' = [talk EXCEPT ![r] = Asking(@, turn[r].calls, n)],
             turn' = [turn EXCEPT ![r].tries = @ + 1, ![r].open = n],
             GoOn(r, "dispatch")
      PROVE  Frame(r) /\ LocalOK(r)'
  <2> DEFINE t == [turn[r] EXCEPT !.tries = turn[r].tries + 1, !.open = n]
             asked == Asking(talk[r], turn[r].calls, n)
  <2>1. t \in Turn /\ n \in Nat
    <3>1. turn[r].tries + 1 \in Nat /\ n \in Nat
      BY Local, Constants DEF Turn
    <3> QED BY <3>1, Local DEF Turn
  <2>2. /\ turn[r].calls \in Nat /\ turn[r].open = 0 /\ turn[r].valid
        /\ InOrder(talk[r], turn[r].calls, 0)
    BY <1>1, Local DEF Turn, LocalOK, StepOK, TurnOK, TalkOK
  <2>3. asked \in Talks /\ InOrder(asked, turn[r].calls, n)
    BY <2>1, <2>2, Local, AskingInOrder
  <2>4. Moves(r, "thread", "dispatch", t, asked)
    BY <1>1, <1>4, Local DEF Moves, GoOn
  <2> HIDE DEF asked
  <2>5. Moved(r, "thread", "dispatch", t, asked)
    <3> HIDE DEF t
    <3> QED BY <2>1, <2>3, <2>4, Local, MovesFrame DEF Ats, Steps
  <2>6. Bounded(r)' /\ StepOK(r)'
    <3>1. kind[r] = "tools"
      BY <1>1 DEF LocalOK, StepOK
    <3>2. turn'[r].tries = turn[r].tries + 1 /\ turn'[r].open = n /\ turn'[r].answer = turn[r].answer
      BY <2>5, Local DEF Moved, Turn
    <3>3. n \in 1..MaxCalls /\ turn[r].tries \in Nat /\ turn[r].answer # "none"
      BY <2>2, Local DEF LocalOK, TurnOK, Turn
    <3>4. turn'[r].tries <= MaxIters /\ turn'[r].open <= MaxCalls /\ turn'[r].open > 0
      BY <1>1, <3>2, <3>3, Constants
    <3>5. Limit(r)' = MaxIters
      BY <2>5, <3>1 DEF Limit, Moved
    <3> HIDE DEF t
    <3> QED BY <1>1, <2>5, <3>1, <3>2, <3>3, <3>4, <3>5 DEF Moved, Bounded, StepOK
  <2>7. TurnOK(r)'
    BY <1>1, <2>2, <2>5, Local DEF LocalOK, Moved, StepOK, TurnOK, Turn, Whole
  <2>8. TalkOK(r)'
    <3>1. talk'[r] = asked /\ turn'[r].calls = turn[r].calls /\ turn'[r].open = n
      BY <2>5, Local DEF Moved, Turn
    <3> QED BY <2>3, <3>1 DEF TalkOK
  <2> QED BY <2>5, <2>6, <2>7, <2>8 DEF LocalOK, Moved
<1> QED BY <1>2, <1>3, <1>4 DEF Chat

LEMMA DispatchStep ==
  ASSUME TypeOK, NEW r \in Clients, LocalOK(r), Dispatch(r)
  PROVE  Frame(r) /\ LocalOK(r)'
<1>1. PICK tool \in {"works", "raises", "unknown"} :
        talk' = [talk EXCEPT ![r] = Answering(@, turn[r].calls + 1, tool)]
  BY DEF Dispatch
<1>2. /\ at[r] = "thread" /\ step[r] = "dispatch" /\ kind' = kind /\ backend' = backend
      /\ turn' = [turn EXCEPT ![r].calls = @ + 1, ![r].open = @ - 1]
      /\ GoOn(r, IF turn[r].open = 1 THEN "chat" ELSE "dispatch")
  BY DEF Dispatch, Job, KeepQueues
<1> DEFINE t == [turn[r] EXCEPT !.calls = turn[r].calls + 1, !.open = turn[r].open - 1]
           s == IF turn[r].open = 1 THEN "chat" ELSE "dispatch"
           answered == Answering(talk[r], turn[r].calls + 1, tool)
<1>3. /\ turn[r].calls \in Nat /\ turn[r].open \in Nat \ {0} /\ turn[r].valid
      /\ InOrder(talk[r], turn[r].calls, turn[r].open)
  BY <1>2, Local DEF Turn, LocalOK, StepOK, TurnOK, TalkOK
<1>4. t \in Turn
  <2>1. turn[r].calls + 1 \in Nat /\ turn[r].open - 1 \in Nat
    BY <1>3
  <2> QED BY <2>1, Local DEF Turn
<1>5. answered \in Talks /\ InOrder(answered, turn[r].calls + 1, turn[r].open - 1)
  BY <1>3, Local, AnsweringInOrder
<1>6. Moves(r, "thread", s, t, answered)
  BY <1>1, <1>2, Local DEF Moves, GoOn
<1> HIDE DEF answered
<1>7. Moved(r, "thread", s, t, answered)
  <2>1. s \in Steps
    BY DEF Steps
  <2> HIDE DEF t, s
  <2> QED BY <1>4, <1>5, <1>6, <2>1, Local, MovesFrame DEF Ats
<1>8. Bounded(r)'
  BY <1>2, <1>3, <1>7, Local, Constants DEF LocalOK, Moved, Bounded, Limit, StepOK, Turn
<1>9. StepOK(r)'
  BY <1>2, <1>3, <1>7, Local DEF LocalOK, Moved, StepOK, TurnOK, Turn
<1>10. TurnOK(r)'
  BY <1>2, <1>3, <1>7, Local DEF LocalOK, Moved, StepOK, TurnOK, Turn, Whole
<1>11. TalkOK(r)'
  <2>1. /\ talk'[r] = answered /\ turn'[r].calls = turn[r].calls + 1
        /\ turn'[r].open = turn[r].open - 1
    BY <1>7, Local DEF Moved, Turn
  <2> QED BY <1>5, <2>1 DEF TalkOK
<1> QED BY <1>7, <1>8, <1>9, <1>10, <1>11 DEF LocalOK, Moved

-----------------------------------------------------------------------------
(* The loop and the pool. *)

LEMMA RejectStep ==
  ASSUME TypeOK, NEW r \in Clients, LocalOK(r), Reject(r)
  PROVE  Frame(r) /\ LocalOK(r)'
<1>1. at[r] = "new"
  BY Local DEF Reject
<1>2. Moves(r, "rejected", step[r], turn[r], talk[r])
  BY <1>1, Local DEF Moves, Reject
<1>3. Moved(r, "rejected", step[r], turn[r], talk[r])
  BY <1>1, <1>2, Local, MovesFrame DEF Ats, Steps, Ended
<1>4. Bounded(r)'
  BY <1>3 DEF LocalOK, Moved, Bounded, Limit
<1>5. StepOK(r)'
  BY <1>1, <1>3, Local DEF LocalOK, Moved, StepOK, Kinds
<1>6. TurnOK(r)'
  BY <1>1, <1>3, Local DEF LocalOK, Moved, StepOK, TurnOK, Whole, Kinds
<1>7. TalkOK(r)'
  BY <1>3, SameTalk DEF LocalOK, Moved
<1> QED BY <1>3, <1>4, <1>5, <1>6, <1>7 DEF LocalOK, Moved

LEMMA AcceptStep ==
  ASSUME TypeOK, NEW r \in Clients, LocalOK(r), Accept(r)
  PROVE  Frame(r) /\ LocalOK(r)'
<1>1. at[r] = "new"
  BY Local DEF Accept, Submit
<1>2. Moves(r, (IF kind[r] = "write" THEN "lock" ELSE "pool"), step[r], turn[r], talk[r])
  BY <1>1, Local DEF Moves, Accept, Submit
<1>3. Moved(r, (IF kind[r] = "write" THEN "lock" ELSE "pool"), step[r], turn[r], talk[r])
  BY <1>1, <1>2, Local, MovesFrame DEF Ats, Steps, Ended
<1>4. Bounded(r)'
  BY <1>3 DEF LocalOK, Moved, Bounded, Limit
<1>5. StepOK(r)'
  BY <1>1, <1>3, Local DEF LocalOK, Moved, StepOK, Kinds
<1>6. TurnOK(r)'
  BY <1>1, <1>3, Local DEF LocalOK, Moved, StepOK, TurnOK, Whole, Kinds
<1>7. TalkOK(r)'
  BY <1>3, SameTalk DEF LocalOK, Moved
<1> QED BY <1>3, <1>4, <1>5, <1>6, <1>7 DEF LocalOK, Moved

LEMMA AcquireLockStep ==
  ASSUME TypeOK, NEW r \in Clients, LocalOK(r), AcquireLock(r)
  PROVE  Frame(r) /\ LocalOK(r)'
<1>1. at[r] = "lock"
  BY Local DEF AcquireLock, Submit
<1>2. Moves(r, "pool", step[r], turn[r], talk[r])
  BY <1>1, Local DEF Moves, AcquireLock, Submit
<1>3. Moved(r, "pool", step[r], turn[r], talk[r])
  BY <1>1, <1>2, Local, MovesFrame DEF Ats, Steps, Ended
<1>4. Bounded(r)'
  BY <1>3 DEF LocalOK, Moved, Bounded, Limit
<1>5. StepOK(r)'
  BY <1>1, <1>3, Local DEF LocalOK, Moved, StepOK, Kinds
<1>6. TurnOK(r)'
  BY <1>1, <1>3, Local DEF LocalOK, Moved, StepOK, TurnOK, Whole, Kinds
<1>7. TalkOK(r)'
  BY <1>3, SameTalk DEF LocalOK, Moved
<1> QED BY <1>3, <1>4, <1>5, <1>6, <1>7 DEF LocalOK, Moved

LEMMA StartJobStep ==
  ASSUME TypeOK, NEW r \in Clients, LocalOK(r), StartJob(r), at[r] = "pool"
  PROVE  Frame(r) /\ LocalOK(r)'
<1>1. at[r] = "pool" /\ FirstStep(r) \in Steps
  BY Local DEF StartJob, FirstStep, Steps
<1>2. Moves(r, "thread", FirstStep(r), turn[r], talk[r])
  BY <1>1, Local DEF Moves, StartJob, FirstStep, Steps
<1>3. Moved(r, "thread", FirstStep(r), turn[r], talk[r])
  BY <1>1, <1>2, Local, MovesFrame DEF Ats, Steps, Ended
<1>4. Bounded(r)'
  BY <1>3 DEF LocalOK, Moved, Bounded, Limit
<1>5. StepOK(r)'
  BY <1>1, <1>3, Local DEF LocalOK, Moved, StepOK, Kinds, FirstStep
<1>6. TurnOK(r)'
  BY <1>1, <1>3, Local DEF LocalOK, Moved, StepOK, TurnOK, Whole, Kinds, FirstStep
<1>7. TalkOK(r)'
  BY <1>3, SameTalk DEF LocalOK, Moved
<1> QED BY <1>3, <1>4, <1>5, <1>6, <1>7 DEF LocalOK, Moved

LEMMA RespondStep ==
  ASSUME TypeOK, NEW r \in Clients, LocalOK(r), Respond(r)
  PROVE  Frame(r) /\ LocalOK(r)'
<1>1. at[r] = "loop" /\ turn[r].out \in {"ok", "error"}
  BY Local DEF Respond, Turn
<1>2. Moves(r, (IF turn[r].out = "ok" THEN "returned" ELSE "raised"), step[r], turn[r], talk[r])
  BY <1>1, Local DEF Moves, Respond, Turn
<1>3. Moved(r, (IF turn[r].out = "ok" THEN "returned" ELSE "raised"), step[r], turn[r], talk[r])
  BY <1>1, <1>2, Local, MovesFrame DEF Ats, Steps, Ended
<1>4. Bounded(r)'
  BY <1>3 DEF LocalOK, Moved, Bounded, Limit
<1>5. StepOK(r)'
  BY <1>1, <1>3, Local DEF LocalOK, Moved, StepOK, Kinds
<1>6. TurnOK(r)'
  BY <1>1, <1>3, Local DEF LocalOK, Moved, StepOK, TurnOK, Whole, Kinds
<1>7. TalkOK(r)'
  BY <1>3, SameTalk DEF LocalOK, Moved
<1> QED BY <1>3, <1>4, <1>5, <1>6, <1>7 DEF LocalOK, Moved

LEMMA PullStep ==
  ASSUME TypeOK, NEW r \in Clients, LocalOK(r), Pull(r)
  PROVE  Frame(r) /\ LocalOK(r)'
<1>1. at[r] = "loop" /\ kind[r] = "stream" /\ turn[r].out = "none"
  BY Local DEF Pull, Submit
<1>2. Moves(r, "pool", step[r], turn[r], talk[r])
  BY <1>1, Local DEF Moves, Pull, Submit
<1>3. Moved(r, "pool", step[r], turn[r], talk[r])
  BY <1>1, <1>2, Local, MovesFrame DEF Ats, Steps, Ended
<1>4. Bounded(r)'
  BY <1>3 DEF LocalOK, Moved, Bounded, Limit
<1>5. StepOK(r)'
  BY <1>1, <1>3, Local DEF LocalOK, Moved, StepOK, Kinds
<1>6. TurnOK(r)'
  BY <1>1, <1>3, Local DEF LocalOK, Moved, StepOK, TurnOK, Whole, Kinds
<1>7. TalkOK(r)'
  BY <1>3, SameTalk DEF LocalOK, Moved
<1> QED BY <1>3, <1>4, <1>5, <1>6, <1>7 DEF LocalOK, Moved

LEMMA AbandonStep ==
  ASSUME TypeOK, NEW r \in Clients, LocalOK(r), Abandon(r)
  PROVE  Frame(r) /\ LocalOK(r)'
<1>1. at[r] = "loop" /\ turn[r].left
  BY Local DEF Abandon, Closed
<1>2. Moves(r, "gone", step[r], turn[r], talk[r])
  BY <1>1, Local DEF Moves, Abandon, Closed
<1>3. Moved(r, "gone", step[r], turn[r], talk[r])
  BY <1>1, <1>2, Local, MovesFrame DEF Ats, Steps, Ended
<1>4. Bounded(r)'
  BY <1>3 DEF LocalOK, Moved, Bounded, Limit
<1>5. StepOK(r)'
  BY <1>1, <1>3, Local DEF LocalOK, Moved, StepOK, Kinds
<1>6. TurnOK(r)'
  BY <1>1, <1>3, Local DEF LocalOK, Moved, StepOK, TurnOK, Whole, Kinds
<1>7. TalkOK(r)'
  BY <1>3, SameTalk DEF LocalOK, Moved
<1> QED BY <1>3, <1>4, <1>5, <1>6, <1>7 DEF LocalOK, Moved

LEMMA DisconnectStep ==
  ASSUME TypeOK, NEW r \in Clients, LocalOK(r), Disconnect(r)
  PROVE  Frame(r) /\ LocalOK(r)'
<1> DEFINE t == [turn[r] EXCEPT !.left = TRUE]
           a == IF at[r] = "pool" THEN "loop" ELSE at[r]
<1>1. kind[r] = "stream" /\ at[r] \in {"thread", "loop", "pool"} /\ turn[r].answer # "none"
  BY DEF Disconnect
<1>2. t \in Turn /\ a \in Ats
  BY Local DEF Turn, Ats
<1>3. Moves(r, a, step[r], t, talk[r])
  BY Local DEF Moves, Disconnect
<1>4. Moved(r, a, step[r], t, talk[r])
  <2> HIDE DEF t, a
  <2> QED BY <1>2, <1>3, Local, MovesFrame
<1>5. Bounded(r)'
  BY <1>4, Local DEF LocalOK, Moved, Bounded, Limit, Turn
<1>6. StepOK(r)'
  BY <1>1, <1>4, Local DEF LocalOK, Moved, StepOK, Turn
<1>7. TurnOK(r)'
  BY <1>1, <1>4, Local DEF LocalOK, Moved, StepOK, TurnOK, Turn, Whole
<1>8. TalkOK(r)'
  BY <1>4, Local, SameTalk DEF LocalOK, Moved, Turn
<1> QED BY <1>4, <1>5, <1>6, <1>7, <1>8 DEF LocalOK, Moved

-----------------------------------------------------------------------------
(* The queues. *)

LEMMA PoolKept ==
  ASSUME PoolInv, NEW r \in Clients, Frame(r), pool \in Seq(Clients),
         pool' = pool, at[r] # "pool"
  PROVE  PoolInv' /\ pool' \in Seq(Clients)
<1>1. \A i \in DOMAIN pool : pool[i] \in Clients /\ pool[i] # r
  BY ElementOfSeq DEF PoolInv
<1> QED BY <1>1 DEF PoolInv, Frame

LEMMA PoolSubmit ==
  ASSUME PoolInv, NEW r \in Clients, Frame(r), pool \in Seq(Clients),
         pool' = Append(pool, r), at[r] # "pool", at'[r] = "pool"
  PROVE  PoolInv' /\ pool' \in Seq(Clients)
<1>1. \A i \in DOMAIN pool : pool[i] \in Clients /\ pool[i] # r
  BY ElementOfSeq DEF PoolInv
<1>2. /\ Len(pool) \in Nat /\ DOMAIN pool = 1..Len(pool)
      /\ pool' \in Seq(Clients) /\ DOMAIN pool' = 1..(Len(pool) + 1)
      /\ \A i \in 1..Len(pool) : pool'[i] = pool[i]
      /\ pool'[Len(pool) + 1] = r
  BY AppendProperties, LenProperties
<1>3. \A i \in DOMAIN pool' : i \in DOMAIN pool \/ i = Len(pool) + 1
  BY <1>2
<1> QED BY <1>1, <1>2, <1>3 DEF PoolInv, Frame

\* A request is taken out of the pool: the first, or one that is cancelled.
LEMMA PoolRemove ==
  ASSUME PoolInv, NEW r \in Clients, Frame(r), pool \in Seq(Clients),
         NEW k \in DOMAIN pool, pool[k] = r, pool' \in Seq(Clients),
         Len(pool') = Len(pool) - 1,
         \A i \in DOMAIN pool' : pool'[i] = (IF i < k THEN pool[i] ELSE pool[i + 1])
  PROVE  PoolInv'
<1>1. Len(pool) \in Nat /\ DOMAIN pool = 1..Len(pool) /\ DOMAIN pool' = 1..(Len(pool) - 1)
  BY LenProperties
<1> DEFINE old(i) == IF i < k THEN i ELSE i + 1
<1>2. \A i \in DOMAIN pool' : old(i) \in DOMAIN pool /\ old(i) # k /\ pool'[i] = pool[old(i)]
  BY <1>1
<1>3. \A i, j \in DOMAIN pool' : old(i) = old(j) => i = j
  BY <1>1
<1> HIDE DEF old
<1>4. \A i \in DOMAIN pool' : pool'[i] \in Clients /\ pool'[i] # r /\ at[pool'[i]] = "pool"
  BY <1>2, ElementOfSeq DEF PoolInv
<1>5. \A i \in DOMAIN pool' : at'[pool'[i]] = "pool"
  BY <1>4 DEF Frame
<1>6. \A i, j \in DOMAIN pool' : pool'[i] = pool'[j] => i = j
  BY <1>2, <1>3 DEF PoolInv
<1> QED BY <1>5, <1>6 DEF PoolInv

LEMMA PoolStart ==
  ASSUME PoolInv, NEW r \in Clients, Frame(r), pool \in Seq(Clients),
         pool # <<>>, r = Head(pool), pool' = Tail(pool)
  PROVE  PoolInv' /\ pool' \in Seq(Clients)
<1>1. /\ 1 \in DOMAIN pool /\ pool[1] = r /\ pool' \in Seq(Clients)
      /\ Len(pool') = Len(pool) - 1
      /\ \A i \in DOMAIN pool' : i \in 1..(Len(pool) - 1) /\ pool'[i] = pool[i + 1]
  BY HeadTailProperties, LenProperties, EmptySeq
<1>2. \A i \in DOMAIN pool' : pool'[i] = (IF i < 1 THEN pool[i] ELSE pool[i + 1])
  BY <1>1
<1> QED BY <1>1, <1>2, PoolRemove

LEMMA PoolCancel ==
  ASSUME PoolInv, NEW r \in Clients, Frame(r), pool \in Seq(Clients),
         NEW k \in DOMAIN pool, pool[k] = r, pool' = Cancelled(k)
  PROVE  PoolInv' /\ pool' \in Seq(Clients)
<1> DEFINE before == SubSeq(pool, 1, k - 1)
           after  == SubSeq(pool, k + 1, Len(pool))
<1>1. Len(pool) \in Nat /\ k \in 1..Len(pool)
  BY LenProperties
<1>2. /\ before \in Seq(Clients) /\ Len(before) = k - 1
      /\ \A i \in 1..(k - 1) : before[i] = pool[i]
  BY <1>1, ElementOfSeq, SubSeqProperties
<1>3. /\ after \in Seq(Clients) /\ Len(after) = Len(pool) - k
      /\ \A i \in 1..(Len(pool) - k) : after[i] = pool[k + i]
  BY <1>1, ElementOfSeq, SubSeqProperties
<1> HIDE DEF before, after
<1>4. /\ pool' \in Seq(Clients) /\ Len(pool') = Len(pool) - 1
      /\ \A i \in 1..(Len(pool) - 1) :
           pool'[i] = IF i <= k - 1 THEN before[i] ELSE after[i - (k - 1)]
  <2>1. pool' = before \o after
    BY DEF Cancelled, before, after
  <2>2. /\ before \o after \in Seq(Clients) /\ Len(before \o after) = Len(before) + Len(after)
        /\ \A i \in 1..(Len(before) + Len(after)) :
             (before \o after)[i] = IF i <= Len(before) THEN before[i] ELSE after[i - Len(before)]
    BY <1>2, <1>3, ConcatProperties
  <2>3. Len(before) + Len(after) = Len(pool) - 1
    BY <1>1, <1>2, <1>3
  <2> QED BY <1>2, <2>1, <2>2, <2>3
<1>5. \A i \in DOMAIN pool' : pool'[i] = (IF i < k THEN pool[i] ELSE pool[i + 1])
  <2> TAKE i \in DOMAIN pool'
  <2>1. i \in 1..(Len(pool) - 1)
    BY <1>4, LenProperties
  <2>2. CASE i < k
    BY <1>1, <1>2, <1>4, <2>1, <2>2
  <2>3. CASE ~(i < k)
    <3>1. i - (k - 1) \in 1..(Len(pool) - k) /\ k + (i - (k - 1)) = i + 1
      BY <1>1, <2>1, <2>3
    <3>2. ~(i <= k - 1)
      BY <1>1, <2>1, <2>3
    <3>3. pool'[i] = after[i - (k - 1)]
      BY <1>4, <2>1, <3>2
    <3>4. after[i - (k - 1)] = pool[i + 1]
      BY <1>3, <3>1
    <3> QED BY <2>3, <3>3, <3>4
  <2> QED BY <2>2, <2>3
<1> QED BY <1>4, <1>5, PoolRemove

LEMMA LockKept ==
  ASSUME LockInv, NEW r \in Clients, Frame(r), lock \in Seq(Clients), lock' = lock,
         Queued(r)' <=> Queued(r), at[r] = "lock" => r = Head(lock)
  PROVE  LockInv' /\ lock' \in Seq(Clients)
<1>1. \A x \in Clients \ {r} : at'[x] = at[x] /\ kind'[x] = kind[x]
  BY DEF Frame
<1>2. \A x \in Clients : Queued(x)' <=> Queued(x)
  BY <1>1 DEF Queued
<1>3. \A i \in DOMAIN lock : lock[i] \in Clients /\ i \in 1..Len(lock) /\ lock # <<>>
  BY ElementOfSeq, LenProperties
<1>4. ASSUME NEW i \in DOMAIN lock, i > 1 PROVE at'[lock[i]] = "lock"
  <2>1. at[lock[i]] = "lock"
    BY <1>4 DEF LockInv
  <2>2. lock[i] # r
    <3> SUFFICES ASSUME lock[i] = r PROVE FALSE
      OBVIOUS
    <3>1. 1 \in DOMAIN lock /\ Head(lock) = lock[1]
      BY <1>3, <1>4, LenProperties
    <3>2. lock[i] = lock[1]
      BY <2>1, <3>1
    <3>3. i = 1
      BY <3>1, <3>2 DEF LockInv
    <3> QED BY <1>4, <3>3
  <2> QED BY <1>1, <1>3, <2>1, <2>2
<1>5. \A i \in DOMAIN lock : Queued(lock[i])'
  BY <1>2, <1>3 DEF LockInv
<1> QED BY <1>2, <1>4, <1>5 DEF LockInv, Queued

LEMMA LockAccept ==
  ASSUME LockInv, NEW r \in Clients, Frame(r), lock \in Seq(Clients),
         lock' = Append(lock, r), ~Queued(r), Queued(r)', at'[r] = "lock"
  PROVE  LockInv' /\ lock' \in Seq(Clients)
<1>1. \A x \in Clients \ {r} : at'[x] = at[x] /\ kind'[x] = kind[x]
  BY DEF Frame
<1>2. /\ Len(lock) \in Nat /\ DOMAIN lock = 1..Len(lock)
      /\ lock' \in Seq(Clients) /\ DOMAIN lock' = 1..(Len(lock) + 1)
      /\ \A i \in 1..Len(lock) : lock'[i] = lock[i]
      /\ lock'[Len(lock) + 1] = r
  BY AppendProperties, LenProperties
<1>3. \A i \in DOMAIN lock : lock[i] \in Clients /\ lock[i] # r
  BY ElementOfSeq DEF LockInv
<1>4. \A i \in DOMAIN lock' : i \in DOMAIN lock \/ i = Len(lock) + 1
  BY <1>2
<1>5. \A x \in Clients : Queued(x)' => \E i \in DOMAIN lock' : lock'[i] = x
  <2> TAKE x \in Clients
  <2>1. CASE x = r
    BY <1>2, <2>1
  <2>2. CASE x # r
    <3>1. Queued(x)' => Queued(x)
      BY <1>1, <2>2 DEF Queued
    <3>2. Queued(x) => \E i \in DOMAIN lock : lock[i] = x
      BY DEF LockInv
    <3> QED BY <1>2, <3>1, <3>2
  <2> QED BY <2>1, <2>2
<1>6. ASSUME NEW i \in DOMAIN lock'
      PROVE  Queued(lock[i])' /\ (i > 1 => at'[lock'[i]] = "lock")
  <2>1. CASE i = Len(lock) + 1
    BY <1>2, <2>1 DEF Queued
  <2>2. CASE i \in DOMAIN lock
    <3>1. Queued(lock[i]) /\ (i > 1 => at[lock[i]] = "lock")
      BY <2>2 DEF LockInv
    <3> QED BY <1>1, <1>2, <1>3, <2>2, <3>1 DEF Queued
  <2> QED BY <1>4, <2>1, <2>2
<1>7. \A i, j \in DOMAIN lock' : lock'[i] = lock'[j] => i = j
  BY <1>2, <1>3, <1>4 DEF LockInv
<1> QED BY <1>2, <1>5, <1>6, <1>7 DEF LockInv, Queued

LEMMA LockRelease ==
  ASSUME LockInv, NEW r \in Clients, Frame(r), lock \in Seq(Clients),
         Queued(r), at[r] # "lock", ~Queued(r)', lock' = Tail(lock)
  PROVE  LockInv' /\ lock' \in Seq(Clients)
<1>1. \A x \in Clients \ {r} : at'[x] = at[x] /\ kind'[x] = kind[x]
  BY DEF Frame
<1>2. Len(lock) \in Nat /\ DOMAIN lock = 1..Len(lock)
  BY LenProperties
<1>3. 1 \in DOMAIN lock /\ lock[1] = r
  BY <1>2 DEF LockInv
<1>4. /\ lock' \in Seq(Clients) /\ DOMAIN lock' = 1..(Len(lock) - 1)
      /\ \A i \in DOMAIN lock' : i + 1 \in DOMAIN lock /\ i + 1 > 1 /\ lock'[i] = lock[i + 1]
  BY <1>2, <1>3, HeadTailProperties, LenProperties, EmptySeq
<1>5. \A i \in DOMAIN lock : i # 1 => i - 1 \in DOMAIN lock' /\ lock'[i - 1] = lock[i]
  BY <1>2, <1>4
<1>6. \A i \in DOMAIN lock' : lock'[i] \in Clients /\ lock'[i] # r
  <2> TAKE i \in DOMAIN lock'
  <2>1. i + 1 \in DOMAIN lock /\ i + 1 # 1 /\ lock'[i] = lock[i + 1]
    BY <1>4
  <2> QED BY <1>3, <2>1, ElementOfSeq DEF LockInv
<1>7. \A x \in Clients : Queued(x)' => \E i \in DOMAIN lock' : lock'[i] = x
  <2> SUFFICES ASSUME NEW x \in Clients, Queued(x)'
               PROVE  \E i \in DOMAIN lock' : lock'[i] = x
    OBVIOUS
  <2>1. x # r
    OBVIOUS
  <2>2. Queued(x)
    BY <1>1, <2>1 DEF Queued
  <2>3. PICK i \in DOMAIN lock : lock[i] = x
    BY <2>2 DEF LockInv
  <2> QED BY <1>3, <1>5, <2>1, <2>3
<1>8. \A i \in DOMAIN lock' : Queued(lock[i])' /\ at'[lock'[i]] = "lock"
  <2> TAKE i \in DOMAIN lock'
  <2>1. Queued(lock[i + 1]) /\ at[lock[i + 1]] = "lock" /\ lock'[i] = lock[i + 1]
    BY <1>4 DEF LockInv
  <2> QED BY <1>1, <1>6, <2>1 DEF Queued
<1>9. \A i, j \in DOMAIN lock' : lock'[i] = lock'[j] => i = j
  <2> SUFFICES ASSUME NEW i \in DOMAIN lock', NEW j \in DOMAIN lock', lock'[i] = lock'[j]
               PROVE  i = j
    OBVIOUS
  <2>1. i + 1 = j + 1
    BY <1>4 DEF LockInv
  <2> QED BY <1>4, <2>1
<1> QED BY <1>4, <1>7, <1>8, <1>9 DEF LockInv, Queued

-----------------------------------------------------------------------------
(* Every step preserves the invariant. *)

LEMMA OneRequest ==
  ASSUME IInv, NEW r \in Clients, Frame(r), LocalOK(r)',
         pool' \in Seq(Clients), PoolInv', lock' \in Seq(Clients), LockInv',
         cached' \subseteq {"answer", "degraded"}
  PROVE  IInv'
<1>1. ASSUME NEW x \in Clients, x # r PROVE LocalOK(x)'
  <2>1. /\ at'[x] = at[x] /\ step'[x] = step[x] /\ turn'[x] = turn[x] /\ talk'[x] = talk[x]
        /\ kind'[x] = kind[x]
    BY <1>1 DEF Frame
  <2>2. LocalOK(x)
    BY DEF IInv
  <2>3. Bounded(x)' /\ StepOK(x)'
    BY <2>1, <2>2 DEF LocalOK, Bounded, Limit, StepOK
  <2>4. TurnOK(x)' /\ TalkOK(x)'
    BY <2>1, <2>2 DEF LocalOK, TurnOK, Whole, TalkOK
  <2> QED BY <2>3, <2>4 DEF LocalOK
<1>2. \A x \in Clients : LocalOK(x)'
  BY <1>1
<1>3. TypeOK'
  <2>1. kind' \in Assignments /\ backend' \in Backends
    BY DEF IInv, TypeOK, Frame
  <2>2. \A x \in Clients : Bounded(x)'
    BY <1>2 DEF LocalOK
  <2> QED BY <2>1, <2>2 DEF Frame, TypeOK, Ats, Steps, Talks, Bounded
<1> QED BY <1>2, <1>3 DEF IInv

LEMMA InitInvariant == Init => IInv
<1> SUFFICES ASSUME Init PROVE IInv
  OBVIOUS
<1>1. backend \in Backends
  BY Zenon DEF Init, SelectBackend, Backends
<1>2. Fresh \in Turn
  BY DEF Fresh, Turn
<1>3. kind \in [Clients -> Kinds]
  BY Constants DEF Init
<1>4. ASSUME NEW r \in Clients PROVE LocalOK(r)
  <2>1. at[r] = "new" /\ step[r] = "none" /\ turn[r] = Fresh /\ talk[r] = <<>>
    BY DEF Init
  <2>2. Bounded(r)
    BY <2>1, Constants DEF Bounded, Limit, Fresh
  <2>3. StepOK(r) /\ TurnOK(r)
    BY <2>1 DEF StepOK, TurnOK, Fresh, Whole
  <2>4. TalkOK(r)
    <3>1. 1..0 = {}
      OBVIOUS
    <3> QED BY <2>1, <3>1 DEF TalkOK, InOrder, Fresh
  <2> QED BY <2>2, <2>3, <2>4 DEF LocalOK
<1>5. TypeOK
  BY <1>1, <1>2, <1>4 DEF Init, TypeOK, LocalOK, Bounded
<1>6. PoolInv /\ LockInv
  BY DEF Init, PoolInv, LockInv, Queued
<1> QED BY <1>4, <1>5, <1>6 DEF IInv

LEMMA ThreadInvariant ==
  ASSUME IInv, NEW r \in Clients, Thread(r)
  PROVE  IInv'
<1>1. TypeOK /\ LocalOK(r) /\ PoolInv /\ LockInv
  BY DEF IInv
<1>2. Frame(r) /\ LocalOK(r)'
  BY <1>1, ApplyStep, RaiseStep, PrepareStep, ServeCachedStep, CompleteStep, ChatStep,
     ChatLimitStep, DispatchStep, RememberStep, AuditStep, YieldPieceStep, ExhaustStep,
     BreakStreamStep DEF Thread
<1>3. at[r] = "thread" /\ pool' = pool /\ lock' = lock
  BY DEF Thread, Apply, Raise, Prepare, ServeCached, Complete, Chat, ChatLimit, Dispatch,
         Remember, Audit, YieldPiece, Exhaust, BreakStream, Job, KeepQueues
<1>4. at'[r] \in {"thread", "loop"}
  <2>1. at' = at \/ at' = [at EXCEPT ![r] = "loop"]
    BY DEF Thread, Apply, Raise, Prepare, ServeCached, Complete, Chat, ChatLimit, Dispatch,
           Remember, Audit, YieldPiece, Exhaust, BreakStream, GoOn, EndJob
  <2> QED BY <1>1, <1>3, <2>1, Local
<1>5. cached' \subseteq {"answer", "degraded"}
  <2>1. cached \subseteq {"answer", "degraded"}
    BY <1>1 DEF TypeOK
  <2>2. CASE Complete(r)
    BY <2>1, <2>2 DEF Complete
  <2>3. CASE Apply(r)
    BY <2>1, <2>3 DEF Apply
  <2>4. CASE ~Complete(r) /\ ~Apply(r)
    BY <2>1, <2>4 DEF Thread, Raise, Prepare, ServeCached, Chat, ChatLimit, Dispatch,
                      Remember, Audit, YieldPiece, Exhaust, BreakStream
  <2> QED BY <2>2, <2>3, <2>4
<1>6. PoolInv' /\ pool' \in Seq(Clients)
  BY <1>1, <1>2, <1>3, PoolKept DEF TypeOK
<1>7. LockInv' /\ lock' \in Seq(Clients)
  <2>1. Queued(r)' <=> Queued(r)
    BY <1>2, <1>3, <1>4 DEF Queued, Frame
  <2> QED BY <1>1, <1>2, <1>3, <2>1, LockKept DEF TypeOK
<1> QED BY <1>2, <1>5, <1>6, <1>7, OneRequest

LEMMA LoopInvariant ==
  ASSUME IInv, NEW r \in Clients,
         Reject(r) \/ Accept(r) \/ StartJob(r) \/ Disconnect(r) \/ Loop(r)
  PROVE  IInv'
<1>1. TypeOK /\ LocalOK(r) /\ PoolInv /\ LockInv
  BY DEF IInv
<1>2. /\ lock \in Seq(Clients) /\ pool \in Seq(Clients) /\ at \in [Clients -> Ats]
      /\ cached \subseteq {"answer", "degraded"} /\ kind[r] \in Kinds
  BY <1>1, Local
<1>3. CASE Reject(r)
  <2>1. at[r] = "new" /\ at'[r] = "rejected" /\ pool' = pool /\ lock' = lock /\ cached' = cached
    BY <1>2, <1>3 DEF Reject
  <2>2. Frame(r) /\ LocalOK(r)'
    BY <1>1, <1>3, RejectStep
  <2>3. Queued(r)' <=> Queued(r)
    BY <2>1 DEF Queued
  <2> QED BY <1>1, <1>2, <2>1, <2>2, <2>3, PoolKept, LockKept, OneRequest
<1>4. CASE Accept(r)
  <2>1. at[r] = "new" /\ cached' = cached
    BY <1>4 DEF Accept
  <2>2. Frame(r) /\ LocalOK(r)'
    BY <1>1, <1>4, AcceptStep
  <2>3. CASE kind[r] = "write"
    <3>1. at'[r] = "lock" /\ lock' = Append(lock, r) /\ pool' = pool
      BY <1>2, <1>4, <2>3 DEF Accept
    <3>2. ~Queued(r) /\ Queued(r)'
      BY <2>1, <2>2, <2>3, <3>1 DEF Queued, Frame
    <3> QED BY <1>1, <1>2, <2>1, <2>2, <3>1, <3>2, PoolKept, LockAccept, OneRequest
  <2>4. CASE kind[r] # "write"
    <3>1. at'[r] = "pool" /\ pool' = Append(pool, r) /\ lock' = lock
      BY <1>2, <1>4, <2>4 DEF Accept, Submit
    <3>2. Queued(r)' <=> Queued(r)
      BY <2>2, <2>4 DEF Queued, Frame
    <3> QED BY <1>1, <1>2, <2>1, <2>2, <3>1, <3>2, PoolSubmit, LockKept, OneRequest
  <2> QED BY <2>3, <2>4
<1>5. CASE AcquireLock(r)
  <2>1. /\ at[r] = "lock" /\ at'[r] = "pool" /\ pool' = Append(pool, r) /\ lock' = lock
        /\ r = Head(lock) /\ cached' = cached
    BY <1>2, <1>5 DEF AcquireLock, Submit, HoldsLock
  <2>2. Frame(r) /\ LocalOK(r)'
    BY <1>1, <1>5, AcquireLockStep
  <2>3. Queued(r)' <=> Queued(r)
    BY <2>1, <2>2 DEF Queued, Frame
  <2> QED BY <1>1, <1>2, <2>1, <2>2, <2>3, PoolSubmit, LockKept, OneRequest
<1>6. CASE StartJob(r)
  <2>1. /\ at'[r] = "thread" /\ pool # <<>> /\ r = Head(pool) /\ pool' = Tail(pool)
        /\ lock' = lock /\ cached' = cached
    BY <1>2, <1>6 DEF StartJob
  <2>2. at[r] = "pool"
    <3>1. 1 \in DOMAIN pool /\ pool[1] = r
      BY <1>2, <2>1, HeadTailProperties, LenProperties, EmptySeq
    <3> QED BY <1>1, <3>1 DEF PoolInv
  <2>3. Frame(r) /\ LocalOK(r)'
    BY <1>1, <1>6, <2>2, StartJobStep
  <2>4. Queued(r)' <=> Queued(r)
    BY <2>1, <2>2, <2>3 DEF Queued, Frame
  <2> QED BY <1>1, <1>2, <2>1, <2>2, <2>3, <2>4, PoolStart, LockKept, OneRequest
<1>7. CASE Disconnect(r)
  <2>1. kind[r] = "stream" /\ lock' = lock /\ cached' = cached
    BY <1>7 DEF Disconnect
  <2>2. Frame(r) /\ LocalOK(r)'
    BY <1>1, <1>7, DisconnectStep
  <2>3. (Queued(r)' <=> Queued(r)) /\ at[r] # "lock"
    BY <1>7, <2>1, <2>2 DEF Queued, Frame, Disconnect
  <2>4. PoolInv' /\ pool' \in Seq(Clients)
    <3>1. CASE at[r] \in {"thread", "loop"}
      BY <1>1, <1>2, <1>7, <2>2, <3>1, PoolKept DEF Disconnect
    <3>2. CASE at[r] \notin {"thread", "loop"}
      <4>1. PICK k \in DOMAIN pool : pool[k] = r /\ pool' = Cancelled(k)
        BY <1>7, <3>2 DEF Disconnect
      <4> QED BY <1>1, <1>2, <2>2, <4>1, PoolCancel
    <3> QED BY <3>1, <3>2
  <2> QED BY <1>1, <1>2, <2>1, <2>2, <2>3, <2>4, LockKept, OneRequest
<1>8. CASE Respond(r)
  <2>1. /\ at[r] = "loop" /\ at'[r] \in {"returned", "raised"} /\ pool' = pool
        /\ cached' = cached
    BY <1>2, <1>8 DEF Respond
  <2>2. Frame(r) /\ LocalOK(r)'
    BY <1>1, <1>8, RespondStep
  <2>3. LockInv' /\ lock' \in Seq(Clients)
    <3>1. CASE kind[r] = "write"
      <4>1. lock' = Tail(lock)
        BY <1>8, <3>1 DEF Respond, Released
      <4>2. Queued(r) /\ ~Queued(r)'
        BY <2>1, <2>2, <3>1 DEF Queued, Frame
      <4> QED BY <1>1, <1>2, <2>1, <2>2, <4>1, <4>2, LockRelease
    <3>2. CASE kind[r] # "write"
      <4>1. lock' = lock
        BY <1>8, <3>2 DEF Respond
      <4>2. Queued(r)' <=> Queued(r)
        BY <2>2, <3>2 DEF Queued, Frame
      <4> QED BY <1>1, <1>2, <2>1, <2>2, <4>1, <4>2, LockKept
    <3> QED BY <3>1, <3>2
  <2> QED BY <1>1, <1>2, <2>1, <2>2, <2>3, PoolKept, OneRequest
<1>9. CASE Pull(r)
  <2>1. /\ kind[r] = "stream" /\ at[r] = "loop" /\ at'[r] = "pool" /\ pool' = Append(pool, r)
        /\ lock' = lock /\ cached' = cached
    BY <1>2, <1>9 DEF Pull, Submit
  <2>2. Frame(r) /\ LocalOK(r)'
    BY <1>1, <1>9, PullStep
  <2>3. Queued(r)' <=> Queued(r)
    BY <2>1, <2>2 DEF Queued, Frame
  <2> QED BY <1>1, <1>2, <2>1, <2>2, <2>3, PoolSubmit, LockKept, OneRequest
<1>10. CASE Abandon(r)
  <2>1. /\ kind[r] = "stream" /\ at[r] = "loop" /\ at'[r] = "gone" /\ pool' = pool
        /\ lock' = lock /\ cached' = cached
    BY <1>1, <1>2, <1>10 DEF Abandon, LocalOK, TurnOK
  <2>2. Frame(r) /\ LocalOK(r)'
    BY <1>1, <1>10, AbandonStep
  <2>3. Queued(r)' <=> Queued(r)
    BY <2>1, <2>2 DEF Queued, Frame
  <2> QED BY <1>1, <1>2, <2>1, <2>2, <2>3, PoolKept, LockKept, OneRequest
<1> QED BY <1>3, <1>4, <1>5, <1>6, <1>7, <1>8, <1>9, <1>10 DEF Loop

LEMMA NextInvariant == IInv /\ [Next]_vars => IInv'
<1> SUFFICES ASSUME IInv, [Next]_vars PROVE IInv'
  OBVIOUS
<1>1. CASE Next
  BY <1>1, ThreadInvariant, LoopInvariant DEF Next
<1>2. CASE UNCHANGED vars
  <2>1. TypeOK' /\ PoolInv' /\ LockInv'
    BY <1>2 DEF vars, IInv, TypeOK, Limit, PoolInv, LockInv, Queued
  <2>2. ASSUME NEW r \in Clients PROVE LocalOK(r)'
    <3>1. LocalOK(r)
      BY DEF IInv
    <3> QED BY <1>2, <3>1
         DEF vars, LocalOK, Bounded, Limit, StepOK, TurnOK, Whole, TalkOK
  <2> QED BY <2>1, <2>2 DEF IInv
<1> QED BY <1>1, <1>2

LEMMA Invariant == Spec => []IInv
BY InitInvariant, NextInvariant, PTL DEF Spec

-----------------------------------------------------------------------------
(* What follows from it. *)

\* Every variable keeps its type: no request makes more attempts, tool rounds or pulls
\* than its bound, and the response cache holds answers of the model only.
THEOREM Typing == Spec => []TypeOK
<1>1. IInv => TypeOK
  BY DEF IInv
<1> QED BY <1>1, Invariant, PTL

\* Writes reach the engine one at a time and in the order in which they came to
\* write_lock, for any number of threads, whatever the requests around them do.
THEOREM OrderedWrites == Spec => []WritesInOrder
<1>1. IInv => WritesInOrder
  <2> SUFFICES ASSUME IInv, NEW i \in DOMAIN lock, NEW j \in DOMAIN lock, i < j
               PROVE  at[lock[j]] = "lock" /\ step[lock[j]] = "none"
    BY DEF WritesInOrder
  <2>1. i \in Nat /\ j \in Nat /\ i >= 1 /\ lock[j] \in Clients
    BY LenProperties, ElementOfSeq DEF IInv, TypeOK
  <2>2. at[lock[j]] = "lock"
    BY <2>1 DEF IInv, LockInv
  <2>3. StepOK(lock[j])
    BY <2>1 DEF IInv, LocalOK
  <2> QED BY <2>2, <2>3 DEF StepOK
<1> QED BY <1>1, Invariant, PTL

\* However a request ends, it has at most one audit record, a run that returned has
\* one and is remembered as a whole, and a stream is remembered exactly when its
\* generator ran out, for any number of requests and threads.
THEOREM Accounting == Spec => []Accounted
<1>1. IInv => Accounted
  <2> SUFFICES ASSUME IInv, NEW r \in Clients, at[r] \in Ended
               PROVE
      LET t == turn[r]
          whole == IF t.answer = "blocked" THEN "none" ELSE "all"
      IN  /\ t.audit <= 1
          /\ kind[r] \in {"query", "tools"} /\ at[r] = "returned" =>
               t.audit = 1 /\ t.memory = whole
          /\ kind[r] = "stream" =>
               t.memory \in (CASE t.out = "ok" -> {whole}
                               [] t.out = "error" -> {"none", "part"}
                               [] OTHER -> {"none"})
          /\ t.answer \in {"none", "blocked"} => t.memory = "none" /\ talk[r] = <<>>
    BY DEF Accounted
  <2> DEFINE t == turn[r]
  <2>1. TurnOK(r) /\ t \in Turn /\ kind[r] \in Kinds
    BY Local DEF IInv, LocalOK
  <2>2. t.audit <= 1
    BY <2>1 DEF TurnOK, Turn, Kinds
  <2>3. at[r] = "returned" => t.out = "ok"
    BY <2>1 DEF TurnOK
  <2> QED BY <2>1, <2>2, <2>3 DEF TurnOK, Turn, Ended, Whole
<1> QED BY <1>1, Invariant, PTL

\* Whenever run_tools calls the model again, every tool call made so far has exactly
\* one result, after the call, for any number of rounds and of calls in a round.
THEOREM AnsweredCalls == Spec => []EveryCallAnswered
<1>1. IInv => EveryCallAnswered
  <2> SUFFICES ASSUME IInv, NEW r \in Clients, step[r] = "chat",
                      NEW i \in DOMAIN talk[r], talk[r][i][1] = "call"
               PROVE  LET results == Positions(talk[r], <<"result", talk[r][i][2]>>)
                      IN  Cardinality(results) = 1 /\ \A j \in results : j > i
    BY DEF EveryCallAnswered
  <2> DEFINE m == talk[r]
             n == m[i][2]
             results == Positions(m, <<"result", n>>)
  <2>1. InOrder(m, turn[r].calls, 0) /\ turn[r].calls \in Nat
    BY DEF IInv, LocalOK, StepOK, TalkOK, TypeOK, Turn
  <2> HIDE DEF m
  <2>2. n \in 1..turn[r].calls
    BY <2>1 DEF InOrder, m
  <2>3. PICK j \in DOMAIN m : m[j] = <<"result", n>>
    BY <2>1, <2>2 DEF InOrder
  <2>4. \A k \in results : k \in DOMAIN m /\ m[k] = <<"result", n>>
    BY DEF Positions
  <2>5. \A k \in results : k = j
    BY <2>1, <2>3, <2>4 DEF InOrder
  <2>6. results = {j}
    BY <2>3, <2>5 DEF Positions
  <2>7. i < j
    BY <2>1, <2>3 DEF InOrder, m
  <2>8. Cardinality(results) = 1
    BY <2>6, FS_Singleton
  <2> QED BY <2>6, <2>7, <2>8 DEF m
<1> QED BY <1>1, Invariant, PTL
=============================================================================
