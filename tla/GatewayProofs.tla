----------------------------- MODULE GatewayProofs -----------------------------
(***************************************************************************)
(* The gateway for every set of tenants, requests, models, route sets and   *)
(* grants, every limit, TTL and size of the cache.                          *)
(***************************************************************************)
EXTENDS Gateway, SequenceTheorems, TLAPS

RouterFacts == INSTANCE RoutingProofs

-----------------------------------------------------------------------------
(***************************************************************************)
(* The response cache: whatever is done to it, what it holds it held before, *)
(* but for the answer that is written.                                      *)
(***************************************************************************)
Kept == {entries[i] : i \in DOMAIN entries}

\* An entry is a record, and entries a sequence of them.
IsEntry(e) == e = [key |-> e.key, value |-> e.value, age |-> e.age]

EntriesShape == entries \in Seq(Kept) /\ \A e \in Kept : IsEntry(e)

\* A sequence over what was kept keeps it.
LEMMA KeptOver ==
  ASSUME NEW E, entries' \in Seq(E)
  PROVE  Kept' \subseteq E /\ entries' \in Seq(Kept')
<1>1. /\ Len(entries') \in Nat
      /\ entries' \in [1 .. Len(entries') -> E]
      /\ DOMAIN entries' = 1 .. Len(entries')
  BY LenProperties
<1>2. Kept' \subseteq E
  BY <1>1 DEF Kept
<1>3. entries' \in [1 .. Len(entries') -> Kept']
  BY <1>1 DEF Kept
<1>4. entries' \in Seq(Kept')
  BY <1>1, <1>3, SeqDef
<1>5. QED
  BY <1>2, <1>4

LEMMA WithoutKeeps ==
  ASSUME EntriesShape, NEW key
  PROVE  Cache!Without(key) \in Seq(Kept)
<1>1. Len(entries) \in Nat /\ DOMAIN entries = 1 .. Len(entries)
  BY LenProperties DEF EntriesShape
<1>2. CASE \E i \in DOMAIN entries : entries[i].key = key
  <2> DEFINE i == CHOOSE i \in DOMAIN entries : entries[i].key = key
  <2>1. i \in 1 .. Len(entries)
    BY <1>1, <1>2
  <2>2. Cache!Without(key) =
          SubSeq(entries, 1, i - 1) \o SubSeq(entries, i + 1, Len(entries))
    BY <1>2 DEF Cache!Without
  <2> HIDE DEF i
  <2>3. \A j \in 1 .. Len(entries) : entries[j] \in Kept
    BY <1>1 DEF Kept
  <2>4. SubSeq(entries, 1, i - 1) \in Seq(Kept)
    <3>1. 1 \in Int /\ i - 1 \in Int /\ \A j \in 1 .. i - 1 : entries[j] \in Kept
      BY <1>1, <2>1, <2>3
    <3>2. QED
      BY <3>1, SubSeqProperties
  <2>5. SubSeq(entries, i + 1, Len(entries)) \in Seq(Kept)
    <3>1. /\ i + 1 \in Int /\ Len(entries) \in Int
          /\ \A j \in i + 1 .. Len(entries) : entries[j] \in Kept
      BY <1>1, <2>1, <2>3
    <3>2. QED
      BY <3>1, SubSeqProperties
  <2>6. QED
    BY <2>2, <2>4, <2>5, ConcatProperties
<1>3. CASE ~\E i \in DOMAIN entries : entries[i].key = key
  BY <1>3 DEF Cache!Without, EntriesShape
<1>4. QED
  BY <1>2, <1>3

\* A hit is an entry under its key.
LEMMA HitKept ==
  ASSUME NEW key, Cache!Hit(key)
  PROVE  \E e \in Kept : e.key = key /\ e.value = Cache!Value(key)
<1>1. PICK e \in Cache!Live(key) : e = CHOOSE x \in Cache!Live(key) : TRUE
  BY DEF Cache!Hit
<1>2. e \in Kept /\ e.key = key
  BY DEF Cache!Live, Kept
<1>3. e.value = Cache!Value(key)
  BY <1>1 DEF Cache!Value
<1>4. QED
  BY <1>2, <1>3

LEMMA GetKeeps ==
  ASSUME EntriesShape, NEW key, Cache!Get(key)
  PROVE  EntriesShape' /\ Kept' \subseteq Kept
<1>1. entries' \in Seq(Kept)
  <2>1. CASE Cache!Hit(key)
    <3> DEFINE e == CHOOSE e \in Cache!Live(key) : TRUE
    <3>1. e \in Cache!Live(key)
      BY <2>1 DEF Cache!Hit
    <3>2. e \in Kept
      BY <3>1 DEF Cache!Live, Kept
    <3>3. entries' = Cache!Without(key) \o <<e>>
      BY <2>1 DEF Cache!Get
    <3> HIDE DEF e
    <3>4. <<e>> \in Seq(Kept)
      BY <3>2
    <3>5. QED
      BY <3>3, <3>4, WithoutKeeps, ConcatProperties
  <2>2. CASE ~Cache!Hit(key)
    <3>1. entries' = Cache!Without(key) \o << >>
      BY <2>2 DEF Cache!Get
    <3>2. QED
      BY <3>1, WithoutKeeps, ConcatEmptySeq
  <2>3. QED
    BY <2>1, <2>2
<1>2. QED
  BY <1>1, KeptOver DEF EntriesShape

LEMMA SetKeeps ==
  ASSUME EntriesShape, NEW key, NEW value, Cache!Set(key, value)
  PROVE  /\ EntriesShape'
         /\ Kept' \subseteq Kept \cup {[key |-> key, value |-> value, age |-> 0]}
<1> DEFINE new == [key |-> key, value |-> value, age |-> 0]
           written == Append(Cache!Without(key), new)
           excess == IF Len(written) > MaxEntries THEN Len(written) - MaxEntries ELSE 0
           E == Kept \cup {new}
<1>1. entries' = SubSeq(written, excess + 1, Len(written))
  BY DEF Cache!Set
<1>2. IsEntry(new)
  BY DEF IsEntry
<1> HIDE DEF new
<1>3. Cache!Without(key) \in Seq(E) /\ new \in E
  BY WithoutKeeps, SeqMonotonic
<1>4. written \in Seq(E)
  BY <1>3, AppendProperties
<1> HIDE DEF written
<1>5. Len(written) \in Nat /\ \A i \in 1 .. Len(written) : written[i] \in E
  BY <1>4, LenProperties, ElementOfSeq
<1>6. MaxEntries \in Nat
  BY GatewayAssumption DEF Cache!CacheAssumption
<1>7. excess \in Nat
  BY <1>5, <1>6
<1> HIDE DEF excess
<1>8. \A i \in excess + 1 .. Len(written) : written[i] \in E
  BY <1>5, <1>7
<1>9. SubSeq(written, excess + 1, Len(written)) \in Seq(E)
  BY <1>5, <1>7, <1>8, SubSeqProperties
<1>10. Kept' \subseteq E /\ entries' \in Seq(Kept')
  BY <1>1, <1>9, KeptOver
<1>11. QED
  BY <1>2, <1>10 DEF EntriesShape, new

\* The clock changes no entry's key and no value.
LEMMA ElapseKeeps ==
  ASSUME EntriesShape, Cache!Elapse
  PROVE  /\ EntriesShape'
         /\ \A e \in Kept' : \E f \in Kept : e.key = f.key /\ e.value = f.value
         /\ \A f \in Kept : \E e \in Kept' : e.key = f.key /\ e.value = f.value
<1> DEFINE older(e) == [e EXCEPT !.age = IF @ < CacheTTL THEN @ + 1 ELSE CacheTTL]
<1>1. Len(entries) \in Nat /\ DOMAIN entries = 1 .. Len(entries)
  BY LenProperties DEF EntriesShape
<1>2. entries' = [i \in 1 .. Len(entries) |-> older(entries[i])]
  BY <1>1 DEF Cache!Elapse
<1>3. \A e \in Kept : /\ IsEntry(older(e))
                      /\ older(e).key = e.key /\ older(e).value = e.value
  BY DEF EntriesShape, IsEntry
<1> HIDE DEF older
<1>4. \A i \in DOMAIN entries : entries[i] \in Kept
  BY DEF Kept
<1>5. Kept' = {older(entries[i]) : i \in 1 .. Len(entries)}
  BY <1>2 DEF Kept
<1>6. entries' \in [1 .. Len(entries) -> Kept']
  BY <1>2, <1>5
<1>7. entries' \in Seq(Kept')
  BY <1>1, <1>6, SeqDef
<1>8. QED
  BY <1>1, <1>3, <1>4, <1>5, <1>7 DEF EntriesShape, Kept

-----------------------------------------------------------------------------
(***************************************************************************)
(* The local state of a request: the handler's and the router's.            *)
(***************************************************************************)
\* A record with the fields of req[r] and with values of S.
ReqOver(S) ==
  [pc : S, shape : S, identity : S, policy : S, model : S, status : S, answer : S]

IsReq(x) == \E S : x \in ReqOver(S)

ReqShape == req = [r \in Requests |-> req[r]] /\ \A r \in Requests : IsReq(req[r])

TaskOver(S) ==
  [phase : S, route : S, index : S, attempt : S, called : S, failed : S, trial : S,
   outcome : S]

IsTask(x) == \E S : x \in TaskOver(S)

\* Who has a call in progress or an answer has called a model, and the answer
\* is that of a candidate.
Sound(x) ==
  /\ IsTask(x)
  /\ x.index \in Nat \ {0}
  /\ x.phase \in {"attempt", "streaming"} \/ x.outcome = "ok" => x.called # {}
  /\ x.outcome = "ok" => x.phase = "returned"
  /\ x.phase = "attempt" \/ x.outcome = "ok" => x.index <= Len(x.route)

TaskShape == task = [r \in Requests |-> task[r]] /\ \A r \in Requests : Sound(task[r])

\* What r was admitted with stays.
SameAsk(r) ==
  /\ req'[r].shape = req[r].shape
  /\ req'[r].identity = req[r].identity
  /\ req'[r].policy = req[r].policy

OtherReqs(r) == \A u \in Requests \ {r} : req'[u] = req[u]

OtherTasks(r) == \A u \in Requests \ {r} : task'[u] = task[u]

\* The values may be of any larger set as well.
LEMMA Widen ==
  ASSUME NEW x, NEW V
  PROVE  /\ IsReq(x) => \E S : x \in ReqOver(S) /\ V \subseteq S
         /\ IsTask(x) => \E S : x \in TaskOver(S) /\ V \subseteq S
<1>1. ASSUME NEW S, x \in ReqOver(S)
      PROVE  \E T : x \in ReqOver(T) /\ V \subseteq T
  <2>1. x \in ReqOver(S \cup V) /\ V \subseteq S \cup V
    BY <1>1 DEF ReqOver
  <2>2. QED
    BY <2>1
<1>2. ASSUME NEW S, x \in TaskOver(S)
      PROVE  \E T : x \in TaskOver(T) /\ V \subseteq T
  <2>1. x \in TaskOver(S \cup V) /\ V \subseteq S \cup V
    BY <1>2 DEF TaskOver
  <2>2. QED
    BY <2>1
<1>3. QED
  BY <1>1, <1>2 DEF IsReq, IsTask

LEMMA ReplyDoes ==
  ASSUME ReqShape, NEW r \in Requests, NEW status, Reply(r, status)
  PROVE  /\ ReqShape' /\ OtherReqs(r) /\ SameAsk(r)
         /\ req'[r].pc = "done" /\ req'[r].status = status
         /\ req'[r].model = req[r].model /\ req'[r].answer = req[r].answer
<1> DEFINE new == [req[r] EXCEPT !.pc = "done", !.status = status]
<1>1. /\ IsReq(new) /\ new.pc = "done" /\ new.status = status
      /\ new.shape = req[r].shape /\ new.identity = req[r].identity
      /\ new.policy = req[r].policy /\ new.model = req[r].model
      /\ new.answer = req[r].answer
  <2> DEFINE V == {"done", status}
  <2> HIDE DEF V
  <2>1. PICK S : req[r] \in ReqOver(S) /\ V \subseteq S
    BY Widen DEF ReqShape
  <2>2. /\ new \in ReqOver(S) /\ new.pc = "done" /\ new.status = status
        /\ new.shape = req[r].shape /\ new.identity = req[r].identity
        /\ new.policy = req[r].policy /\ new.model = req[r].model
        /\ new.answer = req[r].answer
    BY <2>1 DEF ReqOver, V
  <2>3. QED
    BY <2>2 DEF IsReq
<1>2. req' = [req EXCEPT ![r] = new]
  BY DEF Reply
<1> HIDE DEF new
<1>3. QED
  BY <1>1, <1>2 DEF ReqShape, OtherReqs, SameAsk

LEMMA AnswerDoes ==
  ASSUME ReqShape, NEW r \in Requests, NEW model, NEW value, Answer(r, model, value)
  PROVE  /\ ReqShape' /\ OtherReqs(r) /\ SameAsk(r)
         /\ req'[r].pc = "done" /\ req'[r].status = "ok"
         /\ req'[r].model = model /\ req'[r].answer = value
<1> DEFINE new == [req[r] EXCEPT !.pc = "done", !.status = "ok", !.model = model,
                                 !.answer = value]
<1>1. /\ IsReq(new) /\ new.pc = "done" /\ new.status = "ok"
      /\ new.shape = req[r].shape /\ new.identity = req[r].identity
      /\ new.policy = req[r].policy /\ new.model = model /\ new.answer = value
  <2> DEFINE V == {"done", "ok", model, value}
  <2> HIDE DEF V
  <2>1. PICK S : req[r] \in ReqOver(S) /\ V \subseteq S
    BY Widen DEF ReqShape
  <2>2. /\ new \in ReqOver(S) /\ new.pc = "done" /\ new.status = "ok"
        /\ new.shape = req[r].shape /\ new.identity = req[r].identity
        /\ new.policy = req[r].policy /\ new.model = model /\ new.answer = value
    BY <2>1 DEF ReqOver, V
  <2>3. QED
    BY <2>2 DEF IsReq
<1>2. req' = [req EXCEPT ![r] = new]
  BY DEF Answer
<1> HIDE DEF new
<1>3. QED
  BY <1>1, <1>2 DEF ReqShape, OtherReqs, SameAsk

\* r goes where its model is asked.
GoesTo(r, pc, model) ==
  req' = [req EXCEPT ![r] = [@ EXCEPT !.pc = pc, !.model = model]]

LEMMA ModelDoes ==
  ASSUME ReqShape, NEW r \in Requests, NEW pc, NEW model, GoesTo(r, pc, model)
  PROVE  /\ ReqShape' /\ OtherReqs(r) /\ SameAsk(r)
         /\ req'[r].pc = pc /\ req'[r].status = req[r].status
         /\ req'[r].model = model /\ req'[r].answer = req[r].answer
<1> DEFINE new == [req[r] EXCEPT !.pc = pc, !.model = model]
<1>1. /\ IsReq(new) /\ new.pc = pc /\ new.status = req[r].status
      /\ new.shape = req[r].shape /\ new.identity = req[r].identity
      /\ new.policy = req[r].policy /\ new.model = model /\ new.answer = req[r].answer
  <2> DEFINE V == {pc, model}
  <2> HIDE DEF V
  <2>1. PICK S : req[r] \in ReqOver(S) /\ V \subseteq S
    BY Widen DEF ReqShape
  <2>2. /\ new \in ReqOver(S) /\ new.pc = pc /\ new.status = req[r].status
        /\ new.shape = req[r].shape /\ new.identity = req[r].identity
        /\ new.policy = req[r].policy /\ new.model = model /\ new.answer = req[r].answer
    BY <2>1 DEF ReqOver, V
  <2>3. QED
    BY <2>2 DEF IsReq
<1>2. req' = [req EXCEPT ![r] = new]
  BY DEF GoesTo
<1> HIDE DEF new
<1>3. QED
  BY <1>1, <1>2 DEF ReqShape, OtherReqs, SameAsk

LEMMA BodyDoes ==
  ASSUME ReqShape, NEW r \in Requests, BodyArrives(r)
  PROVE  /\ ReqShape' /\ OtherReqs(r) /\ SameAsk(r)
         /\ req'[r].pc = "ready" /\ req'[r].status = req[r].status
         /\ req'[r].model = req[r].model /\ req'[r].answer = req[r].answer
<1> DEFINE new == [req[r] EXCEPT !.pc = "ready"]
<1>1. /\ IsReq(new) /\ new.pc = "ready" /\ new.status = req[r].status
      /\ new.shape = req[r].shape /\ new.identity = req[r].identity
      /\ new.policy = req[r].policy /\ new.model = req[r].model
      /\ new.answer = req[r].answer
  <2> DEFINE V == {"ready"}
  <2> HIDE DEF V
  <2>1. PICK S : req[r] \in ReqOver(S) /\ V \subseteq S
    BY Widen DEF ReqShape
  <2>2. /\ new \in ReqOver(S) /\ new.pc = "ready" /\ new.status = req[r].status
        /\ new.shape = req[r].shape /\ new.identity = req[r].identity
        /\ new.policy = req[r].policy /\ new.model = req[r].model
        /\ new.answer = req[r].answer
    BY <2>1 DEF ReqOver, V
  <2>3. QED
    BY <2>2 DEF IsReq
<1>2. req' = [req EXCEPT ![r] = new]
  BY DEF BodyArrives
<1> HIDE DEF new
<1>3. QED
  BY <1>1, <1>2 DEF ReqShape, OtherReqs, SameAsk

LEMMA AcceptDoes ==
  ASSUME ReqShape, NEW r \in Requests, NEW t, NEW identity, Accept(r, t, identity)
  PROVE  /\ ReqShape' /\ OtherReqs(r)
         /\ req'[r].pc = "reading" /\ req'[r].identity = identity
         /\ req'[r].policy = Plane!View(t) /\ req'[r].shape = req[r].shape
         /\ req'[r].status = req[r].status
         /\ req'[r].model = req[r].model /\ req'[r].answer = req[r].answer
<1> DEFINE new == [req[r] EXCEPT !.pc = "reading", !.identity = identity,
                                 !.policy = Plane!View(t)]
<1>1. /\ IsReq(new) /\ new.pc = "reading" /\ new.status = req[r].status
      /\ new.identity = identity /\ new.model = req[r].model
      /\ new.answer = req[r].answer
      /\ new.policy = Plane!View(t) /\ new.shape = req[r].shape
  <2> DEFINE V == {"reading", identity, Plane!View(t)}
  <2> HIDE DEF V
  <2>1. PICK S : req[r] \in ReqOver(S) /\ V \subseteq S
    BY Widen DEF ReqShape
  <2>2. /\ new \in ReqOver(S) /\ new.pc = "reading" /\ new.status = req[r].status
        /\ new.identity = identity /\ new.model = req[r].model
        /\ new.answer = req[r].answer
        /\ new.policy = Plane!View(t) /\ new.shape = req[r].shape
    BY <2>1 DEF ReqOver, V
  <2>3. QED
    BY <2>2 DEF IsReq
<1>2. req' = [req EXCEPT ![r] = new]
  BY DEF Accept
<1> HIDE DEF new
<1>3. QED
  BY <1>1, <1>2 DEF ReqShape, OtherReqs

-----------------------------------------------------------------------------
\* One request's task is given a new state.
LEMMA TaskUpdate ==
  ASSUME TaskShape, NEW r \in Requests, NEW new, Sound(new),
         task' = [task EXCEPT ![r] = new]
  PROVE  TaskShape' /\ OtherTasks(r) /\ task'[r] = new
BY DEF TaskShape, OtherTasks

LEMMA IdleSound ==
  /\ Sound(Router!Idle)
  /\ Router!Idle.called = {} /\ Router!Idle.index = 1 /\ Router!Idle.outcome = "none"
<1>1. /\ Router!Idle.phase = "idle" /\ Router!Idle.called = {}
      /\ Router!Idle.index = 1 /\ Router!Idle.outcome = "none"
  BY DEF Router!Idle
<1>2. Router!Idle \in TaskOver({"idle", << >>, 1, 0, {}, FALSE, "none"})
  BY DEF Router!Idle, TaskOver
<1>3. QED
  BY <1>1, <1>2 DEF Sound, IsTask

\* A call to a model that is let go of.
LEMMA FinishDoes ==
  ASSUME TaskShape, NEW r \in Requests, NEW result,
         result = "ok" => /\ task[r].called # {}
                          /\ task[r].index <= Len(task[r].route),
         Router!Finish(r, result)
  PROVE  /\ TaskShape' /\ OtherTasks(r)
         /\ task'[r].called = task[r].called /\ task'[r].route = task[r].route
<1> DEFINE new == [task[r] EXCEPT !.phase = "returned", !.trial = FALSE,
                                  !.outcome = result]
<1>1. task' = [task EXCEPT ![r] = new]
  BY DEF Router!Finish
<1>2. Sound(task[r]) /\ IsTask(task[r])
  BY DEF TaskShape, Sound
<1>3. /\ IsTask(new) /\ new.phase = "returned" /\ new.outcome = result
      /\ new.called = task[r].called /\ new.route = task[r].route
      /\ new.index = task[r].index
  <2> DEFINE V == {"returned", FALSE, result}
  <2> HIDE DEF V
  <2>1. PICK S : task[r] \in TaskOver(S) /\ V \subseteq S
    BY <1>2, Widen
  <2>2. /\ new \in TaskOver(S) /\ new.phase = "returned" /\ new.outcome = result
        /\ new.called = task[r].called /\ new.route = task[r].route
        /\ new.index = task[r].index
    BY <2>1 DEF TaskOver, V
  <2>3. QED
    BY <2>2 DEF IsTask
<1> HIDE DEF new
<1>4. Sound(new)
  BY <1>2, <1>3 DEF Sound
<1>5. QED
  BY <1>1, <1>3, <1>4, TaskUpdate

LEMMA ConverseDoes ==
  ASSUME TaskShape, NEW r \in Requests, NEW m, NEW rs, Router!Converse(r, m, rs)
  PROVE  /\ TaskShape' /\ OtherTasks(r)
         /\ task'[r].called = {} /\ task'[r].route = Router!Candidates(m, rs)
<1> DEFINE c == Router!Candidates(m, rs)
           new == [Router!Idle EXCEPT !.phase = "select", !.route = c]
<1>1. task' = [task EXCEPT ![r] = new]
  BY DEF Router!Converse
<1> HIDE DEF c
<1>2. /\ IsTask(new) /\ new.phase = "select" /\ new.route = c
      /\ new.index = 1 /\ new.called = {} /\ new.outcome = "none"
  <2> DEFINE V == {"select", c}
  <2> HIDE DEF V
  <2>1. PICK S : Router!Idle \in TaskOver(S) /\ V \subseteq S
    BY IdleSound, Widen DEF Sound
  <2>2. /\ new \in TaskOver(S) /\ new.phase = "select" /\ new.route = c
        /\ new.index = 1 /\ new.called = {} /\ new.outcome = "none"
    BY <2>1, IdleSound DEF TaskOver, V
  <2>3. QED
    BY <2>2 DEF IsTask
<1> HIDE DEF new
<1>3. Sound(new)
  BY <1>2 DEF Sound
<1>4. QED
  BY <1>1, <1>2, <1>3, TaskUpdate DEF c

LEMMA OpenStreamDoes ==
  ASSUME TaskShape, NEW r \in Requests, NEW m, Router!OpenStream(r, m)
  PROVE  TaskShape' /\ OtherTasks(r) /\ task'[r].called = {}
<1> DEFINE trial == breakers[m].state # "CLOSED"
           new == [Router!Idle EXCEPT !.phase = "opening", !.route = <<m>>,
                                      !.trial = trial]
<1>1. task' = [task EXCEPT ![r] = new]
  BY DEF Router!OpenStream
<1> HIDE DEF trial
<1>2. /\ IsTask(new) /\ new.phase = "opening"
      /\ new.index = 1 /\ new.called = {} /\ new.outcome = "none"
  <2> DEFINE V == {"opening", <<m>>, trial}
  <2> HIDE DEF V
  <2>1. PICK S : Router!Idle \in TaskOver(S) /\ V \subseteq S
    BY IdleSound, Widen DEF Sound
  <2>2. /\ new \in TaskOver(S) /\ new.phase = "opening"
        /\ new.index = 1 /\ new.called = {} /\ new.outcome = "none"
    BY <2>1, IdleSound DEF TaskOver, V
  <2>3. QED
    BY <2>2 DEF IsTask
<1> HIDE DEF new
<1>3. Sound(new)
  BY <1>2 DEF Sound
<1>4. QED
  BY <1>1, <1>2, <1>3, TaskUpdate

LEMMA ResetDoes ==
  ASSUME TaskShape, NEW r \in Requests, Router!Reset(r)
  PROVE  TaskShape' /\ OtherTasks(r) /\ task'[r].called = {}
BY IdleSound, TaskUpdate DEF Router!Reset

\* A step of a request that stays upstream: what was called stays so.
Goes(r) ==
  /\ TaskShape' /\ OtherTasks(r)
  /\ task[r].called # {} => task'[r].called # {}
  /\ task'[r].route = task[r].route

LEMMA SkipGoes ==
  ASSUME TaskShape, NEW r \in Requests, NEW m, Router!Skip(r, m)
  PROVE  Goes(r)
<1> DEFINE new == [task[r] EXCEPT !.index = task[r].index + 1]
<1>1. task' = [task EXCEPT ![r] = new] /\ task[r].phase = "select"
  BY DEF Router!Skip
<1>2. Sound(task[r]) /\ IsTask(task[r])
  BY DEF TaskShape, Sound
<1>3. /\ IsTask(new) /\ new.phase = task[r].phase /\ new.outcome = task[r].outcome
      /\ new.called = task[r].called /\ new.route = task[r].route
      /\ new.index = task[r].index + 1
  <2> DEFINE V == {task[r].index + 1}
  <2> HIDE DEF V
  <2>1. PICK S : task[r] \in TaskOver(S) /\ V \subseteq S
    BY <1>2, Widen
  <2>2. /\ new \in TaskOver(S) /\ new.phase = task[r].phase /\ new.outcome = task[r].outcome
        /\ new.called = task[r].called /\ new.route = task[r].route
        /\ new.index = task[r].index + 1
    BY <2>1 DEF TaskOver, V
  <2>3. QED
    BY <2>2 DEF IsTask
<1> HIDE DEF new
<1>4. Sound(new)
  BY <1>1, <1>2, <1>3 DEF Sound
<1>5. QED
  BY <1>1, <1>3, <1>4, TaskUpdate DEF Goes

LEMMA DispatchGoes ==
  ASSUME TaskShape, NEW r \in Requests, NEW m, Router!Dispatch(r, m)
  PROVE  Goes(r)
<1> DEFINE trial == breakers[m].state # "CLOSED"
           called == task[r].called \cup {m}
           new == [task[r] EXCEPT !.phase = "attempt", !.attempt = 0,
                                  !.called = called, !.trial = trial]
<1>1. task' = [task EXCEPT ![r] = new] /\ task[r].phase = "select"
      /\ task[r].index <= Len(task[r].route)
  BY DEF Router!Dispatch, Router!AtCandidate
<1>2. Sound(task[r]) /\ IsTask(task[r]) /\ called # {}
  BY DEF TaskShape, Sound
<1> HIDE DEF trial, called
<1>3. /\ IsTask(new) /\ new.phase = "attempt" /\ new.outcome = task[r].outcome
      /\ new.called = called /\ new.route = task[r].route
      /\ new.index = task[r].index
  <2> DEFINE V == {"attempt", 0, called, trial}
  <2> HIDE DEF V
  <2>1. PICK S : task[r] \in TaskOver(S) /\ V \subseteq S
    BY <1>2, Widen
  <2>2. /\ new \in TaskOver(S) /\ new.phase = "attempt" /\ new.outcome = task[r].outcome
        /\ new.called = called /\ new.route = task[r].route
        /\ new.index = task[r].index
    BY <2>1 DEF TaskOver, V
  <2>3. QED
    BY <2>2 DEF IsTask
<1> HIDE DEF new
<1>4. Sound(new)
  BY <1>1, <1>2, <1>3 DEF Sound
<1>5. QED
  BY <1>1, <1>2, <1>3, <1>4, TaskUpdate DEF Goes

LEMMA FailGoes ==
  ASSUME TaskShape, NEW r \in Requests, NEW m, Router!Fail(r, m)
  PROVE  Goes(r)
<1> DEFINE new == [task[r] EXCEPT !.phase = "select", !.index = task[r].index + 1,
                                  !.failed = TRUE, !.trial = FALSE]
<1>1. task' = [task EXCEPT ![r] = new] /\ task[r].phase = "attempt"
  BY DEF Router!Fail
<1>2. Sound(task[r]) /\ IsTask(task[r])
  BY DEF TaskShape, Sound
<1>3. /\ IsTask(new) /\ new.phase = "select" /\ new.outcome = task[r].outcome
      /\ new.called = task[r].called /\ new.route = task[r].route
      /\ new.index = task[r].index + 1
  <2> DEFINE V == {"select", task[r].index + 1, TRUE, FALSE}
  <2> HIDE DEF V
  <2>1. PICK S : task[r] \in TaskOver(S) /\ V \subseteq S
    BY <1>2, Widen
  <2>2. /\ new \in TaskOver(S) /\ new.phase = "select" /\ new.outcome = task[r].outcome
        /\ new.called = task[r].called /\ new.route = task[r].route
        /\ new.index = task[r].index + 1
    BY <2>1 DEF TaskOver, V
  <2>3. QED
    BY <2>2 DEF IsTask
<1> HIDE DEF new
<1>4. Sound(new)
  BY <1>1, <1>2, <1>3 DEF Sound
<1>5. QED
  BY <1>1, <1>3, <1>4, TaskUpdate DEF Goes

LEMMA RetryGoes ==
  ASSUME TaskShape, NEW r \in Requests, Router!Retry(r)
  PROVE  Goes(r)
<1> DEFINE new == [task[r] EXCEPT !.attempt = task[r].attempt + 1]
<1>1. task' = [task EXCEPT ![r] = new]
  BY DEF Router!Retry
<1>2. Sound(task[r]) /\ IsTask(task[r])
  BY DEF TaskShape, Sound
<1>3. /\ IsTask(new) /\ new.phase = task[r].phase /\ new.outcome = task[r].outcome
      /\ new.called = task[r].called /\ new.route = task[r].route
      /\ new.index = task[r].index
  <2> DEFINE V == {task[r].attempt + 1}
  <2> HIDE DEF V
  <2>1. PICK S : task[r] \in TaskOver(S) /\ V \subseteq S
    BY <1>2, Widen
  <2>2. /\ new \in TaskOver(S) /\ new.phase = task[r].phase /\ new.outcome = task[r].outcome
        /\ new.called = task[r].called /\ new.route = task[r].route
        /\ new.index = task[r].index
    BY <2>1 DEF TaskOver, V
  <2>3. QED
    BY <2>2 DEF IsTask
<1> HIDE DEF new
<1>4. Sound(new)
  BY <1>2, <1>3 DEF Sound
<1>5. QED
  BY <1>1, <1>3, <1>4, TaskUpdate DEF Goes

LEMMA PullGoes ==
  ASSUME TaskShape, NEW r \in Requests, NEW m, Router!FirstPull(r, m)
  PROVE  Goes(r)
<1> DEFINE new == [task[r] EXCEPT !.phase = "streaming", !.called = {m}]
<1>1. task' = [task EXCEPT ![r] = new] /\ task[r].phase = "opening"
  BY DEF Router!FirstPull
<1>2. Sound(task[r]) /\ IsTask(task[r])
  BY DEF TaskShape, Sound
<1>3. /\ IsTask(new) /\ new.phase = "streaming" /\ new.outcome = task[r].outcome
      /\ new.called = {m} /\ new.route = task[r].route /\ new.index = task[r].index
  <2> DEFINE V == {"streaming", {m}}
  <2> HIDE DEF V
  <2>1. PICK S : task[r] \in TaskOver(S) /\ V \subseteq S
    BY <1>2, Widen
  <2>2. /\ new \in TaskOver(S) /\ new.phase = "streaming" /\ new.outcome = task[r].outcome
        /\ new.called = {m} /\ new.route = task[r].route /\ new.index = task[r].index
    BY <2>1 DEF TaskOver, V
  <2>3. QED
    BY <2>2 DEF IsTask
<1> HIDE DEF new
<1>4. Sound(new)
  BY <1>1, <1>2, <1>3 DEF Sound
<1>5. QED
  BY <1>1, <1>3, <1>4, TaskUpdate DEF Goes

LEMMA ConverseStepGoes ==
  ASSUME TaskShape, NEW r \in Requests, Router!ConverseStep(r)
  PROVE  Goes(r)
<1>1. ASSUME NEW m \in Models, Router!Succeed(r, m) PROVE Goes(r)
  <2>1. task[r].called # {} /\ task[r].index <= Len(task[r].route)
    BY <1>1 DEF TaskShape, Sound, Router!Succeed
  <2>2. QED
    BY <1>1, <2>1, FinishDoes DEF Router!Succeed, Goes
<1>2. CASE Router!GiveUp(r)
  BY <1>2, FinishDoes DEF Router!GiveUp, Goes
<1>3. QED
  BY <1>1, <1>2, SkipGoes, DispatchGoes, FailGoes, RetryGoes DEF Router!ConverseStep

LEMMA StreamStepGoes ==
  ASSUME TaskShape, NEW r \in Requests, Router!StreamStep(r)
  PROVE  Goes(r)
<1>1. ASSUME NEW m \in Models, Router!StreamEnd(r, m) PROVE Goes(r)
  <2>1. task[r].called # {} /\ task[r].index <= Len(task[r].route)
    BY <1>1 DEF TaskShape, Sound, Router!StreamEnd, Router!AtCandidate
  <2>2. QED
    BY <1>1, <2>1, FinishDoes DEF Router!StreamEnd, Goes
<1>2. ASSUME NEW m \in Models, Router!StreamError(r, m) PROVE Goes(r)
  BY <1>2, FinishDoes DEF Router!StreamError, Goes
<1>3. CASE Router!StreamAbort(r)
  BY <1>3, FinishDoes DEF Router!StreamAbort, Goes
<1>4. CASE Router!StreamDropped(r)
  BY <1>4, FinishDoes DEF Router!StreamDropped, Goes
<1>5. QED
  BY <1>1, <1>2, <1>3, <1>4, PullGoes DEF Router!StreamStep

-----------------------------------------------------------------------------
(***************************************************************************)
(* The invariant.                                                           *)
(***************************************************************************)
Safe(t, text) ==
  Guardrail!Check(text) = "BLOCK" =>
    Guardrail!MayBypass(Config[t].guardrail_policy,
                        Config[t].allow_guardrail_bypass_on_error)

\* CacheKey of a request whose record is x.
KeyOf(x, model) ==
  [tenant_id |-> x.identity.tenant_id, application_id |-> x.identity.application_id,
   model_route_id |-> Config[x.identity.tenant_id].route_set, model_version |-> model,
   inference_parameters |-> x.shape.parameters, normalized_messages |-> x.shape.prompt,
   guardrail_version |-> Config[x.identity.tenant_id].guardrail_policy,
   policy_epoch |-> x.policy.policy_epoch]

\* Who an answer under this key is for.
AskerOf(key) ==
  [ask |-> [tenant_id |-> key.tenant_id, application_id |-> key.application_id,
            prompt |-> key.normalized_messages, parameters |-> key.inference_parameters,
            policy_epoch |-> key.policy_epoch],
   model |-> key.model_version]

OnRoute(model, route) == \E i \in 1 .. Len(route) : route[i] = model

\* An answer that may be given to whoever has this key.
Fits(key, value) ==
  /\ value.asker = AskerOf(key)
  /\ OnRoute(value.model_id, Router!Candidates(key.model_version, key.model_route_id))
  /\ Safe(key.tenant_id, value.text)

\* Request r's record x and task y, and who holds the loop.
Proper(r, x, y, holder) ==
  /\ y.called # {} => x.pc \in {"upstream", "streaming"}
  /\ holder = r => x.pc = "upstream"
  /\ x.pc = "upstream" =>
       y.route = Router!Candidates(x.model, Config[x.identity.tenant_id].route_set)
  /\ x.pc = "streaming" => x.shape.stream
  /\ x.pc \in {"upstream", "streaming"} => Safe(x.identity.tenant_id, x.shape.prompt)
  /\ x.status = "ok" => x.pc = "done" /\ Fits(KeyOf(x, x.model), x.answer)

Local == \A r \in Requests : Proper(r, req[r], task[r], loop)

EntriesFit == \A e \in Kept : Fits(e.key, e.value)

\* A snapshot that is still served is the store's policy: nothing but the
\* administrator's handler writes the store, and it drops the snapshot.
PlaneInv ==
  /\ Plane!TypeOK
  /\ \A t \in Tenants : Plane!Fresh(t) => snapshots[t].policy = policies[t]

GatewayInv ==
  /\ ReqShape /\ TaskShape /\ EntriesShape
  /\ Local /\ EntriesFit /\ PlaneInv

-----------------------------------------------------------------------------
(***************************************************************************)
(* What a step is to one request and to the cache.                          *)
(***************************************************************************)
Inside == {"reading", "ready", "upstream", "streaming"}

Frame(r) ==
  /\ ReqShape' /\ TaskShape' /\ EntriesShape'
  /\ OtherReqs(r) /\ OtherTasks(r)

Entered(r) ==
  /\ Frame(r)
  /\ req[r].pc = "new" /\ req'[r].pc = "reading"
  /\ req'[r].status = req[r].status /\ req'[r].answer = req[r].answer
  /\ req'[r].shape = req[r].shape /\ req'[r].model = req[r].model
  /\ req'[r].policy = Plane!View(req'[r].identity.tenant_id)
  /\ UNCHANGED <<entries, task, loop>> /\ loop = NoRequest
  /\ req'[r].identity.tenant_id \in Tenants
  /\ Plane!Get(req'[r].identity.tenant_id)
  /\ ~Blocked(Plane!View(req'[r].identity.tenant_id))

GoesOn(r) ==
  /\ Frame(r)
  /\ req[r].pc \in Inside /\ req'[r].pc \in Inside
  /\ SameAsk(r)
  /\ req'[r].model \in {req[r].model} \cup Resolve(r)
  /\ req'[r].answer = req[r].answer
  /\ task[r].called # {} => task'[r].called # {}
  /\ Kept' \subseteq Kept
  /\ loop' \in {loop, r, NoRequest}
  /\ Proper(r, req'[r], task'[r], loop')
  /\ UNCHANGED plane

TurnedAway(r) ==
  /\ Frame(r)
  /\ req[r].pc \in Inside \cup {"new"} /\ req'[r].pc = "done"
  /\ SameAsk(r)
  /\ req'[r].status # "ok" /\ req'[r].answer = req[r].answer
  /\ req'[r].model = req[r].model
  /\ task'[r].called = {}
  /\ Kept' \subseteq Kept
  /\ loop' = NoRequest
  /\ UNCHANGED plane \/ \E t \in Tenants : Plane!Get(t)

Answered(r, value) ==
  /\ Frame(r)
  /\ req[r].pc \in Inside /\ req'[r].pc = "done"
  /\ SameAsk(r)
  /\ req'[r].answer = value
  /\ req'[r].model \in {req[r].model} \cup Resolve(r)
  /\ Fits(KeyOf(req[r], req'[r].model), value)
  /\ task'[r].called = {}
  /\ loop' = NoRequest
  /\ UNCHANGED plane
  /\ \/ Kept' \subseteq Kept /\ \E e \in Kept : e.value = value
     \/ /\ task[r].called # {}
        /\ value.text \in Completions
        /\ Kept' \subseteq Kept \cup {[key |-> KeyOf(req[r], req'[r].model),
                                       value |-> value, age |-> 0]}

\* Nothing happens to any request, and the cache holds the same answers.
Passes ==
  /\ UNCHANGED <<req, task, loop>>
  /\ EntriesShape'
  /\ \A e \in Kept' : \E f \in Kept : e.key = f.key /\ e.value = f.value
  /\ \A f \in Kept : \E e \in Kept' : e.key = f.key /\ e.value = f.value
  /\ \/ UNCHANGED plane
     \/ Plane!Elapse
     \/ \E t \in Tenants, state \in AdminStates : Plane!SetTenantState(t, state)

StepKind ==
  \/ \E r \in Requests : \/ Entered(r) \/ GoesOn(r) \/ TurnedAway(r)
                         \/ \E value : Answered(r, value)
  \/ Passes

-----------------------------------------------------------------------------
LEMMA NoRequestIsNone == NoRequest \notin Requests
BY GatewayAssumption DEF Router!RoutingAssumption

LEMMA KeyIs ==
  ASSUME NEW r \in Requests, NEW m
  PROVE  /\ CacheKey(r, m) = KeyOf(req[r], m)
         /\ AskerOf(KeyOf(req[r], m)) = Asker(r, m)
BY DEF CacheKey, Payload, KeyOf, AskerOf, Asker, Tenant, Cfg

LEMMA SafeIs ==
  ASSUME NEW r \in Requests, NEW text
  PROVE  LetThrough(r, text) <=> Safe(req[r].identity.tenant_id, text)
BY DEF LetThrough, Safe, Cfg, Tenant

\* Whatever is allowed, a completed check would allow, or the tenant may
\* bypass it.
LEMMA GuardedIsSafe ==
  ASSUME NEW r \in Requests, NEW text, NEW result, Guarded(r, text, result, "ALLOW")
  PROVE  Safe(req[r].identity.tenant_id, text)
<1>1. result \in {Guardrail!Check(text), "ERROR"}
  BY DEF Guarded, Guardrail!CheckResults
<1>2. "ALLOW" = Guardrail!RunCheck(result, Cfg(r).guardrail_policy,
                                   Cfg(r).allow_guardrail_bypass_on_error)
  BY DEF Guarded
<1>3. CASE result # "ERROR"
  BY <1>1, <1>2, <1>3 DEF Guardrail!RunCheck, Safe
<1>4. CASE result = "ERROR"
  BY <1>2, <1>4 DEF Guardrail!RunCheck, Safe, Cfg, Tenant
<1>5. QED
  BY <1>3, <1>4

LEMMA AllowedIsSafe ==
  ASSUME NEW r \in Requests, NEW text, Checked(r, text, "ALLOW")
  PROVE  Safe(req[r].identity.tenant_id, text)
BY GuardedIsSafe DEF Checked

\* Who has no call in progress has called nobody.
LEMMA NotCalling ==
  ASSUME Local, NEW r \in Requests, req[r].pc \in {"new", "reading", "ready", "done"}
  PROVE  task[r].called = {}
BY DEF Local, Proper

LEMMA EntriesStay ==
  ASSUME EntriesShape, UNCHANGED entries
  PROVE  EntriesShape' /\ Kept' = Kept
BY DEF EntriesShape, Kept

LEMMA TasksStay ==
  ASSUME TaskShape, UNCHANGED task
  PROVE  TaskShape' /\ \A r \in Requests : OtherTasks(r)
BY DEF TaskShape, OtherTasks

-----------------------------------------------------------------------------
LEMMA AdmitKind ==
  ASSUME GatewayInv, NEW r \in Requests, Admit(r)
  PROVE  Entered(r) \/ TurnedAway(r)
<1> USE DEF GatewayInv
<1>1. /\ loop = NoRequest /\ loop' = NoRequest /\ req[r].pc = "new"
      /\ UNCHANGED <<entries, task, loop>>
  BY DEF Admit, upstream
<1>2. /\ EntriesShape' /\ Kept' = Kept /\ TaskShape' /\ OtherTasks(r)
      /\ task[r].called = {} /\ task'[r].called = {}
  BY <1>1, EntriesStay, TasksStay, NotCalling
<1>3. ASSUME NEW status, status # "ok", Reply(r, status),
             UNCHANGED plane \/ \E t \in Tenants : Plane!Get(t)
      PROVE  TurnedAway(r)
  BY <1>1, <1>2, <1>3, ReplyDoes DEF TurnedAway, Frame
<1>4. PICK verification \in Caller!Verifications :
        LET who == Caller!Admission(req[r].shape.headers, verification, ChatRole)
            t == who.identity.tenant_id
        IN  \/ RejectCaller(r, who)
            \/ /\ who.status = "ok"
               /\ \/ RejectUnknown(r, t) \/ RejectBlocked(r, t) \/ RejectLimited(r, t)
                  \/ Accept(r, t, who.identity)
  BY DEF Admit
<1> DEFINE who == Caller!Admission(req[r].shape.headers, verification, ChatRole)
           t == who.identity.tenant_id
<1> HIDE DEF who
<1>5. CASE RejectCaller(r, who)
  BY <1>3, <1>5 DEF RejectCaller
<1>6. CASE RejectUnknown(r, t)
  BY <1>3, <1>6 DEF RejectUnknown
<1>7. CASE RejectBlocked(r, t)
  BY <1>3, <1>7 DEF RejectBlocked
<1>8. CASE RejectLimited(r, t)
  BY <1>3, <1>8 DEF RejectLimited
<1>9. CASE Accept(r, t, who.identity)
  <2>1. /\ ReqShape' /\ OtherReqs(r)
        /\ req'[r].pc = "reading" /\ req'[r].identity = who.identity
        /\ req'[r].status = req[r].status /\ req'[r].answer = req[r].answer
    BY <1>9, AcceptDoes
  <2>2. /\ req'[r].shape = req[r].shape /\ req'[r].model = req[r].model
        /\ req'[r].policy = Plane!View(t)
    BY <1>9, AcceptDoes
  <2>3. t \in Tenants /\ Plane!Get(t) /\ ~Blocked(Plane!View(t))
    BY <1>9 DEF Accept
  <2>4. req'[r].identity.tenant_id = t
    BY <2>1
  <2>5. QED
    BY <1>1, <1>2, <2>1, <2>2, <2>3, <2>4 DEF Entered, Frame
<1>10. QED
  BY <1>4, <1>5, <1>6, <1>7, <1>8, <1>9 DEF who

LEMMA BodyKind ==
  ASSUME GatewayInv, NEW r \in Requests, BodyArrives(r)
  PROVE  GoesOn(r)
<1> USE DEF GatewayInv
<1>1. /\ req[r].pc = "reading" /\ UNCHANGED <<entries, task, loop>> /\ UNCHANGED plane
  BY DEF BodyArrives, upstream, plane
<1>2. /\ EntriesShape' /\ Kept' = Kept /\ TaskShape' /\ OtherTasks(r)
      /\ task[r].called = {} /\ task'[r].called = {}
  BY <1>1, EntriesStay, TasksStay, NotCalling
<1>3. /\ ReqShape' /\ OtherReqs(r) /\ SameAsk(r)
      /\ req'[r].pc = "ready" /\ req'[r].status = req[r].status
      /\ req'[r].answer = req[r].answer /\ req'[r].model = req[r].model
  BY BodyDoes
<1>4. loop # r /\ req[r].status # "ok"
  BY <1>1 DEF Local, Proper
<1>5. Proper(r, req'[r], task'[r], loop')
  BY <1>1, <1>2, <1>3, <1>4 DEF Proper
<1>6. QED
  BY <1>1, <1>2, <1>3, <1>5 DEF GoesOn, Frame, Inside

LEMMA StreamStartKind ==
  ASSUME GatewayInv, NEW r \in Requests, StartStream(r), UNCHANGED plane,
         req[r].pc = "ready", loop = NoRequest
  PROVE  GoesOn(r) \/ TurnedAway(r)
<1> USE DEF GatewayInv
<1>1. /\ UNCHANGED <<entries, loop>> /\ Safe(req[r].identity.tenant_id, req[r].shape.prompt)
      /\ req[r].shape.stream
  BY AllowedIsSafe DEF StartStream
<1>2. EntriesShape' /\ Kept' = Kept /\ task[r].called = {} /\ req[r].status # "ok"
  BY <1>1, EntriesStay, NotCalling DEF Local, Proper
<1>3. ASSUME NEW m \in Resolve(r), Router!OpenStream(r, m),
             req' = [req EXCEPT ![r] = [@ EXCEPT !.pc = "streaming", !.model = m]]
      PROVE  GoesOn(r)
  <2>1. TaskShape' /\ OtherTasks(r) /\ task'[r].called = {}
    BY <1>3, OpenStreamDoes
  <2>2. /\ ReqShape' /\ OtherReqs(r) /\ SameAsk(r)
        /\ req'[r].pc = "streaming" /\ req'[r].status = req[r].status
        /\ req'[r].answer = req[r].answer /\ req'[r].model = m
    <3>1. ReqShape /\ GoesTo(r, "streaming", m)
      BY <1>3 DEF GoesTo
    <3>2. QED
      BY <3>1, ModelDoes
  <2>3. Proper(r, req'[r], task'[r], loop')
    BY <1>1, <1>2, <2>1, <2>2, NoRequestIsNone DEF Proper, SameAsk
  <2>4. QED
    BY <1>1, <1>2, <2>1, <2>2, <2>3 DEF GoesOn, Frame, Inside
<1>4. ASSUME NEW m, Router!RefuseStream(r, m), Reply(r, "circuit_open")
      PROVE  TurnedAway(r)
  <2>1. TaskShape' /\ OtherTasks(r) /\ task'[r].called = {}
    BY <1>2, <1>4, FinishDoes DEF Router!RefuseStream
  <2>2. /\ ReqShape' /\ OtherReqs(r) /\ SameAsk(r)
        /\ req'[r].pc = "done" /\ req'[r].status # "ok"
        /\ req'[r].answer = req[r].answer /\ req'[r].model = req[r].model
    BY <1>4, ReplyDoes
  <2>3. QED
    BY <1>1, <1>2, <2>1, <2>2 DEF TurnedAway, Frame, Inside
<1>5. QED
  BY <1>3, <1>4 DEF StartStream

LEMMA CacheAnswerKind ==
  ASSUME GatewayInv, NEW r \in Requests, AnswerFromCache(r), UNCHANGED plane,
         req[r].pc = "ready", loop = NoRequest
  PROVE  \E value : Answered(r, value)
<1> USE DEF GatewayInv
<1>1. UNCHANGED <<task, loop>>
  BY DEF AnswerFromCache, upstream
<1>2. /\ TaskShape' /\ OtherTasks(r) /\ task'[r].called = {}
  BY <1>1, TasksStay, NotCalling
<1>3. PICK m \in Resolve(r) :
        /\ Cache!Hit(CacheKey(r, m)) /\ Cache!Get(CacheKey(r, m))
        /\ Answer(r, m, Cache!Value(CacheKey(r, m)))
  BY DEF AnswerFromCache
<1> DEFINE key == KeyOf(req[r], m)
           value == Cache!Value(key)
<1>4. Cache!Hit(key) /\ Cache!Get(key) /\ Answer(r, m, value)
  BY <1>3, KeyIs
<1> HIDE DEF key
<1>5. PICK e \in Kept : e.key = key /\ e.value = value
  BY <1>4, HitKept
<1>6. Fits(key, value)
  BY <1>5 DEF EntriesFit
<1>7. EntriesShape' /\ Kept' \subseteq Kept
  BY <1>4, GetKeeps
<1> HIDE DEF value
<1>8. /\ ReqShape' /\ OtherReqs(r) /\ SameAsk(r)
      /\ req'[r].pc = "done" /\ req'[r].status = "ok"
      /\ req'[r].model = m /\ req'[r].answer = value
  BY <1>4, AnswerDoes
<1>9. Answered(r, value)
  BY <1>1, <1>2, <1>5, <1>6, <1>7, <1>8 DEF Answered, Frame, Inside, key
<1>10. QED
  BY <1>9

LEMMA AskRouterKind ==
  ASSUME GatewayInv, NEW r \in Requests, AskRouter(r), UNCHANGED plane,
         req[r].pc = "ready", loop = NoRequest
  PROVE  GoesOn(r)
<1> USE DEF GatewayInv
<1>1. /\ Safe(req[r].identity.tenant_id, req[r].shape.prompt)
      /\ req[r].status # "ok" /\ task[r].called = {}
  BY AllowedIsSafe, NotCalling DEF AskRouter, Local, Proper
<1>2. PICK m \in Resolve(r) :
        /\ Cache!Get(CacheKey(r, m))
        /\ Router!Converse(r, m, Cfg(r).route_set)
        /\ req' = [req EXCEPT ![r] = [@ EXCEPT !.pc = "upstream", !.model = m]]
  BY DEF AskRouter
<1>3. EntriesShape' /\ Kept' \subseteq Kept
  BY <1>2, GetKeeps
<1>4. /\ TaskShape' /\ OtherTasks(r) /\ task'[r].called = {}
      /\ task'[r].route = Router!Candidates(m, Cfg(r).route_set)
  BY <1>2, ConverseDoes
<1>5. /\ ReqShape' /\ OtherReqs(r) /\ SameAsk(r)
      /\ req'[r].pc = "upstream" /\ req'[r].status = req[r].status
      /\ req'[r].model = m /\ req'[r].answer = req[r].answer
  <2>1. ReqShape /\ GoesTo(r, "upstream", m)
    BY <1>2 DEF GoesTo
  <2>2. QED
    BY <2>1, ModelDoes
<1>6. Proper(r, req'[r], task'[r], loop')
  BY <1>1, <1>4, <1>5 DEF Proper, SameAsk, Cfg, Tenant
<1>7. loop' = r
  BY DEF AskRouter
<1>8. QED
  BY <1>1, <1>3, <1>4, <1>5, <1>6, <1>7 DEF GoesOn, Frame, Inside

LEMMA ResumeKind ==
  ASSUME GatewayInv, NEW r \in Requests, Resume(r)
  PROVE  GoesOn(r) \/ TurnedAway(r) \/ \E value : Answered(r, value)
<1>1. UNCHANGED plane /\ req[r].pc = "ready" /\ loop = NoRequest
  BY DEF Resume, plane
<1>2. ASSUME NEW status, status # "ok", Reply(r, status),
             UNCHANGED <<entries, records, upstream, loop>>
      PROVE  TurnedAway(r)
  <2>1. UNCHANGED <<entries, task, loop>>
    BY <1>2 DEF upstream
  <2>2. /\ EntriesShape' /\ Kept' = Kept /\ TaskShape' /\ OtherTasks(r)
        /\ task'[r].called = {}
    BY <1>1, <2>1, EntriesStay, TasksStay, NotCalling DEF GatewayInv
  <2>3. QED
    BY <1>1, <1>2, <2>1, <2>2, ReplyDoes DEF GatewayInv, TurnedAway, Frame, Inside
<1>3. CASE RejectBody(r)
  BY <1>2, <1>3 DEF RejectBody
<1>4. CASE RejectModel(r)
  BY <1>2, <1>4 DEF RejectModel
<1>5. CASE RejectInput(r)
  BY <1>2, <1>5 DEF RejectInput
<1>6. QED
  BY <1>1, <1>3, <1>4, <1>5, StreamStartKind, CacheAnswerKind, AskRouterKind DEF Resume

LEMMA CallKind ==
  ASSUME GatewayInv, NEW r \in Requests, Call(r)
  PROVE  GoesOn(r)
<1> USE DEF GatewayInv
<1>1. UNCHANGED <<entries, loop, req>> /\ UNCHANGED plane /\ loop = r
  BY DEF Call, plane
<1>2. Goes(r)
  BY ConverseStepGoes DEF Call
<1>3. /\ EntriesShape' /\ Kept' = Kept /\ ReqShape' /\ OtherReqs(r) /\ SameAsk(r)
  BY <1>1, EntriesStay DEF ReqShape, OtherReqs, SameAsk
<1>4. Proper(r, req[r], task[r], loop) /\ req[r].pc = "upstream"
  BY <1>1 DEF Local, Proper
<1>5. Proper(r, req'[r], task'[r], loop')
  BY <1>1, <1>2, <1>4 DEF Goes, Proper
<1>6. QED
  BY <1>1, <1>2, <1>3, <1>4, <1>5 DEF GoesOn, Goes, Frame, Inside

LEMMA CompleteKind ==
  ASSUME GatewayInv, NEW r \in Requests, Complete(r)
  PROVE  TurnedAway(r) \/ \E value : Answered(r, value)
<1> USE DEF GatewayInv
<1>1. UNCHANGED plane /\ loop = r /\ loop' = NoRequest
  BY DEF Complete, plane
<1>2. /\ TaskShape' /\ OtherTasks(r) /\ task'[r].called = {}
  BY ResetDoes DEF Complete
<1>3. Proper(r, req[r], task[r], loop) /\ req[r].pc = "upstream"
  BY <1>1 DEF Local, Proper
<1>4. ASSUME NEW status, status # "ok", Reply(r, status), UNCHANGED entries
      PROVE  TurnedAway(r)
  BY <1>1, <1>2, <1>3, <1>4, EntriesStay, ReplyDoes DEF TurnedAway, Frame, Inside
<1>5. CASE UpstreamFailed(r)
  BY <1>4, <1>5 DEF UpstreamFailed
<1>6. ASSUME NEW text, RejectOutput(r, text) PROVE TurnedAway(r)
  BY <1>4, <1>6 DEF RejectOutput
<1>7. ASSUME NEW text \in Completions, AnswerFromModel(r, text) PROVE \E value : Answered(r, value)
  <2>1. PICK result \in {"ALLOW", "ERROR"} :
          /\ task[r].outcome = "ok"
          /\ Guarded(r, text, result, "ALLOW")
          /\ Cache!Set(CacheKey(r, req[r].model), Result(r, text, result = "ALLOW"))
          /\ Answer(r, req[r].model, Result(r, text, result = "ALLOW"))
    BY <1>7 DEF AnswerFromModel
  <2> DEFINE value == Result(r, text, result = "ALLOW")
             key == KeyOf(req[r], req[r].model)
  <2>2. /\ task[r].called # {} /\ task[r].index \in 1 .. Len(task[r].route)
        /\ task[r].route = Router!Candidates(req[r].model, Cfg(r).route_set)
    BY <1>3, <2>1 DEF TaskShape, Sound, Proper, Cfg, Tenant
  <2>3. OnRoute(value.model_id, Router!Candidates(req[r].model, Cfg(r).route_set))
    BY <2>2 DEF OnRoute, Result, Responder
  <2>4. value.asker = AskerOf(key)
    BY KeyIs DEF Result
  <2>5. Safe(req[r].identity.tenant_id, value.text) /\ value.text \in Completions
    BY <2>1, GuardedIsSafe DEF Result
  <2> HIDE DEF value
  <2>6. Fits(key, value)
    BY <2>3, <2>4, <2>5 DEF Fits, KeyOf, Cfg, Tenant
  <2>7. Cache!Set(key, value) /\ Answer(r, req[r].model, value)
    BY <2>1, KeyIs DEF value
  <2> HIDE DEF key
  <2>8. EntriesShape' /\ Kept' \subseteq Kept \cup {[key |-> key, value |-> value, age |-> 0]}
    BY <2>7, SetKeeps
  <2>9. /\ ReqShape' /\ OtherReqs(r) /\ SameAsk(r)
        /\ req'[r].pc = "done" /\ req'[r].status = "ok"
        /\ req'[r].model = req[r].model /\ req'[r].answer = value
    BY <2>7, AnswerDoes
  <2>10. Answered(r, value)
    BY <1>1, <1>2, <1>3, <2>2, <2>5, <2>6, <2>8, <2>9 DEF Answered, Frame, Inside, key
  <2>11. QED
    BY <2>10
<1>8. QED
  BY <1>5, <1>6, <1>7 DEF Complete

LEMMA StreamKind ==
  ASSUME GatewayInv, NEW r \in Requests, Stream(r)
  PROVE  GoesOn(r) \/ TurnedAway(r)
<1> USE DEF GatewayInv
<1>1. /\ UNCHANGED <<entries, loop>> /\ UNCHANGED plane
      /\ loop = NoRequest /\ req[r].pc = "streaming"
  BY DEF Stream, plane
<1>2. EntriesShape' /\ Kept' = Kept /\ Proper(r, req[r], task[r], loop)
  BY <1>1, EntriesStay DEF Local
<1>3. CASE Router!StreamStep(r) /\ UNCHANGED req
  <2>1. Goes(r)
    BY <1>3, StreamStepGoes
  <2>2. ReqShape' /\ OtherReqs(r) /\ SameAsk(r)
    BY <1>3 DEF ReqShape, OtherReqs, SameAsk
  <2>3. Proper(r, req'[r], task'[r], loop')
    BY <1>1, <1>2, <1>3, <2>1 DEF Goes, Proper
  <2>4. QED
    BY <1>1, <1>2, <1>3, <2>1, <2>2, <2>3 DEF GoesOn, Goes, Frame, Inside
<1>4. CASE Router!Reset(r) /\ Reply(r, "stream")
  <2>1. TaskShape' /\ OtherTasks(r) /\ task'[r].called = {}
    BY <1>4, ResetDoes
  <2>2. QED
    BY <1>1, <1>2, <1>4, <2>1, ReplyDoes DEF TurnedAway, Frame, Inside
<1>5. QED
  BY <1>3, <1>4 DEF Stream

LEMMA NextKind ==
  ASSUME GatewayInv, [Next]_vars
  PROVE  StepKind
<1> USE DEF GatewayInv
<1>1. ASSUME UNCHANGED <<entries, task, loop, req>>,
             \/ UNCHANGED plane
             \/ \E t \in Tenants, state \in AdminStates : Plane!SetTenantState(t, state)
      PROVE  Passes
  BY <1>1, EntriesStay DEF Passes
<1>2. ASSUME NEW t \in Tenants, NEW state \in AdminStates, SetTenantState(t, state)
      PROVE  Passes
  BY <1>1, <1>2 DEF SetTenantState, upstream
<1>3. ASSUME NEW id, ReadRecord(id) PROVE Passes
  BY <1>1, <1>3 DEF ReadRecord, upstream, plane
<1>4. CASE Tick
  BY <1>4, ElapseKeeps DEF Tick, Passes, StepKind
<1>5. CASE UNCHANGED vars
  BY <1>1, <1>5 DEF vars, plane, StepKind
<1>6. QED
  BY <1>2, <1>3, <1>4, <1>5, AdmitKind, BodyKind, ResumeKind, CallKind, CompleteKind,
     StreamKind
  DEF Next, StepKind

-----------------------------------------------------------------------------
(***************************************************************************)
(* The invariant is inductive.                                              *)
(***************************************************************************)
LEMMA FreshIsReq ==
  ASSUME NEW shape
  PROVE  IsReq(Fresh(shape)) /\ Fresh(shape).pc = "new" /\ Fresh(shape).status = "none"
<1> DEFINE x == Fresh(shape)
           S == {x.pc, x.shape, x.identity, x.policy, x.model, x.status, x.answer}
<1>1. x \in ReqOver(S)
  BY DEF Fresh, ReqOver
<1>2. QED
  BY <1>1 DEF IsReq, Fresh

LEMMA PlaneInit == Plane!Init => PlaneInv
<1> SUFFICES ASSUME Plane!Init PROVE PlaneInv
  OBVIOUS
<1>1. Plane!TypeOK
  BY GatewayAssumption
  DEF Plane!PolicyAssumption, Plane!Init, Plane!TypeOK, Plane!Policy, Plane!Snapshot
<1>2. \A t \in Tenants : ~Plane!Fresh(t)
  <2> SUFFICES ASSUME NEW t \in Tenants PROVE ~Plane!Fresh(t)
    OBVIOUS
  <2>1. snapshots[t].age = PolicyTTL
    BY DEF Plane!Init
  <2>2. PolicyTTL \in Nat
    BY GatewayAssumption DEF Plane!PolicyAssumption
  <2>3. QED
    BY <2>1, <2>2 DEF Plane!Fresh
<1>3. QED
  BY <1>1, <1>2 DEF PlaneInv

LEMMA GatewayInit == Init => GatewayInv
<1> SUFFICES ASSUME Init PROVE GatewayInv
  OBVIOUS
<1>1. PICK work \in Workloads : req = [r \in Requests |-> Fresh(work[r])]
  BY DEF Init
<1>2. \A r \in Requests : IsReq(req[r]) /\ req[r].pc = "new" /\ req[r].status = "none"
  BY <1>1, FreshIsReq
<1>3. ReqShape
  BY <1>1, <1>2 DEF ReqShape
<1>4. task = [r \in Requests |-> Router!Idle] /\ loop = NoRequest
  BY DEF Init, Router!Init
<1>5. TaskShape
  BY <1>4, IdleSound DEF TaskShape
<1>6. Local
  BY <1>2, <1>4, IdleSound, NoRequestIsNone DEF Local, Proper
<1>7. entries = << >> /\ Kept = {}
  BY DEF Init, Cache!Init, Kept
<1>8. EntriesShape /\ EntriesFit
  BY <1>7, EmptySeq DEF EntriesShape, EntriesFit
<1>9. PlaneInv
  BY PlaneInit DEF Init
<1>10. QED
  BY <1>3, <1>5, <1>6, <1>8, <1>9 DEF GatewayInv

LEMMA PlaneStep ==
  ASSUME PlaneInv,
         \/ UNCHANGED plane
         \/ Plane!Elapse
         \/ \E t \in Tenants : Plane!Get(t)
         \/ \E t \in Tenants, state \in AdminStates : Plane!SetTenantState(t, state)
  PROVE  PlaneInv'
<1> USE GatewayAssumption
    DEF PlaneInv, Plane!PolicyAssumption, Plane!TypeOK, Plane!Policy, Plane!Snapshot,
        Plane!Fresh
<1>1. CASE UNCHANGED plane
  BY <1>1 DEF plane
<1>2. CASE Plane!Elapse
  BY <1>2 DEF Plane!Elapse
<1>3. ASSUME NEW t \in Tenants, Plane!Get(t) PROVE PlaneInv'
  BY <1>3 DEF Plane!Get
<1>4. ASSUME NEW t \in Tenants, NEW state \in AdminStates, Plane!SetTenantState(t, state)
      PROVE  PlaneInv'
  <2>1. policies[t].policy_epoch + 1 \in 1 .. MaxEpoch /\ state \in Plane!TenantState
    BY <1>4 DEF Plane!SetTenantState, Plane!SetState
  <2>2. policies' \in [Tenants -> Plane!Policy]
        /\ \A u \in Tenants \ {t} : policies'[u] = policies[u]
    BY <1>4, <2>1 DEF Plane!SetTenantState, Plane!SetState
  <2>3. snapshots' \in [Tenants -> Plane!Snapshot] /\ snapshots'[t].age = PolicyTTL
        /\ \A u \in Tenants \ {t} : snapshots'[u] = snapshots[u]
    <3> DEFINE new == [snapshots[t] EXCEPT !.age = PolicyTTL]
    <3>1. snapshots' = [snapshots EXCEPT ![t] = new]
      BY <1>4 DEF Plane!SetTenantState, Plane!Invalidate
    <3>2. snapshots[t] \in Plane!Snapshot /\ PolicyTTL \in 0 .. PolicyTTL
      OBVIOUS
    <3>3. new \in Plane!Snapshot /\ new.age = PolicyTTL
      BY <3>2
    <3> HIDE DEF new
    <3>4. QED
      BY <3>1, <3>3
  <2>4. Plane!TypeOK'
    BY <2>2, <2>3
  <2>5. ASSUME NEW u \in Tenants, Plane!Fresh(u)' PROVE snapshots'[u].policy = policies'[u]
    <3>1. PolicyTTL \in Nat /\ ~(PolicyTTL < PolicyTTL)
      OBVIOUS
    <3>2. u # t
      BY <2>3, <2>5, <3>1
    <3>3. snapshots'[u] = snapshots[u] /\ policies'[u] = policies[u]
      BY <2>2, <2>3, <3>2
    <3>4. QED
      BY <2>5, <3>3
  <2>6. QED
    BY <2>4, <2>5
<1>5. QED
  BY <1>1, <1>2, <1>3, <1>4

\* The others' state is as it was, and none of them takes the loop.
LEMMA OthersProper ==
  ASSUME Local, NEW r \in Requests, OtherReqs(r), OtherTasks(r),
         loop' \in {loop, r, NoRequest}
  PROVE  \A u \in Requests \ {r} : Proper(u, req'[u], task'[u], loop')
<1> SUFFICES ASSUME NEW u \in Requests \ {r}
             PROVE  Proper(u, req'[u], task'[u], loop')
  OBVIOUS
<1>1. req'[u] = req[u] /\ task'[u] = task[u]
  BY DEF OtherReqs, OtherTasks
<1>2. Proper(u, req[u], task[u], loop)
  BY DEF Local
<1>3. loop' = u => loop = u
  BY NoRequestIsNone
<1>4. QED
  BY <1>1, <1>2, <1>3 DEF Proper

LEMMA KeyKept ==
  ASSUME NEW r \in Requests, NEW model, SameAsk(r)
  PROVE  KeyOf(req'[r], model) = KeyOf(req[r], model)
BY DEF SameAsk, KeyOf

LEMMA InvStep ==
  ASSUME GatewayInv, [Next]_vars
  PROVE  GatewayInv'
<1> USE DEF GatewayInv
<1>1. ASSUME NEW r \in Requests, Frame(r), loop' \in {loop, r, NoRequest},
             Proper(r, req'[r], task'[r], loop')
      PROVE  ReqShape' /\ TaskShape' /\ EntriesShape' /\ Local'
  BY <1>1, OthersProper DEF Frame, Local
<1>2. ASSUME Kept' \subseteq Kept PROVE EntriesFit'
  BY <1>2 DEF EntriesFit
<1>3. ASSUME NEW r \in Requests, Entered(r) PROVE GatewayInv'
  <2>1. Proper(r, req'[r], task'[r], loop')
    <3>1. Proper(r, req[r], task[r], loop)
      BY DEF Local
    <3>2. QED
      BY <1>3, <3>1, NoRequestIsNone DEF Entered, Proper
  <2>2. Kept' = Kept
    BY <1>3 DEF Entered, Kept
  <2>3. QED
    BY <1>1, <1>2, <1>3, <2>1, <2>2, PlaneStep DEF Entered
<1>4. ASSUME NEW r \in Requests, GoesOn(r) PROVE GatewayInv'
  BY <1>1, <1>2, <1>4, PlaneStep DEF GoesOn
<1>5. ASSUME NEW r \in Requests, TurnedAway(r) PROVE GatewayInv'
  <2>1. Proper(r, req'[r], task'[r], loop')
    BY <1>5, NoRequestIsNone DEF TurnedAway, Proper
  <2>2. QED
    BY <1>1, <1>2, <1>5, <2>1, PlaneStep DEF TurnedAway
<1>6. ASSUME NEW r \in Requests, NEW value, Answered(r, value) PROVE GatewayInv'
  <2>1. Fits(KeyOf(req'[r], req'[r].model), req'[r].answer)
    BY <1>6, KeyKept DEF Answered
  <2>2. Proper(r, req'[r], task'[r], loop')
    BY <1>6, <2>1, NoRequestIsNone DEF Answered, Proper
  <2>3. EntriesFit'
    <3> DEFINE new == [key |-> KeyOf(req[r], req'[r].model), value |-> value, age |-> 0]
    <3>1. Fits(new.key, new.value)
      BY <1>6 DEF Answered
    <3>2. Kept' \subseteq Kept \cup {new}
      BY <1>6 DEF Answered
    <3> HIDE DEF new
    <3>3. QED
      BY <3>1, <3>2 DEF EntriesFit
  <2>4. QED
    BY <1>1, <1>6, <2>2, <2>3, PlaneStep DEF Answered
<1>7. CASE Passes
  <2>1. ReqShape' /\ TaskShape' /\ EntriesShape' /\ Local'
    BY <1>7 DEF Passes, ReqShape, TaskShape, Local
  <2>2. EntriesFit'
    BY <1>7 DEF Passes, EntriesFit
  <2>3. PlaneInv'
    BY <1>7, PlaneStep DEF Passes
  <2>4. QED
    BY <2>1, <2>2, <2>3
<1>8. QED
  BY <1>3, <1>4, <1>5, <1>6, <1>7, NextKind DEF StepKind

LEMMA GatewayInductive ==
  /\ Init => GatewayInv
  /\ GatewayInv /\ [Next]_vars => GatewayInv'
BY GatewayInit, InvStep

-----------------------------------------------------------------------------
(***************************************************************************)
(* The refinement of ChatService.                                           *)
(***************************************************************************)
LEMMA MemoryIs == Memory = {e.value.asker : e \in Kept}
BY DEF Memory, Kept

LEMMA MemoryShrinks ==
  ASSUME Kept' \subseteq Kept
  PROVE  Memory' \subseteq Memory
<1>1. Memory' = {e.value.asker : e \in Kept'}
  BY DEF Memory, Kept
<1>2. QED
  BY <1>1, MemoryIs

\* What the service sees of a step of one request.
LEMMA Seen ==
  ASSUME NEW r \in Requests, OtherReqs(r), OtherTasks(r)
  PROVE  /\ \A s : Stage'[r] = s => Stage' = [Stage EXCEPT ![r] = s]
         /\ Ask' = [Ask EXCEPT ![r] = Ask'[r]]
         /\ MadeFor' = [MadeFor EXCEPT ![r] = MadeFor'[r]]
         /\ task'[r].called = {} => Calling' = Calling \ {r}
         /\ task'[r].called # {} => Calling' = Calling \cup {r}
<1> USE DEF OtherReqs, OtherTasks
<1>1. \A s : Stage'[r] = s => Stage' = [Stage EXCEPT ![r] = s]
  BY DEF Stage
<1>2. Ask' = [Ask EXCEPT ![r] = Ask'[r]]
  BY DEF Ask, Asker, Tenant
<1>3. MadeFor' = [MadeFor EXCEPT ![r] = MadeFor'[r]]
  BY DEF MadeFor
<1>4. /\ task'[r].called = {} => Calling' = Calling \ {r}
      /\ task'[r].called # {} => Calling' = Calling \cup {r}
  BY DEF Calling
<1>5. QED
  BY <1>1, <1>2, <1>3, <1>4

LEMMA Stages ==
  ASSUME NEW r \in Requests
  PROVE  /\ req[r].pc = "new" => Stage[r] = "outside"
         /\ req[r].pc \in Inside => Stage[r] = "inside"
         /\ req[r].pc = "done" => Stage[r] = "gone"
         /\ req'[r].pc \in Inside => Stage'[r] = "inside"
         /\ req'[r].pc = "done" => Stage'[r] = "gone"
BY DEF Stage, Inside

\* Nothing is seen of r but where it is.
LEMMA SeenSame ==
  ASSUME NEW r \in Requests, OtherReqs(r), OtherTasks(r), SameAsk(r)
  PROVE  /\ Ask' = Ask
         /\ req'[r].answer = req[r].answer => MadeFor' = MadeFor
<1>1. Ask'[r] = Ask[r]
  BY DEF SameAsk, Ask, Asker, Tenant
<1>2. Ask' = Ask
  <2>1. Ask' = [Ask EXCEPT ![r] = Ask'[r]]
    BY Seen
  <2>2. Ask = [u \in Requests |-> Ask[u]]
    BY DEF Ask
  <2> HIDE DEF Ask
  <2>3. QED
    BY <1>1, <2>1, <2>2
<1>3. req'[r].answer = req[r].answer => MadeFor' = MadeFor
  BY DEF MadeFor, OtherReqs
<1>4. QED
  BY <1>2, <1>3

LEMMA ServiceInit == Init => Service!Init
<1> SUFFICES ASSUME Init PROVE Service!Init
  OBVIOUS
<1>1. \A r \in Requests : req[r].pc = "new"
  BY FreshIsReq DEF Init
<1>2. Stage = [r \in Requests |-> "outside"]
  BY <1>1 DEF Stage
<1>3. Calling = {}
  BY IdleSound DEF Init, Router!Init, Calling
<1>4. Memory = {}
  BY DEF Init, Cache!Init, Memory
<1>5. BlockedTenants \subseteq Tenants
  BY DEF BlockedTenants
<1>6. QED
  BY <1>2, <1>3, <1>4, <1>5 DEF Service!Init

LEMMA EnteredAdmits ==
  ASSUME GatewayInv, NEW r \in Requests, Entered(r)
  PROVE  Service!Admit(r)
<1> DEFINE t == req'[r].identity.tenant_id
<1>1. t \in Tenants /\ UNCHANGED policies /\ ~Blocked(Plane!View(t))
  BY DEF Entered, Plane!Get
<1>2. Plane!View(t) = policies[t]
  BY <1>1 DEF GatewayInv, PlaneInv, Plane!View
<1>3. Ask'[r].tenant_id = t
  BY DEF Ask, Asker, Tenant
<1>4. BlockedTenants' = BlockedTenants /\ Ask'[r].tenant_id \notin BlockedTenants
  BY <1>1, <1>2, <1>3 DEF BlockedTenants
<1>5. Memory' = Memory /\ Calling' = Calling
  BY DEF Entered, Memory, Calling
<1>6. Stage[r] = "outside" /\ Stage'[r] = "inside"
  BY Stages DEF Entered, Inside
<1>7. MadeFor' = MadeFor
  BY DEF Entered, Frame, OtherReqs, MadeFor
<1>8. Stage' = [Stage EXCEPT ![r] = "inside"] /\ Ask' = [Ask EXCEPT ![r] = Ask'[r]]
  BY <1>6, Seen DEF Entered, Frame
<1>9. QED
  BY <1>4, <1>5, <1>6, <1>7, <1>8 DEF Service!Admit

LEMMA GoesOnCalls ==
  ASSUME GatewayInv, NEW r \in Requests, GoesOn(r)
  PROVE  Service!Call(r) \/ Service!Forget
<1>1. BlockedTenants' = BlockedTenants
  BY DEF GoesOn, plane, BlockedTenants
<1>2. Memory' \subseteq Memory
  BY MemoryShrinks DEF GoesOn
<1>3. Stage[r] = "inside" /\ Stage'[r] = Stage[r]
  BY Stages DEF GoesOn
<1>4. Stage' = Stage
  <2>1. Stage' = [Stage EXCEPT ![r] = Stage[r]]
    BY <1>3, Seen DEF GoesOn, Frame
  <2>2. Stage = [u \in Requests |-> Stage[u]]
    BY DEF Stage
  <2> HIDE DEF Stage
  <2>3. QED
    BY <2>1, <2>2
<1>5. Ask' = Ask /\ MadeFor' = MadeFor
  BY SeenSame DEF GoesOn, Frame
<1>6. CASE task'[r].called # {}
  <2>1. Calling' = Calling \cup {r}
    BY <1>6, Seen DEF GoesOn, Frame
  <2>2. QED
    BY <1>1, <1>2, <1>3, <1>4, <1>5, <2>1 DEF Service!Call
<1>7. CASE task'[r].called = {}
  <2>1. task[r].called = {}
    BY <1>7 DEF GoesOn
  <2>2. Calling' = Calling \ {r} /\ r \notin Calling
    BY <1>7, <2>1, Seen DEF GoesOn, Frame, Calling
  <2>3. QED
    BY <1>1, <1>2, <1>4, <1>5, <2>2 DEF Service!Forget
<1>8. QED
  BY <1>6, <1>7

LEMMA TurnedAwayRefuses ==
  ASSUME NEW r \in Requests, TurnedAway(r)
  PROVE  Service!Refuse(r)
<1>1. BlockedTenants' = BlockedTenants
  BY DEF TurnedAway, plane, Plane!Get, BlockedTenants
<1>2. Memory' \subseteq Memory
  BY MemoryShrinks DEF TurnedAway
<1>3. Stage[r] # "gone" /\ Stage'[r] = "gone"
  BY Stages DEF TurnedAway
<1>4. Stage' = [Stage EXCEPT ![r] = "gone"] /\ Calling' = Calling \ {r}
  BY <1>3, Seen DEF TurnedAway, Frame
<1>5. Ask' = Ask /\ MadeFor' = MadeFor
  BY SeenSame DEF TurnedAway, Frame
<1>6. QED
  BY <1>1, <1>2, <1>3, <1>4, <1>5 DEF Service!Refuse, Service!Leave

LEMMA AnsweredReplies ==
  ASSUME NEW r \in Requests, NEW value, Answered(r, value)
  PROVE  Service!Reply(r)
<1>1. BlockedTenants' = BlockedTenants
  BY DEF Answered, plane, BlockedTenants
<1>2. Stage[r] = "inside" /\ Stage'[r] = "gone"
  BY Stages DEF Answered
<1>3. Stage' = [Stage EXCEPT ![r] = "gone"] /\ Calling' = Calling \ {r}
  BY <1>2, Seen DEF Answered, Frame
<1>4. Ask' = Ask /\ MadeFor' = [MadeFor EXCEPT ![r] = MadeFor'[r]]
  BY SeenSame, Seen DEF Answered, Frame
<1>5. MadeFor'[r] = value.asker
  BY DEF Answered, MadeFor
<1>6. value.asker.ask = Ask[r]
  <2>1. value.asker = AskerOf(KeyOf(req[r], req'[r].model))
    BY DEF Answered, Fits
  <2>2. Ask[r] = Asker(r, NoModel).ask
    BY DEF Ask
  <2>3. QED
    BY <2>1, <2>2 DEF AskerOf, KeyOf, Asker, Tenant
<1>7. CASE Kept' \subseteq Kept /\ \E e \in Kept : e.value = value
  <2>1. value.asker \in Memory /\ Memory' \subseteq Memory
    BY <1>7, MemoryIs, MemoryShrinks
  <2>2. QED
    BY <1>1, <1>2, <1>3, <1>4, <1>5, <1>6, <2>1 DEF Service!Reply, Service!Leave
<1>8. ASSUME task[r].called # {}, NEW new, new.value = value, Kept' \subseteq Kept \cup {new}
      PROVE  Service!Reply(r)
  <2>1. r \in Calling
    BY <1>8 DEF Calling
  <2>2. Memory' = {e.value.asker : e \in Kept'}
    BY DEF Memory, Kept
  <2>3. Memory' \subseteq Memory \cup {value.asker}
    BY <1>8, <2>2, MemoryIs
  <2>4. QED
    BY <1>1, <1>2, <1>3, <1>4, <1>5, <1>6, <2>1, <2>3 DEF Service!Reply, Service!Leave
<1>9. QED
  BY <1>7, <1>8 DEF Answered

LEMMA PassesUnseen ==
  ASSUME Passes
  PROVE  Service!Block \/ UNCHANGED Service!vars
<1>1. Stage' = Stage /\ Ask' = Ask /\ Calling' = Calling /\ MadeFor' = MadeFor
  BY DEF Passes, Stage, Ask, Asker, Tenant, Calling, MadeFor
<1>2. Memory' = Memory
  <2>1. Memory' = {e.value.asker : e \in Kept'}
    BY DEF Memory, Kept
  <2>2. QED
    BY <2>1, MemoryIs DEF Passes
<1>3. BlockedTenants' \subseteq Tenants
  BY DEF BlockedTenants
<1>4. QED
  BY <1>1, <1>2, <1>3 DEF Service!Block

LEMMA ServiceStep ==
  ASSUME GatewayInv, [Next]_vars
  PROVE  [Service!Next]_(Service!vars)
BY NextKind, EnteredAdmits, GoesOnCalls, TurnedAwayRefuses, AnsweredReplies, PassesUnseen
DEF StepKind, Service!Next

-----------------------------------------------------------------------------
\* A snapshot never lets a request of a blocked tenant in, for every TTL and
\* however changes, reads and ticks interleave (pipeline.enforce_kill_switch,
\* admin_routes.set_tenant_state).
THEOREM KillSwitchHolds == Spec => KillSwitchImmediate
<1> DEFINE Gate == \A r \in Requests :
             req[r].pc = "new" /\ req'[r].pc = "reading" => ~Blocked(policies[Tenant(r)'])
<1>1. ASSUME GatewayInv, [Next]_vars PROVE Gate
  <2> SUFFICES ASSUME NEW r \in Requests, req[r].pc = "new", req'[r].pc = "reading"
               PROVE  ~Blocked(policies[req'[r].identity.tenant_id])
    BY DEF Tenant
  <2>1. Entered(r)
    <3>1. ASSUME NEW u \in Requests, Frame(u), u # r PROVE FALSE
      BY <3>1 DEF Frame, OtherReqs
    <3>2. Entered(r) \/ GoesOn(r) \/ TurnedAway(r) \/ \E value : Answered(r, value)
      BY <1>1, <3>1, NextKind
      DEF StepKind, Entered, GoesOn, TurnedAway, Answered, Passes
    <3>3. QED
      BY <3>2 DEF GoesOn, TurnedAway, Answered, Inside
  <2> DEFINE t == req'[r].identity.tenant_id
  <2>2. t \in Tenants /\ ~Blocked(Plane!View(t))
    BY <2>1 DEF Entered
  <2>3. Plane!View(t) = policies[t]
    BY <1>1, <2>2 DEF GatewayInv, PlaneInv, Plane!View
  <2>4. QED
    BY <2>2, <2>3
<1>2. QED
  BY <1>1, GatewayInductive, PTL DEF Spec, KillSwitchImmediate

\* Every answer was made for the question it answers, by a model of its route:
\* the cache's key tells apart all that an answer may depend on
\* (cache/keys.py, routes.py:206-285).
THEOREM AnswersFit == Spec => []AnswerFits
<1>1. GatewayInv => AnswerFits
  <2> SUFFICES ASSUME GatewayInv, NEW r \in Requests, req[r].status = "ok"
               PROVE  /\ req[r].answer.asker = Asker(r, req[r].model)
                      /\ OnRoute(req[r].answer.model_id,
                                 Router!Candidates(req[r].model, Cfg(r).route_set))
    BY DEF AnswerFits, OnRoute
  <2>1. Fits(KeyOf(req[r], req[r].model), req[r].answer)
    BY DEF GatewayInv, Local, Proper
  <2>2. AskerOf(KeyOf(req[r], req[r].model)) = Asker(r, req[r].model)
    BY KeyIs
  <2>3. QED
    BY <2>1, <2>2 DEF Fits, KeyOf, Cfg, Tenant
<1>2. QED
  BY <1>1, GatewayInductive, PTL DEF Spec

\* Neither a cached JSON answer nor one made now is a text that a completed check
\* blocks, but for the bypass (guardrails/fail_closed.py), and text goes out
\* unchecked to those only who asked for a stream (routes.py:148-175).
THEOREM AnswersSafe == Spec => []NoUnsafeAnswer
<1>1. GatewayInv => NoUnsafeAnswer
  BY SafeIs DEF GatewayInv, NoUnsafeAnswer, Local, Proper, Fits, KeyOf
<1>2. QED
  BY <1>1, GatewayInductive, PTL DEF Spec

\* No model is sent a prompt that a completed check blocks, but for the bypass.
THEOREM PromptsSafe == Spec => []NoUnsafePrompt
<1>1. GatewayInv => NoUnsafePrompt
  BY SafeIs DEF GatewayInv, NoUnsafePrompt, Local, Proper
<1>2. QED
  BY <1>1, GatewayInductive, PTL DEF Spec

\* The chat handler with all its parts does what ChatService promises.
THEOREM GatewayImplementsService == Spec => ImplementsService
<1>1. GatewayInv /\ [Next]_vars => [Service!Next]_(Service!vars)
  BY ServiceStep
<1>2. QED
  BY <1>1, ServiceInit, GatewayInductive, PTL DEF Spec, ImplementsService, Service!Spec
-----------------------------------------------------------------------------
(***************************************************************************)
(* The debug records.  A record is made with the answer it is a copy of, and *)
(* whoever was answered is not heard of again.                              *)
(***************************************************************************)
DebugOver(S) ==
  [tenant_id : S, redacted_input : S, redacted_output : S, age : S]

IsRecord(x) == \E S : x \in DebugOver(S)

RecordsShape ==
  /\ records = [id \in RequestIds |-> records[id]]
  /\ \A id \in RequestIds : Debug!Held(id) => IsRecord(records[id])

\* x is the copy of what the request with this id asked and got.
CopyFor(id, x) ==
  \E r \in Requests :
    /\ RequestId(r) = id
    /\ req[r].status = "ok"
    /\ Cfg(r).debug_capture_enabled
    /\ x.tenant_id = Tenant(r)
    /\ x.redacted_input = req[r].shape.prompt \ Guardrail!Pii
    /\ x.redacted_output = req[r].answer.text \ Guardrail!Pii

RecordsInv == RecordsShape /\ RecordsAnswersOnly

\* y holds nothing, or what x does.
Remains(x, y) ==
  y # NoRecord =>
    /\ IsRecord(y) /\ x # NoRecord
    /\ y.tenant_id = x.tenant_id
    /\ y.redacted_input = x.redacted_input
    /\ y.redacted_output = x.redacted_output

LEMMA AnsweredStays ==
  ASSUME GatewayInv, [Next]_vars, NEW r \in Requests, req[r].status = "ok"
  PROVE  req'[r] = req[r]
<1>1. req[r].pc = "done"
  BY DEF GatewayInv, Local, Proper
<1>2. \A u \in Requests : Frame(u) /\ u # r => req'[r] = req[r]
  BY DEF Frame, OtherReqs
<1>3. QED
  BY <1>1, <1>2, NextKind
  DEF StepKind, Entered, GoesOn, TurnedAway, Answered, Passes, Inside

LEMMA CopyStays ==
  ASSUME GatewayInv, [Next]_vars, NEW id, NEW x, CopyFor(id, x)
  PROVE  CopyFor(id, x)'
<1>1. PICK r \in Requests :
        /\ RequestId(r) = id
        /\ req[r].status = "ok"
        /\ Cfg(r).debug_capture_enabled
        /\ x.tenant_id = Tenant(r)
        /\ x.redacted_input = req[r].shape.prompt \ Guardrail!Pii
        /\ x.redacted_output = req[r].answer.text \ Guardrail!Pii
  BY DEF CopyFor
<1>2. req'[r] = req[r]
  BY <1>1, AnsweredStays
<1>3. RequestId(r)' = RequestId(r) /\ Cfg(r)' = Cfg(r) /\ Tenant(r)' = Tenant(r)
  BY <1>2 DEF RequestId, Cfg, Tenant
<1>4. QED
  BY <1>1, <1>2, <1>3 DEF CopyFor

\* Records that remain or go are the copies they were.
LEMMA RemainingRecords ==
  ASSUME GatewayInv, [Next]_vars, RecordsInv,
         records' = [id \in RequestIds |-> records'[id]],
         \A id \in RequestIds : Remains(records[id], records'[id])
  PROVE  RecordsInv'
<1>1. RecordsShape'
  BY DEF RecordsShape, Remains, Debug!Held
<1>2. SUFFICES ASSUME NEW id \in RequestIds, records'[id] # NoRecord
               PROVE  CopyFor(id, records[id])'
  BY <1>1 DEF RecordsInv, RecordsAnswersOnly, CopyFor, Debug!Held
<1>3. CopyFor(id, records[id])
  BY <1>2 DEF RecordsInv, RecordsAnswersOnly, CopyFor, Remains, Debug!Held
<1>4. CopyFor(id, records[id])  /\ records'[id].tenant_id = records[id].tenant_id
      /\ records'[id].redacted_input = records[id].redacted_input
      /\ records'[id].redacted_output = records[id].redacted_output
  BY <1>2, <1>3 DEF Remains
<1>5. CopyFor(id, records'[id])
  BY <1>4 DEF CopyFor
<1>6. QED
  BY <1>5, CopyStays
LEMMA UntouchedRecords ==
  ASSUME GatewayInv, [Next]_vars, RecordsInv, UNCHANGED records
  PROVE  RecordsInv'
<1>1. records' = [id \in RequestIds |-> records'[id]]
  BY DEF RecordsInv, RecordsShape
<1>2. \A id \in RequestIds : Remains(records[id], records'[id])
  BY DEF RecordsInv, RecordsShape, Remains, Debug!Held
<1>3. QED
  BY <1>1, <1>2, RemainingRecords

LEMMA ReadRecords ==
  ASSUME GatewayInv, [Next]_vars, RecordsInv, NEW id \in RequestIds, Debug!Get(id)
  PROVE  RecordsInv'
<1>1. \A i \in RequestIds : records'[i] \in {records[i], NoRecord}
  BY DEF RecordsInv, RecordsShape, Debug!Get
<1>2. records' = [i \in RequestIds |-> records'[i]]
  BY DEF RecordsInv, RecordsShape, Debug!Get
<1>3. \A i \in RequestIds : Remains(records[i], records'[i])
  BY <1>1 DEF RecordsInv, RecordsShape, Remains, Debug!Held
<1>4. QED
  BY <1>2, <1>3, RemainingRecords

LEMMA OlderRecord ==
  ASSUME NEW x, IsRecord(x)
  PROVE  LET y == [x EXCEPT !.age = x.age + 1]
         IN  /\ IsRecord(y)
             /\ y.tenant_id = x.tenant_id
             /\ y.redacted_input = x.redacted_input
             /\ y.redacted_output = x.redacted_output
<1> DEFINE age == x.age + 1
           y == [x EXCEPT !.age = age]
<1> HIDE DEF age
<1>1. PICK S : x \in DebugOver(S)
  BY DEF IsRecord
<1>2. x \in DebugOver(S \cup {age}) /\ age \in S \cup {age}
  BY <1>1 DEF DebugOver
<1>3. /\ y \in DebugOver(S \cup {age})
      /\ y.tenant_id = x.tenant_id
      /\ y.redacted_input = x.redacted_input
      /\ y.redacted_output = x.redacted_output
  BY <1>2 DEF DebugOver
<1>4. QED
  BY <1>3 DEF IsRecord, age

LEMMA OlderRecords ==
  ASSUME GatewayInv, [Next]_vars, RecordsInv, Debug!Elapse
  PROVE  RecordsInv'
<1>1. records' = [id \in RequestIds |-> records'[id]]
  BY DEF Debug!Elapse
<1>2. ASSUME NEW id \in RequestIds PROVE Remains(records[id], records'[id])
  <2>1. CASE Debug!Held(id) /\ records[id].age < DebugTTL
    <3>1. records'[id] = [records[id] EXCEPT !.age = records[id].age + 1]
      BY <2>1 DEF Debug!Elapse
    <3>2. IsRecord(records[id]) /\ records[id] # NoRecord
      BY <2>1 DEF RecordsInv, RecordsShape, Debug!Held
    <3>3. QED
      BY <3>1, <3>2, OlderRecord DEF Remains
  <2>2. CASE ~(Debug!Held(id) /\ records[id].age < DebugTTL)
    <3>1. records'[id] = records[id]
      BY <2>2 DEF Debug!Elapse
    <3>2. QED
      BY <3>1 DEF RecordsInv, RecordsShape, Remains, Debug!Held
  <2>3. QED
    BY <2>1, <2>2
<1>3. QED
  BY <1>1, <1>2, RemainingRecords

\* An answer and, if the tenant opted in, its record.
LEMMA CapturedRecords ==
  ASSUME GatewayInv, [Next]_vars, RecordsInv, NEW r \in Requests, NEW m, NEW value,
         Answer(r, m, value), Capture(r, value.text)
  PROVE  RecordsInv'
<1>1. CASE ~Cfg(r).debug_capture_enabled
  BY <1>1, UntouchedRecords DEF Capture
<1>2. CASE Cfg(r).debug_capture_enabled
  <2> DEFINE input == req[r].shape.prompt \ Guardrail!Pii
             output == value.text \ Guardrail!Pii
             tenant == Tenant(r)
             new == [tenant_id |-> tenant, redacted_input |-> input,
                     redacted_output |-> output, age |-> 0]
  <2>1. records' = [records EXCEPT ![RequestId(r)] = new]
    BY <1>2 DEF Capture, Debug!Capture, Debug!Redact
  <2>2. /\ SameAsk(r) /\ req'[r].status = "ok" /\ req'[r].answer = value
    BY AnswerDoes DEF GatewayInv
  <2>3. /\ RequestId(r)' = RequestId(r) /\ Tenant(r)' = tenant
        /\ Cfg(r)' = Cfg(r)
    BY <2>2 DEF SameAsk, RequestId, Tenant, Cfg
  <2>4. req'[r].shape.prompt \ Guardrail!Pii = input
        /\ req'[r].answer.text \ Guardrail!Pii = output
    BY <2>2 DEF SameAsk
  <2> HIDE DEF input, output, tenant
  <2>5. /\ new \in DebugOver({tenant, input, output, 0})
        /\ new.tenant_id = tenant /\ new.redacted_input = input
        /\ new.redacted_output = output
    BY DEF DebugOver
  <2> HIDE DEF new
  <2>6. records' = [id \in RequestIds |-> records'[id]]
    BY <2>1 DEF RecordsInv, RecordsShape
  <2>7. ASSUME NEW id \in RequestIds, records'[id] # NoRecord
        PROVE  IsRecord(records'[id]) /\ CopyFor(id, records[id])'
    <3>1. CASE id = RequestId(r)
      <4>1. records'[id] = new
        BY <2>1, <3>1 DEF RecordsInv, RecordsShape
      <4>2. QED
        BY <1>2, <2>2, <2>3, <2>4, <2>5, <3>1, <4>1 DEF IsRecord, CopyFor
    <3>2. CASE id # RequestId(r)
      <4>1. records'[id] = records[id]
        BY <2>1, <3>2 DEF RecordsInv, RecordsShape
      <4>2. IsRecord(records[id]) /\ CopyFor(id, records[id])
        BY <2>7, <4>1 DEF RecordsInv, RecordsShape, RecordsAnswersOnly, CopyFor, Debug!Held
      <4>3. QED
        BY <4>1, <4>2, CopyStays
    <3>3. QED
      BY <3>1, <3>2
  <2>8. RecordsShape'
    BY <2>6, <2>7 DEF RecordsShape, Debug!Held
  <2>9. QED
    BY <2>7, <2>8 DEF RecordsInv, RecordsAnswersOnly, CopyFor, Debug!Held
<1>3. QED
  BY <1>1, <1>2

LEMMA RecordsStep ==
  ASSUME GatewayInv, [Next]_vars, RecordsInv
  PROVE  RecordsInv'
<1>1. ASSUME NEW r \in Requests, Resume(r) PROVE RecordsInv'
  <2>1. CASE AnswerFromCache(r)
    <3>1. PICK m \in Resolve(r) :
            /\ Capture(r, Cache!Value(CacheKey(r, m)).text)
            /\ Answer(r, m, Cache!Value(CacheKey(r, m)))
      BY <2>1 DEF AnswerFromCache
    <3> DEFINE value == Cache!Value(CacheKey(r, m))
    <3>2. Capture(r, value.text) /\ Answer(r, m, value)
      BY <3>1
    <3> HIDE DEF value
    <3>3. QED
      BY <3>2, CapturedRecords
  <2>2. QED
    BY <1>1, <2>1, UntouchedRecords
    DEF Resume, RejectBody, RejectModel, RejectInput, StartStream, AskRouter
<1>2. ASSUME NEW r \in Requests, Complete(r) PROVE RecordsInv'
  <2>1. ASSUME NEW text, AnswerFromModel(r, text) PROVE RecordsInv'
    <3>1. PICK result \in {"ALLOW", "ERROR"} :
            /\ Capture(r, text)
            /\ Answer(r, req[r].model, Result(r, text, result = "ALLOW"))
      BY <2>1 DEF AnswerFromModel
    <3> DEFINE value == Result(r, text, result = "ALLOW")
    <3>2. value.text = text
      BY DEF Result
    <3>3. Capture(r, value.text) /\ Answer(r, req[r].model, value)
      BY <3>1, <3>2
    <3> HIDE DEF value
    <3>4. QED
      BY <3>3, CapturedRecords
  <2>2. QED
    BY <1>2, <2>1, UntouchedRecords DEF Complete, UpstreamFailed, RejectOutput
<1>3. ASSUME NEW id \in RequestIds, ReadRecord(id) PROVE RecordsInv'
  BY <1>3, ReadRecords DEF ReadRecord
<1>4. CASE Tick
  BY <1>4, OlderRecords DEF Tick
<1>5. ASSUME UNCHANGED records PROVE RecordsInv'
  BY <1>5, UntouchedRecords
<1>6. QED
  BY <1>1, <1>2, <1>3, <1>4, <1>5
  DEF Next, vars, Admit, BodyArrives, Call, Stream, SetTenantState

LEMMA RecordsInit == Init => RecordsInv
BY DEF Init, Debug!Init, RecordsInv, RecordsShape, RecordsAnswersOnly, Debug!Held

\* A debug record is the redacted copy of an answered question of a tenant that
\* opted in, whatever ids the requests share (routes.py:194-198, 297-301,
\* debug_capture.py:58-67).
THEOREM RecordsOfAnswers == Spec => []RecordsAnswersOnly
<1>1. RecordsInv => RecordsAnswersOnly
  BY DEF RecordsInv
<1>2. QED
  BY <1>1, RecordsInit, RecordsStep, GatewayInductive, PTL DEF Spec

-----------------------------------------------------------------------------
(***************************************************************************)
(* The types, and the gateway's use of the router.                          *)
(***************************************************************************)
Typed(x) ==
  /\ x.pc \in {"new", "done"} \cup Inside
  /\ x.policy \in Plane!Policy \cup {NoPolicy}
  /\ x.model \in Models \cup {NoModel}
  /\ x.answer.text \in Texts
  /\ x.shape.model \in Models \cup {NoModel}
  /\ x.pc \in Inside => x.identity.tenant_id \in Tenants

\* A request inside is a tenant's, so that it resolves to a model there is, and
\* what is cached is what some model said.
TypedInv ==
  /\ \A r \in Requests : Typed(req[r])
  /\ \A e \in Kept : e.value.text \in Completions

\* The allowlist, the default and the request name models there are.
LEMMA ResolvesToModels ==
  ASSUME TypedInv, NEW r \in Requests, req[r].pc \in Inside
  PROVE  Resolve(r) \subseteq Models
<1>1. Tenant(r) \in Tenants /\ req[r].shape.model \in Models \cup {NoModel}
  BY DEF TypedInv, Typed, Tenant
<1> DEFINE allowed == Config[Tenant(r)].models
<1>2. allowed \in Seq(Models) /\ DefaultModel \in Models
  BY <1>1, NamesAssumption
<1>3. allowed # << >> => allowed[1] \in Models
  <2>1. allowed # << >> => 1 \in 1 .. Len(allowed)
    BY <1>2, EmptySeq
  <2>2. QED
    BY <1>2, <2>1, ElementOfSeq
<1>4. QED
  BY <1>1, <1>2, <1>3 DEF Resolve

LEMMA TypedInit == Init => TypedInv
<1> SUFFICES ASSUME Init PROVE TypedInv
  OBVIOUS
<1>1. PICK work \in Workloads : req = [r \in Requests |-> Fresh(work[r])]
  BY DEF Init
<1>2. ASSUME NEW r \in Requests PROVE Typed(req[r])
  <2>1. req[r] = Fresh(work[r])
    BY <1>1
  <2>2. /\ req[r].pc = "new" /\ req[r].policy = NoPolicy /\ req[r].model = NoModel
        /\ req[r].answer.text = {} /\ req[r].shape = work[r]
    BY <2>1 DEF Fresh, NoAnswer
  <2>3. work[r].model \in Models \cup {NoModel}
    BY NamesAssumption
  <2>4. QED
    BY <2>2, <2>3 DEF Typed, Texts, Inside
<1>3. Kept = {}
  BY DEF Init, Cache!Init, Kept
<1>4. QED
  BY <1>2, <1>3 DEF TypedInv

\* A tenant's view is a policy of the store.
LEMMA ViewIsPolicy ==
  ASSUME PlaneInv, NEW t \in Tenants
  PROVE  Plane!View(t) \in Plane!Policy
BY DEF PlaneInv, Plane!TypeOK, Plane!View, Plane!Snapshot

LEMMA TypedStep ==
  ASSUME GatewayInv, TypedInv, [Next]_vars
  PROVE  TypedInv'
<1>1. ASSUME NEW r \in Requests, OtherReqs(r), Typed(req'[r])
      PROVE  \A u \in Requests : Typed(req'[u])
  BY <1>1 DEF TypedInv, OtherReqs
<1>2. ASSUME Kept' \subseteq Kept
      PROVE  \A e \in Kept' : e.value.text \in Completions
  BY <1>2 DEF TypedInv
<1>3. ASSUME NEW r \in Requests PROVE Typed(req[r])
  BY DEF TypedInv
<1>4. ASSUME NEW r \in Requests, Entered(r) PROVE TypedInv'
  <2> DEFINE t == req'[r].identity.tenant_id
  <2>1. t \in Tenants /\ req'[r].policy = Plane!View(t) /\ req'[r].pc = "reading"
        /\ req'[r].shape = req[r].shape /\ req'[r].model = req[r].model
        /\ req'[r].answer = req[r].answer
    BY <1>4 DEF Entered
  <2>2. Plane!View(t) \in Plane!Policy
    BY <2>1, ViewIsPolicy DEF GatewayInv
  <2>3. Typed(req'[r])
    BY <1>3, <2>1, <2>2 DEF Typed, Inside
  <2>4. Kept' = Kept
    BY <1>4 DEF Entered, Kept
  <2>5. QED
    BY <1>1, <1>2, <1>4, <2>3, <2>4 DEF TypedInv, Entered, Frame
<1>5. ASSUME NEW r \in Requests, req[r].pc \in Inside, SameAsk(r),
             req'[r].model \in {req[r].model} \cup Resolve(r),
             req'[r].answer.text \in Texts, req'[r].pc \in {"done"} \cup Inside
      PROVE  Typed(req'[r])
  <2>1. Resolve(r) \subseteq Models
    BY <1>5, ResolvesToModels
  <2>2. QED
    BY <1>3, <1>5, <2>1 DEF Typed, SameAsk
<1>6. ASSUME NEW r \in Requests, GoesOn(r) PROVE TypedInv'
  <2>1. req'[r].answer.text \in Texts
    BY <1>3, <1>6 DEF GoesOn, Typed
  <2>2. Typed(req'[r])
    BY <1>5, <1>6, <2>1 DEF GoesOn
  <2>3. QED
    BY <1>1, <1>2, <1>6, <2>2 DEF TypedInv, GoesOn, Frame
<1>7. ASSUME NEW r \in Requests, TurnedAway(r) PROVE TypedInv'
  <2>1. Typed(req'[r])
    BY <1>3, <1>7 DEF TurnedAway, Typed, SameAsk, Inside
  <2>2. QED
    BY <1>1, <1>2, <1>7, <2>1 DEF TypedInv, TurnedAway, Frame
<1>8. ASSUME NEW r \in Requests, NEW value, Answered(r, value) PROVE TypedInv'
  <2> DEFINE new == [key |-> KeyOf(req[r], req'[r].model), value |-> value, age |-> 0]
  <2>1. value.text \in Completions
    BY <1>8 DEF Answered, TypedInv
  <2>2. Typed(req'[r])
    BY <1>5, <1>8, <2>1 DEF Answered, Texts
  <2>3. Kept' \subseteq Kept \cup {new}
    BY <1>8 DEF Answered
  <2>4. new.value = value
    OBVIOUS
  <2> HIDE DEF new
  <2>5. \A e \in Kept' : e.value.text \in Completions
    BY <2>1, <2>3, <2>4 DEF TypedInv
  <2>6. QED
    BY <1>1, <1>8, <2>2, <2>5 DEF TypedInv, Answered, Frame
<1>9. CASE Passes
  BY <1>9 DEF Passes, TypedInv
<1>10. QED
  BY <1>4, <1>6, <1>7, <1>8, <1>9, NextKind DEF StepKind

\* The rate limiter is asked for a tenant and its limit of the moment.
LEMMA LimitIsNat ==
  ASSUME NEW t \in Tenants
  PROVE  Limit(t) \in Nat
<1>1. Config[t].rpm_limit \in Nat
  BY NamesAssumption
<1>2. \A n \in Nat : n \div 5 \in Nat
  OBVIOUS
<1>3. QED
  BY <1>1, <1>2 DEF Limit, Limiter!EffectiveLimit

LEMMA LimiterInit == Init => Limiter!TypeOK
BY GatewayAssumption
DEF Init, Limiter!Init, Limiter!Full, Limiter!TypeOK, Limiter!Bucket, Limiter!Longest,
    Limiter!MinuteAssumption

LEMMA LimiterStep ==
  ASSUME Limiter!TypeOK, [Next]_vars
  PROVE  Limiter!TypeOK'
<1>1. Minute \in Nat \ {0} /\ buckets \in [Tenants -> Limiter!Bucket]
  BY GatewayAssumption DEF Limiter!MinuteAssumption, Limiter!TypeOK
<1>2. ASSUME UNCHANGED buckets PROVE Limiter!TypeOK'
  BY <1>2 DEF Limiter!TypeOK
<1>3. ASSUME NEW t \in Tenants, NEW limit \in Nat,
             Limiter!Allow(t, limit) \/ Limiter!Refuse(t, limit)
      PROVE  Limiter!TypeOK'
  <2>1. buckets[t].credit \in Nat /\ buckets[t].lag \in Nat
    BY <1>1 DEF Limiter!Bucket, Limiter!Longest
  <2>2. \A a, b \in Nat : a * b \in Nat
    OBVIOUS
  <2>3. buckets[t].lag * limit \in Nat /\ limit * Minute \in Nat
    BY <1>1, <2>1, <2>2
  <2>4. Limiter!Credit(t, limit) \in Nat
    BY <2>1, <2>3 DEF Limiter!Credit, Limiter!Refilled
  <2>5. \A short \in Limiter!Rounding(t, limit) : short \in BOOLEAN
    BY <1>1 DEF Limiter!Rounding, Limiter!Bucket
  <2> DEFINE c == Limiter!Credit(t, limit)
  <2>6. ASSUME NEW n \in Nat, NEW short \in BOOLEAN, Limiter!Put(t, n, short)
        PROVE  Limiter!TypeOK'
    <3>1. [credit |-> n, short |-> short, lag |-> 0] \in Limiter!Bucket
      BY <1>1 DEF Limiter!Bucket, Limiter!Longest
    <3>2. QED
      BY <1>1, <2>6, <3>1 DEF Limiter!Put, Limiter!TypeOK
  <2> HIDE DEF c
  <2>7. CASE Limiter!Allow(t, limit)
    <3>1. PICK short \in Limiter!Rounding(t, limit) :
            Limiter!Suffices(t, limit, short) /\ Limiter!Put(t, c - Minute, short)
      BY <2>7 DEF Limiter!Allow, c
    <3>2. c - Minute \in Nat
      BY <1>1, <2>4, <3>1 DEF Limiter!Suffices, c
    <3>3. QED
      BY <2>5, <2>6, <3>1, <3>2
  <2>8. CASE Limiter!Refuse(t, limit)
    BY <2>4, <2>5, <2>6, <2>8 DEF Limiter!Refuse
  <2>9. QED
    BY <1>3, <2>7, <2>8
<1>4. ASSUME NEW r \in Requests, Admit(r) PROVE Limiter!TypeOK'
  <2>1. ASSUME NEW t \in Tenants, Limiter!Allow(t, Limit(t)) \/ Limiter!Refuse(t, Limit(t))
        PROVE  Limiter!TypeOK'
    BY <1>3, <2>1, LimitIsNat
  <2>2. ASSUME NEW who, RejectCaller(r, who) PROVE Limiter!TypeOK'
    BY <1>2, <2>2 DEF RejectCaller
  <2>3. ASSUME NEW t, NEW identity,
               \/ RejectUnknown(r, t) \/ RejectBlocked(r, t) \/ RejectLimited(r, t)
               \/ Accept(r, t, identity)
        PROVE  Limiter!TypeOK'
    BY <1>2, <2>1, <2>3 DEF RejectUnknown, RejectBlocked, RejectLimited, Accept
  <2>4. QED
    BY <1>4, <2>2, <2>3 DEF Admit
<1>5. CASE Tick
  <2>1. Limiter!Full \in Limiter!Bucket
    BY <1>1 DEF Limiter!Full, Limiter!Bucket, Limiter!Longest
  <2>2. ASSUME NEW b \in Limiter!Bucket, b.lag < Minute
        PROVE  [b EXCEPT !.lag = @ + 1] \in Limiter!Bucket
    BY <1>1, <2>2 DEF Limiter!Bucket, Limiter!Longest
  <2>3. QED
    BY <1>1, <1>5, <2>1, <2>2 DEF Tick, Limiter!Elapse, Limiter!TypeOK
<1>6. ASSUME NEW r \in Requests,
             BodyArrives(r) \/ Resume(r) \/ Call(r) \/ Complete(r) \/ Stream(r)
      PROVE  UNCHANGED buckets
  BY <1>6 DEF BodyArrives, Resume, Call, Complete, Stream
<1>7. ASSUME NEW t, NEW state, SetTenantState(t, state) PROVE UNCHANGED buckets
  BY <1>7 DEF SetTenantState
<1>8. ASSUME NEW id, ReadRecord(id) PROVE UNCHANGED buckets
  BY <1>8 DEF ReadRecord
<1>9. CASE UNCHANGED vars
  BY <1>2, <1>9 DEF vars
<1>10. QED
  BY <1>2, <1>4, <1>5, <1>6, <1>7, <1>8, <1>9 DEF Next

\* Every step of a handler is a step of Routing, or none of the router's.
LEMMA RouterStep ==
  ASSUME TypedInv, [Next]_vars
  PROVE  [Router!Next]_(Router!vars)
<1>1. ASSUME UNCHANGED <<breakers, task, loop>>
      PROVE  [Router!Next]_(Router!vars)
  BY <1>1 DEF Router!vars
<1>2. ASSUME NEW r \in Requests, Resume(r) PROVE [Router!Next]_(Router!vars)
  <2>1. loop = NoRequest /\ req[r].pc = "ready"
    BY <1>2 DEF Resume
  <2>2. Resolve(r) \subseteq Models
    BY <2>1, ResolvesToModels DEF Inside
  <2>3. Cfg(r).route_set \in DOMAIN RouteSets \cup {NoRouteSet}
    <3>1. Tenant(r) \in Tenants
      BY <2>1 DEF TypedInv, Typed, Inside, Tenant
    <3>2. QED
      BY <3>1, NamesAssumption DEF Cfg
  <2>4. CASE RejectBody(r) \/ RejectModel(r) \/ RejectInput(r) \/ AnswerFromCache(r)
    BY <1>1, <2>4 DEF RejectBody, RejectModel, RejectInput, AnswerFromCache, upstream
  <2>5. CASE StartStream(r)
    <3>1. PICK m \in Resolve(r) : Router!OpenStream(r, m) \/ Router!RefuseStream(r, m)
      BY <2>5 DEF StartStream
    <3>2. m \in Models /\ UNCHANGED loop
      BY <2>2, <2>5 DEF StartStream
    <3>3. Router!Stream(r)
      BY <2>1, <3>1, <3>2 DEF Router!Stream
    <3>4. QED
      BY <3>3 DEF Router!Next
  <2>6. CASE AskRouter(r)
    <3>1. PICK m \in Resolve(r) : Router!Converse(r, m, Cfg(r).route_set)
      BY <2>6 DEF AskRouter
    <3>2. m \in Models /\ loop' = r
      BY <2>2, <2>6 DEF AskRouter
    <3>3. Router!Begin(r)
      BY <2>1, <2>3, <3>1, <3>2 DEF Router!Begin
    <3>4. QED
      BY <3>3 DEF Router!Next
  <2>7. QED
    BY <1>2, <2>4, <2>5, <2>6 DEF Resume
<1>3. ASSUME NEW r \in Requests, Call(r) PROVE Router!Run(r)
  BY <1>3 DEF Call, Router!Run
<1>4. ASSUME NEW r \in Requests, Complete(r) PROVE Router!Return(r)
  BY <1>4 DEF Complete, Router!Return
<1>5. ASSUME NEW r \in Requests, Stream(r) PROVE Router!Stream(r)
  BY <1>5 DEF Stream, Router!Stream
<1>6. CASE Tick
  BY <1>6 DEF Tick, Router!Tick, Router!Next
<1>7. ASSUME NEW r \in Requests, Admit(r) \/ BodyArrives(r)
      PROVE  UNCHANGED <<breakers, task, loop>>
  BY <1>7 DEF Admit, BodyArrives, upstream
<1>8. ASSUME NEW t, NEW state, SetTenantState(t, state)
      PROVE  UNCHANGED <<breakers, task, loop>>
  BY <1>8 DEF SetTenantState, upstream
<1>9. ASSUME NEW id, ReadRecord(id) PROVE UNCHANGED <<breakers, task, loop>>
  BY <1>9 DEF ReadRecord, upstream
<1>10. CASE UNCHANGED vars
  BY <1>1, <1>10 DEF vars
<1>11. QED
  BY <1>1, <1>2, <1>3, <1>4, <1>5, <1>6, <1>7, <1>8, <1>9, <1>10 DEF Next, Router!Next

\* What RoutingProofs calls Init and Next is what the gateway's router does.
LEMMA RouterInitSame == Router!Init <=> RouterFacts!Init
BY DEF Router!Init, RouterFacts!Init, Router!Idle, RouterFacts!Idle,
       Router!Breaker!Init, RouterFacts!Breaker!Init

LEMMA RouterNextSame == [Router!Next]_(Router!vars) <=> [RouterFacts!Next]_(RouterFacts!vars)
BY DEF
  Router!Next, RouterFacts!Next, Router!vars, RouterFacts!vars,
  Router!Begin, RouterFacts!Begin, Router!Run, RouterFacts!Run,
  Router!Return, RouterFacts!Return, Router!Stream, RouterFacts!Stream,
  Router!Tick, RouterFacts!Tick, Router!Reset, RouterFacts!Reset,
  Router!Idle, RouterFacts!Idle, Router!Converse, RouterFacts!Converse,
  Router!Candidates, RouterFacts!Candidates,
  Router!FallbacksFor, RouterFacts!FallbacksFor,
  Router!ConverseStep, RouterFacts!ConverseStep, Router!Skip, RouterFacts!Skip,
  Router!Dispatch, RouterFacts!Dispatch, Router!Succeed, RouterFacts!Succeed,
  Router!Fail, RouterFacts!Fail, Router!Retry, RouterFacts!Retry,
  Router!GiveUp, RouterFacts!GiveUp, Router!AtCandidate, RouterFacts!AtCandidate,
  Router!Exhausted, RouterFacts!Exhausted, Router!Finish, RouterFacts!Finish,
  Router!OpenStream, RouterFacts!OpenStream,
  Router!RefuseStream, RouterFacts!RefuseStream,
  Router!StreamStep, RouterFacts!StreamStep, Router!FirstPull, RouterFacts!FirstPull,
  Router!StreamEnd, RouterFacts!StreamEnd, Router!StreamError, RouterFacts!StreamError,
  Router!StreamAbort, RouterFacts!StreamAbort,
  Router!StreamDropped, RouterFacts!StreamDropped,
  Router!Breaker!Allow, RouterFacts!Breaker!Allow,
  Router!Breaker!Refuse, RouterFacts!Breaker!Refuse,
  Router!Breaker!MayCall, RouterFacts!Breaker!MayCall,
  Router!Breaker!RecordSuccess, RouterFacts!Breaker!RecordSuccess,
  Router!Breaker!RecordFailure, RouterFacts!Breaker!RecordFailure,
  Router!Breaker!Trips, RouterFacts!Breaker!Trips,
  Router!Breaker!UpTo, RouterFacts!Breaker!UpTo,
  Router!Breaker!Elapse, RouterFacts!Breaker!Elapse

LEMMA RouterTypeSame == Router!TypeOK <=> RouterFacts!TypeOK
BY DEF
  Router!TypeOK, RouterFacts!TypeOK, Router!Task, RouterFacts!Task,
  Router!Phase, RouterFacts!Phase, Router!Routes, RouterFacts!Routes,
  Router!Outcome, RouterFacts!Outcome, Router!Candidates, RouterFacts!Candidates,
  Router!FallbacksFor, RouterFacts!FallbacksFor,
  Router!Breaker!TypeOK, RouterFacts!Breaker!TypeOK,
  Router!Breaker!ModelBreaker, RouterFacts!Breaker!ModelBreaker,
  Router!Breaker!BreakerState, RouterFacts!Breaker!BreakerState

\* What RoutingProofs assumes of the constants the gateway assumes as well.
LEMMA RouterAssumes == RouterFacts!RoutingAssumption
BY GatewayAssumption
DEF Router!RoutingAssumption, RouterFacts!RoutingAssumption,
    Router!Breaker!BreakerAssumption, RouterFacts!Breaker!BreakerAssumption

\* The breakers and the handlers' calls are all that RoutingProofs' invariant is
\* about, so that it is one of the gateway's.
LEMMA RouterSure ==
  /\ Router!Init => RouterFacts!Sure
  /\ RouterFacts!Sure /\ [Router!Next]_(Router!vars) => RouterFacts!Sure'
  /\ RouterFacts!Sure =>
       /\ RouterFacts!Breaker!StateMatchesCount
       /\ RouterFacts!NoCandidateIgnored
       /\ RouterFacts!FallbackFlagTruthful
BY RouterAssumes, RouterInitSame, RouterNextSame, RouterFacts!SureAlways

-----------------------------------------------------------------------------
(***************************************************************************)
(* What a handler holds of the policy across its awaits.                     *)
(***************************************************************************)
\* Beside the store's policy now, a policy that was the store's.
Held(held, now) ==
  /\ ~Blocked(held)
  /\ held.policy_epoch <= now.policy_epoch
  /\ held.policy_epoch = now.policy_epoch => held = now

\* The store's policies, each as it was or the next epoch's.
Moves(t) ==
  \/ policies'[t] = policies[t]
  \/ policies'[t].policy_epoch = policies[t].policy_epoch + 1

LEMMA PoliciesMove ==
  ASSUME PlaneInv,
         \/ UNCHANGED plane
         \/ Plane!Elapse
         \/ \E t \in Tenants : Plane!Get(t)
         \/ \E t \in Tenants, state \in AdminStates : Plane!SetTenantState(t, state)
  PROVE  \A t \in Tenants : Moves(t)
<1>1. CASE UNCHANGED policies
  BY <1>1 DEF Moves
<1>2. ASSUME NEW t \in Tenants, NEW state \in AdminStates, Plane!SetTenantState(t, state)
      PROVE  \A u \in Tenants : Moves(u)
  <2> DEFINE next == [state |-> state, policy_epoch |-> policies[t].policy_epoch + 1]
  <2>1. policies' = [policies EXCEPT ![t] = next]
    BY <1>2 DEF Plane!SetTenantState, Plane!SetState
  <2>2. next.policy_epoch = policies[t].policy_epoch + 1
    OBVIOUS
  <2> HIDE DEF next
  <2>3. policies'[t] = next /\ \A u \in Tenants \ {t} : policies'[u] = policies[u]
    BY <2>1 DEF PlaneInv, Plane!TypeOK
  <2>4. QED
    BY <2>2, <2>3 DEF Moves
<1>3. QED
  BY <1>1, <1>2 DEF plane, Plane!Elapse, Plane!Get

\* A policy that was the store's stays one.
LEMMA HeldStays ==
  ASSUME NEW t \in Tenants, PlaneInv, PlaneInv', Moves(t),
         NEW held \in Plane!Policy \cup {NoPolicy}, Held(held, policies[t])
  PROVE  Held(held, policies'[t])
<1>1. held.policy_epoch \in Nat
  BY DEF Plane!Policy, NoPolicy
<1>2. policies[t].policy_epoch \in Nat
  BY DEF PlaneInv, Plane!TypeOK, Plane!Policy
<1>3. CASE policies'[t] = policies[t]
  BY <1>3
<1>4. CASE policies'[t].policy_epoch = policies[t].policy_epoch + 1
  BY <1>1, <1>2, <1>4 DEF Held
<1>5. QED
  BY <1>3, <1>4 DEF Moves

HeldInv ==
  \A r \in Requests :
    req[r].pc \in Inside => Held(req[r].policy, policies[req[r].identity.tenant_id])

LEMMA HeldInit == Init => HeldInv
<1> SUFFICES ASSUME Init, NEW r \in Requests PROVE req[r].pc \notin Inside
  BY DEF HeldInv
<1>1. PICK work \in Workloads : req = [u \in Requests |-> Fresh(work[u])]
  BY DEF Init
<1>2. req[r].pc = "new"
  BY <1>1 DEF Fresh
<1>3. QED
  BY <1>2 DEF Inside

\* A request enters with the store's policy, keeps it, and the store goes on.
LEMMA HeldStep ==
  ASSUME GatewayInv, TypedInv, HeldInv, [Next]_vars
  PROVE  HeldInv'
<1>1. PlaneInv /\ PlaneInv'
  BY GatewayInductive DEF GatewayInv
<1>2. ASSUME NEW r \in Requests, req[r].pc \in Inside, SameAsk(r), \A t \in Tenants : Moves(t)
      PROVE  Held(req'[r].policy, policies'[req'[r].identity.tenant_id])
  <2> DEFINE t == req[r].identity.tenant_id
  <2>1. t \in Tenants /\ req[r].policy \in Plane!Policy \cup {NoPolicy}
    BY <1>2 DEF TypedInv, Typed
  <2>2. Held(req[r].policy, policies[t])
    BY <1>2 DEF HeldInv
  <2>3. req'[r].policy = req[r].policy /\ req'[r].identity.tenant_id = t
    BY <1>2 DEF SameAsk
  <2>4. Moves(t)
    BY <1>2, <2>1
  <2> HIDE DEF t
  <2>5. Held(req[r].policy, policies'[t])
    BY <1>1, <2>1, <2>2, <2>4, HeldStays
  <2>6. QED
    BY <2>3, <2>5
<1>3. ASSUME NEW r \in Requests, OtherReqs(r), \A t \in Tenants : Moves(t),
             req'[r].pc \in Inside =>
               Held(req'[r].policy, policies'[req'[r].identity.tenant_id])
      PROVE  HeldInv'
  <2> SUFFICES ASSUME NEW u \in Requests \ {r}, req'[u].pc \in Inside
               PROVE  Held(req'[u].policy, policies'[req'[u].identity.tenant_id])
    BY <1>3 DEF HeldInv
  <2>1. req'[u] = req[u]
    BY <1>3 DEF OtherReqs
  <2>2. req[u].pc \in Inside /\ SameAsk(u)
    BY <2>1 DEF SameAsk
  <2>3. QED
    BY <1>2, <1>3, <2>2
<1>4. ASSUME UNCHANGED plane \/ \E t \in Tenants : Plane!Get(t)
      PROVE  \A t \in Tenants : Moves(t)
  BY <1>1, <1>4, PoliciesMove
<1>5. ASSUME NEW r \in Requests, Entered(r) PROVE HeldInv'
  <2> DEFINE t == req'[r].identity.tenant_id
  <2>1. t \in Tenants /\ Plane!Get(t) /\ ~Blocked(Plane!View(t))
        /\ req'[r].policy = Plane!View(t)
    BY <1>5 DEF Entered
  <2>2. Plane!View(t) = policies[t] /\ policies' = policies
    BY <1>1, <2>1 DEF PlaneInv, Plane!View, Plane!Get
  <2>3. policies[t].policy_epoch \in Nat
    BY <1>1, <2>1 DEF PlaneInv, Plane!TypeOK, Plane!Policy
  <2> HIDE DEF t
  <2>4. Held(req'[r].policy, policies'[t])
    BY <2>1, <2>2, <2>3 DEF Held
  <2>5. OtherReqs(r) /\ \A u \in Tenants : Moves(u)
    BY <1>4, <1>5, <2>1 DEF Entered, Frame
  <2>6. QED
    BY <1>3, <2>4, <2>5 DEF t
<1>6. ASSUME NEW r \in Requests, GoesOn(r) PROVE HeldInv'
  <2>1. OtherReqs(r) /\ req[r].pc \in Inside /\ SameAsk(r) /\ \A t \in Tenants : Moves(t)
    BY <1>4, <1>6 DEF GoesOn, Frame
  <2>2. QED
    BY <1>2, <1>3, <2>1
<1>7. ASSUME NEW r \in Requests, OtherReqs(r), req'[r].pc = "done",
             UNCHANGED plane \/ \E t \in Tenants : Plane!Get(t)
      PROVE  HeldInv'
  BY <1>3, <1>4, <1>7 DEF Inside
<1>8. CASE Passes
  <2>1. \A t \in Tenants : Moves(t)
    BY <1>1, <1>8, PoliciesMove DEF Passes
  <2>2. ASSUME NEW r \in Requests PROVE SameAsk(r) /\ req'[r].pc = req[r].pc
    BY <1>8 DEF Passes, SameAsk
  <2>3. QED
    BY <1>2, <2>1, <2>2 DEF HeldInv
<1>9. QED
  BY <1>5, <1>6, <1>7, <1>8, NextKind DEF StepKind, TurnedAway, Answered, Frame

-----------------------------------------------------------------------------
\* All that is known of the gateway, for the theorems about the whole of it.
Everything == GatewayInv /\ TypedInv /\ HeldInv /\ Limiter!TypeOK /\ RouterFacts!Sure

LEMMA EverythingInductive ==
  /\ Init => Everything
  /\ Everything /\ [Next]_vars => Everything'
<1>1. Init => Everything
  BY GatewayInductive, TypedInit, HeldInit, LimiterInit, RouterSure DEF Init, Everything
<1>2. Everything /\ [Next]_vars => Everything'
  BY GatewayInductive, TypedStep, HeldStep, LimiterStep, RouterStep, RouterSure DEF Everything
<1>3. QED
  BY <1>1, <1>2

\* The handlers, the administrator, whoever debugs and the clock leave every
\* part of the gateway in a state its own code could be in: a store of
\* policies, credit within the limits, breakers whose failures are counted, and
\* in a handler a policy that was the store's and a model there is
\* (routes.py:71-350).
THEOREM TypeCorrect == Spec => []TypeOK
<1>1. Everything => TypeOK
  <2> SUFFICES ASSUME Everything PROVE TypeOK
    OBVIOUS
  <2>1. Plane!TypeOK /\ Limiter!TypeOK
    BY DEF Everything, GatewayInv, PlaneInv
  <2>2. Router!TypeOK
    BY RouterTypeSame DEF Everything, RouterFacts!Sure, RouterFacts!Inv
  <2>3. ASSUME NEW r \in Requests
        PROVE  /\ req[r].pc \in {"new", "reading", "ready", "upstream", "streaming", "done"}
               /\ req[r].policy \in Plane!Policy \cup {NoPolicy}
               /\ req[r].model \in Models \cup {NoModel}
               /\ req[r].answer.text \in Texts
    <3>1. Typed(req[r])
      BY DEF Everything, TypedInv
    <3>2. QED
      BY <3>1 DEF Typed, Inside
  <2>4. QED
    BY <2>1, <2>2, <2>3 DEF TypeOK
<1>2. QED
  BY <1>1, EverythingInductive, PTL DEF Spec

\* A policy that a handler holds across its awaits is the store's for as long as
\* the store has its epoch: whoever is still inside when its tenant is blocked
\* came in under an older epoch, for every TTL and however many changes, ticks
\* and requests there are (routes.py:85-99, store.py:52-56).
THEOREM HeldPolicies == Spec => []HeldPolicyNamed
<1>1. Everything => HeldPolicyNamed
  <2> SUFFICES ASSUME Everything, NEW r \in Requests, req[r].pc \notin {"new", "done"}
               PROVE  Held(req[r].policy, policies[Tenant(r)])
    BY DEF HeldPolicyNamed, Held
  <2>1. req[r].pc \in Inside
    BY DEF Everything, TypedInv, Typed
  <2>2. QED
    BY <2>1 DEF Everything, HeldInv, Tenant
<1>2. QED
  BY <1>1, EverythingInductive, PTL DEF Spec

\* Whatever the handlers do, they use the router and the breaker the way
\* Routing says, one handler's call of converse at a time: no step of the
\* gateway is half a step of Routing (routes.py:152-175, 228-237).
THEOREM GatewayUsesRouter == Spec => ImplementsRouting
<1>1. Everything /\ [Next]_vars => [Router!Next]_(Router!vars)
  BY RouterStep DEF Everything
<1>2. Init => Router!Init
  BY DEF Init
<1>3. QED
  BY <1>1, <1>2, EverythingInductive, PTL DEF Spec, ImplementsRouting

\* Which is what makes the theorems about the router theorems about the
\* gateway.  In a gateway whose tenants, models, route sets and requests are any
\* at all, a breaker's state and count agree, converse fails only after every candidate
\* was tried, and the fallback flag tells the truth (router.py:88-109).
THEOREM RoutingHolds ==
  Spec => [](/\ Router!Breaker!StateMatchesCount
             /\ Router!NoCandidateIgnored
             /\ Router!FallbackFlagTruthful)
<1> DEFINE Told == /\ Router!Breaker!StateMatchesCount
                   /\ Router!NoCandidateIgnored
                   /\ Router!FallbackFlagTruthful
<1>1. RouterFacts!Breaker!StateMatchesCount => Router!Breaker!StateMatchesCount
  BY DEF Router!Breaker!StateMatchesCount, RouterFacts!Breaker!StateMatchesCount,
         Router!Breaker!Coherent, RouterFacts!Breaker!Coherent
<1>2. RouterFacts!NoCandidateIgnored => Router!NoCandidateIgnored
  BY DEF Router!NoCandidateIgnored, RouterFacts!NoCandidateIgnored
<1>3. RouterFacts!FallbackFlagTruthful => Router!FallbackFlagTruthful
  BY DEF Router!FallbackFlagTruthful, RouterFacts!FallbackFlagTruthful
<1>4. Everything => Told
  BY <1>1, <1>2, <1>3, RouterSure DEF Everything
<1> HIDE DEF Told
<1>5. Spec => []Told
  BY <1>4, EverythingInductive, PTL DEF Spec
<1>6. QED
  BY <1>5 DEF Told

LEMMA GateSame ==
  /\ Router!Gate!Init <=> RouterFacts!Gate!Init
  /\ [Router!Gate!Next]_(Router!Gate!vars) <=> [RouterFacts!Gate!Next]_(RouterFacts!Gate!vars)
BY DEF
  Router!Gate!Init, RouterFacts!Gate!Init, Router!Gate!Next, RouterFacts!Gate!Next,
  Router!Gate!vars, RouterFacts!Gate!vars, Router!Gate!Start, RouterFacts!Gate!Start,
  Router!Gate!Succeed, RouterFacts!Gate!Succeed, Router!Gate!Fail, RouterFacts!Gate!Fail,
  Router!Gate!Abandon, RouterFacts!Gate!Abandon, Router!Gate!Tick, RouterFacts!Gate!Tick,
  Router!Gate!Permit, RouterFacts!Gate!Permit, Router!Gate!Use, RouterFacts!Gate!Use,
  Router!Gate!Engaged, RouterFacts!Gate!Engaged,
  Router!Fails, RouterFacts!Fails, Router!Cooldown, RouterFacts!Cooldown,
  Router!Permits, RouterFacts!Permits, Router!Calls, RouterFacts!Calls,
  Router!Target, RouterFacts!Target, Router!Permitted, RouterFacts!Permitted,
  Router!Calling, RouterFacts!Calling

\* And its refinement of UpstreamGate: however chat requests and streams are
\* interleaved with policy changes and the clock, no request is given leave to
\* call a model whose failures reached the threshold before ResetTimeout is
\* over or a call made earlier succeeds, and every call has such a leave: a
\* chat request calls in the step that gives it, a stream may call later, when
\* a new cooldown has begun (circuit_breaker.py:38-95, routes.py:154,
\* streaming.py:50).
THEOREM GatewayKeepsGate == Spec => Router!ImplementsGate
<1>1. Init => Router!Gate!Init
  BY RouterAssumes, RouterInitSame, RouterFacts!GateInit, GateSame DEF Init
<1>2. Everything /\ [Next]_vars => [Router!Gate!Next]_(Router!Gate!vars)
  <2> SUFFICES ASSUME Everything, [Next]_vars
               PROVE  [Router!Gate!Next]_(Router!Gate!vars)
    OBVIOUS
  <2>1. RouterFacts!Inv /\ [RouterFacts!Next]_(RouterFacts!vars)
    BY RouterStep, RouterNextSame DEF Everything, RouterFacts!Sure
  <2>2. QED
    BY <2>1, RouterAssumes, RouterFacts!GateStep, GateSame
<1>3. QED
  BY <1>1, <1>2, EverythingInductive, PTL DEF Spec, Router!ImplementsGate, Router!Gate!Spec

LEMMA StepsSame ==
  ASSUME NEW r \in Requests
  PROVE  /\ Router!Run(r) <=> RouterFacts!Run(r)
         /\ Router!StepsLeft(r) = RouterFacts!StepsLeft(r)
         /\ Router!StepsLeft(r)' = RouterFacts!StepsLeft(r)'
<1>1. Router!Run(r) <=> RouterFacts!Run(r)
  BY DEF
    Router!Run, RouterFacts!Run,
    Router!ConverseStep, RouterFacts!ConverseStep, Router!Skip, RouterFacts!Skip,
    Router!Dispatch, RouterFacts!Dispatch, Router!Succeed, RouterFacts!Succeed,
    Router!Fail, RouterFacts!Fail, Router!Retry, RouterFacts!Retry,
    Router!GiveUp, RouterFacts!GiveUp, Router!AtCandidate, RouterFacts!AtCandidate,
    Router!Exhausted, RouterFacts!Exhausted, Router!Finish, RouterFacts!Finish,
    Router!Breaker!Allow, RouterFacts!Breaker!Allow,
    Router!Breaker!Refuse, RouterFacts!Breaker!Refuse,
    Router!Breaker!MayCall, RouterFacts!Breaker!MayCall,
    Router!Breaker!RecordSuccess, RouterFacts!Breaker!RecordSuccess,
    Router!Breaker!RecordFailure, RouterFacts!Breaker!RecordFailure,
    Router!Breaker!Trips, RouterFacts!Breaker!Trips,
    Router!Breaker!UpTo, RouterFacts!Breaker!UpTo
<1>2. Router!StepsLeft(r) = RouterFacts!StepsLeft(r)
  BY DEF Router!StepsLeft, RouterFacts!StepsLeft
<1>3. Router!StepsLeft(r)' = RouterFacts!StepsLeft(r)'
  BY DEF Router!StepsLeft, RouterFacts!StepsLeft
<1>4. QED
  BY <1>1, <1>2, <1>3

\* And its bound: a chat request, which holds the loop while converse goes from
\* candidate to candidate, has at every step of the call one step less to go,
\* whatever Bedrock answers; from RoutingProofs (router.py:97-107 around
\* bedrock_client.py:151-186).
THEOREM GatewayCallsBounded == Spec => Router!ConverseBounded
<1>1. ASSUME Everything, NEW r \in Requests, Router!Run(r)
      PROVE  Router!StepsLeft(r)' \in 0 .. Router!StepsLeft(r) - 1
  <2>1. RouterFacts!Inv /\ RouterFacts!HolderRouted
    BY <1>1 DEF Everything, RouterFacts!Sure
  <2>2. RouterFacts!Run(r)
    BY <1>1, StepsSame
  <2>3. RouterFacts!StepsLeft(r)' \in 0 .. RouterFacts!StepsLeft(r) - 1
    BY <2>1, <2>2, RouterAssumes, RouterFacts!OneLess
  <2>4. QED
    BY <2>3, StepsSame
<1>2. Everything /\ [Next]_vars
        => [\A r \in Requests :
              Router!Run(r) => Router!StepsLeft(r)' \in 0 .. Router!StepsLeft(r) - 1]_(Router!vars)
  BY <1>1
<1>3. QED
  BY <1>2, EverythingInductive, PTL DEF Spec, Router!ConverseBounded
=============================================================================
