----------------------------- MODULE RoutingProofs -----------------------------
(***************************************************************************)
(* converse and the streams implement UpstreamGate for every set of models, *)
(* requests and route sets, every threshold, timeout and number of retries. *)
(***************************************************************************)
EXTENDS Routing, SequenceTheorems, WellFoundedInduction, TLAPS

BreakerFacts == INSTANCE CircuitBreakerProofs

\* The coherence of a breaker is what the refinement needs: it makes "the
\* threshold is reached" and "a failure opens the breaker" the same thing.
Inv == TypeOK /\ Breaker!StateMatchesCount

\* Request r's share of Permits and Calls, and the values it has.
Part(r) == <<IF Permitted(r) THEN Target(r) ELSE {}, IF Calling(r) THEN Target(r) ELSE {}>>

Nothing == <<{}, {}>>

Leave(m) == <<{m}, {}>>

OnCall(m) == <<{}, {m}>>

\* Only r moves, from one share to another.
Moves(r, before, after) ==
  /\ task' \in [Requests -> Task]
  /\ \A u \in Requests \ {r} : task'[u] = task[u]
  /\ Part(r) = before
  /\ Part(r)' = after

-----------------------------------------------------------------------------
(***************************************************************************)
(* The candidates of a request.  They are built by going through the        *)
(* fallbacks, so what is said of them is shown by induction on how far one   *)
(* has got.  The induction is over sets of numbers.                         *)
(***************************************************************************)
LEMMA LeastNatural ==
  ASSUME NEW T, T \subseteq Nat, T # {}
  PROVE  \E x \in T : \A y \in T : x <= y
<1>1. PICK x \in T : \A y \in T : <<y, x>> \notin OpToRel(<, Nat)
  BY NatLessThanWellFounded, WFMin
<1>2. \A y \in T : y < x => <<y, x>> \in OpToRel(<, Nat)
  BY DEF OpToRel
<1>3. \A y \in T : ~(y < x)
  BY <1>1, <1>2
<1>4. QED
  BY <1>3

LEMMA Induction ==
  ASSUME NEW T, T \subseteq Nat, 0 \in T, \A n \in T : n + 1 \in T
  PROVE  T = Nat
<1>1. SUFFICES ASSUME Nat \ T # {} PROVE FALSE
  OBVIOUS
<1>2. PICK x \in Nat \ T : \A y \in Nat \ T : x <= y
  BY <1>1, LeastNatural
<1>3. x # 0 /\ x - 1 \in Nat
  BY <1>2
<1>4. x - 1 \in T
  BY <1>2, <1>3
<1>5. QED
  BY <1>3, <1>4

\* What Candidates comes to after n of the fallbacks, given what g says of n - 1.
Extend(primary, fallbacks, g, n) ==
  IF n = 0 THEN <<primary>>
  ELSE IF fallbacks[n] = primary THEN g[n - 1]
  ELSE Append(g[n - 1], fallbacks[n])

\* g says what Candidates comes to after each number of fallbacks up to k.
IsBuildUp(g, primary, fallbacks, k) ==
  g = [n \in 0 .. k |-> Extend(primary, fallbacks, g, n)]

\* The recursive definition has a solution, for any number of fallbacks.
LEMMA BuildUpExists ==
  ASSUME NEW primary, NEW fallbacks, NEW k \in Nat
  PROVE  \E g : IsBuildUp(g, primary, fallbacks, k)
<1> DEFINE Def(g, n) == Extend(primary, fallbacks, g, n)
           Is(g, j) == IsBuildUp(g, primary, fallbacks, j)
           T == {j \in Nat : \E g : Is(g, j)}
<1>1. 0 \in T
  <2>1. Is([n \in 0 .. 0 |-> <<primary>>], 0)
    BY DEF IsBuildUp, Extend
  <2>2. QED
    BY <2>1
<1>2. ASSUME NEW j \in T PROVE j + 1 \in T
  <2>1. PICK g : Is(g, j)
    OBVIOUS
  <2>2. j \in Nat
    OBVIOUS
  <2> DEFINE h == [n \in 0 .. j + 1 |-> IF n <= j THEN g[n] ELSE Def(g, j + 1)]
  <2>3. \A n \in 0 .. j : g[n] = Def(g, n)
    BY <2>1, Zenon DEF IsBuildUp
  <2>4. \A n \in 0 .. j : h[n] = g[n]
    BY <2>2
  <2>5. h[j + 1] = Def(g, j + 1)
    BY <2>2
  <2> HIDE DEF h
  <2>6. \A n \in 0 .. j + 1 : Def(h, n) = Def(g, n)
    <3>1. \A n \in 0 .. j + 1 : n # 0 => n - 1 \in 0 .. j
      BY <2>2
    <3>2. \A n \in 0 .. j + 1 : n # 0 => h[n - 1] = g[n - 1]
      BY <2>4, <3>1
    <3>3. QED
      BY <3>2 DEF Extend
  <2>7. \A n \in 0 .. j + 1 : h[n] = Def(h, n)
    <3>1. \A n \in 0 .. j + 1 : n \in 0 .. j \/ n = j + 1
      BY <2>2
    <3>2. QED
      BY <2>3, <2>4, <2>5, <2>6, <3>1
  <2>8. h = [n \in 0 .. j + 1 |-> h[n]]
    BY DEF h
  <2>9. Is(h, j + 1)
    BY <2>7, <2>8 DEF IsBuildUp
  <2>10. QED
    BY <2>2, <2>9
<1>3. T = Nat
  BY <1>1, <1>2, Induction
<1>4. QED
  BY <1>3

LEMMA FallbacksAreModels ==
  ASSUME NEW rs \in DOMAIN RouteSets \cup {NoRouteSet}
  PROVE  /\ FallbacksFor(rs) \in Seq(Models)
         /\ Len(FallbacksFor(rs)) \in Nat
<1>1. << >> \in Seq(Models)
  OBVIOUS
<1>2. FallbacksFor(rs) \in Seq(Models)
  BY <1>1, RoutingAssumption DEF FallbacksFor
<1>3. QED
  BY <1>2

LEMMA CandidatesBuiltUp ==
  ASSUME NEW primary, NEW rs \in DOMAIN RouteSets \cup {NoRouteSet}
  PROVE  LET fallbacks == FallbacksFor(rs)
         IN  \E f : /\ Candidates(primary, rs) = f[Len(fallbacks)]
                   /\ \A n \in 0 .. Len(fallbacks) :
                        f[n] = Extend(primary, fallbacks, f, n)
<1> DEFINE fallbacks == FallbacksFor(rs)
           N == Len(fallbacks)
           f == CHOOSE g : IsBuildUp(g, primary, fallbacks, N)
<1>1. N \in Nat
  BY FallbacksAreModels
<1>2. Candidates(primary, rs) = f[N]
  BY DEF Candidates, IsBuildUp, Extend
<1> HIDE DEF fallbacks
<1>3. IsBuildUp(f, primary, fallbacks, N)
  BY <1>1, BuildUpExists
<1> HIDE DEF f, N
<1>4. \A n \in 0 .. N : f[n] = Extend(primary, fallbacks, f, n)
  BY <1>3, Zenon DEF IsBuildUp
<1>5. QED
  BY <1>2, <1>4 DEF N, fallbacks

Elements(s) == {s[i] : i \in 1 .. Len(s)}

LEMMA AppendElements ==
  ASSUME NEW s \in Seq(Models), NEW m \in Models
  PROVE  Elements(Append(s, m)) = Elements(s) \cup {m}
<1>1. Len(s) \in Nat /\ Len(Append(s, m)) = Len(s) + 1
  BY AppendProperties
<1>2. \A i \in 1 .. Len(s) : Append(s, m)[i] = s[i]
  BY AppendProperties
<1>3. Append(s, m)[Len(s) + 1] = m
  BY AppendProperties
<1>4. 1 .. Len(s) + 1 = (1 .. Len(s)) \cup {Len(s) + 1}
  BY <1>1
<1>5. QED
  BY <1>1, <1>2, <1>3, <1>4 DEF Elements

\* "Tries primary_model_id, then the route set's fallbacks" (router.py:88-89): the
\* primary comes first and nowhere else, whatever a route set lists; no model
\* is tried that is neither, and none of the fallbacks is forgotten.
THEOREM CandidatesAre ==
  ASSUME NEW primary \in Models, NEW rs \in DOMAIN RouteSets \cup {NoRouteSet}
  PROVE  LET c == Candidates(primary, rs)
         IN  /\ c \in Seq(Models)
             /\ Len(c) \in Nat \ {0}
             /\ c[1] = primary
             /\ \A i \in 2 .. Len(c) : c[i] # primary
             /\ Elements(c) = {primary} \cup Elements(FallbacksFor(rs))
<1> DEFINE fallbacks == FallbacksFor(rs)
           N == Len(fallbacks)
<1>1. fallbacks \in Seq(Models) /\ N \in Nat
  BY FallbacksAreModels
<1>2. PICK f : /\ Candidates(primary, rs) = f[N]
               /\ \A n \in 0 .. N : f[n] = Extend(primary, fallbacks, f, n)
  BY CandidatesBuiltUp
<1> HIDE DEF fallbacks, N
<1> DEFINE Good(c, n) == /\ c \in Seq(Models) /\ Len(c) >= 1 /\ c[1] = primary
                         /\ \A i \in 2 .. Len(c) : c[i] # primary
                         /\ Elements(c) = {primary} \cup {fallbacks[j] : j \in 1 .. n}
           U == {n \in Nat : n <= N => Good(f[n], n)}
<1>3. 0 \in U
  <2>1. f[0] = <<primary>>
    BY <1>1, <1>2 DEF Extend
  <2>2. Good(<<primary>>, 0)
    BY DEF Elements
  <2>3. QED
    BY <2>1, <2>2
<1>4. ASSUME NEW n \in U PROVE n + 1 \in U
  <2>1. SUFFICES ASSUME n + 1 <= N PROVE Good(f[n + 1], n + 1)
    OBVIOUS
  <2>2. Good(f[n], n)
    BY <1>1, <2>1
  <2>3. /\ n \in Nat /\ n + 1 \in 0 .. N /\ n + 1 # 0 /\ n + 1 - 1 = n
    BY <1>1, <2>1
  <2>4. f[n + 1] = IF fallbacks[n + 1] = primary THEN f[n]
                   ELSE Append(f[n], fallbacks[n + 1])
    BY <1>2, <2>3 DEF Extend
  <2>5. fallbacks[n + 1] \in Models
    BY <1>1, <2>3, ElementOfSeq DEF N
  <2>6. {fallbacks[j] : j \in 1 .. n + 1}
          = {fallbacks[j] : j \in 1 .. n} \cup {fallbacks[n + 1]}
    <3>1. 1 .. n + 1 = (1 .. n) \cup {n + 1}
      BY <2>3
    <3>2. QED
      BY <3>1
  <2>7. CASE fallbacks[n + 1] # primary
    <3>1. f[n + 1] = Append(f[n], fallbacks[n + 1])
      BY <2>4, <2>7
    <3>2. Elements(f[n + 1]) = Elements(f[n]) \cup {fallbacks[n + 1]}
      BY <2>2, <2>5, <3>1, AppendElements
    <3>3. /\ f[n + 1] \in Seq(Models) /\ Len(f[n + 1]) >= 1 /\ f[n + 1][1] = primary
          /\ \A i \in 2 .. Len(f[n + 1]) : f[n + 1][i] # primary
      BY <2>2, <2>5, <2>7, <3>1, AppendProperties
    <3>4. QED
      BY <2>2, <2>6, <3>2, <3>3
  <2>8. CASE fallbacks[n + 1] = primary
    BY <2>2, <2>4, <2>6, <2>8
  <2>9. QED
    BY <2>7, <2>8
<1>5. U = Nat
  BY <1>3, <1>4, Induction
<1>6. N \in U => Good(f[N], N)
  BY <1>1
<1> HIDE DEF U
<1>7. Good(f[N], N)
  BY <1>1, <1>5, <1>6
<1>8. {fallbacks[j] : j \in 1 .. N} = Elements(FallbacksFor(rs))
  BY DEF Elements, N, fallbacks
<1>9. QED
  <2> DEFINE c == Candidates(primary, rs)
  <2>1. c = f[N]
    BY <1>2
  <2> HIDE DEF c
  <2>2. Good(c, N) /\ Len(c) \in Nat \ {0}
    BY <1>7, <2>1
  <2>3. QED
    BY <1>8, <2>2 DEF c

-----------------------------------------------------------------------------
\* What CircuitBreakerProofs shows of one step, for this module's instance of
\* the class: the two instances are the same, definition by definition.
LEMMA BreakerStep ==
  ASSUME Breaker!TypeOK, Breaker!StateMatchesCount, [Breaker!Next]_breakers
  PROVE  Breaker!TypeOK' /\ Breaker!StateMatchesCount'
BY RoutingAssumption, BreakerFacts!StepKeepsCoherence
DEF Breaker!BreakerAssumption, BreakerFacts!BreakerAssumption,
    Breaker!TypeOK, BreakerFacts!TypeOK,
    Breaker!StateMatchesCount, BreakerFacts!StateMatchesCount,
    Breaker!Coherent, BreakerFacts!Coherent,
    Breaker!ModelBreaker, BreakerFacts!ModelBreaker,
    Breaker!BreakerState, BreakerFacts!BreakerState,
    Breaker!Next, BreakerFacts!Next, BreakerFacts!vars,
    Breaker!Allow, BreakerFacts!Allow, Breaker!MayCall, BreakerFacts!MayCall,
    Breaker!Refuse, BreakerFacts!Refuse,
    Breaker!RecordSuccess, BreakerFacts!RecordSuccess,
    Breaker!RecordFailure, BreakerFacts!RecordFailure,
    Breaker!Trips, BreakerFacts!Trips, Breaker!UpTo, BreakerFacts!UpTo,
    Breaker!Elapse, BreakerFacts!Elapse

LEMMA IdleType == Idle \in Task /\ Idle.phase = "idle"
<1>1. << >> \in Routes
  BY DEF Routes
<1>2. 0 \in 0 .. MaxRetries /\ 1 \in Nat \ {0}
  BY RoutingAssumption
<1>3. QED
  BY <1>1, <1>2 DEF Idle, Task, Phase, Outcome

\* What a request's share comes to, by its phase.
LEMMA PartCases ==
  ASSUME NEW r \in Requests
  PROVE  /\ ~Permitted(r) /\ ~Calling(r) => Part(r) = Nothing
         /\ \A m : Permitted(r) /\ AtCandidate(r, m) => Part(r) = Leave(m)
         /\ \A m : Calling(r) /\ AtCandidate(r, m) => Part(r) = OnCall(m)
BY DEF Part, Nothing, Leave, OnCall, Permitted, Calling, Target, AtCandidate

\* One request is given a new local state.
LEMMA UpdateMoves ==
  ASSUME TypeOK, NEW r \in Requests, NEW new \in Task,
         task' = [task EXCEPT ![r] = new]
  PROVE  /\ task' \in [Requests -> Task]
         /\ \A u \in Requests \ {r} : task'[u] = task[u]
         /\ task'[r] = new
         /\ new.phase \notin {"attempt", "opening", "streaming"} => Part(r)' = Nothing
         /\ new.phase = "opening" => Part(r)' = Leave(new.route[new.index])
         /\ new.phase \in {"attempt", "streaming"}
              => Part(r)' = OnCall(new.route[new.index])
<1>1. task' \in [Requests -> Task] /\ task'[r] = new
      /\ \A u \in Requests \ {r} : task'[u] = task[u]
  BY DEF TypeOK
<1>2. QED
  BY <1>1 DEF Part, Nothing, Leave, OnCall, Permitted, Calling, Target

-----------------------------------------------------------------------------
(***************************************************************************)
(* Each action of Routing on the local state of its request.                *)
(***************************************************************************)
LEMMA FinishMoves ==
  ASSUME TypeOK, NEW r \in Requests, NEW result \in Outcome, Finish(r, result)
  PROVE  Moves(r, Part(r), Nothing)
<1> DEFINE new == [task[r] EXCEPT !.phase = "returned", !.trial = FALSE,
                                  !.outcome = result]
<1>1. task' = [task EXCEPT ![r] = new]
  BY DEF Finish
<1>2. task[r] \in Task
  BY DEF TypeOK
<1>3. new \in Task /\ new.phase = "returned"
  BY <1>2 DEF Task, Phase
<1> HIDE DEF new
<1>4. QED
  BY <1>1, <1>3, UpdateMoves DEF Moves

LEMMA ConverseMoves ==
  ASSUME TypeOK, NEW r \in Requests, NEW primary \in Models,
         NEW rs \in DOMAIN RouteSets \cup {NoRouteSet},
         Converse(r, primary, rs)
  PROVE  Moves(r, Nothing, Nothing)
<1> DEFINE c == Candidates(primary, rs)
           new == [Idle EXCEPT !.phase = "select", !.route = c]
<1>1. c \in Routes
  BY DEF Routes
<1>2. task' = [task EXCEPT ![r] = new] /\ Part(r) = Nothing
  BY PartCases DEF Converse, Permitted, Calling
<1> HIDE DEF c
<1>3. new \in Task /\ new.phase = "select"
  BY <1>1, IdleType DEF Task, Phase
<1> HIDE DEF new
<1>4. QED
  BY <1>2, <1>3, UpdateMoves DEF Moves

LEMMA SkipMoves ==
  ASSUME TypeOK, NEW r \in Requests, NEW m \in Models, Skip(r, m)
  PROVE  Moves(r, Nothing, Nothing)
<1> DEFINE new == [task[r] EXCEPT !.index = task[r].index + 1]
<1>1. task' = [task EXCEPT ![r] = new] /\ Part(r) = Nothing /\ task[r].phase = "select"
  BY PartCases DEF Skip, Permitted, Calling
<1>2. task[r] \in Task /\ task[r].index + 1 \in Nat \ {0}
  BY DEF TypeOK, Task
<1>3. new \in Task /\ new.phase = "select"
  BY <1>1, <1>2 DEF Task
<1> HIDE DEF new
<1>4. QED
  BY <1>1, <1>3, UpdateMoves DEF Moves

LEMMA DispatchMoves ==
  ASSUME TypeOK, NEW r \in Requests, NEW m \in Models, Dispatch(r, m)
  PROVE  Moves(r, Nothing, OnCall(m))
<1> DEFINE b == breakers[m].state # "CLOSED"
           c == task[r].called \cup {m}
           new == [task[r] EXCEPT !.phase = "attempt", !.attempt = 0,
                                  !.called = c, !.trial = b]
<1>1. /\ task[r] \in Task /\ b \in BOOLEAN /\ c \in SUBSET Models
      /\ 0 \in 0 .. MaxRetries
  BY RoutingAssumption DEF TypeOK, Task
<1>2. /\ task' = [task EXCEPT ![r] = new] /\ Part(r) = Nothing
      /\ m = task[r].route[task[r].index]
  BY PartCases DEF Dispatch, AtCandidate, Permitted, Calling
<1> HIDE DEF b, c
<1>3. new \in Task /\ new.phase = "attempt" /\ new.route = task[r].route
      /\ new.index = task[r].index
  BY <1>1 DEF Task, Phase
<1> HIDE DEF new
<1>4. /\ task' \in [Requests -> Task]
      /\ \A u \in Requests \ {r} : task'[u] = task[u]
      /\ Part(r)' = OnCall(new.route[new.index])
  BY <1>2, <1>3, UpdateMoves
<1>5. QED
  BY <1>2, <1>3, <1>4 DEF Moves

LEMMA RetryMoves ==
  ASSUME TypeOK, NEW r \in Requests, Retry(r)
  PROVE  Moves(r, Part(r), Part(r))
<1> DEFINE new == [task[r] EXCEPT !.attempt = task[r].attempt + 1]
<1>1. task' = [task EXCEPT ![r] = new] /\ task[r].phase = "attempt"
  BY DEF Retry
<1>2. task[r] \in Task /\ task[r].attempt + 1 \in 0 .. MaxRetries
  BY RoutingAssumption DEF TypeOK, Task, Retry
<1>3. new \in Task /\ new.phase = "attempt" /\ new.route = task[r].route
      /\ new.index = task[r].index
  BY <1>1, <1>2 DEF Task
<1>4. Part(r) = OnCall(task[r].route[task[r].index])
  BY <1>1 DEF Part, OnCall, Permitted, Calling, Target
<1> HIDE DEF new
<1>5. /\ task' \in [Requests -> Task]
      /\ \A u \in Requests \ {r} : task'[u] = task[u]
      /\ Part(r)' = OnCall(new.route[new.index])
  BY <1>1, <1>3, UpdateMoves
<1>6. QED
  BY <1>3, <1>4, <1>5 DEF Moves

LEMMA FailMoves ==
  ASSUME TypeOK, NEW r \in Requests, NEW m \in Models, Fail(r, m)
  PROVE  Moves(r, OnCall(m), Nothing)
<1> DEFINE new == [task[r] EXCEPT !.phase = "select", !.index = task[r].index + 1,
                                  !.failed = TRUE, !.trial = FALSE]
<1>1. task' = [task EXCEPT ![r] = new] /\ Part(r) = OnCall(m)
  BY PartCases DEF Fail, Calling
<1>2. task[r] \in Task /\ task[r].index + 1 \in Nat \ {0}
  BY DEF TypeOK, Task
<1>3. new \in Task /\ new.phase = "select"
  BY <1>2 DEF Task, Phase
<1> HIDE DEF new
<1>4. QED
  BY <1>1, <1>3, UpdateMoves DEF Moves

LEMMA OpenStreamMoves ==
  ASSUME TypeOK, NEW r \in Requests, NEW m \in Models, OpenStream(r, m)
  PROVE  Moves(r, Nothing, Leave(m))
<1> DEFINE b == breakers[m].state # "CLOSED"
           route == <<m>>
           new == [Idle EXCEPT !.phase = "opening", !.route = route, !.trial = b]
<1>1. b \in BOOLEAN /\ route \in Routes /\ route[1] = m
  BY DEF Routes
<1>2. task' = [task EXCEPT ![r] = new] /\ Part(r) = Nothing
  BY PartCases DEF OpenStream, Permitted, Calling
<1> HIDE DEF b, route
<1>3. Idle.index = 1
  BY DEF Idle
<1>4. new \in Task /\ new.phase = "opening" /\ new.route = route /\ new.index = 1
  BY <1>1, <1>3, IdleType DEF Task, Phase
<1> HIDE DEF new
<1>5. /\ task' \in [Requests -> Task]
      /\ \A u \in Requests \ {r} : task'[u] = task[u]
      /\ Part(r)' = Leave(new.route[new.index])
  BY <1>2, <1>4, UpdateMoves
<1>6. new.route[new.index] = m
  BY <1>1, <1>4
<1>7. QED
  BY <1>2, <1>5, <1>6 DEF Moves

LEMMA FirstPullMoves ==
  ASSUME TypeOK, NEW r \in Requests, NEW m \in Models, FirstPull(r, m)
  PROVE  Moves(r, Leave(m), OnCall(m))
<1> DEFINE c == {m}
           new == [task[r] EXCEPT !.phase = "streaming", !.called = c]
<1>1. /\ task' = [task EXCEPT ![r] = new]
      /\ Part(r) = Leave(m)
      /\ m = task[r].route[task[r].index]
  BY PartCases DEF FirstPull, Permitted, AtCandidate
<1>2. task[r] \in Task /\ c \in SUBSET Models
  BY DEF TypeOK
<1> HIDE DEF c
<1>3. new \in Task /\ new.phase = "streaming" /\ new.route = task[r].route
      /\ new.index = task[r].index
  BY <1>2 DEF Task, Phase
<1> HIDE DEF new
<1>4. /\ task' \in [Requests -> Task]
      /\ \A u \in Requests \ {r} : task'[u] = task[u]
      /\ Part(r)' = OnCall(new.route[new.index])
  BY <1>1, <1>3, UpdateMoves
<1>5. QED
  BY <1>1, <1>3, <1>4 DEF Moves

LEMMA ResetMoves ==
  ASSUME TypeOK, NEW r \in Requests, Reset(r)
  PROVE  Moves(r, Nothing, Nothing)
<1>1. task' = [task EXCEPT ![r] = Idle] /\ Part(r) = Nothing
  BY PartCases DEF Reset, Permitted, Calling
<1>2. QED
  BY <1>1, IdleType, UpdateMoves DEF Moves

-----------------------------------------------------------------------------
(***************************************************************************)
(* The kinds of step there are, seen from the gate.                         *)
(***************************************************************************)
Starts(r, m) == Breaker!Allow(m) /\ Moves(r, Nothing, OnCall(m))

IsPermitted(r, m) == Breaker!Allow(m) /\ Moves(r, Nothing, Leave(m))

Uses(r, m) == UNCHANGED breakers /\ Moves(r, Leave(m), OnCall(m))

Succeeds(r, m) == Breaker!RecordSuccess(m) /\ Moves(r, OnCall(m), Nothing)

FailsCall(r, m) == Breaker!RecordFailure(m) /\ Moves(r, OnCall(m), Nothing)

Abandons(r) == /\ UNCHANGED breakers
               /\ Permitted(r) \/ Calling(r)
               /\ Moves(r, Part(r), Nothing)

Proceeds(r) == UNCHANGED breakers /\ Moves(r, Part(r), Part(r))

StepKind ==
  \/ \E r \in Requests, m \in Models :
       \/ Starts(r, m) \/ IsPermitted(r, m) \/ Uses(r, m)
       \/ Succeeds(r, m) \/ FailsCall(r, m)
  \/ \E r \in Requests : Abandons(r) \/ Proceeds(r)
  \/ Breaker!Elapse /\ UNCHANGED task
  \/ UNCHANGED <<breakers, task>>

LEMMA ConverseStepKind ==
  ASSUME TypeOK, NEW r \in Requests, ConverseStep(r)
  PROVE  StepKind
<1>1. ASSUME NEW m \in Models, Skip(r, m) PROVE Proceeds(r)
  <2>1. Moves(r, Nothing, Nothing) /\ UNCHANGED breakers
    BY <1>1, SkipMoves DEF Skip, Breaker!Refuse
  <2>2. QED
    BY <2>1 DEF Moves, Proceeds
<1>2. ASSUME NEW m \in Models, Dispatch(r, m) PROVE Starts(r, m)
  BY <1>2, DispatchMoves DEF Dispatch, Starts
<1>3. ASSUME NEW m \in Models, Succeed(r, m) PROVE Succeeds(r, m)
  <2>1. Moves(r, Part(r), Nothing)
    BY <1>3, FinishMoves DEF Succeed, Outcome
  <2>2. Part(r) = OnCall(m)
    BY <1>3, PartCases DEF Succeed, Calling
  <2>3. QED
    BY <1>3, <2>1, <2>2 DEF Succeed, Succeeds
<1>4. ASSUME NEW m \in Models, Fail(r, m) PROVE FailsCall(r, m)
  BY <1>4, FailMoves DEF Fail, FailsCall
<1>5. CASE Retry(r)
  BY <1>5, RetryMoves DEF Retry, Proceeds, StepKind
<1>6. CASE GiveUp(r)
  <2>1. Moves(r, Part(r), Nothing) /\ UNCHANGED breakers
    BY <1>6, FinishMoves DEF GiveUp, Outcome
  <2>2. Part(r) = Nothing
    BY <1>6, PartCases DEF GiveUp, Permitted, Calling
  <2>3. QED
    BY <2>1, <2>2 DEF Proceeds, StepKind
<1>7. QED
  BY <1>1, <1>2, <1>3, <1>4, <1>5, <1>6 DEF ConverseStep, StepKind

LEMMA StreamStepKind ==
  ASSUME TypeOK, NEW r \in Requests, StreamStep(r)
  PROVE  StepKind
<1>1. ASSUME NEW m \in Models, FirstPull(r, m) PROVE Uses(r, m)
  BY <1>1, FirstPullMoves DEF FirstPull, Uses
<1>2. ASSUME NEW m \in Models, StreamEnd(r, m) PROVE Succeeds(r, m)
  <2>1. Moves(r, Part(r), Nothing)
    BY <1>2, FinishMoves DEF StreamEnd, Outcome
  <2>2. Part(r) = OnCall(m)
    BY <1>2, PartCases DEF StreamEnd, Calling
  <2>3. QED
    BY <1>2, <2>1, <2>2 DEF StreamEnd, Succeeds
<1>3. ASSUME NEW m \in Models, StreamError(r, m) PROVE FailsCall(r, m)
  <2>1. Moves(r, Part(r), Nothing)
    BY <1>3, FinishMoves DEF StreamError, Outcome
  <2>2. Part(r) = OnCall(m)
    BY <1>3, PartCases DEF StreamError, Calling
  <2>3. QED
    BY <1>3, <2>1, <2>2 DEF StreamError, FailsCall
<1>4. CASE StreamAbort(r) \/ StreamDropped(r)
  <2>1. Moves(r, Part(r), Nothing) /\ UNCHANGED breakers
    BY <1>4, FinishMoves DEF StreamAbort, StreamDropped, Outcome
  <2>2. Permitted(r) \/ Calling(r)
    BY <1>4 DEF StreamAbort, StreamDropped, Permitted, Calling
  <2>3. QED
    BY <2>1, <2>2 DEF Abandons, StepKind
<1>5. QED
  BY <1>1, <1>2, <1>3, <1>4 DEF StreamStep, StepKind

\* Whatever the gateway does, the gate sees leave given or used, a call start,
\* succeed or fail, either abandoned, the clock advance, or nothing.
LEMMA NextStepKind ==
  ASSUME TypeOK, [Next]_vars
  PROVE  StepKind
<1>1. ASSUME NEW r \in Requests, Begin(r) PROVE Proceeds(r)
  <2>1. PICK primary \in Models, rs \in DOMAIN RouteSets \cup {NoRouteSet} :
          Converse(r, primary, rs)
    BY <1>1 DEF Begin
  <2>2. Moves(r, Nothing, Nothing) /\ UNCHANGED breakers
    BY <2>1, ConverseMoves DEF Converse
  <2>3. QED
    BY <2>2 DEF Moves, Proceeds
<1>2. ASSUME NEW r \in Requests, Run(r) PROVE StepKind
  BY <1>2, ConverseStepKind DEF Run
<1>3. ASSUME NEW r \in Requests, Reset(r) PROVE Proceeds(r)
  <2>1. Moves(r, Nothing, Nothing) /\ UNCHANGED breakers
    BY <1>3, ResetMoves DEF Reset
  <2>2. QED
    BY <2>1 DEF Moves, Proceeds
<1>4. ASSUME NEW r \in Requests, Return(r) PROVE Proceeds(r)
  BY <1>3, <1>4 DEF Return
<1>5. ASSUME NEW r \in Requests, Stream(r) PROVE StepKind
  <2>1. ASSUME NEW m \in Models, OpenStream(r, m) PROVE IsPermitted(r, m)
    BY <2>1, OpenStreamMoves DEF OpenStream, IsPermitted
  <2>2. ASSUME NEW m \in Models, RefuseStream(r, m) PROVE Proceeds(r)
    <3>1. Moves(r, Part(r), Nothing) /\ UNCHANGED breakers
      BY <2>2, FinishMoves DEF RefuseStream, Outcome, Breaker!Refuse
    <3>2. Part(r) = Nothing
      BY <2>2, PartCases DEF RefuseStream, Permitted, Calling
    <3>3. QED
      BY <3>1, <3>2 DEF Proceeds
  <2>3. QED
    BY <1>3, <1>5, <2>1, <2>2, StreamStepKind DEF Stream, StepKind
<1>6. CASE Tick
  BY <1>6 DEF Tick, StepKind
<1>7. CASE UNCHANGED vars
  BY <1>7 DEF vars, StepKind
<1>8. QED
  BY <1>1, <1>2, <1>4, <1>5, <1>6, <1>7 DEF Next, StepKind

-----------------------------------------------------------------------------
LEMMA InvInit == Init => Inv
<1> SUFFICES ASSUME Init PROVE Inv
  OBVIOUS
<1>1. Breaker!TypeOK /\ Breaker!StateMatchesCount
  BY RoutingAssumption
  DEF Init, Breaker!Init, Breaker!BreakerAssumption, Breaker!TypeOK,
      Breaker!StateMatchesCount, Breaker!Coherent, Breaker!ModelBreaker,
      Breaker!BreakerState
<1>2. task \in [Requests -> Task] /\ loop \in Requests \cup {NoRequest}
  BY IdleType DEF Init
<1>3. QED
  BY <1>1, <1>2 DEF Inv, TypeOK

LEMMA InvStep ==
  ASSUME Inv, [Next]_vars
  PROVE  Inv'
<1>1. TypeOK /\ Breaker!TypeOK /\ Breaker!StateMatchesCount
  BY DEF Inv, TypeOK
<1>2. StepKind
  BY <1>1, NextStepKind
<1>3. [Breaker!Next]_breakers
  BY <1>2
  DEF StepKind, Starts, IsPermitted, Uses, Succeeds, FailsCall, Abandons, Proceeds,
      Breaker!Next
<1>4. task' \in [Requests -> Task]
  BY <1>1, <1>2
  DEF StepKind, Starts, IsPermitted, Uses, Succeeds, FailsCall, Abandons, Proceeds,
      Moves, TypeOK
<1>5. loop' \in Requests \cup {NoRequest}
  BY <1>1 DEF Next, Begin, Run, Return, Stream, Tick, vars, TypeOK
<1>6. QED
  BY <1>1, <1>3, <1>4, <1>5, BreakerStep DEF Inv, TypeOK

-----------------------------------------------------------------------------
(***************************************************************************)
(* The gate's variables under each kind of step.                            *)
(***************************************************************************)
LEMMA MovesCalls ==
  ASSUME NEW r \in Requests, NEW before, NEW after, Moves(r, before, after)
  PROVE  /\ <<Permits[r], Calls[r]>> = before
         /\ Permits' = [Permits EXCEPT ![r] = after[1]]
         /\ Calls' = [Calls EXCEPT ![r] = after[2]]
<1>1. /\ Permits = [u \in Requests |-> Part(u)[1]]
      /\ Calls = [u \in Requests |-> Part(u)[2]]
      /\ Permits' = [u \in Requests |-> Part(u)'[1]]
      /\ Calls' = [u \in Requests |-> Part(u)'[2]]
  BY DEF Permits, Calls, Part
<1>2. \A u \in Requests \ {r} : Part(u)' = Part(u)
  BY DEF Moves, Part, Permitted, Calling, Target
<1>3. Part(r) = before /\ Part(r)' = after
  BY DEF Moves
<1>4. Part(r) = <<Part(r)[1], Part(r)[2]>>
  BY DEF Part
<1>5. QED
  BY <1>1, <1>2, <1>3, <1>4

\* allow lets a call through only when the cooldown is over; that it opens the
\* breaker halfway changes nothing the gate can see.
LEMMA AllowGate ==
  ASSUME Inv, NEW m \in Models, Breaker!Allow(m)
  PROVE  Cooldown[m] = 0 /\ Fails' = Fails /\ Cooldown' = Cooldown
<1>1. /\ breakers \in [Models -> Breaker!ModelBreaker]
      /\ ResetTimeout \in Nat
  BY RoutingAssumption
  DEF Inv, TypeOK, Breaker!TypeOK, Breaker!BreakerAssumption
<1>2. CASE breakers[m].state = "OPEN"
  <2>1. breakers[m].age = ResetTimeout
    BY <1>1, <1>2 DEF Breaker!Allow, Breaker!MayCall, Breaker!ModelBreaker
  <2>2. breakers' = [breakers EXCEPT ![m].state = "HALF_OPEN"]
    BY <1>2 DEF Breaker!Allow
  <2>3. /\ breakers'[m].state = "HALF_OPEN"
        /\ breakers'[m].consecutive_failures = breakers[m].consecutive_failures
        /\ \A u \in Models \ {m} : breakers'[u] = breakers[u]
    BY <1>1, <2>2 DEF Breaker!ModelBreaker
  <2>4. Fails' = Fails
    BY <2>3 DEF Fails
  <2>5. Cooldown[m] = 0 /\ Cooldown' = Cooldown
    BY <1>1, <1>2, <2>1, <2>3 DEF Cooldown
  <2>6. QED
    BY <2>4, <2>5
<1>3. CASE breakers[m].state # "OPEN"
  BY <1>3 DEF Breaker!Allow, Cooldown, Fails
<1>4. QED
  BY <1>2, <1>3

LEMMA RecordSuccessGate ==
  ASSUME Inv, NEW m \in Models, Breaker!RecordSuccess(m)
  PROVE  /\ Fails' = [Fails EXCEPT ![m] = 0]
         /\ Cooldown' = [Cooldown EXCEPT ![m] = 0]
<1>1. /\ breakers'[m].state = "CLOSED"
      /\ breakers'[m].consecutive_failures = 0
      /\ \A u \in Models \ {m} : breakers'[u] = breakers[u]
  BY DEF Breaker!RecordSuccess, Inv, TypeOK, Breaker!TypeOK
<1>2. QED
  BY <1>1 DEF Fails, Cooldown

\* A failure opens the breaker exactly when it brings the count to the
\* threshold: a half-open breaker has reached it already.
LEMMA RecordFailureGate ==
  ASSUME Inv, NEW m \in Models, Breaker!RecordFailure(m)
  PROVE  LET n == IF Fails[m] < FailureCap THEN Fails[m] + 1 ELSE FailureCap
         IN  /\ Fails' = [Fails EXCEPT ![m] = n]
             /\ Cooldown' = IF n >= FailureThreshold
                            THEN [Cooldown EXCEPT ![m] = ResetTimeout]
                            ELSE Cooldown
<1> DEFINE b == breakers[m]
           n == Breaker!UpTo(FailureCap, b.consecutive_failures)
<1>1. /\ breakers \in [Models -> Breaker!ModelBreaker]
      /\ b \in Breaker!ModelBreaker
      /\ FailureThreshold \in Nat \ {0} /\ ResetTimeout \in Nat
      /\ FailureCap \in Nat /\ FailureCap >= FailureThreshold
  BY RoutingAssumption
  DEF Inv, TypeOK, Breaker!TypeOK, Breaker!BreakerAssumption
<1>2. /\ b.state = "CLOSED" <=> b.consecutive_failures < FailureThreshold
      /\ b.consecutive_failures \in 0 .. FailureCap
      /\ b.state \in {"CLOSED", "OPEN", "HALF_OPEN"}
  BY <1>1
  DEF Inv, Breaker!StateMatchesCount, Breaker!Coherent,
      Breaker!ModelBreaker, Breaker!BreakerState
<1>3. /\ n \in Nat
      /\ n = IF Fails[m] < FailureCap THEN Fails[m] + 1 ELSE FailureCap
  BY <1>1, <1>2 DEF Breaker!UpTo, Fails
<1>4. Breaker!Trips(b.state, n) <=> n >= FailureThreshold
  BY <1>1, <1>2 DEF Breaker!Trips, Breaker!UpTo
<1>5. ~(n >= FailureThreshold) => b.state = "CLOSED"
  BY <1>1, <1>2 DEF Breaker!UpTo
<1>6. breakers' = [breakers EXCEPT
                     ![m] = IF Breaker!Trips(b.state, n)
                            THEN [state |-> "OPEN",
                                  consecutive_failures |-> n,
                                  age |-> 0]
                            ELSE [b EXCEPT !.consecutive_failures = n]]
  BY DEF Breaker!RecordFailure
<1>7. \A u \in Models \ {m} : breakers'[u] = breakers[u]
  BY <1>1, <1>6
<1> HIDE DEF n
<1>8. CASE n >= FailureThreshold
  <2>1. /\ breakers'[m].state = "OPEN"
        /\ breakers'[m].consecutive_failures = n
        /\ breakers'[m].age = 0
    BY <1>1, <1>4, <1>6, <1>8
  <2>2. Fails' = [Fails EXCEPT ![m] = n]
    BY <1>7, <2>1 DEF Fails
  <2>3. Cooldown' = [Cooldown EXCEPT ![m] = ResetTimeout]
    <3>1. ResetTimeout - breakers'[m].age = ResetTimeout
      BY <1>1, <2>1
    <3>2. QED
      BY <1>7, <2>1, <3>1 DEF Cooldown
  <2>4. QED
    BY <1>3, <1>8, <2>2, <2>3
<1>9. CASE ~(n >= FailureThreshold)
  <2>1. breakers'[m] = [b EXCEPT !.consecutive_failures = n]
    BY <1>1, <1>4, <1>6, <1>9
  <2>2. breakers'[m].state = "CLOSED" /\ breakers'[m].consecutive_failures = n
    BY <1>1, <1>5, <1>9, <2>1 DEF Breaker!ModelBreaker
  <2>3. Fails' = [Fails EXCEPT ![m] = n]
    BY <1>7, <2>2 DEF Fails
  <2>4. Cooldown' = Cooldown
    BY <1>5, <1>7, <1>9, <2>2 DEF Cooldown
  <2>5. QED
    BY <1>3, <1>9, <2>3, <2>4
<1>10. QED
  BY <1>8, <1>9

LEMMA ElapseGate ==
  ASSUME Inv, Breaker!Elapse
  PROVE  /\ Fails' = Fails
         /\ Cooldown' = [m \in Models |-> IF Cooldown[m] > 0 THEN Cooldown[m] - 1
                                          ELSE 0]
<1>1. ASSUME NEW m \in Models
      PROVE  /\ breakers'[m].state = breakers[m].state
             /\ breakers'[m].consecutive_failures = breakers[m].consecutive_failures
             /\ breakers'[m].age = IF breakers[m].age < ResetTimeout
                                   THEN breakers[m].age + 1 ELSE breakers[m].age
             /\ breakers[m].age \in 0 .. ResetTimeout
  BY DEF Inv, TypeOK, Breaker!TypeOK, Breaker!ModelBreaker, Breaker!Elapse,
         Breaker!UpTo
<1>2. ResetTimeout \in Nat
  BY RoutingAssumption DEF Breaker!BreakerAssumption
<1>3. QED
  BY <1>1, <1>2 DEF Fails, Cooldown

-----------------------------------------------------------------------------
LEMMA GateInit == Init => Gate!Init
BY DEF Init, Breaker!Init, Gate!Init, Fails, Cooldown, Permits, Calls, Permitted, Calling,
       Idle

LEMMA GateStep ==
  ASSUME Inv, [Next]_vars
  PROVE  [Gate!Next]_(Gate!vars)
<1>1. StepKind
  BY NextStepKind DEF Inv
<1> USE DEF Nothing, Leave, OnCall
<1>2. ASSUME NEW r \in Requests, NEW m \in Models, Starts(r, m)
      PROVE  Gate!Start(r, m)
  <2>1. /\ Permits[r] = {} /\ Calls[r] = {}
        /\ Permits' = [Permits EXCEPT ![r] = {}]
        /\ Calls' = [Calls EXCEPT ![r] = {m}]
    BY <1>2, MovesCalls DEF Starts
  <2>2. Permits' = Permits
    BY <2>1 DEF Permits
  <2>3. QED
    BY <1>2, <2>1, <2>2, AllowGate DEF Starts, Gate!Start, Gate!Engaged
<1>11. ASSUME NEW r \in Requests, NEW m \in Models, IsPermitted(r, m)
       PROVE  Gate!Permit(r, m)
  <2>1. /\ Permits[r] = {} /\ Calls[r] = {}
        /\ Permits' = [Permits EXCEPT ![r] = {m}]
        /\ Calls' = [Calls EXCEPT ![r] = {}]
    BY <1>11, MovesCalls DEF IsPermitted
  <2>2. Calls' = Calls
    BY <2>1 DEF Calls
  <2>3. QED
    BY <1>11, <2>1, <2>2, AllowGate DEF IsPermitted, Gate!Permit, Gate!Engaged
<1>3. ASSUME NEW r \in Requests, NEW m \in Models, Succeeds(r, m)
      PROVE  Gate!Succeed(r, m)
  <2>1. /\ Permits[r] = {} /\ Calls[r] = {m}
        /\ Permits' = [Permits EXCEPT ![r] = {}]
        /\ Calls' = [Calls EXCEPT ![r] = {}]
    BY <1>3, MovesCalls DEF Succeeds
  <2>2. Permits' = Permits
    BY <2>1 DEF Permits
  <2>3. QED
    BY <1>3, <2>1, <2>2, RecordSuccessGate DEF Succeeds, Gate!Succeed
<1>4. ASSUME NEW r \in Requests, NEW m \in Models, FailsCall(r, m)
      PROVE  Gate!Fail(r, m)
  <2>1. /\ Permits[r] = {} /\ Calls[r] = {m}
        /\ Permits' = [Permits EXCEPT ![r] = {}]
        /\ Calls' = [Calls EXCEPT ![r] = {}]
    BY <1>4, MovesCalls DEF FailsCall
  <2>2. Permits' = Permits
    BY <2>1 DEF Permits
  <2>3. QED
    BY <1>4, <2>1, <2>2, RecordFailureGate DEF FailsCall, Gate!Fail
<1>5. ASSUME UNCHANGED breakers PROVE UNCHANGED <<Fails, Cooldown>>
  BY <1>5 DEF Fails, Cooldown
<1>12. ASSUME NEW r \in Requests, NEW m \in Models, Uses(r, m)
       PROVE  Gate!Use(r, m)
  <2>1. /\ Permits[r] = {m} /\ Calls[r] = {}
        /\ Permits' = [Permits EXCEPT ![r] = {}]
        /\ Calls' = [Calls EXCEPT ![r] = {m}]
    BY <1>12, MovesCalls DEF Uses
  <2>2. QED
    BY <1>5, <1>12, <2>1 DEF Uses, Gate!Use
<1>6. ASSUME NEW r \in Requests, Abandons(r) PROVE Gate!Abandon(r)
  <2>1. /\ Permits' = [Permits EXCEPT ![r] = {}]
        /\ Calls' = [Calls EXCEPT ![r] = {}]
    BY <1>6, MovesCalls DEF Abandons
  <2>2. Permits[r] # {} \/ Calls[r] # {}
    BY <1>6 DEF Abandons, Permits, Calls, Target
  <2>3. QED
    BY <1>5, <1>6, <2>1, <2>2 DEF Abandons, Gate!Abandon, Gate!Engaged
<1>7. ASSUME NEW r \in Requests, Proceeds(r) PROVE UNCHANGED Gate!vars
  <2>1. /\ Permits' = [Permits EXCEPT ![r] = Permits[r]]
        /\ Calls' = [Calls EXCEPT ![r] = Calls[r]]
    BY <1>7, MovesCalls DEF Proceeds
  <2>2. Permits' = Permits /\ Calls' = Calls
    BY <2>1 DEF Permits, Calls
  <2>3. QED
    BY <1>5, <1>7, <2>2 DEF Proceeds, Gate!vars
<1>13. ASSUME UNCHANGED task PROVE UNCHANGED <<Permits, Calls>>
  BY <1>13 DEF Permits, Calls, Permitted, Calling, Target
<1>8. CASE Breaker!Elapse /\ UNCHANGED task
  BY <1>8, <1>13, ElapseGate DEF Gate!Tick, Gate!Next
<1>9. CASE UNCHANGED <<breakers, task>>
  BY <1>5, <1>9, <1>13 DEF Gate!vars
<1>10. QED
  BY <1>1, <1>2, <1>3, <1>4, <1>6, <1>7, <1>8, <1>9, <1>11, <1>12 DEF StepKind, Gate!Next

-----------------------------------------------------------------------------
\* Requests and breakers keep their types, whatever the interleaving of
\* converse calls and streams and whatever Bedrock answers.
THEOREM TypeCorrect == Spec => []TypeOK
<1>1. Inv => TypeOK
  BY DEF Inv
<1>2. QED
  BY <1>1, InvInit, InvStep, PTL DEF Spec

\* Leave to call a model is given outside its cooldown only, which lasts for
\* ResetTimeout from the failure that reached the threshold unless a call made
\* before succeeds.  converse calls in the step that has the leave; a stream
\* may use it later, once (router.py:98-103, routes.py:154, streaming.py:50).
THEOREM RoutingImplementsGate == Spec => ImplementsGate
<1>1. Init => Gate!Init
  BY GateInit
<1>2. Inv /\ [Next]_vars => [Gate!Next]_(Gate!vars)
  BY GateStep
<1>3. QED
  BY <1>1, <1>2, InvInit, InvStep, PTL DEF Spec, ImplementsGate, Gate!Spec
-----------------------------------------------------------------------------
(***************************************************************************)
(* The errors of converse.  While a call of it is under way no other handler *)
(* runs, so what it found of a candidate stays true until it returns: a     *)
(* breaker that was open can only be half-opened by this call itself.       *)
(***************************************************************************)
\* r has called the model or found its breaker open.
Tried(r, m) == m \in task[r].called \/ breakers[m].state = "OPEN"

TriedBefore(r) ==
  \A i \in 1 .. Len(task[r].route) : i < task[r].index => Tried(r, task[r].route[i])

Reported(r) ==
  task[r].outcome \in {"failed", "unavailable"} =>
    /\ \A i \in 1 .. Len(task[r].route) : Tried(r, task[r].route[i])
    /\ task[r].outcome = "unavailable" <=> task[r].called = {}

Truthful(r) ==
  /\ task[r].phase \in {"select", "attempt", "returned"}
  /\ task[r].phase \in {"select", "attempt"} => task[r].outcome = "none" /\ TriedBefore(r)
  /\ task[r].phase = "attempt" => task[r].route[task[r].index] \in task[r].called
  /\ task[r].failed => task[r].called # {}
  /\ task[r].phase = "select" /\ task[r].called # {} => task[r].failed
  /\ Reported(r)

HolderTruthful == \A r \in Requests : loop = r => Truthful(r)

LEMMA RouteOfModels ==
  ASSUME TypeOK, NEW r \in Requests
  PROVE  /\ Len(task[r].route) \in Nat
         /\ \A i \in 1 .. Len(task[r].route) : task[r].route[i] \in Models
<1>1. task[r].route \in Routes
  BY DEF TypeOK, Task
<1>2. task[r].route \in Seq(Models)
  <2>1. << >> \in Seq(Models) /\ \A m \in Models : <<m>> \in Seq(Models)
    OBVIOUS
  <2>2. CASE task[r].route \in {<< >>} \cup {<<m>> : m \in Models}
    BY <2>1, <2>2
  <2>3. ASSUME NEW primary \in Models, NEW rs \in DOMAIN RouteSets \cup {NoRouteSet},
               task[r].route = Candidates(primary, rs)
        PROVE  task[r].route \in Seq(Models)
    BY <2>3, CandidatesAre
  <2>4. QED
    BY <1>1, <2>2, <2>3 DEF Routes
<1>3. QED
  BY <1>2

\* What r has tried it has tried still, if no breaker that is open changes.
LEMMA StillTried ==
  ASSUME TypeOK, NEW r \in Requests, TriedBefore(r),
         task'[r].route = task[r].route, task'[r].index = task[r].index,
         task[r].called \subseteq task'[r].called,
         \A m \in Models : breakers[m].state = "OPEN" =>
           breakers'[m].state = "OPEN" \/ m \in task'[r].called
  PROVE  TriedBefore(r)'
BY RouteOfModels DEF TriedBefore, Tried

LEMMA NowTried ==
  ASSUME TypeOK, NEW r \in Requests, TriedBefore(r),
         task'[r].route = task[r].route, task'[r].index = task[r].index + 1,
         task[r].called \subseteq task'[r].called,
         \A m \in Models : breakers[m].state = "OPEN" =>
           breakers'[m].state = "OPEN" \/ m \in task'[r].called,
         LET m == task[r].route[task[r].index]
         IN  m \in task'[r].called \/ breakers'[m].state = "OPEN"
  PROVE  TriedBefore(r)'
<1>1. task[r].index \in Nat
  BY DEF TypeOK, Task
<1>2. SUFFICES ASSUME NEW i \in 1 .. Len(task[r].route), i < task[r].index + 1
               PROVE  Tried(r, task[r].route[i])'
  BY DEF TriedBefore
<1>3. CASE i = task[r].index
  BY <1>3 DEF Tried
<1>4. CASE i < task[r].index
  BY <1>4, RouteOfModels DEF TriedBefore, Tried
<1>5. QED
  BY <1>1, <1>2, <1>3, <1>4, RouteOfModels
\* A step of the call that holds the loop.
LEMMA HolderStep ==
  ASSUME TypeOK, NEW r \in Requests, Truthful(r), ConverseStep(r)
  PROVE  Truthful(r)'
<1> DEFINE x == task[r]
<1>1. x \in Task /\ task \in [Requests -> Task] /\ breakers \in [Models -> Breaker!ModelBreaker]
  BY DEF TypeOK, Breaker!TypeOK
<1>2. x.index \in Nat /\ x.failed \in BOOLEAN
  BY <1>1 DEF Task
<1>3. ASSUME NEW m \in Models, Skip(r, m) PROVE Truthful(r)'
  <2>1. /\ task'[r].index = x.index + 1 /\ task'[r].route = x.route
        /\ task'[r].phase = x.phase /\ x.phase = "select"
        /\ task'[r].called = x.called /\ task'[r].failed = x.failed
        /\ task'[r].outcome = x.outcome
        /\ m = x.route[x.index]
    BY <1>1, <1>3 DEF Skip, AtCandidate
  <2>2. breakers' = breakers /\ breakers[m].state = "OPEN"
    BY <1>3 DEF Skip, Breaker!Refuse, Breaker!MayCall
  <2>3. TriedBefore(r)'
    BY <2>1, <2>2, NowTried DEF Truthful
  <2>4. QED
    BY <2>1, <2>3 DEF Truthful, Reported
<1>4. ASSUME NEW m \in Models, Dispatch(r, m) PROVE Truthful(r)'
  <2>1. /\ task'[r].index = x.index /\ task'[r].route = x.route
        /\ task'[r].phase = "attempt" /\ x.phase = "select"
        /\ task'[r].called = x.called \cup {m} /\ task'[r].failed = x.failed
        /\ task'[r].outcome = x.outcome
        /\ m = x.route[x.index]
    BY <1>1, <1>4 DEF Dispatch, AtCandidate
  <2>2. \A n \in Models : breakers[n].state = "OPEN" =>
          breakers'[n].state = "OPEN" \/ n = m
    BY <1>1, <1>4 DEF Dispatch, Breaker!Allow
  <2>3. TriedBefore(r)'
    BY <2>1, <2>2, StillTried DEF Truthful
  <2>4. QED
    BY <2>1, <2>3 DEF Truthful, Reported
<1>5. CASE Retry(r)
  <2>1. /\ task'[r].index = x.index /\ task'[r].route = x.route
        /\ task'[r].phase = "attempt" /\ x.phase = "attempt"
        /\ task'[r].called = x.called /\ task'[r].failed = x.failed
        /\ task'[r].outcome = x.outcome
    BY <1>1, <1>5 DEF Retry
  <2>2. breakers' = breakers
    BY <1>5 DEF Retry
  <2>3. TriedBefore(r)'
    BY <2>1, <2>2, StillTried DEF Truthful
  <2>4. QED
    BY <2>1, <2>3 DEF Truthful, Reported
<1>6. ASSUME NEW m \in Models, Succeed(r, m) PROVE Truthful(r)'
  <2>1. /\ task'[r].phase = "returned" /\ task'[r].outcome = "ok"
        /\ task'[r].called = x.called /\ task'[r].failed = x.failed
    BY <1>1, <1>6 DEF Succeed, Finish
  <2>2. QED
    BY <2>1 DEF Truthful, Reported
<1>7. ASSUME NEW m \in Models, Fail(r, m) PROVE Truthful(r)'
  <2>1. /\ task'[r].index = x.index + 1 /\ task'[r].route = x.route
        /\ task'[r].phase = "select" /\ x.phase = "attempt"
        /\ task'[r].called = x.called /\ task'[r].failed = TRUE
        /\ task'[r].outcome = x.outcome
        /\ m = x.route[x.index]
    BY <1>1, <1>7 DEF Fail, AtCandidate
  <2>2. \A n \in Models : breakers[n].state = "OPEN" => breakers'[n].state = "OPEN"
    BY <1>1, <1>7 DEF Fail, Breaker!RecordFailure
  <2>3. m \in x.called
    BY <2>1 DEF Truthful
  <2>4. TriedBefore(r)'
    BY <2>1, <2>2, <2>3, NowTried DEF Truthful
  <2>5. QED
    BY <2>1, <2>3, <2>4 DEF Truthful, Reported
<1>8. CASE GiveUp(r)
  <2>1. /\ task'[r].phase = "returned" /\ task'[r].route = x.route
        /\ task'[r].called = x.called /\ task'[r].failed = x.failed
        /\ task'[r].outcome = IF x.failed THEN "failed" ELSE "unavailable"
    BY <1>1, <1>8 DEF GiveUp, Finish
  <2>2. /\ breakers' = breakers /\ x.phase = "select" /\ x.index > Len(x.route)
    BY <1>8 DEF GiveUp, Exhausted
  <2>3. \A i \in 1 .. Len(x.route) : Tried(r, x.route[i])
    BY <1>2, <2>2, RouteOfModels DEF Truthful, TriedBefore
  <2>4. \A i \in 1 .. Len(task'[r].route) : Tried(r, task[r].route[i])'
    BY <2>1, <2>2, <2>3 DEF Tried
  <2>5. task'[r].outcome = "unavailable" <=> task'[r].called = {}
    BY <2>1, <2>2 DEF Truthful
  <2>6. QED
    BY <2>1, <2>2, <2>4, <2>5 DEF Truthful, Reported
<1>9. QED
  BY <1>3, <1>4, <1>5, <1>6, <1>7, <1>8 DEF ConverseStep

\* A call begins with nothing tried.
LEMMA BeginTruthful ==
  ASSUME TypeOK, NEW r \in Requests, NEW primary \in Models,
         NEW rs \in DOMAIN RouteSets \cup {NoRouteSet}, Converse(r, primary, rs)
  PROVE  Truthful(r)'
<1>1. /\ task'[r].phase = "select" /\ task'[r].index = 1 /\ task'[r].called = {}
      /\ task'[r].failed = FALSE /\ task'[r].outcome = "none"
      /\ task'[r].route = Candidates(primary, rs)
  BY DEF Converse, TypeOK, Idle
<1>2. Len(task'[r].route) \in Nat
  BY <1>1, CandidatesAre
<1>3. TriedBefore(r)'
  BY <1>1, <1>2 DEF TriedBefore
<1>4. QED
  BY <1>1, <1>3 DEF Truthful, Reported

LEMMA TruthfulStep ==
  ASSUME TypeOK, HolderTruthful, [Next]_vars
  PROVE  HolderTruthful'
<1> SUFFICES ASSUME NEW r \in Requests, loop' = r PROVE Truthful(r)'
  BY DEF HolderTruthful
<1>1. r # NoRequest
  BY RoutingAssumption
<1>2. ASSUME NEW u \in Requests, Begin(u) PROVE Truthful(r)'
  BY <1>2, BeginTruthful DEF Begin
<1>3. ASSUME NEW u \in Requests, Run(u) PROVE Truthful(r)'
  BY <1>3, HolderStep DEF Run, HolderTruthful
<1>4. ASSUME NEW u \in Requests, Return(u) \/ Stream(u) PROVE FALSE
  BY <1>1, <1>4 DEF Return, Stream
<1>5. CASE Tick
  <2>1. loop = r /\ task' = task
    BY <1>5 DEF Tick
  <2>2. \A m \in Models : breakers'[m].state = breakers[m].state
    BY <1>5 DEF Tick, Breaker!Elapse, TypeOK, Breaker!TypeOK, Breaker!ModelBreaker
  <2>3. \A i \in 1 .. Len(task[r].route) :
          Tried(r, task[r].route[i])' <=> Tried(r, task[r].route[i])
    BY <2>1, <2>2, RouteOfModels DEF Tried
  <2>4. QED
    BY <2>1, <2>3 DEF HolderTruthful, Truthful, TriedBefore, Reported
<1>6. CASE UNCHANGED vars
  BY <1>6 DEF vars, HolderTruthful, Truthful, TriedBefore, Reported, Tried
<1>7. QED
  BY <1>2, <1>3, <1>4, <1>5, <1>6 DEF Next

LEMMA TruthfulInit == Init => HolderTruthful
BY RoutingAssumption DEF Init, HolderTruthful

LEMMA TruthfulMeans == HolderTruthful => NoCandidateIgnored
BY Zenon DEF HolderTruthful, Truthful, Reported, Tried, NoCandidateIgnored

\* What converse reports is true for every list of models, every route set and
\* every number of retries: no candidate was left out, and
\* AllRoutesUnavailableError means that none was called (router.py:86-113).
THEOREM ErrorsTruthful == Spec => []NoCandidateIgnored
<1>1. Inv /\ HolderTruthful /\ [Next]_vars => HolderTruthful'
  BY TruthfulStep DEF Inv
<1>2. QED
  BY <1>1, TruthfulInit, TruthfulMeans, InvInit, InvStep, PTL DEF Spec

-----------------------------------------------------------------------------
(***************************************************************************)
(* The way of a call of converse along its candidates.                      *)
(***************************************************************************)
\* The call goes along the candidates of some model, one of which it has
\* reached while it calls it and when it has its answer.
Routed(r) ==
  /\ task[r].phase \in {"select", "attempt", "returned"}
  /\ task[r].phase \in {"select", "attempt"} => task[r].outcome = "none"
  /\ \E primary \in Models, rs \in DOMAIN RouteSets \cup {NoRouteSet} :
       task[r].route = Candidates(primary, rs)
  /\ task[r].index <= Len(task[r].route) + 1
  /\ task[r].phase = "attempt" \/ task[r].outcome = "ok"
       => task[r].index <= Len(task[r].route)

HolderRouted == \A r \in Requests : loop = r => Routed(r)

\* What one step does to the place of a call, seen from StepsLeft.
Advances(r) ==
  LET x == task[r]
      y == task'[r]
  IN  /\ y.route = x.route
      /\ \/ /\ x.phase = "select" /\ y.phase \in {"select", "attempt"}
            /\ x.index <= Len(x.route) /\ y.outcome = x.outcome
            /\ \/ y.phase = "select" /\ y.index = x.index + 1
               \/ y.phase = "attempt" /\ y.index = x.index /\ y.attempt = 0
         \/ /\ x.phase = "attempt" /\ y.outcome = x.outcome
            /\ \/ y.phase = "select" /\ y.index = x.index + 1
               \/ /\ y.phase = "attempt" /\ y.index = x.index
                  /\ x.attempt < MaxRetries /\ y.attempt = x.attempt + 1
         \/ /\ y.phase = "returned" /\ y.index = x.index
            /\ \/ x.phase = "attempt" /\ y.outcome = "ok"
               \/ x.phase = "select" /\ y.outcome # "ok"

LEMMA ConverseStepAdvances ==
  ASSUME TypeOK, NEW r \in Requests, ConverseStep(r)
  PROVE  Advances(r)
<1>1. task[r] \in Task /\ task \in [Requests -> Task]
  BY DEF TypeOK
<1>2. ASSUME NEW m \in Models, Skip(r, m) PROVE Advances(r)
  BY <1>1, <1>2 DEF Skip, AtCandidate, Advances, Task
<1>3. ASSUME NEW m \in Models, Dispatch(r, m) PROVE Advances(r)
  BY <1>1, <1>3 DEF Dispatch, AtCandidate, Advances, Task
<1>4. CASE Retry(r)
  BY <1>1, <1>4 DEF Retry, Advances, Task
<1>5. ASSUME NEW m \in Models, Succeed(r, m) PROVE Advances(r)
  BY <1>1, <1>5 DEF Succeed, Finish, Advances, Task
<1>6. ASSUME NEW m \in Models, Fail(r, m) PROVE Advances(r)
  BY <1>1, <1>6 DEF Fail, Advances, Task
<1>7. CASE GiveUp(r)
  BY <1>1, <1>7 DEF GiveUp, Finish, Advances, Task
<1>8. QED
  BY <1>2, <1>3, <1>4, <1>5, <1>6, <1>7 DEF ConverseStep

LEMMA RoutedStep ==
  ASSUME TypeOK, HolderRouted, [Next]_vars
  PROVE  HolderRouted'
<1> SUFFICES ASSUME NEW r \in Requests, loop' = r PROVE Routed(r)'
  BY DEF HolderRouted
<1>1. r # NoRequest
  BY RoutingAssumption
<1>2. ASSUME NEW u \in Requests, Begin(u) PROVE Routed(r)'
  <2>1. PICK primary \in Models, rs \in DOMAIN RouteSets \cup {NoRouteSet} :
          Converse(r, primary, rs)
    BY <1>2 DEF Begin
  <2>2. /\ task'[r].phase = "select" /\ task'[r].index = 1
        /\ task'[r].outcome = "none" /\ task'[r].route = Candidates(primary, rs)
    BY <2>1 DEF Converse, TypeOK, Idle
  <2>3. Len(task'[r].route) \in Nat
    BY <2>2, CandidatesAre
  <2>4. QED
    BY <2>2, <2>3 DEF Routed
<1>3. ASSUME NEW u \in Requests, Run(u) PROVE Routed(r)'
  <2>1. Routed(r) /\ Advances(r)
    BY <1>3, ConverseStepAdvances DEF Run, HolderRouted
  <2>2. task[r].index \in Nat /\ Len(task[r].route) \in Nat
    BY RouteOfModels DEF TypeOK, Task
  <2>3. QED
    BY <2>1, <2>2 DEF Routed, Advances
<1>4. ASSUME NEW u \in Requests, Return(u) \/ Stream(u) PROVE FALSE
  BY <1>1, <1>4 DEF Return, Stream
<1>5. CASE Tick
  BY <1>5 DEF Tick, HolderRouted, Routed
<1>6. CASE UNCHANGED vars
  BY <1>6 DEF vars, HolderRouted, Routed
<1>7. QED
  BY <1>2, <1>3, <1>4, <1>5, <1>6 DEF Next

LEMMA RoutedInit == Init => HolderRouted
BY RoutingAssumption DEF Init, HolderRouted

LEMMA RoutedMeans == Inv /\ HolderRouted => FallbackFlagTruthful
<1> SUFFICES ASSUME Inv, NEW r \in Requests, Routed(r), task[r].outcome = "ok"
             PROVE  task[r].index > 1
                      <=> task[r].route[task[r].index] # task[r].route[1]
  BY DEF HolderRouted, FallbackFlagTruthful
<1>1. PICK primary \in Models, rs \in DOMAIN RouteSets \cup {NoRouteSet} :
        task[r].route = Candidates(primary, rs)
  BY DEF Routed
<1>2. task[r].index \in Nat \ {0} /\ task[r].index <= Len(task[r].route)
  BY DEF Routed, Inv, TypeOK, Task
<1>3. QED
  BY <1>1, <1>2, CandidatesAre

\* The result's fallback flag tells the truth for every route set, the ones
\* that name the primary among its own fallbacks, or a model twice, included
\* (router.py:93-109).
THEOREM FallbackFlagAlwaysTruthful == Spec => []FallbackFlagTruthful
<1>1. Inv /\ HolderRouted /\ [Next]_vars => HolderRouted'
  BY RoutedStep DEF Inv
<1>2. QED
  BY <1>1, RoutedInit, RoutedMeans, InvInit, InvStep, PTL DEF Spec

\* The two laws of multiplication that the bound needs.
LEMMA TimesOneMore ==
  ASSUME NEW a \in Nat, NEW b \in Nat
  PROVE  a * b \in Nat /\ a * (b + 1) = a * b + a
OBVIOUS

\* What the bound rests on: a step of the handler that holds the loop is one
\* less to go.
LEMMA OneLess ==
  ASSUME Inv, HolderRouted, NEW r \in Requests, Run(r)
  PROVE  StepsLeft(r)' \in 0 .. StepsLeft(r) - 1
<1> DEFINE x == task[r]
           y == task'[r]
           k == MaxRetries + 2
           n == Len(x.route) + 1 - x.index
<1>1. Routed(r) /\ Advances(r)
  BY ConverseStepAdvances DEF Run, HolderRouted, Inv
<1>2. /\ x.index \in Nat /\ Len(x.route) \in Nat
      /\ x.attempt \in 0 .. MaxRetries /\ MaxRetries \in Nat
  BY RouteOfModels, RoutingAssumption DEF Inv, TypeOK, Task
<1>3. n \in Nat /\ (x.index <= Len(x.route) => n - 1 \in Nat)
  BY <1>1, <1>2 DEF Routed
<1>4. k \in Nat
  BY <1>2
<1> HIDE DEF n, k
<1>5. /\ k * n \in Nat
      /\ n - 1 \in Nat => k * (n - 1) \in Nat /\ k * n = k * (n - 1) + k
  <2>1. ASSUME n - 1 \in Nat
        PROVE  k * (n - 1) \in Nat /\ k * (n - 1 + 1) = k * (n - 1) + k
    BY <1>4, <2>1, TimesOneMore
  <2>2. n - 1 + 1 = n
    BY <1>3
  <2>3. QED
    BY <1>3, <1>4, <2>1, <2>2, TimesOneMore
<1>6. StepsLeft(r) = CASE x.phase = "select" -> k * n + 1
                       [] x.phase = "attempt" -> k * n - x.attempt
                       [] OTHER -> 0
  BY DEF StepsLeft, n, k
<1>7. StepsLeft(r)' = CASE y.phase = "select" -> k * (Len(y.route) + 1 - y.index) + 1
                        [] y.phase = "attempt" -> k * (Len(y.route) + 1 - y.index) - y.attempt
                        [] OTHER -> 0
  BY DEF StepsLeft, k
<1>8. ASSUME y.route = x.route, y.index = x.index
      PROVE  Len(y.route) + 1 - y.index = n
  BY <1>8 DEF n
<1>9. ASSUME y.route = x.route, y.index = x.index + 1
      PROVE  Len(y.route) + 1 - y.index = n - 1
  <2> DEFINE l == Len(x.route)
             i == x.index
  <2>1. Len(y.route) = l /\ y.index = i + 1 /\ n = l + 1 - i
    BY <1>9 DEF n
  <2>2. l \in Nat /\ i \in Nat
    BY <1>2
  <2> HIDE DEF l, i
  <2>3. QED
    BY <2>1, <2>2
<1> DEFINE K == k * n
           J == k * (n - 1)
           L == StepsLeft(r)
           M == StepsLeft(r)'
<1>10. y.route = x.route /\ y.index = x.index =>
         M = CASE y.phase = "select" -> K + 1
               [] y.phase = "attempt" -> K - y.attempt
               [] OTHER -> 0
  BY <1>7, <1>8
<1>11. y.route = x.route /\ y.index = x.index + 1 =>
         M = CASE y.phase = "select" -> J + 1
               [] y.phase = "attempt" -> J - y.attempt
               [] OTHER -> 0
  BY <1>7, <1>9
<1>12. /\ K \in Nat /\ n \in Nat
       /\ x.index <= Len(x.route) => J \in Nat /\ K = J + k
       /\ k = MaxRetries + 2
  BY <1>3, <1>5 DEF k
<1>13. L = CASE x.phase = "select" -> K + 1
             [] x.phase = "attempt" -> K - x.attempt
             [] OTHER -> 0
  BY <1>6
<1> HIDE DEF K, J, L, M
<1>14. M \in 0 .. L - 1
  <2>1. /\ x.phase = "select" \/ x.phase = "attempt"
        /\ x.phase = "attempt" => x.index <= Len(x.route)
        /\ y.route = x.route
    BY <1>1 DEF Routed, Advances
  <2>2. CASE x.phase = "select" /\ y.phase = "select"
    <3>1. L = K + 1 /\ M = J + 1 /\ K = J + k /\ J \in Nat
      BY <1>1, <1>11, <1>12, <1>13, <2>2 DEF Advances
    <3>2. QED
      BY <1>2, <1>12, <3>1
  <2>3. CASE x.phase = "select" /\ y.phase = "attempt"
    <3>1. L = K + 1 /\ M = K - y.attempt /\ y.attempt = 0 /\ K = J + k /\ J \in Nat
      BY <1>1, <1>10, <1>12, <1>13, <2>3 DEF Advances
    <3>2. QED
      BY <1>2, <1>12, <3>1
  <2>4. CASE x.phase = "attempt" /\ y.phase = "select"
    <3>1. L = K - x.attempt /\ M = J + 1 /\ K = J + k /\ J \in Nat
      BY <1>1, <1>11, <1>12, <1>13, <2>1, <2>4 DEF Advances
    <3>2. QED
      BY <1>2, <1>12, <3>1
  <2>5. CASE x.phase = "attempt" /\ y.phase = "attempt"
    <3>1. /\ L = K - x.attempt /\ M = K - y.attempt /\ y.attempt = x.attempt + 1
          /\ x.attempt < MaxRetries /\ K = J + k /\ J \in Nat
      BY <1>1, <1>10, <1>12, <1>13, <2>1, <2>5 DEF Advances
    <3>2. QED
      BY <1>2, <1>12, <3>1
  <2>6. CASE y.phase = "returned"
    <3>1. /\ M = 0
          /\ \/ L = K + 1
             \/ L = K - x.attempt /\ K = J + k /\ J \in Nat
      BY <1>1, <1>10, <1>12, <1>13, <2>1, <2>6 DEF Advances
    <3>2. QED
      BY <1>2, <1>12, <3>1
  <2>7. QED
    BY <1>1, <2>1, <2>2, <2>3, <2>4, <2>5, <2>6 DEF Advances
<1>15. QED
  BY <1>14 DEF L, M

\* A call of converse ends after at most MaxRetries + 2 steps for each candidate
\* and one more, for every route set and number of retries: the part of
\* EveryCallReturns that needs no fairness.
THEOREM EveryStepOneLess == Spec => ConverseBounded
<1>1. Inv /\ HolderRouted /\ [Next]_vars
        => [\A r \in Requests : Run(r) => StepsLeft(r)' \in 0 .. StepsLeft(r) - 1]_vars
  BY OneLess
<1>2. Inv /\ HolderRouted /\ [Next]_vars => HolderRouted'
  BY RoutedStep DEF Inv
<1>3. QED
  BY <1>1, <1>2, RoutedInit, InvInit, InvStep, PTL DEF Spec, ConverseBounded

-----------------------------------------------------------------------------
\* All of it, for the modules whose steps are Routing's.
Sure == Inv /\ HolderTruthful /\ HolderRouted

LEMMA SureAlways ==
  /\ Init => Sure
  /\ Sure /\ [Next]_vars => Sure'
  /\ Sure => Breaker!StateMatchesCount /\ NoCandidateIgnored /\ FallbackFlagTruthful
<1>1. Init => Sure
  BY InvInit, TruthfulInit, RoutedInit DEF Sure
<1>2. Sure /\ [Next]_vars => Sure'
  BY InvStep, TruthfulStep, RoutedStep DEF Sure, Inv
<1>3. Sure => Breaker!StateMatchesCount /\ NoCandidateIgnored /\ FallbackFlagTruthful
  BY TruthfulMeans, RoutedMeans DEF Sure, Inv
<1>4. QED
  BY <1>1, <1>2, <1>3
=============================================================================
