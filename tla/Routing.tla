------------------------------- MODULE Routing -------------------------------
(***************************************************************************)
(* How requests reach the models: CertifiedRouter.converse with the retry   *)
(* loop of BedrockClient.converse under it, the streams of streaming.py,    *)
(* and the circuit breaker the two share.                                   *)
(*                                                                         *)
(* The gateway runs one asyncio event loop.  converse is synchronous: from  *)
(* its call to its return the request holds the loop, and nothing else but  *)
(* the clock moves.  A stream is a generator that gives the loop back after *)
(* every chunk, so that several streams, and whole converse calls, overlap  *)
(* within one stream.                                                       *)
(***************************************************************************)
EXTENDS Naturals, Sequences

CONSTANTS
  Models,            \* model ids
  Requests,          \* requests the gateway works on at one time
  NoRequest,         \* the value of loop when no handler is running
  RouteSets,         \* route set name -> its fallbacks (route_sets.yaml)
  NoRouteSet,        \* a tenant without a route set, or with an unknown one
  MaxRetries,        \* max_retries of BedrockClient (2 in production)
  FailureThreshold, ResetTimeout, FailureCap    \* see CircuitBreaker

VARIABLES
  breakers,          \* the CircuitBreaker
  task,              \* task[r]: the local state of request r's routing
  loop               \* the request that holds the event loop

Breaker == INSTANCE CircuitBreaker

ASSUME RoutingAssumption ==
  /\ Breaker!BreakerAssumption
  /\ MaxRetries \in Nat
  /\ NoRequest \notin Requests
  /\ NoRouteSet \notin DOMAIN RouteSets
  /\ \A rs \in DOMAIN RouteSets : RouteSets[rs] \in Seq(Models)

vars == <<breakers, task, loop>>

-----------------------------------------------------------------------------
(***************************************************************************)
(* The local state of a request.  route[index] is the candidate at hand,    *)
(* attempt counts the retries of its call; called and failed are the models *)
(* called so far and last_error is not None.  trial remembers that the call *)
(* in progress was granted by a half-open breaker.                          *)
(*                                                                         *)
(* Phases: idle; select (at the top of converse's loop); attempt (in        *)
(* BedrockClient.converse); opening (a StreamingResponse returned whose     *)
(* generator has not started, and has called nobody); streaming; returned.  *)
(***************************************************************************)
Phase == {"idle", "select", "attempt", "opening", "streaming", "returned"}

Outcome == {"none", "ok", "failed", "unavailable", "circuit_open", "aborted"}

Idle == [phase |-> "idle", route |-> << >>, index |-> 1, attempt |-> 0,
         called |-> {}, failed |-> FALSE, trial |-> FALSE, outcome |-> "none"]

Init ==
  /\ Breaker!Init
  /\ task = [r \in Requests |-> Idle]
  /\ loop = NoRequest

FallbacksFor(rs) == IF rs \in DOMAIN RouteSets THEN RouteSets[rs] ELSE << >>

\* Slip: the primary is not taken out of the fallbacks.
CandidatesWithPrimary(primary, rs) == <<primary>> \o FallbacksFor(rs)

\* The primary, then the fallbacks in their order but the primary itself.
Candidates(primary, rs) ==
  LET fallbacks == FallbacksFor(rs)
      upTo[n \in 0 .. Len(fallbacks)] ==
        IF n = 0 THEN <<primary>>
        ELSE IF fallbacks[n] = primary THEN upTo[n - 1]
        ELSE Append(upTo[n - 1], fallbacks[n])
  IN  upTo[Len(fallbacks)]

\* The routes there are: none, a converse call's candidates, a stream's model.
Routes ==
  {<< >>} \cup {<<m>> : m \in Models}
  \cup {Candidates(primary, rs) : primary \in Models,
                                  rs \in DOMAIN RouteSets \cup {NoRouteSet}}

\* m is the candidate r has reached.
AtCandidate(r, m) ==
  /\ task[r].index <= Len(task[r].route)
  /\ m = task[r].route[task[r].index]

Exhausted(r) == task[r].index > Len(task[r].route)

\* r has the breaker's leave, and uses it: a stream has it before it calls.
Permitted(r) == task[r].phase = "opening"

Calling(r) == task[r].phase \in {"attempt", "streaming"}

\* r comes to its result.
Finish(r, result) ==
  task' = [task EXCEPT ![r] = [@ EXCEPT !.phase = "returned", !.trial = FALSE,
                                        !.outcome = result]]

-----------------------------------------------------------------------------
(***************************************************************************)
(* CertifiedRouter.converse                                                 *)
(***************************************************************************)
Converse(r, primary, rs) ==
  /\ task[r].phase = "idle"
  /\ task' = [task EXCEPT ![r] = [Idle EXCEPT !.phase = "select",
                                   !.route = Candidates(primary, rs)]]
  /\ UNCHANGED breakers

\* allow(m) says no: on to the next candidate.
Skip(r, m) ==
  /\ task[r].phase = "select"
  /\ AtCandidate(r, m)
  /\ Breaker!Refuse(m)
  /\ task' = [task EXCEPT ![r].index = task[r].index + 1]

\* Slip: the breaker is not asked.
DispatchUnasked(r, m) ==
  /\ task[r].phase = "select"
  /\ AtCandidate(r, m)
  /\ task' = [task EXCEPT ![r] = [@ EXCEPT !.phase = "attempt", !.attempt = 0,
                                           !.called = task[r].called \cup {m}]]
  /\ UNCHANGED breakers

\* allow(m) says yes: the call starts.
Dispatch(r, m) ==
  /\ task[r].phase = "select"
  /\ AtCandidate(r, m)
  /\ Breaker!Allow(m)
  /\ task' = [task EXCEPT ![r] =
                [@ EXCEPT !.phase = "attempt", !.attempt = 0,
                          !.called = task[r].called \cup {m},
                          !.trial = (breakers[m].state # "CLOSED")]]

\* Slip: one retry too many.
RetryOneMore(r) ==
  /\ task[r].phase = "attempt"
  /\ task[r].attempt <= MaxRetries
  /\ task' = [task EXCEPT ![r].attempt = task[r].attempt + 1]
  /\ UNCHANGED breakers

\* A retryable error with retries left: back off and call again.
Retry(r) ==
  /\ task[r].phase = "attempt"
  /\ task[r].attempt < MaxRetries
  /\ task' = [task EXCEPT ![r].attempt = task[r].attempt + 1]
  /\ UNCHANGED breakers

Succeed(r, m) ==
  /\ task[r].phase = "attempt"
  /\ AtCandidate(r, m)
  /\ Breaker!RecordSuccess(m)
  /\ Finish(r, "ok")

\* Slip: last_error is not kept.
FailForgotten(r, m) ==
  /\ task[r].phase = "attempt"
  /\ AtCandidate(r, m)
  /\ Breaker!RecordFailure(m)
  /\ task' = [task EXCEPT ![r] =
                [@ EXCEPT !.phase = "select", !.index = task[r].index + 1,
                          !.trial = FALSE]]

\* Slip: the loop goes round with the same candidate.
FailSameCandidate(r, m) ==
  /\ task[r].phase = "attempt"
  /\ AtCandidate(r, m)
  /\ Breaker!RecordFailure(m)
  /\ task' = [task EXCEPT ![r] = [@ EXCEPT !.phase = "select", !.failed = TRUE,
                                           !.trial = FALSE]]

\* BedrockInvocationError: an error that is not retryable, at any attempt, or
\* a retryable one when the retries are used up.
Fail(r, m) ==
  /\ task[r].phase = "attempt"
  /\ AtCandidate(r, m)
  /\ Breaker!RecordFailure(m)
  /\ task' = [task EXCEPT ![r] =
                [@ EXCEPT !.phase = "select", !.index = task[r].index + 1,
                          !.failed = TRUE, !.trial = FALSE]]

\* No candidate is left: the last error, or AllRoutesUnavailableError.
GiveUp(r) ==
  /\ task[r].phase = "select"
  /\ Exhausted(r)
  /\ Finish(r, IF task[r].failed THEN "failed" ELSE "unavailable")
  /\ UNCHANGED breakers

ConverseStep(r) ==
  \/ \E m \in Models : Skip(r, m) \/ Dispatch(r, m) \/ Succeed(r, m) \/ Fail(r, m)
  \/ Retry(r)
  \/ GiveUp(r)

-----------------------------------------------------------------------------
(***************************************************************************)
(* Streams.  allow is asked in the handler; the call to Bedrock comes when   *)
(* the response body is first pulled, and by then the breaker may have       *)
(* opened.  A stream ends in one of three ways: at its end it records a      *)
(* success, on an error a failure, and when the client is gone nothing.     *)
(***************************************************************************)
OpenStream(r, m) ==
  /\ task[r].phase = "idle"
  /\ Breaker!Allow(m)
  /\ task' = [task EXCEPT ![r] =
                [Idle EXCEPT !.phase = "opening", !.route = <<m>>,
                             !.trial = (breakers[m].state # "CLOSED")]]

RefuseStream(r, m) ==
  /\ task[r].phase = "idle"
  /\ Breaker!Refuse(m)
  /\ Finish(r, "circuit_open")

\* The generator's first pull is the call to Bedrock.  The pulls after it, and
\* the chunks they send, change nothing here.
FirstPull(r, m) ==
  /\ task[r].phase = "opening"
  /\ AtCandidate(r, m)
  /\ task' = [task EXCEPT ![r] = [@ EXCEPT !.phase = "streaming",
                                           !.called = {m}]]
  /\ UNCHANGED breakers

StreamEnd(r, m) ==
  /\ task[r].phase = "streaming"
  /\ AtCandidate(r, m)
  /\ Breaker!RecordSuccess(m)
  /\ Finish(r, "ok")

\* converse_stream raised, at the call or in the middle of the stream.
StreamError(r, m) ==
  /\ task[r].phase = "streaming"
  /\ AtCandidate(r, m)
  /\ Breaker!RecordFailure(m)
  /\ Finish(r, "failed")

\* After a pull is_disconnected() said yes, or the generator was closed at a
\* yield.
StreamAbort(r) ==
  /\ task[r].phase = "streaming"
  /\ Finish(r, "aborted")
  /\ UNCHANGED breakers

\* The client was gone before the response's generator was ever pulled.
StreamDropped(r) ==
  /\ task[r].phase = "opening"
  /\ Finish(r, "aborted")
  /\ UNCHANGED breakers

StreamStep(r) ==
  \/ \E m \in Models : FirstPull(r, m) \/ StreamEnd(r, m) \/ StreamError(r, m)
  \/ StreamAbort(r)
  \/ StreamDropped(r)

\* The response is sent; r stands for the next request from here on.
Reset(r) ==
  /\ task[r].phase = "returned"
  /\ task' = [task EXCEPT ![r] = Idle]
  /\ UNCHANGED breakers

-----------------------------------------------------------------------------
Begin(r) ==
  /\ loop = NoRequest
  /\ \E primary \in Models, rs \in DOMAIN RouteSets \cup {NoRouteSet} :
       Converse(r, primary, rs)
  /\ loop' = r

Run(r) == loop = r /\ ConverseStep(r) /\ UNCHANGED loop

Return(r) == loop = r /\ Reset(r) /\ loop' = NoRequest

Stream(r) ==
  /\ loop = NoRequest
  /\ \/ \E m \in Models : OpenStream(r, m) \/ RefuseStream(r, m)
     \/ StreamStep(r)
     \/ Reset(r)
  /\ UNCHANGED loop

Tick == Breaker!Elapse /\ UNCHANGED <<task, loop>>

Next ==
  \/ \E r \in Requests : Begin(r) \/ Run(r) \/ Return(r) \/ Stream(r)
  \/ Tick

\* The clock never stops, and a call to Bedrock answers or times out
\* (connect_timeout and read_timeout), so the request that holds the loop goes
\* on.  Nothing is assumed of streams, whose pace is the client's, nor of
\* which answer Bedrock gives.
Spec ==
  /\ Init /\ [][Next]_vars
  /\ WF_vars(Tick)
  /\ \A r \in Requests : WF_vars(Run(r) \/ Return(r))

-----------------------------------------------------------------------------
Task == [phase : Phase,
         route : Routes,
         index : Nat \ {0},
         attempt : 0 .. MaxRetries,
         called : SUBSET Models,
         failed : BOOLEAN,
         trial : BOOLEAN,
         outcome : Outcome]

\* Every variable keeps its kind; the breakers are TypeOK of CircuitBreaker.
TypeOK ==
  /\ Breaker!TypeOK
  /\ task \in [Requests -> Task]
  /\ loop \in Requests \cup {NoRequest}

\* What the handler is told when converse fails is true: it failed only after
\* every candidate was called or stood behind an open breaker, and
\* AllRoutesUnavailableError means that no call was attempted, while any
\* other error means that one was and failed (router.py:28-31, 88-92).
NoCandidateIgnored ==
  \A r \in Requests :
    loop = r /\ task[r].outcome \in {"failed", "unavailable"} =>
      /\ \A i \in 1 .. Len(task[r].route) :
           LET m == task[r].route[i]
           IN  m \in task[r].called \/ breakers[m].state = "OPEN"
      /\ task[r].outcome = "unavailable" <=> task[r].called = {}

\* The result's fallback flag (index > 0) is true exactly when the answer
\* came from another model than the primary, whatever a route set lists.
FallbackFlagTruthful ==
  \A r \in Requests :
    loop = r /\ task[r].outcome = "ok" =>
      (task[r].index > 1 <=> task[r].route[task[r].index] # task[r].route[1])

\* The most steps that are left of a converse call: for each candidate, being
\* asked for, the first attempt and the retries, and then the return.
StepsLeft(r) ==
  LET perCandidate == MaxRetries + 2
      candidates == Len(task[r].route) + 1 - task[r].index
  IN  CASE task[r].phase = "select" -> perCandidate * candidates + 1
        [] task[r].phase = "attempt" -> perCandidate * candidates - task[r].attempt
        [] OTHER -> 0

\* Every step of a converse call is one step less to go, so that a request
\* costs at most MaxRetries + 1 calls to Bedrock for each candidate, whatever
\* Bedrock answers and whatever the breakers say (router.py:97-107 around
\* bedrock_client.py:151-186).
ConverseBounded ==
  [][\A r \in Requests : Run(r) => StepsLeft(r)' \in 0 .. StepsLeft(r) - 1]_vars

\* No call of converse keeps the event loop for ever: it returns after
\* finitely many attempts, whatever Bedrock answers.
EveryCallReturns ==
  \A r \in Requests : loop = r ~> loop # r

\* No model is locked out for ever: again and again allow would say yes, even
\* though a stream that is aborted tells the breaker nothing.
NoPermanentLockout == \A m \in Models : []<>Breaker!MayCall(m)

\* converse and the streams together do what UpstreamGate promises: whoever
\* calls a model was given leave outside the model's cooldown, converse in the
\* step that calls and a stream in an earlier one (router.py:98-103,
\* routes.py:154, streaming.py:50, 60, 74).
Fails == [m \in Models |-> breakers[m].consecutive_failures]

Cooldown == [m \in Models |-> IF breakers[m].state = "OPEN"
                              THEN ResetTimeout - breakers[m].age
                              ELSE 0]

Target(r) == {task[r].route[task[r].index]}

Permits == [r \in Requests |-> IF Permitted(r) THEN Target(r) ELSE {}]

Calls == [r \in Requests |-> IF Calling(r) THEN Target(r) ELSE {}]

Gate == INSTANCE UpstreamGate WITH
  fails <- Fails, cooldown <- Cooldown, permits <- Permits, calls <- Calls

ImplementsGate == Gate!Spec

\* "OPEN -> calls are rejected immediately (no call to the model) until
\* `reset_timeout_s` has elapsed" (circuit_breaker.py:5-6), and "a model
\* already known to be failing doesn't get a streaming request either"
\* (streaming.py:18-20): no call begins while allow would refuse it.
OpenBreakerNotCalled ==
  [][\A r \in Requests :
       \A m \in task'[r].called \ task[r].called : Breaker!MayCall(m)]_vars

\* "HALF_OPEN -> one trial call is let through" (circuit_breaker.py:7-8): a
\* half-open breaker never has let through two trial calls that go on.
HalfOpenSingleTrial ==
  \A r1, r2 \in Requests :
    /\ Permitted(r1) \/ Calling(r1)
    /\ Permitted(r2) \/ Calling(r2)
    /\ task[r1].trial /\ task[r2].trial
    /\ Target(r1) = Target(r2)
    => r1 = r2
=============================================================================
