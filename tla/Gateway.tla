-------------------------------- MODULE Gateway --------------------------------
(***************************************************************************)
(* The chat handler of api/routes.py with everything it goes through: the   *)
(* caller's identity, the policy snapshot and the kill switch, the rate      *)
(* limiter, the allowlist, the guardrails, the response cache, the router    *)
(* and its circuit breaker, the debug records, and the administrator's       *)
(* change of a tenant's state beside it (see AdminPlane for the rest of that *)
(* handler).                                                                *)
(*                                                                         *)
(* All of it runs on one asyncio event loop.  A chat request is two pieces  *)
(* of straight-line code with one await between them, the body's:           *)
(*   Admit   identity, role, policy, kill switch, rate limit, then wait;    *)
(*   Resume  the rest.  A call to a model blocks the loop, so from there to *)
(*           the response (Converse, the router's steps, Complete) the      *)
(*           request holds it and only the clock moves.                     *)
(* A stream gives the loop back at every chunk.                             *)
(***************************************************************************)
EXTENDS Naturals, Sequences

CONSTANTS
  Tenants, InitialState, PolicyTTL, MaxEpoch,             \* see PolicyPlane
  Minute,                                                 \* see RateLimiter
  CacheTTL, MaxEntries,                                   \* see ResponseCache
  IamPrincipals, NoToken,                                 \* see Identity
  RequestIds, DebugTTL, NoRecord,                         \* see DebugCapture
  Models, Requests, NoRequest, RouteSets, NoRouteSet, MaxRetries,
  FailureThreshold, ResetTimeout, FailureCap,             \* see Routing
  Config,         \* Config[t]: what policies.yaml says of t and never changes
  DefaultModel,   \* bedrock_model_id
  ChatRole,       \* chat_required_role
  AdminStates,    \* bound: the states administrators change to
  NoModel,        \* no model asked for
  Workloads,      \* the requests there may be: for each, who asks and for what
  NoId,           \* no X-Request-Id
  Completions     \* the texts models answer

VARIABLES
  policies, snapshots,      \* the policy plane
  buckets,                  \* the rate limiter
  entries,                  \* the response cache
  records,                  \* the debug records
  breakers, task, loop,     \* the router, the breaker and the event loop
  req                       \* req[r]: the handler's local variables, the reply

Plane == INSTANCE PolicyPlane WITH TTL <- PolicyTTL
Limiter == INSTANCE RateLimiter
Cache == INSTANCE ResponseCache WITH TTL <- CacheTTL
Router == INSTANCE Routing
Guardrail == INSTANCE Guardrails
Caller == INSTANCE Identity
Debug == INSTANCE DebugCapture WITH TTL <- DebugTTL, Pii <- Guardrail!Pii

ASSUME GatewayAssumption ==
  /\ Plane!PolicyAssumption
  /\ Limiter!MinuteAssumption
  /\ Cache!CacheAssumption
  /\ Router!RoutingAssumption
  /\ Caller!IamAssumption
  /\ AdminStates \subseteq Plane!TenantState

\* Models are all the model ids that a policy, a route set or a request names,
\* and a policy that names a route set there is not has NoRouteSet.
ASSUME NamesAssumption ==
  /\ DefaultModel \in Models
  /\ \A t \in Tenants :
       /\ Config[t].models \in Seq(Models)
       /\ Config[t].rpm_limit \in Nat
       /\ Config[t].route_set \in DOMAIN RouteSets \cup {NoRouteSet}
  /\ \A work \in Workloads, r \in Requests : work[r].model \in Models \cup {NoModel}

plane == <<policies, snapshots>>
upstream == <<breakers, task>>
vars == <<policies, snapshots, buckets, entries, records, breakers, task, loop, req>>

(***************************************************************************)
(* A request's life: new, reading (admitted, waiting for its body), ready    *)
(* (the body has come), upstream (holding the loop), streaming, done.       *)
(* identity is whose it is, policy the snapshot it was admitted under, model *)
(* what it resolved to, status its answer: with "ok", answer is the         *)
(* CachedResponse or the model's result.                                    *)
(*                                                                         *)
(* Of an answer, text and model_id are the code's.  asker and checked are    *)
(* history: whose request it was made for, under which policy_epoch, and    *)
(* whether a check of the text was completed.                               *)
(***************************************************************************)
NoPolicy == [state |-> "ACTIVE", policy_epoch |-> 0]

NoAsker == [ask |-> NoModel, model |-> NoModel]

NoAnswer == [text |-> {}, model_id |-> NoModel, asker |-> NoAsker,
             checked |-> FALSE]

Fresh(shape) == [pc |-> "new", shape |-> shape, identity |-> Caller!Nobody,
                 policy |-> NoPolicy, model |-> NoModel, status |-> "none",
                 answer |-> NoAnswer]

Init ==
  /\ Plane!Init /\ Limiter!Init /\ Cache!Init /\ Debug!Init /\ Router!Init
  /\ \E work \in Workloads : req = [r \in Requests |-> Fresh(work[r])]

Tenant(r) == req[r].identity.tenant_id

Cfg(r) == Config[Tenant(r)]

Reply(r, status) ==
  req' = [req EXCEPT ![r] = [@ EXCEPT !.pc = "done", !.status = status]]

Answer(r, model, value) ==
  req' = [req EXCEPT ![r] = [@ EXCEPT !.pc = "done", !.status = "ok", !.model = model,
                                      !.answer = value]]

\* RequestContextMiddleware: the client's id, or one of its own.
RequestId(r) == IF req[r].shape.request_id = NoId THEN r ELSE req[r].shape.request_id

\* A tenant that opted in has a redacted copy kept of what it asked and got.
Capture(r, text) ==
  IF Cfg(r).debug_capture_enabled
  THEN Debug!Capture(RequestId(r), Tenant(r), req[r].shape.prompt, text)
  ELSE UNCHANGED records

\* What an answer has to fit: who asks what, with which max_tokens and
\* temperature, under which policy, and of which model.
Asker(r, model) ==
  [ask |-> [tenant_id |-> Tenant(r), application_id |-> req[r].identity.application_id,
            prompt |-> req[r].shape.prompt, parameters |-> req[r].shape.parameters,
            policy_epoch |-> req[r].policy.policy_epoch],
   model |-> model]

-----------------------------------------------------------------------------
(***************************************************************************)
(* The first piece: authenticate, authorize, resolve_policy,                *)
(* enforce_kill_switch, enforce_rate_limit.  who is what the first two come  *)
(* to, and t the tenant.                                                    *)
(***************************************************************************)
Limit(t) == Limiter!EffectiveLimit(Config[t].rpm_limit, Plane!View(t).state)

Blocked(policy) == policy.state \in Plane!BlockingStates

RejectCaller(r, who) ==
  /\ who.status # "ok"
  /\ Reply(r, who.status)
  /\ UNCHANGED <<plane, buckets>>

RejectUnknown(r, t) ==
  /\ t \notin Tenants
  /\ Reply(r, "tenant_not_provisioned")
  /\ UNCHANGED <<plane, buckets>>

RejectBlocked(r, t) ==
  /\ t \in Tenants
  /\ Plane!Get(t)
  /\ Blocked(Plane!View(t))
  /\ Reply(r, "tenant_blocked")
  /\ UNCHANGED buckets

RejectLimited(r, t) ==
  /\ t \in Tenants
  /\ Plane!Get(t)
  /\ ~Blocked(Plane!View(t))
  /\ Limiter!Refuse(t, Limit(t))
  /\ Reply(r, "quota_exceeded")

Accept(r, t, identity) ==
  /\ t \in Tenants
  /\ Plane!Get(t)
  /\ ~Blocked(Plane!View(t))
  /\ Limiter!Allow(t, Limit(t))
  /\ req' = [req EXCEPT ![r] = [@ EXCEPT !.pc = "reading", !.identity = identity,
                                         !.policy = Plane!View(t)]]

Admit(r) ==
  /\ loop = NoRequest
  /\ req[r].pc = "new"
  /\ \E verification \in Caller!Verifications :
       LET who == Caller!Admission(req[r].shape.headers, verification, ChatRole)
           t == who.identity.tenant_id
       IN  \/ RejectCaller(r, who)
           \/ /\ who.status = "ok"
              /\ \/ RejectUnknown(r, t) \/ RejectBlocked(r, t) \/ RejectLimited(r, t)
                 \/ Accept(r, t, who.identity)
  /\ UNCHANGED <<entries, records, upstream, loop>>

\* The client's last byte arrives.
BodyArrives(r) ==
  /\ req[r].pc = "reading"
  /\ req' = [req EXCEPT ![r].pc = "ready"]
  /\ UNCHANGED <<plane, buckets, entries, records, upstream, loop>>

-----------------------------------------------------------------------------
(***************************************************************************)
(* The second piece.                                                        *)
(***************************************************************************)
\* The model a request goes to, and none if the allowlist forbids the one it
\* names.
Resolve(r) ==
  LET asked == req[r].shape.model
      allowed == Config[Tenant(r)].models
  IN  IF asked # NoModel
      THEN IF allowed # << >> /\ \A i \in DOMAIN allowed : allowed[i] # asked
           THEN {} ELSE {asked}
      ELSE IF allowed # << >> THEN {allowed[1]} ELSE {DefaultModel}

\* A guardrail check of the text that comes to result ends in outcome.
Guarded(r, text, result, outcome) ==
  /\ result \in Guardrail!CheckResults(text)
  /\ outcome = Guardrail!RunCheck(result, Cfg(r).guardrail_policy,
                                  Cfg(r).allow_guardrail_bypass_on_error)

Checked(r, text, outcome) ==
  \E result \in {"ALLOW", "BLOCK", "ERROR"} : Guarded(r, text, result, outcome)

\* What is hashed, but for the three fields that are always None.
Payload(r, model) ==
  [tenant_id |-> Tenant(r), application_id |-> req[r].identity.application_id,
   model_route_id |-> Cfg(r).route_set, model_version |-> model,
   inference_parameters |-> req[r].shape.parameters,
   normalized_messages |-> req[r].shape.prompt,
   guardrail_version |-> Cfg(r).guardrail_policy,
   policy_epoch |-> req[r].policy.policy_epoch]

\* Slip: the epoch is left out.
CacheKeyWithoutEpoch(r, model) == [Payload(r, model) EXCEPT !.policy_epoch = 0]

\* Slip: one key for all the models of a route set.
CacheKeyWithoutModel(r, model) == [Payload(r, model) EXCEPT !.model_version = NoModel]

\* Slip: one key for every max_tokens and temperature.
CacheKeyWithoutParameters(r, model) ==
  [Payload(r, model) EXCEPT !.inference_parameters = << >>]

\* The canonical JSON's hash: no two payloads have the same.
CacheKey(r, model) == Payload(r, model)

\* Not JSON, or not a ChatRequest.
RejectBody(r) ==
  /\ Reply(r, "invalid_request")
  /\ UNCHANGED <<entries, records, upstream, loop>>

RejectModel(r) ==
  /\ Resolve(r) = {}
  /\ Reply(r, "model_not_allowed")
  /\ UNCHANGED <<entries, records, upstream, loop>>

RejectInput(r) ==
  /\ Resolve(r) # {}
  /\ \/ Checked(r, req[r].shape.prompt, "BLOCK") /\ Reply(r, "input_blocked")
     \/ Checked(r, req[r].shape.prompt, "UNAVAILABLE") /\ Reply(r, "safety_unavailable")
  /\ UNCHANGED <<entries, records, upstream, loop>>

\* Slip: streams go before the input guardrail.
StartStreamUnchecked(r) ==
  /\ req[r].shape.stream
  /\ \E m \in Resolve(r) :
       \/ /\ Router!OpenStream(r, m)
          /\ req' = [req EXCEPT ![r] = [@ EXCEPT !.pc = "streaming", !.model = m]]
       \/ /\ Router!RefuseStream(r, m)
          /\ Reply(r, "circuit_open")
  /\ UNCHANGED <<entries, records, loop>>

\* Slip: a stream is started whether the breaker allows it or not.
StartStreamUnasked(r) ==
  /\ req[r].shape.stream
  /\ Checked(r, req[r].shape.prompt, "ALLOW")
  /\ \E m \in Resolve(r) :
       /\ task' = [task EXCEPT ![r] = [Router!Idle EXCEPT !.phase = "opening",
                                                          !.route = <<m>>]]
       /\ req' = [req EXCEPT ![r] = [@ EXCEPT !.pc = "streaming", !.model = m]]
  /\ UNCHANGED <<breakers, entries, records, loop>>

StartStream(r) ==
  /\ req[r].shape.stream
  /\ Checked(r, req[r].shape.prompt, "ALLOW")
  /\ \E m \in Resolve(r) :
       \/ /\ Router!OpenStream(r, m)
          /\ req' = [req EXCEPT ![r] = [@ EXCEPT !.pc = "streaming", !.model = m]]
       \/ /\ Router!RefuseStream(r, m)
          /\ Reply(r, "circuit_open")
  /\ UNCHANGED <<entries, records, loop>>

\* A hit answers at once, with no check of the output.
AnswerFromCache(r) ==
  /\ ~req[r].shape.stream
  /\ Checked(r, req[r].shape.prompt, "ALLOW")
  /\ \E m \in Resolve(r) :
       LET key == CacheKey(r, m)
       IN  /\ Cache!Hit(key)
           /\ Cache!Get(key)
           /\ Capture(r, Cache!Value(key).text)
           /\ Answer(r, m, Cache!Value(key))
  /\ UNCHANGED <<upstream, loop>>

AskRouter(r) ==
  /\ ~req[r].shape.stream
  /\ Checked(r, req[r].shape.prompt, "ALLOW")
  /\ \E m \in Resolve(r) :
       /\ ~Cache!Hit(CacheKey(r, m))
       /\ Cache!Get(CacheKey(r, m))
       /\ Router!Converse(r, m, Cfg(r).route_set)
       /\ req' = [req EXCEPT ![r] = [@ EXCEPT !.pc = "upstream", !.model = m]]
  /\ loop' = r
  /\ UNCHANGED records

Resume(r) ==
  /\ loop = NoRequest
  /\ req[r].pc = "ready"
  /\ \/ RejectBody(r) \/ RejectModel(r) \/ RejectInput(r)
     \/ StartStream(r) \/ AnswerFromCache(r) \/ AskRouter(r)
  /\ UNCHANGED <<plane, buckets>>

Call(r) ==
  /\ loop = r
  /\ Router!ConverseStep(r)
  /\ UNCHANGED <<plane, buckets, entries, records, loop, req>>

\* The model that answered.
Responder(r) == task[r].route[task[r].index]

UpstreamFailed(r) ==
  /\ task[r].outcome \in {"failed", "unavailable"}
  /\ Reply(r, IF task[r].outcome = "failed" THEN "upstream_error"
              ELSE "all_routes_unavailable")
  /\ UNCHANGED <<entries, records>>

\* What the model said, as the response and as the cache's entry.
Result(r, text, checked) ==
  [text |-> text, model_id |-> Responder(r), asker |-> Asker(r, req[r].model),
   checked |-> checked]

\* Slip: the answer is cached whatever the check says.
RejectOutputCached(r, text) ==
  /\ task[r].outcome = "ok"
  /\ \/ Checked(r, text, "BLOCK") /\ Reply(r, "output_blocked")
     \/ Checked(r, text, "UNAVAILABLE") /\ Reply(r, "safety_unavailable")
  /\ Cache!Set(CacheKey(r, req[r].model), Result(r, text, TRUE))
  /\ UNCHANGED records

\* Slip: the debug record is made before the check.
RejectOutputCaptured(r, text) ==
  /\ task[r].outcome = "ok"
  /\ \/ Checked(r, text, "BLOCK") /\ Reply(r, "output_blocked")
     \/ Checked(r, text, "UNAVAILABLE") /\ Reply(r, "safety_unavailable")
  /\ Capture(r, text)
  /\ UNCHANGED entries

RejectOutput(r, text) ==
  /\ task[r].outcome = "ok"
  /\ \/ Checked(r, text, "BLOCK") /\ Reply(r, "output_blocked")
     \/ Checked(r, text, "UNAVAILABLE") /\ Reply(r, "safety_unavailable")
  /\ UNCHANGED <<entries, records>>

AnswerFromModel(r, text) ==
  \E result \in {"ALLOW", "ERROR"} :
    LET value == Result(r, text, result = "ALLOW")
    IN  /\ task[r].outcome = "ok"
        /\ Guarded(r, text, result, "ALLOW")
        /\ Cache!Set(CacheKey(r, req[r].model), value)
        /\ Capture(r, text)
        /\ Answer(r, req[r].model, value)

\* converse has returned: the output guardrail, the cache, the response.
Complete(r) ==
  /\ loop = r
  /\ Router!Reset(r)
  /\ \/ UpstreamFailed(r)
     \/ \E text \in Completions : RejectOutput(r, text) \/ AnswerFromModel(r, text)
  /\ loop' = NoRequest
  /\ UNCHANGED <<plane, buckets>>

-----------------------------------------------------------------------------
\* One pull of a response body, or its end.
Stream(r) ==
  /\ loop = NoRequest
  /\ req[r].pc = "streaming"
  /\ \/ Router!StreamStep(r) /\ UNCHANGED req
     \/ Router!Reset(r) /\ Reply(r, "stream")
  /\ UNCHANGED <<plane, buckets, entries, records, loop>>

SetTenantState(t, state) ==
  /\ loop = NoRequest
  /\ Plane!SetTenantState(t, state)
  /\ UNCHANGED <<buckets, entries, records, upstream, loop, req>>

\* Whoever debugs reads a record.
ReadRecord(id) ==
  /\ loop = NoRequest
  /\ Debug!Get(id)
  /\ UNCHANGED <<plane, buckets, entries, upstream, loop, req>>

Tick ==
  /\ Plane!Elapse /\ Limiter!Elapse /\ Cache!Elapse /\ Debug!Elapse
  /\ Router!Breaker!Elapse
  /\ UNCHANGED <<task, loop, req>>

Next ==
  \/ \E r \in Requests :
       Admit(r) \/ BodyArrives(r) \/ Resume(r) \/ Call(r) \/ Complete(r) \/ Stream(r)
  \/ \E t \in Tenants, state \in AdminStates : SetTenantState(t, state)
  \/ \E id \in RequestIds : ReadRecord(id)
  \/ Tick

\* The clock never stops; the handler that holds the loop goes on (a call to
\* Bedrock answers or times out), and asyncio's queue of ready handlers is
\* served in order, so one whose body has come gets its turn.
Spec ==
  /\ Init /\ [][Next]_vars
  /\ WF_vars(Tick)
  /\ \A r \in Requests : WF_vars(Call(r) \/ Complete(r)) /\ SF_vars(Resume(r))

-----------------------------------------------------------------------------
Texts == {{}} \cup Completions

\* The parts keep their types and so does what a handler holds.
TypeOK ==
  /\ Plane!TypeOK
  /\ Limiter!TypeOK
  /\ Router!TypeOK
  /\ \A r \in Requests :
       /\ req[r].pc \in {"new", "reading", "ready", "upstream", "streaming", "done"}
       /\ req[r].policy \in Plane!Policy \cup {NoPolicy}
       /\ req[r].model \in Models \cup {NoModel}
       /\ req[r].answer.text \in Texts

\* The kill switch is immediate at the gate: no request is admitted for a
\* tenant that the store has suspended or blocked, cached snapshot or not
\* (pipeline.py:132-139, admin_routes.py:72-75).
KillSwitchImmediate ==
  [][\A r \in Requests :
       req[r].pc = "new" /\ req'[r].pc = "reading" => ~Blocked(policies[Tenant(r)'])]_vars

\* Who is past the kill switch while the tenant is blocked was admitted under an
\* older epoch: behind the gate a policy is held across the await of the body,
\* and through a stream, and it is the store's for as long as the store has its
\* epoch.  So what such a request still caches is under no key that anybody
\* admitted since the change uses (routes.py:85-99, store.py:52-56).
HeldPolicyNamed ==
  \A r \in Requests :
    req[r].pc \notin {"new", "done"} =>
      LET held == req[r].policy
          now == policies[Tenant(r)]
      IN  /\ ~Blocked(held)
          /\ held.policy_epoch <= now.policy_epoch
          /\ held.policy_epoch = now.policy_epoch => held = now

\* An answer, cached or not, was made for this very question: for the same
\* tenant, application, prompt, parameters and resolved model under the same
\* policy epoch, by a model that is on the route of that model.  A request
\* admitted before a change of the policy writes its answer to the cache after
\* the change (keys.py:27-53).
AnswerFits ==
  \A r \in Requests :
    req[r].status = "ok" =>
      /\ req[r].answer.asker = Asker(r, req[r].model)
      /\ LET route == Router!Candidates(req[r].model, Cfg(r).route_set)
         IN  \E i \in 1 .. Len(route) : route[i] = req[r].answer.model_id

\* What the handler promises its callers: see ChatService.  The memory is the
\* response cache's.
BlockedTenants == {t \in Tenants : Blocked(policies[t])}

Stage == [r \in Requests |-> CASE req[r].pc = "new" -> "outside"
                               [] req[r].pc = "done" -> "gone"
                               [] OTHER -> "inside"]

Ask == [r \in Requests |-> Asker(r, NoModel).ask]

Calling == {r \in Requests : task[r].called # {}}

MadeFor == [r \in Requests |-> req[r].answer.asker]

Memory == {entries[i].value.asker : i \in DOMAIN entries}

Service == INSTANCE ChatService WITH
  blocked <- BlockedTenants, stage <- Stage, ask <- Ask, calling <- Calling,
  answer <- MadeFor, memory <- Memory

\* The gateway implements ChatService: the kill switch holds at the gate, and
\* no answer goes to another tenant, application, prompt, parameters or policy
\* epoch than it was made for, nor enters the cache but by being given
\* (routes.py:71-350).
ImplementsService == Service!Spec

\* The handlers use the router as Routing says, every call of it whole: what
\* Routing's runs and theorems show of converse, of the streams and of the
\* breaker they share holds in the gateway (routes.py:152-175, 228-237).
ImplementsRouting == Router!Init /\ [][Router!Next]_(Router!vars)

LetThrough(r, text) ==
  Guardrail!Check(text) = "BLOCK" =>
    Guardrail!MayBypass(Cfg(r).guardrail_policy, Cfg(r).allow_guardrail_bypass_on_error)

\* No text that a completed check would block is ever a JSON answer, cached
\* answers included, which are not checked again; only a LOW_RISK tenant that
\* opted in may be given one, when the check failed (fail_closed.py:3-18).
\* Streams are exempt: their text reaches every tenant, STRICT ones too, with no
\* check of it (streaming.py:12-15, routes.py:148-153).  But nobody is streamed to
\* who did not ask for it: text comes unchecked to no client that waits for JSON.
NoUnsafeAnswer ==
  \A r \in Requests :
    /\ req[r].status = "ok" => LetThrough(r, req[r].answer.text)
    /\ req[r].pc = "streaming" => req[r].shape.stream

\* No prompt that a completed check would block reaches a model, in either
\* of the two ways to one, with the same exception.
NoUnsafePrompt ==
  \A r \in Requests : task[r].called # {} => LetThrough(r, req[r].shape.prompt)

\* A debug record is the redacted copy of a question that was answered and of
\* that answer, and its tenant opted in; a prompt or an output that was blocked
\* leaves none (debug_capture.py:3-9).  Requests that share an id are in the way
\* of one another, but never make a record of both.
RecordsAnswersOnly ==
  \A id \in RequestIds : Debug!Held(id) =>
    \E r \in Requests :
      /\ RequestId(r) = id
      /\ req[r].status = "ok"
      /\ Cfg(r).debug_capture_enabled
      /\ records[id].tenant_id = Tenant(r)
      /\ records[id].redacted_input = req[r].shape.prompt \ Guardrail!Pii
      /\ records[id].redacted_output = req[r].answer.text \ Guardrail!Pii

\* A request whose body has come is answered, or its stream begins.
RequestAnswered ==
  \A r \in Requests : req[r].pc = "ready" ~> req[r].pc \in {"done", "streaming"}

\* "blocks the very next requests -- no window where in-flight traffic still
\* reaches the model" (docs/LOAD_TESTING.md, Kill-switch under load): no model
\* is called for a tenant that is blocked at that time.
KillSwitchStopsInFlight ==
  [][\A r \in Requests :
       task'[r].called \ task[r].called # {} => ~Blocked(policies[Tenant(r)])]_vars

\* "Only responses that already passed the output guardrail are ever written
\* here" (cache/store.py:3-4).
OnlyCheckedCached == \A i \in DOMAIN entries : entries[i].value.checked
=============================================================================
