# A TLA+ development of the gateway

The program (`services/gateway`) is a multi-tenant gateway in front of language
models on Amazon Bedrock: Starlette handlers on one asyncio event loop, every
store in the memory of the process. This directory holds TLA+ modules of its
logic, configurations with which TLC checks them, and proofs checked by TLAPS.
Paths below are relative to `services/gateway` unless they start with `docs/`,
`infra/` or `policies/`.

## The system

| Component | State it keeps | Operations |
|---|---|---|
| Policy store (`policy/store.py`, `models.py`) | a `TenantPolicy` per tenant, with `state` and `policy_epoch` | `get`, `set_state` (bumps the epoch) |
| Policy snapshot cache (`policy/cache.py`) | a snapshot and its time per tenant | `get` (serves for `ttl_s`, else refetches), `invalidate` |
| Rate limiter (`policy/rate_limiter.py`) | a token bucket per tenant | `allow(tenant, rpm_limit)` |
| Guardrails (`guardrails/`) | none | `run_guardrail_check`: allow, block, fail closed, or bypass on error |
| Response cache (`cache/`) | an ordered dictionary of answers with their times | `get`, `set`; the key is derived in `keys.py` |
| Circuit breaker (`routing/circuit_breaker.py`) | state, consecutive failures, `opened_at` per model | `allow`, `record_success`, `record_failure` |
| Router (`routing/router.py`) | the local state of one `converse` call | fallback over a certified route set |
| Bedrock client (`inference/bedrock_client.py`) | the retry count of one call | `converse` with retries, `converse_stream` |
| Streaming (`streaming.py`) | the state of one generator | chunks, end, error, abort |
| Chat handler (`pipeline.py`, `api/routes.py`) | the handler's locals, across one `await` | the stages below |
| Admin handler (`api/admin_routes.py`) | the handler's locals, across one `await` | authenticate, wait for the body, change a tenant's state, invalidate its snapshot |
| JWKS verifier (`auth/jwt_verifier.py`) | the provider's keys by id, and when they were fetched | `verify`, with a refresh of old keys and one for an unknown id |
| Identity, IAM grants, RBAC (`auth/`) | the IAM grants file | `authenticate` by ARN or by token, `resolve` (exact before wildcard), `require_role` |
| Debug capture (`telemetry/debug_capture.py`) | redacted records by request id, with lazy expiry | `capture`, `get` |
| Development keys (`auth/devkeys.py`) | a keypair file | minting of test tokens |
| Telemetry, config, assembly, schemas | none that others read | logging, spans, cost and SLO arithmetic, construction |
| `infra/`, `loadtests/`, `scripts/`, `policies/` | | deployment, load generation, static data |

A chat request runs in two pieces of straight-line code. The first, up to the
`await` of its body, authenticates, resolves the policy, enforces the kill switch
and takes a rate-limit token (`api/routes.py:77-99`). The second resolves the
model, checks the input, and then either opens a stream or looks in the response
cache, calls the router, checks the output, writes the cache and answers
(`:104-350`). Calls to Bedrock are synchronous, so the second piece holds the
event loop from beginning to end, backoff sleeps included. A stream instead
gives the loop back around every chunk. The administrator's handler has two
pieces as well: it is let in before it waits for its body, and after that writes
the store and invalidates the snapshot in one piece (`api/admin_routes.py:43-87`).

What is hard here is where those pieces meet: a policy that changes between the
two pieces of a request; several administrators' changes that overlap, and
restarts that undo them; an answer written under a policy that is gone; streams
whose results reach a breaker long after it let them through; requests that share
an id and so a debug record; a bucket or a cache at its limit; a guardrail or a
model that fails in the middle; a second process with stores of its own. `PROJECT.json`
lists these hazards at their lines, with the properties for each.

## The modules

| Module | Models | State | Actions |
|---|---|---|---|
| `CircuitBreaker` | the class, under any client | `breakers` | `Allow`, `Refuse`, `RecordSuccess`, `RecordFailure`, `Elapse` |
| `Routing` | `converse`, the retry loop, streams, over one breaker and one loop | `breakers`, `task`, `loop` | `Converse`, `Skip`, `Dispatch`, `Retry`, `Succeed`, `Fail`, `GiveUp`, `OpenStream`, `RefuseStream`, `FirstPull`, `StreamEnd`, `StreamError`, `StreamAbort`, `StreamDropped`, ... |
| `UpstreamGate` | abstract: when leave to call a model is given, and who calls | `fails`, `cooldown`, `permits`, `calls` | `Permit`, `Use`, `Start`, `Succeed`, `Fail`, `Abandon`, `Tick` |
| `PolicyPlane` | store, snapshot cache, the change itself | `policies`, `snapshots` | `Get`, `SetTenantState`, `SetStateElsewhere`, `Elapse` |
| `PolicyPropagation` | how long an outdated policy is served | and `stale` | the same |
| `AdminPlane` | the whole admin handler, several at a time, and restarts, over the two before | and `put`, `acked` | `Enter`, `RejectChange`, `Change`, `Restart`, `AGet`, `Elsewhere`, `AElapse` |
| `Fleet` | two tasks with a policy plane each behind a load balancer | two planes, `acked`, `ignored` | `Serve`, `SetTenantState`, `Tick` |
| `RateLimiter` | the token bucket | `buckets` | `Allow`, `Refuse`, `Elapse` |
| `RateBudget` | what a tenant gets through it as its limit changes | and `limit`, `granted`, `elapsed` | `Grant`, `Deny`, `ChangeLimit`, `BTick` |
| `Throttling` | the limits that a tenant's `rpm_limit` and state come to | and `rpm_limit`, `state`, `waiting` | `TGrant`, `TDeny`, `ChangeState`, `TTick` |
| `ResponseCache` | the LRU cache with TTL | `entries` | `Get`, `Set`, `Elapse` |
| `CacheRecency` | its users, with the order of use | and `uses`, `latest` | `Lookup`, `Store`, `RTick` |
| `Guardrails` | the check of a text and the fail-closed decision | | operators |
| `Identity` | who a caller is and whether it may | | operators |
| `DebugCapture` | the store of debug records | `records` | `Capture`, `Get`, `Elapse` |
| `JwksVerifier` | the key cache, one call of `verify`, and the provider | `keys_by_kid`, `age`, the call's locals, `published`, and `gone`, `steady` | `Verify`, `Answer`, `Unavailable`, `Raise`, `Found`, `NotFound`, `Leave`, `Rotate`, `Tick` |
| `Gateway` | the chat handler over all of these, and administrators beside it | all of the above and `req` | `Admit`, `BodyArrives`, `Resume`, `Call`, `Complete`, `Stream`, `SetTenantState`, `ReadRecord`, `Tick` |
| `ChatService` | abstract: what tenants can rely on | `blocked`, `stage`, `ask`, `calling`, `answer`, `memory` | `Admit`, `Call`, `Refuse`, `Reply`, `Forget`, `Block` |
| `MCRouting`, `MCPolicy`, `MCFleet`, `MCGateway` | constants for TLC | | |
| `CircuitBreakerProofs`, `RoutingProofs`, `PolicyProofs`, `AdminProofs`, `RateProofs`, `CacheProofs`, `JwksProofs`, `GatewayProofs` | theorems | | |

The modules of the classes (`CircuitBreaker`, `PolicyPlane`, `RateLimiter`,
`ResponseCache`, `DebugCapture`) define each method as an action on the class's own variables.
`Routing` and `Gateway` instantiate them and conjoin the methods with their own
steps, as the code calls them. `Gateway` instantiates `Routing` in the same way.

Conventions:

* A method that takes its class's lock is one step, and so is everything a
  handler does between two awaits, except that a call of `converse` is split at
  each attempt, because the clock moves meanwhile. `loop` says who holds the
  event loop.
* The code compares clock readings only through differences, so the models keep
  ages (`clock() - cached_at`, `clock() - opened_at`, `now - last_refill`) that
  grow with `Elapse` and stop where they no longer matter. No absolute clock is
  needed and the state space stays finite without cutting behaviours off.
* An absent entry is a value that behaves the same: a snapshot of age `TTL`
  is never served; a bucket whose last refill is a minute ago is full.
* Tenants and models are a few values. A text is the set of what the guardrail's
  patterns and denylist find in it, for that is all that check and redaction look
  at. A guardrail policy's id is the set of words found in it, for that is what
  `classify_safety` looks at. A cache key is the record of the fields that are
  hashed, but for the three that are always `None`; `max_tokens` and `temperature`
  are one field, as in the payload, with two values.
* An operator whose comment begins with "Slip:" is no part of the model. It is
  the definition after it with a plausible mistake, named in `PROJECT.json`
  under "mutants": with it in place, the property it belongs to fails.

### Abstractions worth knowing

* `task`: `attempt` counts retries; what Bedrock answers is a free choice at every
  attempt, and any attempt may fail for good, since an error may always be one
  that is not retryable. Backoff sleeps are `Tick`s while the loop is held.
* A stream has the breaker's leave from the handler on (`OpenStream`), but it calls the
  model when its generator is first pulled (`FirstPull`), by which time anything may have
  happened to the breaker. The later pulls and chunks are not counted.
* `StreamAbort` stands for the client found gone by `is_disconnected()`, which is asked
  after a pull, and for the generator closed at a `yield`; `StreamDropped` for a response
  that is never pulled. Neither records anything in the breaker.
* Token buckets count in `Minute`-ths of a token, and a bucket remembers whether rounding
  left its float short of the count (`short`). Every refill may leave it short, except
  one that is clipped to the capacity and one of nothing. This is what an exactly earned
  token depends on: with a limit of 1, a grant and then ten vain asks 6 s apart leave
  0.9999999999999999 after 60 s, and `allow` refuses. What all the rounding comes to is
  taken to be less than one tick refills.
* What `verify` makes of a token is a free choice between its claims, `AuthError`
  and an exception that is none (see `JwksVerifier`); everything after it, and the
  whole way of an ARN through the grants, is computed. An ARN is the sequence of
  its segments, and a wildcard covers whole segments.
* `X-Request-Id` is the client's, so requests may share one; without it a request
  has an id of its own.
* `Gateway` has the administrator's change as one step, the second piece of that
  handler, for some states only (`AdminStates`). `AdminPlane` has the handler with
  both pieces, every state and every caller, beside the reads of the data plane.
* A restart (`AdminPlane`) reads `policies.yaml` again and loses the requests under
  way. Epochs begin anew, but so do the snapshots, and the response cache with
  them: they are in the same memory.
* `asker` and `checked` of an answer, `trial` of a task, `acked`, `stale`, `ignored`,
  `granted`, `elapsed`, `waiting`, `uses`, `latest`, `gone` and `steady` are history,
  read by properties only.

## The runs

| Run | Shows | Size |
|---|---|---|
| `routing` | truthful errors and fallback flag; `UpstreamGate` implemented, late streams included; every `converse` returns, after a bounded number of attempts; no model locked out | 104 thousand |
| `cooldown` | violation: a stream granted earlier calls a model whose breaker has opened | |
| `half_open` | violation: two trial calls at once | |
| `policy` | three administrators' requests, changes from elsewhere, restarts: an epoch names one policy; a stale view ends within the TTL; an acknowledged change is in force; only administrators make one | 351 thousand |
| `fleet` | violation: the second of two tasks never follows a change | |
| `rate` | no more than one bucket plus the refill of the present limit, and a request let through once more than a token was waited for, whatever the rounding | 28 thousand |
| `cache` | hits are the latest writes within the TTL; the keys used last stay | 29 thousand |
| `gateway` | twelve pairs of requests of two tenants: `ChatService` and, on the side of the models, `Routing` implemented; answers fit, are safe, come; debug records are of answers only; the kill switch at the gate, and the policy held behind it | 466 thousand |
| `in_flight` | violation: a request past the gate calls the model of a blocked tenant | |
| `bypass_cached` | violation: an unchecked answer is cached | |
| `jwks` | withdrawn keys die within the TTL; published ids are known; outages hurt only what is not cached | 1.9 million |
| `jwks_raises` | violation: a bad entry raises something else than `AuthError` | |

What the properties say is stated above each of them. The ones to read first:

* `ImplementsGate` (`Routing`): the breaker with its three states, called from
  `converse` and from streams that overlap, does what the four-variable
  `UpstreamGate` promises. Leave to call a model is given outside its cooldown only, and
  nobody calls without leave; `converse` calls in the step that gives it, a stream may
  call later (`permits`). The mapping shows that HALF_OPEN cannot be observed:
  after the timeout, and until the next result, everybody is let through.
* `NoPermanentLockout`: a stream that is aborted records nothing, so a breaker
  that really let just one trial call through would stay half-open for ever. The
  slip `MayCallHalfOpenRefuses` shows it.
* `ImplementsService` (`Gateway`): whatever cache, guardrails, limits, routes and
  retries stand behind the chat handler, a tenant sees this: nobody is let in while
  blocked; an answer was made for this tenant, application, prompt, parameters and policy
  epoch, by a model called for it or from a memory that holds only what somebody was
  answered. `CacheKeyWithoutEpoch` breaks it by an answer from before a change;
  `RejectOutputCached` by a blocked answer that is remembered.
* `ImplementsRouting` (`Gateway`): the handlers' steps, seen from the router, are steps of
  `Routing` or nothing at all. `Routing` models callers that begin and stream at will;
  this says that the chat handler is such a caller, so that what is shown of the router
  alone holds in the gateway. `StartStreamUnasked` breaks it: the streaming path asks
  the breaker by itself (`api/routes.py:154`), and could forget to.
* `ConverseBounded` (`Routing`): every step of a `converse` call leaves it fewer steps to
  go (`StepsLeft`), whatever Bedrock answers and whatever the breakers say. With a
  fair scheduler this makes every call return; without one it is still the most
  attempts that a request can cost.
* `KillSwitchImmediate`, `EpochNamesPolicy`, `AnswerFits` (`PolicyPlane`,
  `Gateway`): the three facts that carry the kill switch and the cache. At the
  gate the store's own policy decides, because the change and the invalidation
  are one step of the loop; an epoch stands for one policy; so an answer written
  by a request of the old policy cannot be served under the new one.
* `HeldPolicyNamed` (`Gateway`): the same for the policy that a handler holds while it
  waits for its body and its stream: it is the store's for as long as the store has
  its epoch, so that a request still in flight when its tenant is blocked is of an older
  epoch, and nothing it caches is found by anybody admitted later.
* `AcknowledgedInForce`, `OnlyAdministrators` (`AdminPlane`): what an administrator
  was told stays true through later answers to earlier requests, reads in between
  and snapshots; and nobody becomes an administrator by the wrong credential. For a
  caller with an ARN the one entry that decides (his own, else a wildcard that covers him)
  has the role, and a caller whom no entry covers is nobody, whatever token he sends
  along (`AuthenticateFallingBack`); a token counts only where there is no ARN.
* `StaleLessThanTTL`: the claim of `policy/cache.py:11-13`, also for pushes that
  never come.
* `WithinBudget`, `EarnedIsServed`, `ThrottledNotBlocked`: the limiter bounds a
  tenant from both sides. Throttling takes hold at once, as the bucket is clipped
  to the new capacity when it is next used; asking in vain costs nothing, although
  every call restarts `last_refill`; and a fifth of a small limit still lets
  something through. The two lower bounds ask for more than a token's time, not for
  exactly that: at the exact moment it is the rounding that decides.
* `NoUnsafeAnswer`: of JSON answers, fresh or cached. Streams have no output check
  (`streaming.py:12-15`), for strict tenants neither; the property says that this way
  out is open only to a request that asked for a stream.
* `RecordsAnswersOnly`: nothing that was blocked leaves a debug record, and
  requests that share an id, of one tenant or of two, never make a record of both.

### Where the code and its text disagree

1. `circuit_breaker.py:7` and `:60-61` promise one trial call; in HALF_OPEN
   `allow` returns True to everyone. Only streams can overlap on the event loop.
2. `circuit_breaker.py:5-6` promises that no call reaches the model until
   `reset_timeout_s` has elapsed, and `streaming.py:18-20` that a model known to be failing
   gets no streaming request. The breaker is asked in the handler and Bedrock is called at
   the generator's first pull, after awaits: a `converse` or another stream that opens the
   breaker in between does not keep this one from calling (`OpenBreakerNotCalled`, run
   `cooldown`). `ImplementsGate` is what holds instead. Besides, a stream that was under
   way before closes the breaker when it ends well, which `UpstreamGate` has as its
   `Succeed`.
3. `docs/LOAD_TESTING.md:36` claims there is no window in which in-flight traffic
   still reaches the model; a request that waits for its body has such a window,
   and so has a stream that has not begun. `KillSwitchImmediate` is the part of
   the claim that holds at the gate, no request is admitted after the change, and
   `HeldPolicyNamed` the part that holds behind it: the requests in the window are of
   an older epoch.
4. `cache/store.py:3-4` says only checked answers are cached; one whose check
   failed and was bypassed (a LOW_RISK policy that opted in) is cached too, and
   served after the guardrail has recovered. `BasicGuardrailClient` never raises;
   it takes a client that can, as `guardrails/client.py` provides for.
5. `auth/jwt_verifier.py:15` promises `AuthError` on any failure; an entry of the JWKS
   without a `kid` raises `KeyError` (line 72), outside the `try`, at every call that
   refreshes, and so for every token once the cached keys have reached their TTL.
6. `docs/ROADMAP.md:385` says revocation takes effect within a bounded time and
   `policies/tenants.yaml:11` that it does so immediately. Every task has a store of
   its own, production runs two, and a change reaches one of them; `policy` is what
   holds of one task.
7. `docs/ROADMAP.md:311` says what is captured has nothing left to redact; the text
   of a LOW_RISK tenant whose check was bypassed may have. `Capture` redacts it, so
   `RecordsAnswersOnly` holds all the same. No run of its own.
8. `auth/rbac.py:6-8` describes the admin endpoint as open to the tenant itself
   (`identity.tenant_id == path tenant_id or ...`); `api/admin_routes.py:51` checks the
   role and nothing else. The code is the stricter; `OnlyAdministrators` is about it.
9. `pipeline.py:29-31` says throttling gives a fifth of the limit. It is at least 1, so
   that a limit of 0 becomes 1 and a limit of 1 stays; `Throttling` has it so.

### Bounds

Two models, one of which every route set entry is, suffice for fallback, for the
primary named among the fallbacks and for breakers that differ. Two requests
suffice for what two actors can do to each other: overlap of two streams, a
stream beside a `converse`, a writer and a reader of one cache entry or of one
debug record. `routing` has
threshold 2, one retry and a timeout of two ticks, so that ages below, at and past the
limit occur; `gateway` has threshold 1, one retry and a timeout of one tick. `MaxEpoch` bounds the changes of a tenant's state: 3 in `policy` and 2, one
change in the middle of everything, in `Gateway`.

In `policy` there is one tenant, as the planes of two tenants do not touch, and
three administrators' requests, so that one can be let in before and answered after
two others. In `gateway` the two tenants differ in all that `policies.yaml` can say:
"acme" comes with an ARN and has a route set, any model and a strict guardrail
that it opted to bypass in vain; "demo" comes with a token and has an allowlist, a
low-risk guardrail with the bypass, and debug records. The twelve requests name or omit
a model, come with one or other parameters, stream or not, are blocked or not, share an
id, are refused their model, or are not let in. They run in twelve pairs (`MCPairs`): those
in which one can touch what the other reads, and two in which neither is served. Three requests share an id: two
different questions of "demo", both answered by a model that it is allowed and both
recorded, and one of "acme", whose answer must leave the record alone. Completions are a
harmless text and one with personal data, and the prompts have subjects, so that a record
made of two questions differs from the record of each. A cache of one entry
makes them compete for it; all TTLs are one tick, so that an entry is found fresh
and found expired. In `fleet` a TTL of two ticks shows that the second task is not
merely late.

In `jwks` an answer may be one tick old on a TTL of two, and two keys under two ids
swap places. The delay of an answer is bounded by `MaxFetch`: `urlopen`'s timeout is
per socket operation, so that the code itself puts no number to it. In `rate` a
minute has four ticks and a pause is counted to five (`Longest`, past a minute by which
a bucket is full to the last digit), so that fractions of a token and their rounding
matter, the limits include 0
and 1 and what throttling makes of them, and a stretch of time is watched for more
than two minutes. `cache` has twice as many keys as room.

### Fairness

`Tick` is weakly fair: the clock runs. The request that holds the loop goes on
(weak fairness of its steps): a call to Bedrock has connect and read timeouts.
`Resume` is strongly fair, since asyncio serves ready handlers in order while
others take and release the loop. Nothing is assumed of clients: neither that a
body arrives nor that a stream is read, which is why no property says so.

## Proofs

Eight modules of theorems, checked by TLAPS for every value of the constants that the
named assumptions allow: any sets of tenants, models, requests and grants, any
policies and route sets, threshold, timeout, retries, TTLs, sizes and ticks to the
minute. The assumptions are those of the modules themselves (`BreakerAssumption`,
`RoutingAssumption`, `PolicyAssumption`, `TTLAssumption`,
`MinuteAssumption`, `BudgetAssumption`, `ThrottlingAssumption`, `CacheAssumption`,
`VerifierAssumption`, `IamAssumption`, `GatewayAssumption`, which joins those of the
gateway's parts, and `NamesAssumption`): that the parameters are numbers, that a threshold is at least
1, that the bounds of the counters are at or above what the code compares them
with, that the keys of a mapping are distinct, that route sets list models, and that
the models of the gateway are all that a policy, a route set or a request names
(`NamesAssumption`; it restricts nothing, since `Models` is whatever set is named).

| module | theorems |
|---|---|
| `CircuitBreakerProofs` | `TypeCorrect`, `StateAlwaysMatchesCount` |
| `RoutingProofs` | `TypeCorrect`, `RoutingImplementsGate`, `CandidatesAre`, `ErrorsTruthful`, `FallbackFlagAlwaysTruthful`, `EveryStepOneLess` |
| `PolicyProofs` | `TypeCorrect`, `EpochAlwaysNamesPolicy`, `StalenessBounded` |
| `AdminProofs` | `AcknowledgedStaysInForce`, `ChangedByAdministrators`, `PlaneKeptUnderAdmin` |
| `RateProofs` | `TypeCorrect`, `BudgetKept`, `EarnedServed`, `ThrottledServed`, `BudgetKeptThrottling` |
| `CacheProofs` | `TypeCorrect`, `HitsAreLatest`, `RecentOnesStay` |
| `JwksProofs` | `TypeCorrect`, `WithdrawalBounded`, `RotationFollowed`, `OutageCostsOnlyMisses` |
| `GatewayProofs` | `KillSwitchHolds`, `AnswersFit`, `AnswersSafe`, `PromptsSafe`, `GatewayImplementsService`, `RecordsOfAnswers`, `TypeCorrect`, `HeldPolicies`, `GatewayUsesRouter`, `RoutingHolds`, `GatewayKeepsGate`, `GatewayCallsBounded` |

**The breaker.** The type and the coherence of state and count are inductive
together, under a client that calls the methods in any order. This is proved only:
`Routing` is such a client, and its run checks what coherence is for.

**Routing.** `RoutingImplementsGate` is the refinement that the run `routing` checks on
two models and two requests. First each action is shown to move one request between
having leave for a model, calling one, and neither (`Moves`), which sorts
the steps into kinds (`StepKind`); then each kind is an action of `UpstreamGate`
or a stutter. The one place where an invariant is needed is `RecordFailureGate`: the
code opens a breaker when the count reaches the threshold *or the breaker is
half-open*, the gate only in the former case, and `StateMatchesCount` says that the
former covers the latter. It follows the breakers through `BreakerStep`, the lemma
of `CircuitBreakerProofs` for this instance of the class.

`ErrorsTruthful` needs to know what the call has found so far: every candidate before
the one at hand was called or stood behind an open breaker (`TriedBefore`). It stays
so because nobody else runs while the call holds the loop, the clock only ages a
breaker, and the one step that takes a breaker out of OPEN is the call of that very
model.

`FallbackFlagAlwaysTruthful` is about route sets that list the primary among its own
fallbacks, or a model twice. `CandidatesAre` says what `Candidates` makes of them: the
primary first and nowhere else, then the fallbacks, none lost and nothing else. `HolderRouted` then says that the
route of the call that holds the loop was made by `Candidates` and that its index is
on it. `EveryStepOneLess` uses the same invariant: `Advances` lists the ways one step
of `converse` can go, and each makes `StepsLeft` smaller.

**Policies.** `EpochAlwaysNamesPolicy` holds by induction as it stands, with the types: a
change takes an epoch that no snapshot has. `StalenessBounded` is not inductive, for
the count alone says nothing of the rest of the snapshot's life; `StaleBound` adds
that a view has been outdated for no longer than its snapshot is old, and a snapshot
is served only while it is younger than the TTL.

**Administrators.** `AcknowledgedStaysInForce` strengthens the property to the store and
to every snapshot that may still be served (`InForce`), for a read can install what
it finds. `ChangedByAdministrators` adds that whoever waits for a body was let in
with the headers it came with (`LetIn`), and that the entry that `resolve` takes is the
one that `Decides`: the ARN's own if it has one, else the first wildcard that covers it
(`FirstMatchDecides`, where `IamAssumption` is used). An ARN that no entry covers never gets as far as a role: that is `Authenticate`, which looks
at a token only where there is no ARN.

**Limits.** `BudgetKept` needs `Account`: what was let through, *and what the bucket would
yield if asked now*, come out of one bucketful and the refill since. A request moves
a token from the second to the first, a tick adds at most one tick's refill to both
sides, and a change of the limit clips the bucket to the new capacity, which is why
a new stretch starts with at most one bucketful whatever the old limit was.
`EarnedServed` is the same from below: `Earned` says that the bucket's count is at
least the refill of the time waited, which a call in vain does not change
(`RefuseKeeps`). The float may be short of the count at the end of it, but not by a whole
tick's refill, so a count of more than a token is enough, and a count clipped to the
capacity is exact (`RefillServes`).
`BudgetKeptThrottling` needs only that throttling's steps are steps of `RateBudget`.

**The cache.** `RecentlyUsedStay` compares two sequences: the entries of the `OrderedDict`
and the keys in the order of their last use. It is not inductive: it does not say where
among the entries the keys used last are. `IInv` adds that the entries stand in the order
in which their keys were last used (`Ordered`), that each is what was written last, with
its age (`AreLatest`), and that each key in `uses` is there once. The step that needs the
order is the eviction (`EvictFirst`): the entry that goes is the first, so every other
entry was used after it, and as they are `MaxEntries` different keys in the order of
their use, the one that goes is too far back in `uses` to be promised. That a sequence of
increasing numbers spreads at least as far as it is long (`Increasing`) is what counts
here. Taking an element out of a sequence is described once, by where the rest came
from (`RemovedEmbeds`), and used for entries and `uses` alike.

**Keys.** `WithdrawalBounded` follows the keys on their way: `HeldKeysRecent` says that a
published key is gone for no time, one in an answer for no longer than the answer is
under way, one in the cache for no longer than that and the cache's age.
`RotationFollowed` rests on the refresh for an unknown id: a token is refused for its
id only on an answer that came during the call, and an answer without the id shows
that it was not published all along (`SteadyKidPublished`). `OutageCostsOnlyMisses`
adds that the provider is asked for no other reason than a missing or old key
(`AskedForReason`).

**The gateway.** `GatewayInv` has four parts. The shapes say that requests, tasks and
entries are records with their fields, and what a router's task can be while it is
in progress (`Sound`). `Local` relates a request, its task and the loop: who has
called a model is upstream, who holds the loop has the route of its model, whose
prompt went on is safe, who was answered has an answer that `Fits` its key.
`EntriesFit` says the same of every entry of the cache and *its* key, which is what
makes a hit as good as an answer. `PlaneInv` says that a snapshot that may be served
is the store's policy. Every step is then of one of five kinds (`StepKind`): somebody
enters, goes on, is turned away or is answered, or nothing happens to any request.
The invariant is shown for the five kinds, and so is the refinement: each is one
action of `ChatService` or a stutter. `RecordsOfAnswers` adds the records: they are
made with the answers they copy, and who was answered stays as it is. `HeldPolicies` goes
over the five kinds once more: a policy comes in at the gate, where it is the store's, stays
in the request as it is (`HeldInv`), and the store's own only goes on to later epochs
(`PoliciesMove`).

The other half of the gateway's proof is that it *uses* the router
(`GatewayUsesRouter`): every step is one of `Routing`'s or leaves the breakers, the tasks
and the loop alone. It needs to know that what a request resolves to is a model there is,
hence that a request inside belongs to a tenant (`TypedInv`), and `NamesAssumption`. From
it the theorems about `Routing` become theorems about the gateway without being proved
again: `RoutingHolds` for the breakers' state and count, the errors and the fallback flag, `GatewayKeepsGate`
for `UpstreamGate`, `GatewayCallsBounded` for the length of a call. `RouterInitSame`,
`RouterNextSame`, `GateSame` and `StepsSame` are there because
`Gateway` has an instance of `Routing` and its proofs one of `RoutingProofs`, which are the
same definitions under two names. `TypeCorrect` joins the types of all parts.

Every invariant and every action or refinement property that a passing run checks is
stated by a theorem. Left to TLC are the liveness properties (`EveryCallReturns`,
`NoPermanentLockout`, `RequestAnswered`), which rest on fairness and ENABLED, of which
TLAPS's back ends know nothing; of the first, `EveryStepOneLess` and `GatewayCallsBounded`
prove what does not need fairness. Where an argument goes by induction over a sequence (`CandidatesAre`,
`Increasing`), it is an induction over a set of numbers (`Induction`), from the library's
fact that `<` is well-founded; `Candidates` is built by a recursive function, and
`ResponseCache` takes an entry out with `SubSeq`, for those can be reasoned about and
`SelectSeq` cannot.

## Not modelled

* The rest of `infra/`, `loadtests/`, `scripts/`: no part of the running program.
* Telemetry other than request ids and debug capture (logging, spans, cost and SLO
  arithmetic), schemas and error bodies: no state that decides anything. What fails
  validation is `RejectBody` and `RejectChange`.
* `config.py` and YAML loading: what they come to are the constants. The tasks of
  a fleet are given the same files.
* `auth/devkeys.py`: local development only. Two processes that start at once on one
  directory race for the keypair file; a module of its own could say what each
  ends up with.
* Threads. The locks in the classes guard against them, but handlers run on one
  event loop, and no code of the repository calls these classes from elsewhere; a
  method is therefore one step even where it reads before it locks
  (`policy/cache.py:57`, `policy/rate_limiter.py:38`).
* A bound of the debug store, which has none: records go only when they are read
  after their TTL, and nothing reads them. `DebugCapture` models this; no text of the
  repository promises otherwise.
* A load balancer that keeps a tenant's requests on one task, and stores shared
  between tasks: neither is in the repository.
