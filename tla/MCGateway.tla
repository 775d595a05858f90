------------------------------ MODULE MCGateway ------------------------------
(***************************************************************************)
(* Gateway for TLC.  Tenant "acme" calls with an IAM principal, has a route  *)
(* set and a strict guardrail; "demo" has tokens, an allowlist, a low-risk   *)
(* guardrail, and opted into the bypass and the debug records.              *)
(***************************************************************************)
EXTENDS Gateway

CONSTANTS m1, m2, r1, r2

MCModels == {m1, m2}

MCRouteSets == [certified |-> <<m1, m2>>]

MCTenants == {"acme", "demo"}

MCInitialState == [t \in MCTenants |-> "ACTIVE"]

MCConfig ==
  [acme |-> [models |-> << >>, rpm_limit |-> 2, route_set |-> "certified",
             guardrail_policy |-> {"strict"}, allow_guardrail_bypass_on_error |-> TRUE,
             debug_capture_enabled |-> FALSE],
   demo |-> [models |-> <<m2>>, rpm_limit |-> 1, route_set |-> NoRouteSet,
             guardrail_policy |-> {"low", "risk"},
             allow_guardrail_bypass_on_error |-> TRUE, debug_capture_enabled |-> TRUE]]

Grant(t, roles) == [tenant_id |-> t, application_id |-> "app", roles |-> roles]

MCIamPrincipals ==
  <<[arn |-> <<"acme">>, wildcard |-> TRUE, grant |-> Grant("acme", {"developer"})],
    [arn |-> <<"acme", "old">>, wildcard |-> FALSE, grant |-> Grant("nobody", {"developer"})]>>

Iam(arn) == [arn |-> arn, token |-> NoToken]

Bearer(t, roles) ==
  [arn |-> << >>, token |-> [sub |-> "someone", tenant_id |-> t, application_id |-> "app",
                             roles |-> roles]]

Acme == Iam(<<"acme", "app">>)

Demo == Bearer("demo", {"developer"})

Shape(headers, id, model, prompt, parameters, stream) ==
  [headers |-> headers, request_id |-> id, model |-> model, prompt |-> prompt,
   parameters |-> parameters, stream |-> stream]

\* Beside what a guardrail finds and a redaction takes out, a text has a subject.
MCCompletions == {{"yes"}, {"ssn"}}

\* A question (1) asked with other parameters (2) and of another model (3),
\* streams (4, 5), one of them of a prompt that is blocked, a request id used for
\* two questions of a tenant (6, 7) and one of another tenant (8), a prompt that
\* only a bypass lets through (9), a model that is not allowed (10), and callers
\* who are not let in (11, 12).
MCShapes ==
  <<Shape(Acme, NoId, NoModel, {}, "p1", FALSE), Shape(Acme, NoId, NoModel, {}, "p2", FALSE),
    Shape(Acme, NoId, m2, {}, "p1", FALSE), Shape(Acme, NoId, NoModel, {}, "p1", TRUE),
    Shape(Acme, NoId, NoModel, {"phrase"}, "p1", TRUE),
    Shape(Demo, "id", NoModel, {"cats"}, "p1", FALSE),
    Shape(Demo, "id", m2, {"dogs"}, "p1", FALSE),
    Shape(Acme, "id", NoModel, {"dogs"}, "p1", FALSE),
    Shape(Demo, NoId, m2, {"card"}, "p1", FALSE), Shape(Demo, NoId, m1, {}, "p1", FALSE),
    Shape(Iam(<<"acme", "old">>), NoId, NoModel, {}, "p1", FALSE),
    Shape(Bearer("demo", {"guest"}), NoId, NoModel, {}, "p1", FALSE)>>

MCRequests == {r1, r2}

\* The pairs of requests whose interleavings matter: those that meet in the
\* cache, in a breaker, in a debug record or in a rate limit.
MCPairs ==
  {<<1, 1>>, <<1, 2>>, <<1, 3>>, <<1, 4>>, <<4, 4>>, <<4, 5>>, <<6, 6>>, <<6, 7>>,
   <<6, 8>>, <<6, 9>>, <<10, 11>>, <<10, 12>>}

MCWorkloads ==
  {[r \in MCRequests |-> MCShapes[IF r = r1 THEN p[1] ELSE p[2]]] : p \in MCPairs}
=============================================================================
