------------------------------- MODULE AdminPlane -------------------------------
(***************************************************************************)
(* The administrators' side of the policy plane: the whole handler          *)
(* set_tenant_state of api/admin_routes.py, of which PolicyPlane has the     *)
(* last piece, several of them at a time, and restarts of the gateway.      *)
(*                                                                         *)
(* A handler authenticates and authorizes, waits for the request's body, and *)
(* only then validates the new state and changes the policy.  The body may   *)
(* come late, after another administrator's change or after a restart, which *)
(* the request does not survive.                                           *)
(***************************************************************************)
EXTENDS PolicyPropagation, Identity

CONSTANTS
  Changes,         \* the requests for a change
  Credentials,     \* the headers they may come with
  AdminRole        \* admin_required_role

(***************************************************************************)
(* put[c] is the handler of c: where it is, the headers it was let in with, *)
(* and the status of its answer.  acked[t] is history: the policy that the   *)
(* last answered change of t came to, and with which headers it was asked    *)
(* for; none after a restart or a change from elsewhere.                    *)
(***************************************************************************)
VARIABLES put, acked

avars == <<pvars, put, acked>>

NoHeaders == [arn |-> << >>, token |-> NoToken]

Unacked == [policy |-> [state |-> "ACTIVE", policy_epoch |-> 0], by |-> NoHeaders]

AInit ==
  /\ PInit
  /\ put = [c \in Changes |-> [pc |-> "new", headers |-> NoHeaders, status |-> "none"]]
  /\ acked = [t \in Tenants |-> Unacked]

-----------------------------------------------------------------------------
End(c, status) ==
  put' = [put EXCEPT ![c] = [pc |-> "done", headers |-> NoHeaders, status |-> status]]

\* authenticate and authorize.
Enter(c) ==
  /\ put[c].pc = "new"
  /\ \E headers \in Credentials, verification \in Verifications :
       LET status == Admission(headers, verification, AdminRole).status
       IN  IF status = "ok"
           THEN put' = [put EXCEPT ![c] = [@ EXCEPT !.pc = "reading", !.headers = headers]]
           ELSE End(c, status)
  /\ UNCHANGED <<pvars, acked>>

\* Not JSON, no TenantState, no such tenant.
RejectChange(c) ==
  /\ put[c].pc = "reading"
  /\ \E status \in {"invalid_json", "invalid_request", "tenant_not_found"} : End(c, status)
  /\ UNCHANGED <<pvars, acked>>

Change(c, t, state) ==
  /\ put[c].pc = "reading"
  /\ SetTenantState(t, state)
  /\ Settle
  /\ End(c, "ok")
  /\ acked' = [acked EXCEPT ![t] = [policy |-> policies'[t], by |-> put[c].headers]]

\* A process starts: create_app reads policies.yaml again, and the requests
\* under way are lost.
Restart ==
  /\ policies' = [t \in Tenants |-> [state |-> InitialState[t], policy_epoch |-> 1]]
  /\ snapshots' = [t \in Tenants |-> [policy |-> policies'[t], age |-> TTL]]
  /\ stale' = [t \in Tenants |-> 0]
  /\ put' = [c \in Changes |-> IF put[c].pc = "reading"
                               THEN [pc |-> "done", headers |-> NoHeaders, status |-> "lost"]
                               ELSE put[c]]
  /\ acked' = [t \in Tenants |-> Unacked]

\* The data plane reads, the store changes behind the process, time passes.
AGet(t) == Get(t) /\ Settle /\ UNCHANGED <<put, acked>>

Elsewhere(t, state) ==
  /\ SetStateElsewhere(t, state)
  /\ Settle
  /\ acked' = [acked EXCEPT ![t] = Unacked]
  /\ UNCHANGED put

AElapse == Elapse /\ Count /\ UNCHANGED <<put, acked>>

ANext ==
  \/ \E c \in Changes :
       \/ Enter(c)
       \/ RejectChange(c)
       \/ \E t \in Tenants, state \in AdminInput : Change(c, t, state)
  \/ \E t \in Tenants : AGet(t) \/ \E state \in TenantState : Elsewhere(t, state)
  \/ Restart
  \/ AElapse

ASpec == AInit /\ [][ANext]_avars

-----------------------------------------------------------------------------
\* What an administrator was told is what the next request of the tenant is
\* judged by, until the next change: no snapshot, older change that was let in
\* earlier, or read in between brings another policy back
\* (admin_routes.py:69-87, "the next request for this tenant refetches
\* immediately").
AcknowledgedInForce ==
  \A t \in Tenants :
    acked[t].policy.policy_epoch # 0 => View(t) = acked[t].policy

\* Entry i decides over the principal: it is the principal's own or, when there
\* is none, the first wildcard of the file that covers it.
Own(i, arn) == ~IamPrincipals[i].wildcard /\ IamPrincipals[i].arn = arn

Covering(i, arn) == IamPrincipals[i].wildcard /\ IsPrefix(IamPrincipals[i].arn, arn)

Decides(i, arn) ==
  \/ Own(i, arn)
  \/ /\ Covering(i, arn)
     /\ \A j \in DOMAIN IamPrincipals :
          ~Own(j, arn) /\ (Covering(j, arn) => i <= j)

\* A change in force was asked for by someone who has the administrator's role
\* himself.  For a caller with an ARN the role is that of the entry that
\* decides: a role that a wildcard grants does not reach a principal with an
\* entry of its own, and a principal without any is nobody, whatever token it
\* sends along (admin_routes.py:43-53, pipeline.py:92-95, aws_iam.py:80-92).
OnlyAdministrators ==
  \A t \in Tenants :
    LET by == acked[t].by
    IN  acked[t].policy.policy_epoch # 0 =>
          IF by.arn = << >> THEN AdminRole \in by.token.roles
          ELSE \E i \in DOMAIN IamPrincipals :
                 Decides(i, by.arn) /\ AdminRole \in IamPrincipals[i].grant.roles
=============================================================================
