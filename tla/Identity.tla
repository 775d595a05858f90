-------------------------------- MODULE Identity --------------------------------
(***************************************************************************)
(* Who is asking, and may it: authenticate and authorize of pipeline.py     *)
(* over auth/aws_iam.py, auth/identity.py and auth/rbac.py.  Nothing here   *)
(* has a state: the grants of iam_tenants.yaml are read once.               *)
(***************************************************************************)
EXTENDS SequencesExt

CONSTANTS
  \* iam_tenants.yaml: the entries in the order of the file, each with the
  \* segments of its ARN (those before the "*" if it ends in one) and its
  \* grant.
  IamPrincipals,
  NoToken            \* no bearer token in the request

\* The keys of a mapping are distinct.
ASSUME IamAssumption ==
  /\ DOMAIN IamPrincipals \subseteq Nat
  /\ \A i \in DOMAIN IamPrincipals : IamPrincipals[i].wildcard \in BOOLEAN
  /\ \A i, j \in DOMAIN IamPrincipals :
       <<IamPrincipals[i].arn, IamPrincipals[i].wildcard>> =
         <<IamPrincipals[j].arn, IamPrincipals[j].wildcard>> => i = j

Nobody == [tenant_id |-> "none", application_id |-> "none", roles |-> {}]

Refused(status) == [status |-> status, identity |-> Nobody]

\* An Identity, of a grant or of a token's claims; sub and account_id are for
\* the log only.
Known(grant) ==
  [status |-> "ok",
   identity |-> [tenant_id |-> grant.tenant_id, application_id |-> grant.application_id,
                 roles |-> grant.roles]]

-----------------------------------------------------------------------------
Exact(arn) ==
  {i \in DOMAIN IamPrincipals :
     ~IamPrincipals[i].wildcard /\ IamPrincipals[i].arn = arn}

Prefixed(arn) ==
  {i \in DOMAIN IamPrincipals :
     IamPrincipals[i].wildcard /\ IsPrefix(IamPrincipals[i].arn, arn)}

\* Slip: the first entry that fits, exact or not.
MatchesInFileOrder(arn) == Exact(arn) \cup Prefixed(arn)

\* resolve: the entries to choose from.  An exact one wins.
Matches(arn) == IF Exact(arn) # {} THEN Exact(arn) ELSE Prefixed(arn)

AuthenticateIam(arn) ==
  IF Matches(arn) = {} THEN Refused("unknown_iam_principal")
  ELSE Known(IamPrincipals[Min(Matches(arn))].grant)

\* What a token that verifies is worth.  A claim it lacks is "none", and what
\* is no string in its roles "not a string".
IdentityFromClaims(claims) ==
  IF \/ "none" \in {claims.sub, claims.tenant_id, claims.application_id}
     \/ "not a string" \in claims.roles
  THEN Refused("unauthenticated")
  ELSE Known(claims)

\* What verify may come to: the claims, AuthError, or an exception that is none
\* (JwksVerifier's NeverBareException), which ends in main.unhandled_error.
Verifications == {"verified", "refused", "raised"}

\* Slip: a principal that no entry knows falls back to the token it sent along.
AuthenticateFallingBack(headers, verification) ==
  IF Matches(headers.arn) # {} THEN AuthenticateIam(headers.arn)
  ELSE IF headers.token = NoToken \/ verification = "refused" THEN Refused("unauthenticated")
  ELSE IF verification = "raised" THEN Refused("internal_error")
  ELSE IdentityFromClaims(headers.token)

\* The ARN header wins over a token; an empty one is none.
Authenticate(headers, verification) ==
  IF headers.arn # << >> THEN AuthenticateIam(headers.arn)
  ELSE IF headers.token = NoToken \/ verification = "refused" THEN Refused("unauthenticated")
  ELSE IF verification = "raised" THEN Refused("internal_error")
  ELSE IdentityFromClaims(headers.token)

Authorized(identity, role) == role \in identity.roles

\* Both stages: how the handler ends, or "ok" and for whom it goes on.
Admission(headers, verification, role) ==
  LET who == Authenticate(headers, verification)
  IN  IF who.status = "ok" /\ ~Authorized(who.identity, role) THEN Refused("forbidden")
      ELSE who
=============================================================================
