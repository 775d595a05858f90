------------------------------- MODULE MCPolicy -------------------------------
(***************************************************************************)
(* AdminPlane, and the policy plane with it, for TLC.                       *)
(***************************************************************************)
EXTENDS AdminPlane

CONSTANTS t1

MCTenants == {t1}

MCInitialState == [t \in MCTenants |-> "ACTIVE"]

Grant(roles) == [tenant_id |-> t1, application_id |-> "app", roles |-> roles]

\* The role "ops" administers, but its session "trainee" only chats.  The
\* second wildcard never decides: the first covers all that it covers.
MCIamPrincipals ==
  <<[arn |-> <<"ops">>, wildcard |-> TRUE, grant |-> Grant({"developer", "platform_admin"})],
    [arn |-> <<"ops", "trainee">>, wildcard |-> FALSE, grant |-> Grant({"developer"})],
    [arn |-> <<"ops", "night">>, wildcard |-> TRUE, grant |-> Grant({"developer"})]>>

Token(tenant_id, roles) ==
  [sub |-> "someone", tenant_id |-> tenant_id, application_id |-> "app", roles |-> roles]

Iam(arn) == [arn |-> arn, token |-> NoToken]

Bearer(token) == [arn |-> << >>, token |-> token]

Admin == Token(t1, {"platform_admin"})

\* Some principals send an administrator's token along.
MCCredentials ==
  {NoHeaders, Iam(<<"ops", "night", "1">>), Iam(<<"ops", "trainee">>), Iam(<<"guest">>),
   [arn |-> <<"guest">>, token |-> Admin], [arn |-> <<"ops", "trainee">>, token |-> Admin],
   Bearer(Admin), Bearer(Token("none", {"platform_admin"}))}

=============================================================================
