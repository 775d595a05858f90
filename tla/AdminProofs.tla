------------------------------ MODULE AdminProofs ------------------------------
(***************************************************************************)
(* The administrators' side of the policy plane for every set of tenants,   *)
(* of requests, of grants and of credentials, with restarts and with changes *)
(* from elsewhere.                                                          *)
(***************************************************************************)
EXTENDS AdminPlane, PolicyProofs, WellFoundedInduction

\* put and acked are functions on their sets, and no more is needed of them.
Shaped ==
  /\ put = [c \in Changes |-> put[c]]
  /\ acked = [t \in Tenants |-> acked[t]]

\* What was acknowledged is what the store holds, and no snapshot that is
\* still served says otherwise.
InForce ==
  \A t \in Tenants :
    acked[t].policy.policy_epoch # 0 => policies[t] = acked[t].policy /\ ~Outdated(t)

HasRole(arn) ==
  \E i \in DOMAIN IamPrincipals :
    Decides(i, arn) /\ AdminRole \in IamPrincipals[i].grant.roles

IsAdministrator(by) ==
  IF by.arn = << >> THEN AdminRole \in by.token.roles ELSE HasRole(by.arn)

\* Who waits for the body of a change was let in as an administrator.
LetIn == \A c \in Changes : put[c].pc = "reading" => IsAdministrator(put[c].headers)

-----------------------------------------------------------------------------
LEMMA LeastNatural ==
  ASSUME NEW T, T \subseteq Nat, T # {}
  PROVE  \E x \in T : \A y \in T : x <= y
<1>1. PICK x \in T : \A y \in T : <<y, x>> \notin OpToRel(<, Nat)
  BY NatLessThanWellFounded, WFMin
<1>2. \A y \in T : y < x => <<y, x>> \in OpToRel(<, Nat)
  BY DEF OpToRel
<1>3. \A y \in T : ~(y < x)
  BY <1>1, <1>2
<1>4. QED
  BY <1>3

\* The entry that resolve takes is the one that decides, wherever in the file
\* it stands: an entry of the caller's own, or the first wildcard.
LEMMA FirstMatchDecides ==
  ASSUME NEW arn, Matches(arn) # {}
  PROVE  /\ Min(Matches(arn)) \in DOMAIN IamPrincipals
         /\ Decides(Min(Matches(arn)), arn)
<1> DEFINE i == Min(Matches(arn))
<1>1. /\ Exact(arn) = {j \in DOMAIN IamPrincipals : Own(j, arn)}
      /\ Prefixed(arn) = {j \in DOMAIN IamPrincipals : Covering(j, arn)}
  BY DEF Exact, Prefixed, Own, Covering
<1>2. Matches(arn) \subseteq DOMAIN IamPrincipals
  BY <1>1 DEF Matches
<1>3. Matches(arn) \subseteq Nat
  BY <1>2, IamAssumption
<1>4. \E x \in Matches(arn) : \A y \in Matches(arn) : x <= y
  BY <1>3, LeastNatural
<1>5. i \in Matches(arn) /\ \A y \in Matches(arn) : i <= y
  BY <1>4 DEF Min
<1> HIDE DEF i
<1>6. CASE Exact(arn) # {}
  BY <1>1, <1>5, <1>6 DEF Matches, Decides, i
<1>7. CASE Exact(arn) = {}
  <2>1. Matches(arn) = Prefixed(arn)
    BY <1>7 DEF Matches
  <2>2. Covering(i, arn)
    BY <1>1, <1>5, <2>1
  <2>3. \A j \in DOMAIN IamPrincipals : ~Own(j, arn) /\ (Covering(j, arn) => i <= j)
    BY <1>1, <1>5, <1>7, <2>1
  <2>4. QED
    BY <1>2, <1>5, <2>2, <2>3 DEF Decides, i
<1>8. QED
  BY <1>6, <1>7

\* Whom the two stages let in as an administrator is one.
LEMMA AdmittedIsAdministrator ==
  ASSUME NEW headers, NEW verification \in Verifications,
         Admission(headers, verification, AdminRole).status = "ok"
  PROVE  IsAdministrator(headers)
<1> DEFINE who == Authenticate(headers, verification)
<1>1. who.status = "ok" /\ AdminRole \in who.identity.roles
  BY DEF Admission, Authorized, Refused
<1>2. CASE headers.arn = << >>
  <2>1. who = IdentityFromClaims(headers.token)
    BY <1>1, <1>2 DEF Authenticate, Refused
  <2>2. who = Known(headers.token)
    <3>1. \/ who = Refused("unauthenticated")
          \/ who = Known(headers.token)
      BY <2>1, Zenon DEF IdentityFromClaims
    <3>2. who # Refused("unauthenticated")
      BY <1>1 DEF Refused
    <3>3. QED
      BY <3>1, <3>2
  <2>3. QED
    BY <1>1, <1>2, <2>2 DEF Known, IsAdministrator
<1>3. CASE headers.arn # << >>
  <2>1. who = AuthenticateIam(headers.arn)
    BY <1>3 DEF Authenticate
  <2>2. /\ Matches(headers.arn) # {}
        /\ who = Known(IamPrincipals[Min(Matches(headers.arn))].grant)
    BY <1>1, <2>1 DEF AuthenticateIam, Refused
  <2>3. AdminRole \in IamPrincipals[Min(Matches(headers.arn))].grant.roles
    BY <1>1, <2>2 DEF Known
  <2>4. HasRole(headers.arn)
    BY <2>2, <2>3, FirstMatchDecides DEF HasRole
  <2>5. QED
    BY <1>3, <2>4 DEF IsAdministrator
<1>4. QED
  BY <1>2, <1>3

-----------------------------------------------------------------------------
\* Each step is one of the plane under lost pushes, or starts it afresh.
LEMMA PlaneSimulated == [ANext]_avars => [PNext]_pvars \/ PInit'
<1> SUFFICES ASSUME [ANext]_avars PROVE [PNext]_pvars \/ PInit'
  OBVIOUS
<1>1. ASSUME NEW c \in Changes, Enter(c) \/ RejectChange(c) PROVE [PNext]_pvars
  BY <1>1 DEF Enter, RejectChange
<1>2. ASSUME NEW c \in Changes, NEW t \in Tenants, NEW new \in AdminInput,
             Change(c, t, new)
      PROVE  PNext
  BY <1>2 DEF Change, PNext
<1>3. ASSUME NEW t \in Tenants, AGet(t) PROVE PNext
  BY <1>3 DEF AGet, PNext
<1>4. ASSUME NEW t \in Tenants, NEW new \in TenantState, Elsewhere(t, new)
      PROVE  PNext
  BY <1>4 DEF Elsewhere, PNext
<1>5. CASE Restart
  BY <1>5 DEF Restart, PInit, Init
<1>6. CASE AElapse
  BY <1>6 DEF AElapse, PNext
<1>7. CASE UNCHANGED avars
  BY <1>7 DEF avars
<1>8. QED
  BY <1>1, <1>2, <1>3, <1>4, <1>5, <1>6, <1>7 DEF ANext

LEMMA PlaneInitNext == PInit' => PlaneInv' /\ StaleBound'
<1>1. PInit => PlaneInv /\ StaleBound
  BY PlaneInit, StaleInit DEF PInit
<1>2. QED
  BY <1>1, PTL

LEMMA PlaneKept ==
  ASSUME PlaneInv, StaleBound, [ANext]_avars
  PROVE  PlaneInv' /\ StaleBound'
<1>1. CASE [PNext]_pvars
  <2>1. [Next]_vars
    BY <1>1 DEF PNext, pvars, Next, vars
  <2>2. PlaneInv'
    BY <2>1, PlaneStep
  <2>3. TypeOK /\ TypeOK'
    BY <2>2 DEF PlaneInv
  <2>4. QED
    BY <1>1, <2>2, <2>3, StaleStep
<1>2. CASE PInit'
  BY <1>2, PlaneInitNext
<1>3. QED
  BY <1>1, <1>2, PlaneSimulated

-----------------------------------------------------------------------------
LEMMA AdminInit == AInit => Shaped /\ InForce /\ LetIn /\ OnlyAdministrators
BY DEF AInit, Unacked, Shaped, InForce, LetIn, OnlyAdministrators

LEMMA ShapedStep ==
  ASSUME Shaped, [ANext]_avars
  PROVE  Shaped'
BY DEF Shaped, ANext, Enter, RejectChange, Change, End, Restart, AGet, Elsewhere,
       AElapse, avars

\* A change is the only step that makes a policy other than the acknowledged
\* one, and it drops the snapshot; a read or a tick shows no other.
LEMMA InForceStep ==
  ASSUME Shaped, TypeOK, InForce, [ANext]_avars
  PROVE  InForce'
<1> USE DEF InForce
<1>1. ASSUME UNCHANGED <<policies, snapshots, acked>> PROVE InForce'
  BY <1>1 DEF Outdated, View, Fresh
<1>2. ASSUME NEW c \in Changes, Enter(c) \/ RejectChange(c) PROVE InForce'
  BY <1>1, <1>2 DEF Enter, RejectChange, pvars
<1>3. ASSUME NEW c \in Changes, NEW t \in Tenants, NEW new \in AdminInput,
             Change(c, t, new)
      PROVE  InForce'
  <2> SUFFICES ASSUME NEW u \in Tenants, acked'[u].policy.policy_epoch # 0
               PROVE  policies'[u] = acked'[u].policy /\ ~Outdated(u)'
    OBVIOUS
  <2>1. CASE u = t
    <3>1. acked'[u].policy = policies'[u]
      BY <1>3, <2>1 DEF Change, Shaped
    <3>2. ~Fresh(u)'
      BY <1>3, <2>1, PolicyAssumption
      DEF Change, SetTenantState, Invalidate, TypeOK, Snapshot, Fresh
    <3>3. QED
      BY <3>1, <3>2 DEF Outdated, View
  <2>2. CASE u # t
    <3>1. acked'[u] = acked[u]
      BY <1>3, <2>2 DEF Change, Shaped
    <3>2. policies'[u] = policies[u] /\ snapshots'[u] = snapshots[u]
      BY <1>3, <2>2 DEF Change, SetTenantState, SetState, Invalidate, TypeOK
    <3>3. QED
      BY <3>1, <3>2 DEF Outdated, View, Fresh
  <2>3. QED
    BY <2>1, <2>2
<1>4. ASSUME NEW t \in Tenants, AGet(t) PROVE InForce'
  BY <1>4, PolicyAssumption DEF AGet, Get, Outdated, View, Fresh, TypeOK, Snapshot
<1>5. ASSUME NEW t \in Tenants, NEW new \in TenantState, Elsewhere(t, new)
      PROVE  InForce'
  <2> SUFFICES ASSUME NEW u \in Tenants, acked'[u].policy.policy_epoch # 0
               PROVE  policies'[u] = acked'[u].policy /\ ~Outdated(u)'
    OBVIOUS
  <2>1. u # t /\ acked'[u] = acked[u]
    BY <1>5 DEF Elsewhere, Shaped, Unacked
  <2>2. policies'[u] = policies[u] /\ snapshots'[u] = snapshots[u]
    BY <1>5, <2>1 DEF Elsewhere, SetStateElsewhere, SetState, TypeOK
  <2>3. QED
    BY <2>1, <2>2 DEF Outdated, View, Fresh
<1>6. CASE Restart
  BY <1>6 DEF Restart, Unacked
<1>7. CASE AElapse
  <2>1. \A t \in Tenants :
          /\ Fresh(t)' => Fresh(t)
          /\ snapshots'[t].policy = snapshots[t].policy
    BY <1>7, PolicyAssumption DEF AElapse, Elapse, Fresh, TypeOK, Snapshot
  <2>2. QED
    BY <1>7, <2>1 DEF AElapse, Elapse, Outdated, View
<1>8. CASE UNCHANGED avars
  BY <1>1, <1>8 DEF avars, pvars
<1>9. QED
  BY <1>2, <1>3, <1>4, <1>5, <1>6, <1>7, <1>8 DEF ANext

\* The body may come late, but with the headers of the start.
LEMMA LetInStep ==
  ASSUME Shaped, LetIn, [ANext]_avars
  PROVE  LetIn'
<1> USE DEF LetIn, Shaped
<1>1. ASSUME NEW c \in Changes, NEW status, End(c, status) PROVE LetIn'
  BY <1>1 DEF End
<1>2. ASSUME NEW c \in Changes, Enter(c) PROVE LetIn'
  <2>1. PICK headers \in Credentials, verification \in Verifications :
          LET status == Admission(headers, verification, AdminRole).status
          IN  IF status = "ok"
              THEN put' = [put EXCEPT ![c] = [@ EXCEPT !.pc = "reading",
                                                       !.headers = headers]]
              ELSE End(c, status)
    BY <1>2 DEF Enter
  <2>2. CASE Admission(headers, verification, AdminRole).status = "ok"
    <3> DEFINE new == [put[c] EXCEPT !.pc = "reading", !.headers = headers]
    <3>1. put' = [put EXCEPT ![c] = new]
      BY <2>1, <2>2
    <3>2. IsAdministrator(headers)
      BY <2>2, AdmittedIsAdministrator
    <3>3. new.pc = "reading" => new.headers = headers
      OBVIOUS
    <3> HIDE DEF new
    <3>4. QED
      BY <3>1, <3>2, <3>3
  <2>3. QED
    BY <1>1, <2>1, <2>2
<1>3. ASSUME NEW c \in Changes, RejectChange(c) PROVE LetIn'
  BY <1>1, <1>3 DEF RejectChange
<1>4. ASSUME NEW c \in Changes, NEW t \in Tenants, NEW new \in AdminInput,
             Change(c, t, new)
      PROVE  LetIn'
  BY <1>1, <1>4 DEF Change
<1>5. CASE Restart
  BY <1>5 DEF Restart
<1>6. ASSUME UNCHANGED put PROVE LetIn'
  BY <1>6
<1>7. QED
  BY <1>2, <1>3, <1>4, <1>5, <1>6 DEF ANext, AGet, Elsewhere, AElapse, avars

LEMMA OnlyAdministratorsStep ==
  ASSUME Shaped, LetIn, OnlyAdministrators, [ANext]_avars
  PROVE  OnlyAdministrators'
<1> DEFINE Good(a) == a.policy.policy_epoch # 0 => IsAdministrator(a.by)
<1>1. OnlyAdministrators <=> \A t \in Tenants : Good(acked[t])
  BY DEF OnlyAdministrators, IsAdministrator, HasRole
<1>2. (\A t \in Tenants : Good(acked'[t])) => OnlyAdministrators'
  BY DEF OnlyAdministrators, IsAdministrator, HasRole
<1>3. ASSUME NEW c \in Changes, NEW t \in Tenants, NEW new \in AdminInput,
             Change(c, t, new)
      PROVE  \A u \in Tenants : Good(acked'[u])
  <2>1. IsAdministrator(put[c].headers)
    BY <1>3 DEF Change, LetIn
  <2>2. /\ acked'[t].by = put[c].headers
        /\ \A u \in Tenants \ {t} : acked'[u] = acked[u]
    BY <1>3 DEF Change, Shaped
  <2>3. Good(acked'[t])
    BY <2>1, <2>2
  <2>4. QED
    BY <1>1, <2>2, <2>3
<1>4. Good(Unacked)
  BY DEF Unacked
<1>5. ASSUME NEW t \in Tenants, NEW new \in TenantState, Elsewhere(t, new)
      PROVE  \A u \in Tenants : Good(acked'[u])
  <2>1. /\ acked'[t] = Unacked
        /\ \A u \in Tenants \ {t} : acked'[u] = acked[u]
    BY <1>5 DEF Elsewhere, Shaped
  <2>2. QED
    BY <1>1, <1>4, <2>1
<1>6. CASE Restart
  <2>1. \A u \in Tenants : acked'[u] = Unacked
    BY <1>6 DEF Restart
  <2>2. QED
    BY <1>2, <1>4, <2>1
<1>7. ASSUME UNCHANGED acked PROVE OnlyAdministrators'
  BY <1>1, <1>2, <1>7
<1>8. QED
  BY <1>2, <1>3, <1>5, <1>6, <1>7
  DEF ANext, Enter, RejectChange, AGet, AElapse, avars

-----------------------------------------------------------------------------
AdminInv == PlaneInv /\ StaleBound /\ Shaped /\ InForce /\ LetIn /\ OnlyAdministrators

LEMMA AdminInductive ==
  /\ AInit => AdminInv
  /\ AdminInv /\ [ANext]_avars => AdminInv'
<1>1. AInit => PlaneInv /\ StaleBound
  BY PlaneInit, StaleInit DEF AInit, PInit
<1>2. AInit => AdminInv
  BY <1>1, AdminInit DEF AdminInv
<1>3. ASSUME AdminInv, [ANext]_avars PROVE AdminInv'
  BY <1>3, PlaneKept, ShapedStep, InForceStep, LetInStep, OnlyAdministratorsStep
  DEF AdminInv, PlaneInv
<1>4. QED
  BY <1>2, <1>3

\* Whatever was acknowledged last of a tenant's policy is what its next request
\* is judged by, in every order of handlers, reads, ticks, restarts and changes
\* from elsewhere (admin_routes.set_tenant_state).
THEOREM AcknowledgedStaysInForce == ASpec => []AcknowledgedInForce
<1>1. AdminInv => AcknowledgedInForce
  BY DEF AdminInv, InForce, AcknowledgedInForce, Outdated
<1>2. QED
  BY <1>1, AdminInductive, PTL DEF ASpec

\* No policy was ever changed by a caller who is no administrator, for every
\* file of grants and every pair of ARN and token a caller may send
\* (pipeline.authenticate and authorize, auth/aws_iam.py resolve).
THEOREM ChangedByAdministrators == ASpec => []OnlyAdministrators
<1>1. AdminInv => OnlyAdministrators
  BY DEF AdminInv
<1>2. QED
  BY <1>1, AdminInductive, PTL DEF ASpec

\* The plane's guarantees hold under the whole handler and across restarts.
THEOREM PlaneKeptUnderAdmin == ASpec => [](TypeOK /\ EpochNamesPolicy /\ StaleLessThanTTL)
<1>1. AdminInv => TypeOK /\ EpochNamesPolicy
  BY DEF AdminInv, PlaneInv
<1>2. AdminInv => StaleLessThanTTL
  BY BoundGivesTTL DEF AdminInv, PlaneInv
<1>3. QED
  BY <1>1, <1>2, AdminInductive, PTL DEF ASpec
=============================================================================
