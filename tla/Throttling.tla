------------------------------- MODULE Throttling -------------------------------
(***************************************************************************)
(* The rate limiter under the limits that the policies come to: a tenant's  *)
(* own rpm_limit, and less while it is THROTTLED (pipeline.py:142-152).      *)
(*                                                                         *)
(* rpm_limit[t] is policies.yaml's and never changes.  waiting[t] is          *)
(* history: the ticks since t was last let through or its limit changed,     *)
(* counted up to Longest.  A tenant in a blocking state makes no request    *)
(* that gets here, so its time is like any time without one.               *)
(***************************************************************************)
EXTENDS RateBudget

CONSTANT RpmLimits    \* the rpm_limits that tenants have

ASSUME ThrottlingAssumption ==
  /\ RpmLimits \subseteq Nat
  /\ \A l \in RpmLimits, state \in {"ACTIVE", "THROTTLED"} :
       EffectiveLimit(l, state) \in Limits

VARIABLES rpm_limit, state, waiting

tvars == <<bvars, rpm_limit, state, waiting>>

\* ACTIVE stands for every state that leaves the limit as it is.
States == {"ACTIVE", "THROTTLED"}

TInit ==
  /\ BInit
  /\ rpm_limit \in [Tenants -> RpmLimits]
  /\ state \in [Tenants -> States]
  /\ limit = [t \in Tenants |-> EffectiveLimit(rpm_limit[t], state[t])]
  /\ waiting = [t \in Tenants |-> 0]

TGrant(t) ==
  /\ Grant(t)
  /\ waiting' = [waiting EXCEPT ![t] = 0]
  /\ UNCHANGED <<rpm_limit, state>>

TDeny(t) == Deny(t) /\ UNCHANGED <<rpm_limit, state, waiting>>

\* The administrator throttles a tenant or ends it.  Only a limit that really
\* changes starts a new stretch.
ChangeState(t) ==
  /\ \E s \in States \ {state[t]} : state' = [state EXCEPT ![t] = s]
  /\ IF EffectiveLimit(rpm_limit[t], state'[t]) = limit[t]
     THEN UNCHANGED <<bvars, waiting>>
     ELSE /\ ChangeLimit(t)
          /\ limit'[t] = EffectiveLimit(rpm_limit[t], state'[t])
          /\ waiting' = [waiting EXCEPT ![t] = 0]
  /\ UNCHANGED rpm_limit

TTick ==
  /\ BTick
  /\ waiting' = [t \in Tenants |-> IF waiting[t] < Longest THEN waiting[t] + 1 ELSE Longest]
  /\ UNCHANGED <<rpm_limit, state>>

TNext ==
  \/ \E t \in Tenants : TGrant(t) \/ TDeny(t) \/ ChangeState(t)
  \/ TTick

TSpec == TInit /\ [][TNext]_tvars

-----------------------------------------------------------------------------
\* allow lets t's next request through, however the floats are rounded.
Served(t) == \A short \in Rounding(t, limit[t]) : Suffices(t, limit[t], short)

\* What has been waited for is had: once the limit has had the time to refill
\* more than a token, the next request is let through, however often the tenant
\* asked in vain meanwhile and whatever it spent before.  Exactly a token would
\* not do: what the vain asks refilled was rounded (rate_limiter.py:46-53).
EarnedIsServed ==
  \A t \in Tenants : waiting[t] * limit[t] > Minute => Served(t)

\* A THROTTLED tenant is slowed down "rather than being blocked outright"
\* (pipeline.py:29-31): after more than a minute without an answer the next one
\* is let through, however small its limit.
ThrottledNotBlocked ==
  \A t \in Tenants :
    state[t] = "THROTTLED" /\ waiting[t] > Minute => Served(t)
=============================================================================
