--------------------------- MODULE PolicyPropagation ---------------------------
(***************************************************************************)
(* How long the cache may go on serving a policy that the store no longer   *)
(* holds, when pushes are lost.  stale[t] is a history variable: the ticks   *)
(* during which every get(t) would have been answered with an outdated      *)
(* policy, up to now and without a break.                                   *)
(***************************************************************************)
EXTENDS PolicyPlane

\* With a TTL of 0 there is no cache to speak of, and nothing to bound.
ASSUME TTLAssumption == TTL > 0

VARIABLE stale

Outdated(t) == View(t) # policies[t]

PInit == Init /\ stale = [t \in Tenants |-> 0]

\* A tick counts for the tenants whose view is outdated before and after it;
\* the count is kept up to TTL.
Count ==
  stale' = [t \in Tenants |->
              IF Outdated(t) /\ Outdated(t)'
              THEN IF stale[t] < TTL THEN stale[t] + 1 ELSE TTL
              ELSE 0]

Settle == stale' = [t \in Tenants |-> IF Outdated(t)' THEN stale[t] ELSE 0]

PNext ==
  \/ Elapse /\ Count
  \/ /\ \E t \in Tenants :
          \/ Get(t)
          \/ \E state \in AdminInput : SetTenantState(t, state)
          \/ \E state \in TenantState : SetStateElsewhere(t, state)
     /\ Settle

pvars == <<policies, snapshots, stale>>

PSpec == PInit /\ [][PNext]_pvars

-----------------------------------------------------------------------------
\* "maximum stale-policy lifetime <= ttl_s", which holds even if a push is
\* lost, dropped, or never sent (policy/cache.py:11-13): no tenant is answered with
\* an outdated policy for the length of the TTL, however often it asks and
\* whichever pushes are lost.
StaleLessThanTTL == \A t \in Tenants : stale[t] < TTL
=============================================================================
