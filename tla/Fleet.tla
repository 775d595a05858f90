--------------------------------- MODULE Fleet ---------------------------------
(***************************************************************************)
(* Two gateway tasks behind the load balancer, as infra/environments/prod    *)
(* runs them (desired_count is 2).  Each has a FilePolicyStore and a cache   *)
(* of its own; the load balancer sends an administrator's request to one of  *)
(* them, and tenants' requests to either.                                  *)
(***************************************************************************)
EXTENDS Naturals

CONSTANTS Tenants, InitialState, TTL, MaxEpoch       \* see PolicyPlane

VARIABLES
  policies, snapshots,        \* the plane of the one task
  policies2, snapshots2,      \* the plane of the other
  acked,                      \* acked[t]: the state last answered to an administrator
  ignored                     \* ignored[t]: the ticks for which a task has not followed it

One == INSTANCE PolicyPlane
Two == INSTANCE PolicyPlane WITH policies <- policies2, snapshots <- snapshots2

one == <<policies, snapshots>>
two == <<policies2, snapshots2>>
vars == <<policies, snapshots, policies2, snapshots2, acked, ignored>>

Ignored(t) == One!View(t).state # acked[t] \/ Two!View(t).state # acked[t]

Init ==
  /\ One!Init /\ Two!Init
  /\ acked = InitialState
  /\ ignored = [t \in Tenants |-> 0]

Settle == ignored' = [t \in Tenants |-> IF Ignored(t)' THEN ignored[t] ELSE 0]

Serve(t) ==
  /\ \/ One!Get(t) /\ UNCHANGED two
     \/ Two!Get(t) /\ UNCHANGED one
  /\ UNCHANGED acked
  /\ Settle

SetTenantState(t, state) ==
  /\ \/ One!SetTenantState(t, state) /\ UNCHANGED two
     \/ Two!SetTenantState(t, state) /\ UNCHANGED one
  /\ acked' = [acked EXCEPT ![t] = state]
  /\ Settle

Tick ==
  /\ One!Elapse /\ Two!Elapse
  /\ UNCHANGED acked
  /\ ignored' = [t \in Tenants |->
       IF Ignored(t) /\ Ignored(t)'
       THEN IF ignored[t] < TTL THEN ignored[t] + 1 ELSE TTL
       ELSE 0]

Next ==
  \/ \E t \in Tenants : Serve(t) \/ \E state \in One!TenantState : SetTenantState(t, state)
  \/ Tick

Spec == Init /\ [][Next]_vars

-----------------------------------------------------------------------------
\* "Policy revocation takes effect within a bounded time" by push invalidation
\* and a bounded TTL (docs/ROADMAP.md:385): no task goes on for the length of
\* the TTL judging requests by another state than the one an administrator was
\* told of.
RevocationBounded == \A t \in Tenants : ignored[t] < TTL
=============================================================================
