------------------------------ MODULE PolicyPlane ------------------------------
(***************************************************************************)
(* The tenants' policies: InMemoryPolicyStore (policy/store.py) and, before *)
(* it, the PolicySnapshotCache of policy/cache.py.  An administrator's      *)
(* change of a tenant's state (api/admin_routes.py) writes the store and     *)
(* drops the tenant's snapshot; a request reads through the cache.          *)
(*                                                                         *)
(* Handlers run one at a time on the event loop and neither get nor the     *)
(* change of a state awaits anything, so each is one step here.             *)
(***************************************************************************)
EXTENDS Naturals

CONSTANTS
  Tenants,         \* the tenants policies.yaml provisions
  InitialState,    \* InitialState[t]: the state policies.yaml gives t
  TTL,             \* policy_cache_ttl_s, in clock ticks
  MaxEpoch         \* bound: changes stop when a policy_epoch is this high

TenantState == {"ACTIVE", "THROTTLED", "READ_ONLY", "SUSPENDED", "EMERGENCY_BLOCK"}

\* What a request may name as the new state, "other" standing for all that is
\* no TenantState.
AdminInput == TenantState \cup {"other"}

BlockingStates == {"SUSPENDED", "EMERGENCY_BLOCK"}

ASSUME PolicyAssumption ==
  /\ InitialState \in [Tenants -> TenantState]
  /\ TTL \in Nat
  /\ MaxEpoch \in Nat \ {0}

(***************************************************************************)
(* policies[t] is what a change can alter of t's TenantPolicy; its other     *)
(* fields are read from the file once and never change.  snapshots[t] is     *)
(* t's _Snapshot, with age = clock() - cached_at counted up to TTL.  A       *)
(* snapshot of age TTL is never served again, so it stands for none too.    *)
(***************************************************************************)
VARIABLES policies, snapshots

Policy == [state : TenantState, policy_epoch : 1 .. MaxEpoch]

Snapshot == [policy : Policy, age : 0 .. TTL]

Init ==
  /\ policies = [t \in Tenants |-> [state |-> InitialState[t], policy_epoch |-> 1]]
  /\ snapshots = [t \in Tenants |-> [policy |-> policies[t], age |-> TTL]]

-----------------------------------------------------------------------------
Fresh(t) == snapshots[t].age < TTL

\* The policy get(t) returns.
View(t) == IF Fresh(t) THEN snapshots[t].policy ELSE policies[t]

\* Slip: a hit starts the TTL again.
GetRenewing(t) ==
  /\ snapshots' = [snapshots EXCEPT ![t] = [policy |-> View(t), age |-> 0]]
  /\ UNCHANGED policies

\* get(t): a hit changes nothing, a miss refetches from the store.
Get(t) ==
  /\ snapshots' = IF Fresh(t) THEN snapshots
                  ELSE [snapshots EXCEPT ![t] = [policy |-> policies[t], age |-> 0]]
  /\ UNCHANGED policies

\* Slip: the epoch stays.
SetStateSameEpoch(t, state) ==
  /\ policies[t].policy_epoch < MaxEpoch
  /\ policies' = [policies EXCEPT ![t] = [state |-> state,
                                          policy_epoch |-> policies[t].policy_epoch]]

\* set_state(t, state)
SetState(t, state) ==
  /\ policies[t].policy_epoch < MaxEpoch
  /\ policies' = [policies EXCEPT ![t] = [state |-> state,
                                          policy_epoch |-> policies[t].policy_epoch + 1]]

Invalidate(t) == snapshots' = [snapshots EXCEPT ![t].age = TTL]

\* Slip: the handler forgets the push invalidation.
SetTenantStateNoPush(t, state) ==
  /\ state \in TenantState
  /\ SetState(t, state)
  /\ UNCHANGED snapshots

\* Slip: the handler writes whatever it is given.
SetTenantStateUnparsed(t, state) == SetState(t, state) /\ Invalidate(t)

\* PUT /v1/admin/tenants/{t}/state, from its last await to its response, for
\* an input that is accepted.
SetTenantState(t, state) ==
  /\ state \in TenantState
  /\ SetState(t, state)
  /\ Invalidate(t)

\* A change whose push never comes, as when the store is written by another
\* process than this one.
SetStateElsewhere(t, state) == SetState(t, state) /\ UNCHANGED snapshots

Elapse ==
  /\ snapshots' = [t \in Tenants |->
       [snapshots[t] EXCEPT !.age = IF @ < TTL THEN @ + 1 ELSE TTL]]
  /\ UNCHANGED policies

-----------------------------------------------------------------------------
Next ==
  \/ \E t \in Tenants :
       \/ Get(t)
       \/ \E state \in AdminInput : SetTenantState(t, state)
       \/ \E state \in TenantState : SetStateElsewhere(t, state)
  \/ Elapse

vars == <<policies, snapshots>>

Spec == Init /\ [][Next]_vars

-----------------------------------------------------------------------------
\* Policies and snapshots keep their kinds.
TypeOK ==
  /\ policies \in [Tenants -> Policy]
  /\ snapshots \in [Tenants -> Snapshot]

\* An epoch names one policy: a snapshot is never newer than the store, and
\* one with the store's epoch is the store's policy.  This is what lets
\* policy_epoch stand for the whole policy in the response cache's key
\* (cache/keys.py:3-7), pushes lost or not.
EpochNamesPolicy ==
  \A t \in Tenants :
    LET p == snapshots[t].policy
    IN  /\ p.policy_epoch <= policies[t].policy_epoch
        /\ p.policy_epoch = policies[t].policy_epoch => p = policies[t]
=============================================================================
