------------------------------ MODULE PolicyProofs ------------------------------
(***************************************************************************)
(* The policy plane for every set of tenants, TTL and number of changes,    *)
(* with and without the pushes that invalidate snapshots.                   *)
(***************************************************************************)
EXTENDS PolicyPropagation, TLAPS

\* EpochNamesPolicy needs no strengthening but the types.
PlaneInv == TypeOK /\ EpochNamesPolicy

\* A tenant's view was outdated for no longer than its snapshot is old, and
\* the count is kept only while it is.  StaleLessThanTTL alone says nothing
\* of how much of the snapshot's life is left.
StaleBound ==
  /\ stale \in [Tenants -> Nat]
  /\ \A t \in Tenants :
       IF Outdated(t) THEN stale[t] <= snapshots[t].age ELSE stale[t] = 0

-----------------------------------------------------------------------------
LEMMA PlaneInit == Init => PlaneInv
<1> SUFFICES ASSUME Init PROVE PlaneInv
  OBVIOUS
<1>1. TypeOK
  BY PolicyAssumption DEF Init, TypeOK, Policy, Snapshot
<1>2. \A t \in Tenants : snapshots[t].policy = policies[t]
  BY DEF Init
<1>3. \A t \in Tenants : policies[t].policy_epoch = 1
  BY DEF Init
<1>4. EpochNamesPolicy
  <2> SUFFICES ASSUME NEW t \in Tenants
               PROVE  LET p == snapshots[t].policy
                      IN  /\ p.policy_epoch <= policies[t].policy_epoch
                          /\ p.policy_epoch = policies[t].policy_epoch
                               => p = policies[t]
    BY DEF EpochNamesPolicy
  <2>1. snapshots[t].policy = policies[t] /\ policies[t].policy_epoch = 1
    BY <1>2, <1>3
  <2>2. QED
    BY <2>1
<1>5. QED
  BY <1>1, <1>4 DEF PlaneInv

\* Every step of the plane keeps an epoch the name of one policy: a change
\* takes an epoch that no snapshot has yet.
LEMMA PlaneStep ==
  ASSUME PlaneInv, [Next]_vars
  PROVE  PlaneInv'
<1> USE PolicyAssumption DEF PlaneInv, TypeOK, EpochNamesPolicy, Policy, Snapshot
<1>1. ASSUME NEW t \in Tenants, Get(t) PROVE PlaneInv'
  BY <1>1 DEF Get
<1>2. ASSUME NEW t \in Tenants, NEW state \in TenantState, SetState(t, state)
      PROVE  /\ policies' \in [Tenants -> Policy]
             /\ \A u \in Tenants \ {t} : policies'[u] = policies[u]
             /\ policies[t].policy_epoch \in Nat
             /\ policies'[t].policy_epoch = policies[t].policy_epoch + 1
  <2>1. policies[t].policy_epoch + 1 \in 1 .. MaxEpoch
    BY <1>2 DEF SetState
  <2>2. QED
    BY <1>2, <2>1 DEF SetState
<1>3. ASSUME NEW t \in Tenants, NEW state \in TenantState, SetState(t, state),
             \A u \in Tenants : snapshots'[u].policy = snapshots[u].policy
      PROVE  EpochNamesPolicy'
  <2> SUFFICES ASSUME NEW u \in Tenants
               PROVE  LET p == snapshots'[u].policy
                      IN  /\ p.policy_epoch <= policies'[u].policy_epoch
                          /\ p.policy_epoch = policies'[u].policy_epoch
                               => p = policies'[u]
    OBVIOUS
  <2>1. CASE u = t
    BY <1>2, <1>3, <2>1
  <2>2. CASE u # t
    BY <1>2, <1>3, <2>2
  <2>3. QED
    BY <2>1, <2>2
<1>4. ASSUME NEW t \in Tenants, NEW state \in AdminInput, SetTenantState(t, state)
      PROVE  PlaneInv'
  <2>1. snapshots' \in [Tenants -> Snapshot]
        /\ \A u \in Tenants : snapshots'[u].policy = snapshots[u].policy
    BY <1>4 DEF SetTenantState, Invalidate
  <2>2. QED
    BY <1>2, <1>3, <1>4, <2>1 DEF SetTenantState
<1>5. ASSUME NEW t \in Tenants, NEW state \in TenantState,
             SetStateElsewhere(t, state)
      PROVE  PlaneInv'
  BY <1>2, <1>3, <1>5 DEF SetStateElsewhere
<1>6. CASE Elapse
  <2>1. ASSUME NEW t \in Tenants
        PROVE  snapshots'[t] \in Snapshot /\ snapshots'[t].policy = snapshots[t].policy
    BY <1>6 DEF Elapse
  <2>2. policies' = policies /\ snapshots' \in [Tenants -> Snapshot]
    BY <1>6, <2>1 DEF Elapse
  <2>3. QED
    BY <2>1, <2>2
<1>7. CASE UNCHANGED vars
  BY <1>7 DEF vars
<1>8. QED
  BY <1>1, <1>4, <1>5, <1>6, <1>7 DEF Next

-----------------------------------------------------------------------------
\* What an outdated view is: a snapshot that is still served and is not the
\* store's policy.
LEMMA OutdatedMeans ==
  ASSUME NEW t \in Tenants
  PROVE  Outdated(t) <=> Fresh(t) /\ snapshots[t].policy # policies[t]
BY DEF Outdated, View

LEMMA StaleInit == PInit => StaleBound
<1> SUFFICES ASSUME PInit PROVE StaleBound
  OBVIOUS
<1>1. \A t \in Tenants : ~Outdated(t)
  BY OutdatedMeans DEF PInit, Init
<1>2. QED
  BY <1>1 DEF StaleBound, PInit

LEMMA StaleStep ==
  ASSUME TypeOK, TypeOK', StaleBound, [PNext]_pvars
  PROVE  StaleBound'
<1> USE PolicyAssumption
<1>1. CASE Elapse /\ Count
  <2>1. stale' \in [Tenants -> Nat]
    BY <1>1 DEF Count, StaleBound
  <2>2. ASSUME NEW t \in Tenants, Outdated(t)'
        PROVE  stale'[t] <= snapshots'[t].age
    <3>1. snapshots'[t].age < TTL /\ snapshots'[t].age \in Nat
      BY <1>1, <2>2 DEF Outdated, View, Fresh, Elapse, TypeOK, Snapshot
    <3>2. snapshots'[t].age = snapshots[t].age + 1
      BY <1>1, <3>1 DEF Elapse, TypeOK, Snapshot
    <3>3. CASE Outdated(t)
      <4>1. stale[t] \in Nat /\ stale[t] <= snapshots[t].age
        BY <3>3 DEF StaleBound
      <4>2. stale'[t] = stale[t] + 1
        BY <1>1, <2>2, <3>1, <3>2, <3>3, <4>1 DEF Count, TypeOK, Snapshot
      <4>3. QED
        BY <3>2, <4>1, <4>2 DEF TypeOK, Snapshot
    <3>4. CASE ~Outdated(t)
      BY <1>1, <3>1, <3>4 DEF Count
    <3>5. QED
      BY <3>3, <3>4
  <2>3. ASSUME NEW t \in Tenants, ~Outdated(t)'
        PROVE  stale'[t] = 0
    BY <1>1, <2>3 DEF Count
  <2>4. QED
    BY <2>1, <2>2, <2>3 DEF StaleBound
<1>2. ASSUME Settle,
             \A t \in Tenants :
               Outdated(t)' => ~Outdated(t) \/ snapshots'[t].age = snapshots[t].age
      PROVE  StaleBound'
  <2>1. stale' \in [Tenants -> Nat]
    BY <1>2 DEF Settle, StaleBound
  <2>2. ASSUME NEW t \in Tenants, Outdated(t)'
        PROVE  stale'[t] <= snapshots'[t].age
    <3>1. stale'[t] = stale[t] /\ stale[t] \in Nat
      BY <1>2, <2>2 DEF Settle, StaleBound
    <3>2. CASE Outdated(t)
      <4>1. stale[t] <= snapshots[t].age
        BY <3>2 DEF StaleBound
      <4>2. snapshots'[t].age = snapshots[t].age
        BY <1>2, <2>2, <3>2
      <4>3. QED
        BY <3>1, <4>1, <4>2
    <3>3. CASE ~Outdated(t)
      <4>1. stale[t] = 0
        BY <3>3 DEF StaleBound
      <4>2. snapshots'[t].age \in Nat
        BY DEF TypeOK, Snapshot
      <4>3. QED
        BY <3>1, <4>1, <4>2
    <3>4. QED
      BY <3>2, <3>3
  <2>3. ASSUME NEW t \in Tenants, ~Outdated(t)'
        PROVE  stale'[t] = 0
    BY <1>2, <2>3 DEF Settle
  <2>4. QED
    BY <2>1, <2>2, <2>3 DEF StaleBound
<1>3. ASSUME NEW t \in Tenants, Get(t), Settle PROVE StaleBound'
  <2>1. \A u \in Tenants :
          Outdated(u)' => ~Outdated(u) \/ snapshots'[u].age = snapshots[u].age
    BY <1>3 DEF Get, Outdated, View, Fresh, TypeOK
  <2>2. QED
    BY <1>2, <1>3, <2>1
<1>4. ASSUME NEW t \in Tenants, NEW state \in AdminInput,
             SetTenantState(t, state), Settle
      PROVE  StaleBound'
  <2>1. \A u \in Tenants :
          Outdated(u)' => ~Outdated(u) \/ snapshots'[u].age = snapshots[u].age
    BY <1>4 DEF SetTenantState, Invalidate, Outdated, View, Fresh, TypeOK, Snapshot
  <2>2. QED
    BY <1>2, <1>4, <2>1
<1>5. ASSUME NEW t \in Tenants, NEW state \in TenantState,
             SetStateElsewhere(t, state), Settle
      PROVE  StaleBound'
  BY <1>2, <1>5 DEF SetStateElsewhere
<1>6. CASE UNCHANGED pvars
  BY <1>6 DEF pvars, StaleBound, Outdated, View, Fresh
<1>7. QED
  BY <1>1, <1>3, <1>4, <1>5, <1>6 DEF PNext

LEMMA BoundGivesTTL == TypeOK /\ StaleBound => StaleLessThanTTL
<1> SUFFICES ASSUME TypeOK, StaleBound, NEW t \in Tenants
             PROVE  stale[t] < TTL
  BY DEF StaleLessThanTTL
<1>1. CASE Outdated(t)
  BY <1>1, OutdatedMeans, PolicyAssumption DEF StaleBound, Fresh, TypeOK, Snapshot
<1>2. CASE ~Outdated(t)
  BY <1>2, TTLAssumption DEF StaleBound
<1>3. QED
  BY <1>1, <1>2

-----------------------------------------------------------------------------
\* The store and the snapshot cache keep their types under any interleaving of
\* reads, changes and ticks.
THEOREM TypeCorrect == Spec => []TypeOK
<1>1. PlaneInv => TypeOK
  BY DEF PlaneInv
<1>2. QED
  BY <1>1, PlaneInit, PlaneStep, PTL DEF Spec

\* policy_epoch may stand for the whole policy: no snapshot, however outdated,
\* has the epoch of another policy (policy/store.py set_state, cache/keys.py).
THEOREM EpochAlwaysNamesPolicy == Spec => []EpochNamesPolicy
<1>1. PlaneInv => EpochNamesPolicy
  BY DEF PlaneInv
<1>2. QED
  BY <1>1, PlaneInit, PlaneStep, PTL DEF Spec

\* No tenant sees an outdated policy for as long as the TTL, whichever pushes
\* are lost (PolicySnapshotCache.get).
THEOREM StalenessBounded == PSpec => []StaleLessThanTTL
<1>1. PInit => PlaneInv /\ StaleBound
  BY PlaneInit, StaleInit DEF PInit
<1>2. PlaneInv /\ StaleBound /\ [PNext]_pvars => PlaneInv' /\ StaleBound'
  <2>1. [PNext]_pvars => [Next]_vars
    BY DEF PNext, pvars, Next, vars
  <2>2. PlaneInv => TypeOK
    BY DEF PlaneInv
  <2>3. QED
    <3> SUFFICES ASSUME PlaneInv, StaleBound, [PNext]_pvars
                 PROVE  PlaneInv' /\ StaleBound'
      OBVIOUS
    <3>1. PlaneInv'
      BY <2>1, PlaneStep
    <3>2. TypeOK'
      BY <3>1 DEF PlaneInv
    <3>3. QED
      BY <2>2, <3>1, <3>2, StaleStep
<1>3. PlaneInv /\ StaleBound => StaleLessThanTTL
  BY BoundGivesTTL DEF PlaneInv
<1>4. QED
  BY <1>1, <1>2, <1>3, PTL DEF PSpec
=============================================================================
