------------------------------- MODULE RateBudget -------------------------------
(***************************************************************************)
(* What the token bucket guarantees one after the other: how many requests  *)
(* a tenant gets through in a stretch of time during which it has one       *)
(* limit, whatever limits it had before.                                    *)
(*                                                                         *)
(* limit[t] is the limit t's requests are counted against at present; a      *)
(* change of it (throttling, its end) starts a new stretch.  granted[t] and  *)
(* elapsed[t] are the history of the stretch: the requests let through and  *)
(* the ticks gone by.  A stretch is followed for MaxElapsed ticks.           *)
(***************************************************************************)
EXTENDS RateLimiter

CONSTANTS
  Limits,        \* the limits that enforce_rate_limit comes to
  MaxElapsed     \* bound: a stretch is watched for so many ticks

ASSUME BudgetAssumption ==
  /\ Limits \subseteq Nat
  /\ MaxElapsed \in Nat

VARIABLES limit, granted, elapsed

bvars == <<buckets, limit, granted, elapsed>>

BInit ==
  /\ Init
  /\ limit \in [Tenants -> Limits]
  /\ granted = [t \in Tenants |-> 0]
  /\ elapsed = [t \in Tenants |-> 0]

Grant(t) ==
  /\ Allow(t, limit[t])
  /\ granted' = [granted EXCEPT ![t] = granted[t] + 1]
  /\ UNCHANGED <<limit, elapsed>>

Deny(t) ==
  /\ Refuse(t, limit[t])
  /\ UNCHANGED <<limit, granted, elapsed>>

ChangeLimit(t) ==
  /\ \E l \in Limits \ {limit[t]} : limit' = [limit EXCEPT ![t] = l]
  /\ granted' = [granted EXCEPT ![t] = 0]
  /\ elapsed' = [elapsed EXCEPT ![t] = 0]
  /\ UNCHANGED buckets

BTick ==
  /\ \A t \in Tenants : elapsed[t] < MaxElapsed
  /\ Elapse
  /\ elapsed' = [t \in Tenants |-> elapsed[t] + 1]
  /\ UNCHANGED <<limit, granted>>

BNext ==
  \/ \E t \in Tenants : Grant(t) \/ Deny(t) \/ ChangeLimit(t)
  \/ BTick

BSpec == BInit /\ [][BNext]_bvars

-----------------------------------------------------------------------------
\* A tenant never gets more through than one full bucket and what the limit
\* refills in the time gone by: a bucket filled under a higher limit buys
\* nothing once the limit has dropped, and asking often earns nothing either.
WithinBudget ==
  \A t \in Tenants :
    granted[t] * Minute <= limit[t] * Minute + limit[t] * elapsed[t]
=============================================================================
