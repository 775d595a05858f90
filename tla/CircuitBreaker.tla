---------------------------- MODULE CircuitBreaker ----------------------------
(***************************************************************************)
(* The class CircuitBreaker of routing/circuit_breaker.py: one small state  *)
(* machine per model, behind a lock, so that each method is one step.       *)
(*                                                                         *)
(* The methods are actions on the variable breakers alone.  The modules     *)
(* that use the class (Routing, Gateway) conjoin them with their own        *)
(* steps; the specification at the end of this module, which                *)
(* CircuitBreakerProofs is about, runs the class under a client that calls   *)
(* the methods in any order whatever, which is more than any caller in the  *)
(* repository does: results recorded late, twice, or for calls never asked  *)
(* for.                                                                     *)
(***************************************************************************)
EXTENDS Naturals

CONSTANTS
  Models,            \* model ids a breaker is kept for
  FailureThreshold,  \* failure_threshold (5 in production)
  ResetTimeout,      \* reset_timeout_s, in clock ticks
  FailureCap         \* bound: consecutive_failures is counted up to here

\* Routing, the module that uses the class, assumes it.
BreakerAssumption ==
  /\ FailureThreshold \in Nat \ {0}
  /\ ResetTimeout \in Nat
  /\ FailureCap \in Nat
  /\ FailureCap >= FailureThreshold

(***************************************************************************)
(* breakers[m] is the _ModelBreaker of model m.  The code compares          *)
(* consecutive_failures with the threshold only, so it is counted up to     *)
(* FailureCap, which is at or above the threshold.  It uses opened_at only   *)
(* in clock() - opened_at >= reset_timeout_s, so the model keeps that       *)
(* difference, age, counted up to ResetTimeout.                             *)
(***************************************************************************)
VARIABLE breakers

BreakerState == {"CLOSED", "OPEN", "HALF_OPEN"}

ModelBreaker == [state : BreakerState,
                 consecutive_failures : 0 .. FailureCap,
                 age : 0 .. ResetTimeout]

\* The least of n + 1 and its bound.
UpTo(bound, n) == IF n < bound THEN n + 1 ELSE n

\* _get creates the breaker of a model on first use with these defaults.
Init ==
  breakers = [m \in Models |-> [state |-> "CLOSED",
                                consecutive_failures |-> 0,
                                age |-> ResetTimeout]]

-----------------------------------------------------------------------------
(***************************************************************************)
(* The answer allow(m) would give now.                                      *)
(***************************************************************************)
\* Slip: a half-open breaker turns everybody away but the caller that opened
\* it (the reading "exactly the one trial call" of the method's docstring).
MayCallHalfOpenRefuses(m) ==
  \/ breakers[m].state = "CLOSED"
  \/ breakers[m].state = "OPEN" /\ breakers[m].age >= ResetTimeout

MayCall(m) ==
  breakers[m].state = "OPEN" => breakers[m].age >= ResetTimeout

\* allow(m) returns True.
Allow(m) ==
  /\ MayCall(m)
  /\ breakers' = IF breakers[m].state = "OPEN"
                 THEN [breakers EXCEPT ![m].state = "HALF_OPEN"]
                 ELSE breakers

\* allow(m) returns False.
Refuse(m) ==
  /\ ~MayCall(m)
  /\ UNCHANGED breakers

\* Slip: the state is reset and the count is not.
RecordSuccessKeepsCount(m) ==
  breakers' = [breakers EXCEPT ![m].state = "CLOSED"]

\* record_success(m)
RecordSuccess(m) ==
  breakers' = [breakers EXCEPT ![m] = [state |-> "CLOSED",
                                       consecutive_failures |-> 0,
                                       age |-> @.age]]

\* Slip: > where the code has >=.
TripsOneLate(s, n) == s = "HALF_OPEN" \/ n > FailureThreshold

\* Does the failure that brings the count to n open a breaker in state s?
Trips(s, n) == s = "HALF_OPEN" \/ n >= FailureThreshold

\* record_failure(m)
RecordFailure(m) ==
  LET b == breakers[m]
      n == UpTo(FailureCap, b.consecutive_failures)
  IN  breakers' = [breakers EXCEPT
                     ![m] = IF Trips(b.state, n)
                            THEN [state |-> "OPEN",
                                  consecutive_failures |-> n,
                                  age |-> 0]
                            ELSE [b EXCEPT !.consecutive_failures = n]]

\* The monotonic clock advances by one tick.
Elapse ==
  breakers' = [m \in Models |->
                 [breakers[m] EXCEPT !.age = UpTo(ResetTimeout, @)]]

-----------------------------------------------------------------------------
Next ==
  \/ \E m \in Models :
       \/ Allow(m)
       \/ Refuse(m)
       \/ RecordSuccess(m)
       \/ RecordFailure(m)
  \/ Elapse

vars == breakers

Spec == Init /\ [][Next]_vars

-----------------------------------------------------------------------------
\* Every breaker keeps a state, a count and an age of the right kind
\* (_ModelBreaker and what allow and record_* assign to it).
TypeOK == breakers \in [Models -> ModelBreaker]

\* The two pieces of a breaker agree, whatever the order in which results are
\* recorded: it is CLOSED exactly while fewer than the threshold of failures
\* followed the last success, and it is HALF_OPEN only once the timeout is
\* over.  record_failure writes both and allow only the state, so a record
\* that comes late, for a call granted in another state, could separate them.
Coherent(b) ==
  /\ b.state = "CLOSED" <=> b.consecutive_failures < FailureThreshold
  /\ b.state = "HALF_OPEN" => b.age = ResetTimeout

StateMatchesCount == \A m \in Models : Coherent(breakers[m])

=============================================================================
