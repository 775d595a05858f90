----------------------------- MODULE UpstreamGate -----------------------------
(***************************************************************************)
(* What the circuit breaker and its callers promise the models: while a     *)
(* model that failed FailureThreshold times in a row is left to recover,     *)
(* for ResetTimeout or until a call made before succeeds after all, nobody   *)
(* is given leave to call it.                                              *)
(*                                                                         *)
(* Leave and call are two things.  A call that begins with the leave for it  *)
(* keeps clear of the cooldown.  Leave that is taken first and used later    *)
(* does not lapse: its one call may come in a cooldown that began in        *)
(* between, and there are as many such calls as leaves that were open then.  *)
(*                                                                         *)
(* There is no half-open state here.  The code's third state cannot be seen *)
(* from outside: between the end of the cooldown and the next result every  *)
(* caller is let through.                                                   *)
(***************************************************************************)
EXTENDS Naturals

CONSTANTS Models, Requests, FailureThreshold, ResetTimeout, FailureCap

VARIABLES
  fails,       \* fails[m]: failures since the last success, up to FailureCap
  cooldown,    \* cooldown[m]: ticks until m may be called again
  permits,     \* permits[r]: the models r has leave to call, one at most
  calls        \* calls[r]: the models request r is calling, one at most

vars == <<fails, cooldown, permits, calls>>

Init ==
  /\ fails = [m \in Models |-> 0]
  /\ cooldown = [m \in Models |-> 0]
  /\ permits = [r \in Requests |-> {}]
  /\ calls = [r \in Requests |-> {}]

Engaged(r) == permits[r] # {} \/ calls[r] # {}

\* Leave for one call, for later.
Permit(r, m) ==
  /\ ~Engaged(r)
  /\ cooldown[m] = 0
  /\ permits' = [permits EXCEPT ![r] = {m}]
  /\ UNCHANGED <<fails, cooldown, calls>>

\* The call that leave was given for, cooldown or not.
Use(r, m) ==
  /\ permits[r] = {m}
  /\ permits' = [permits EXCEPT ![r] = {}]
  /\ calls' = [calls EXCEPT ![r] = {m}]
  /\ UNCHANGED <<fails, cooldown>>

\* Leave and call in one.
Start(r, m) ==
  /\ ~Engaged(r)
  /\ cooldown[m] = 0
  /\ calls' = [calls EXCEPT ![r] = {m}]
  /\ UNCHANGED <<fails, cooldown, permits>>

Succeed(r, m) ==
  /\ calls[r] = {m}
  /\ calls' = [calls EXCEPT ![r] = {}]
  /\ fails' = [fails EXCEPT ![m] = 0]
  /\ cooldown' = [cooldown EXCEPT ![m] = 0]
  /\ UNCHANGED permits

Fail(r, m) ==
  LET n == IF fails[m] < FailureCap THEN fails[m] + 1 ELSE FailureCap
  IN  /\ calls[r] = {m}
      /\ calls' = [calls EXCEPT ![r] = {}]
      /\ fails' = [fails EXCEPT ![m] = n]
      /\ cooldown' = IF n >= FailureThreshold
                     THEN [cooldown EXCEPT ![m] = ResetTimeout]
                     ELSE cooldown
      /\ UNCHANGED permits

Abandon(r) ==
  /\ Engaged(r)
  /\ permits' = [permits EXCEPT ![r] = {}]
  /\ calls' = [calls EXCEPT ![r] = {}]
  /\ UNCHANGED <<fails, cooldown>>

Tick ==
  /\ cooldown' = [m \in Models |-> IF cooldown[m] > 0 THEN cooldown[m] - 1 ELSE 0]
  /\ UNCHANGED <<fails, permits, calls>>

Next ==
  \/ \E r \in Requests, m \in Models :
       Permit(r, m) \/ Use(r, m) \/ Start(r, m) \/ Succeed(r, m) \/ Fail(r, m)
  \/ \E r \in Requests : Abandon(r)
  \/ Tick

Spec == Init /\ [][Next]_vars
=============================================================================
