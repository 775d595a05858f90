------------------------------ MODULE RateLimiter ------------------------------
(***************************************************************************)
(* TokenBucketRateLimiter of policy/rate_limiter.py.  allow is called with  *)
(* the limit of the moment: it comes from the tenant's policy and drops     *)
(* when the tenant is throttled, so capacity and refill rate change under   *)
(* a bucket that keeps its tokens.                                          *)
(*                                                                         *)
(* Tokens are floats in the code.  With a clock of Minute ticks to the      *)
(* minute, one tick refills rpm_limit / Minute of a token; the model counts *)
(* what that comes to in Minute-ths of a token, and beside it keeps whether *)
(* rounding left the float below that count.  It matters where the count is *)
(* exactly a token: 0.9999999999999999 is not enough.  What all the         *)
(* rounding comes to is taken to be less than a tick refills.              *)
(***************************************************************************)
EXTENDS Naturals

CONSTANTS
  Tenants,
  Minute      \* clock ticks in a minute

ASSUME MinuteAssumption == Minute \in Nat \ {0}

(***************************************************************************)
(* buckets[t] is t's _Bucket: tokens * Minute is credit, or short of it by   *)
(* a rounding error, and lag is clock() - last_refill counted up to Longest, *)
(* after which it is full at any limit and to the last digit, whatever it    *)
(* held.  The bucket that allow makes for a tenant it has not met is full as *)
(* well, so a tenant without one has a Full one.                            *)
(***************************************************************************)
VARIABLE buckets

Longest == Minute + 1

Bucket == [credit : Nat, short : BOOLEAN, lag : 0 .. Longest]

Full == [credit |-> 0, short |-> FALSE, lag |-> Longest]

Init == buckets = [t \in Tenants |-> Full]

-----------------------------------------------------------------------------
\* Slip: small limits are cut to nothing.
EffectiveLimitUnfloored(rpm_limit, state) ==
  IF state = "THROTTLED" THEN rpm_limit \div 5 ELSE rpm_limit

\* The limit that pipeline.enforce_rate_limit counts a tenant's request against: a
\* fifth for a throttled one, and at least 1.
EffectiveLimit(rpm_limit, state) ==
  IF state # "THROTTLED" THEN rpm_limit
  ELSE IF rpm_limit \div 5 > 1 THEN rpm_limit \div 5 ELSE 1

Refilled(t, limit) == buckets[t].credit + buckets[t].lag * limit

\* Slip: a bucket keeps what it has when its capacity shrinks.
CreditUnclipped(t, limit) ==
  IF buckets[t].credit > limit * Minute THEN buckets[t].credit
  ELSE IF Refilled(t, limit) <= limit * Minute THEN Refilled(t, limit)
  ELSE limit * Minute

\* t's credit once refilled, never above the capacity.
Credit(t, limit) ==
  IF Refilled(t, limit) <= limit * Minute THEN Refilled(t, limit) ELSE limit * Minute

\* Whether the float may be short after the refill: a full bucket's is exact, a
\* refill of nothing leaves it as it is, any other is rounded.
Rounding(t, limit) ==
  IF Refilled(t, limit) > limit * Minute THEN {FALSE}
  ELSE IF Refilled(t, limit) = buckets[t].credit THEN {buckets[t].short}
  ELSE BOOLEAN

\* Once refilled, the bucket has a token.
Suffices(t, limit, short) ==
  IF short THEN Credit(t, limit) > Minute ELSE Credit(t, limit) >= Minute

Put(t, credit, short) ==
  buckets' = [buckets EXCEPT ![t] = [credit |-> credit, short |-> short, lag |-> 0]]

\* Slip: a token is taken whether there is one or not.
AllowOverdrawn(t, limit) ==
  \E short \in Rounding(t, limit) : Put(t, Credit(t, limit) - Minute, short)

\* allow(t, limit) returns True, and takes a token.
Allow(t, limit) ==
  \E short \in Rounding(t, limit) :
    /\ Suffices(t, limit, short)
    /\ Put(t, Credit(t, limit) - Minute, short)

\* Slip: a refusal refills and leaves last_refill as it was.
RefuseNoRestart(t, limit) ==
  \E short \in Rounding(t, limit) :
    /\ ~Suffices(t, limit, short)
    /\ buckets' = [buckets EXCEPT ![t].credit = Credit(t, limit), ![t].short = short]

\* Slip: a refusal starts the clock again and forgets the refill.
RefuseForgetful(t, limit) ==
  \E short \in Rounding(t, limit) :
    /\ ~Suffices(t, limit, short)
    /\ buckets' = [buckets EXCEPT ![t].lag = 0]

\* allow(t, limit) returns False, and takes nothing.
Refuse(t, limit) ==
  \E short \in Rounding(t, limit) :
    /\ ~Suffices(t, limit, short)
    /\ Put(t, Credit(t, limit), short)

Elapse ==
  buckets' = [t \in Tenants |-> IF buckets[t].lag < Minute
                               THEN [buckets[t] EXCEPT !.lag = @ + 1] ELSE Full]

-----------------------------------------------------------------------------
\* Every bucket keeps its kind; it never holds less than nothing.
TypeOK == buckets \in [Tenants -> Bucket]
=============================================================================
