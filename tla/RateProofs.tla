------------------------------- MODULE RateProofs -------------------------------
(***************************************************************************)
(* The rate limiter for every set of limits and every number of ticks to    *)
(* the minute: the budget of RateBudget under every history of changes of   *)
(* the limit, and under the changes that throttling makes what Throttling   *)
(* asks besides, that what is earned is served.                             *)
(***************************************************************************)
EXTENDS Throttling, TLAPS

Inv ==
  /\ TypeOK
  /\ limit \in [Tenants -> Limits]
  /\ granted \in [Tenants -> Nat]
  /\ elapsed \in [Tenants -> Nat]

\* What was let through and what the bucket would yield if asked now come out
\* of the first bucketful and the refill since.  WithinBudget alone is not
\* inductive: it says nothing of the tokens that are left.
Account ==
  \A t \in Tenants :
    granted[t] * Minute + Credit(t, limit[t])
      <= limit[t] * Minute + limit[t] * elapsed[t]

-----------------------------------------------------------------------------
\* The two laws of multiplication that the steps need.
LEMMA OneMore ==
  ASSUME NEW a \in Nat, NEW b \in Nat
  PROVE  /\ a * b \in Nat
         /\ a * (b + 1) = a * b + a
         /\ (b + 1) * a = b * a + a
         /\ a * b = b * a
OBVIOUS

\* A credit is a natural number, and no more than a full bucket's.
LEMMA CreditBound ==
  ASSUME TypeOK, NEW t \in Tenants, NEW l \in Nat
  PROVE  /\ Credit(t, l) \in Nat
         /\ l * Minute \in Nat
         /\ Credit(t, l) <= l * Minute
<1>1. buckets[t].credit \in Nat /\ buckets[t].lag \in Nat
  BY MinuteAssumption DEF TypeOK, Bucket, Longest
<1>2. l * Minute \in Nat /\ buckets[t].lag * l \in Nat
  BY <1>1, MinuteAssumption
<1>3. Refilled(t, l) \in Nat
  BY <1>1, <1>2 DEF Refilled
<1>4. QED
  BY <1>2, <1>3 DEF Credit

\* The same after a step: the bound is about whatever state the step leads to.
LEMMA CreditBoundNext ==
  ASSUME TypeOK', NEW t \in Tenants, NEW l \in Nat
  PROVE  /\ Credit(t, l)' \in Nat
         /\ l * Minute \in Nat
         /\ Credit(t, l)' <= l * Minute
<1>1. buckets'[t].credit \in Nat /\ buckets'[t].lag \in Nat
  BY MinuteAssumption DEF TypeOK, Bucket, Longest
<1>2. l * Minute \in Nat /\ buckets'[t].lag * l \in Nat
  BY <1>1, MinuteAssumption
<1>3. Refilled(t, l)' \in Nat
  BY <1>1, <1>2 DEF Refilled
<1>4. QED
  BY <1>2, <1>3 DEF Credit

\* What rounding leaves a float is short or is not.
LEMMA RoundingTruth ==
  ASSUME TypeOK, NEW t \in Tenants, NEW l \in Nat
  PROVE  Rounding(t, l) \subseteq BOOLEAN
BY DEF Rounding, TypeOK, Bucket

\* A request that is let through finds a whole token, and takes one.
LEMMA AllowTakes ==
  ASSUME TypeOK, NEW t \in Tenants, NEW l \in Nat, Allow(t, l)
  PROVE  /\ Credit(t, l) >= Minute
         /\ Credit(t, l) - Minute \in Nat
         /\ \E short \in BOOLEAN : Put(t, Credit(t, l) - Minute, short)
<1>1. PICK short \in Rounding(t, l) :
        Suffices(t, l, short) /\ Put(t, Credit(t, l) - Minute, short)
  BY DEF Allow
<1>2. Credit(t, l) \in Nat
  BY CreditBound
<1>3. Credit(t, l) >= Minute
  BY <1>1, <1>2, MinuteAssumption DEF Suffices
<1>4. QED
  BY <1>1, <1>2, <1>3, RoundingTruth, MinuteAssumption

\* A request that is not leaves the refill, which is at most a token's.
LEMMA RefuseKeeps ==
  ASSUME TypeOK, NEW t \in Tenants, NEW l \in Nat, Refuse(t, l)
  PROVE  \E short \in BOOLEAN :
           /\ short \in Rounding(t, l)
           /\ ~Suffices(t, l, short)
           /\ Put(t, Credit(t, l), short)
BY RoundingTruth DEF Refuse

\* A bucket that was just asked yields what it holds.
LEMMA CreditAfterCall ==
  ASSUME NEW t \in Tenants, NEW l \in Nat, NEW c \in Nat, c <= l * Minute,
         buckets'[t].credit = c, buckets'[t].lag = 0
  PROVE  Credit(t, l)' = c
<1>1. l * Minute \in Nat
  BY MinuteAssumption
<1>2. Refilled(t, l)' = c
  BY DEF Refilled
<1>3. QED
  BY <1>1, <1>2 DEF Credit

LEMMA TimesMonotone ==
  ASSUME NEW a \in Nat, NEW b \in Nat, NEW l \in Nat, a <= b
  PROVE  a * l <= b * l
<1> DEFINE k == b - a
<1>1. k \in Nat /\ b = a + k
  OBVIOUS
<1> HIDE DEF k
<1>2. (a + k) * l = a * l + k * l /\ a * l \in Nat /\ k * l \in Nat
  BY <1>1
<1>3. QED
  BY <1>1, <1>2

\* What a tick makes of a bucket.
LEMMA TickDoes ==
  ASSUME TypeOK, NEW t \in Tenants, Elapse
  PROVE  /\ buckets[t].credit \in Nat /\ buckets[t].lag \in Nat
         /\ Longest \in Nat /\ Longest = Minute + 1
         /\ \/ /\ buckets[t].lag < Minute
               /\ buckets'[t].credit = buckets[t].credit
               /\ buckets'[t].lag = buckets[t].lag + 1
            \/ /\ buckets[t].lag >= Minute
               /\ buckets'[t].credit = 0 /\ buckets'[t].lag = Longest
<1>1. /\ buckets[t].credit \in Nat /\ buckets[t].lag \in Nat
      /\ buckets[t] \in Bucket
      /\ Longest \in Nat /\ Longest = Minute + 1
  BY MinuteAssumption DEF TypeOK, Bucket, Longest
<1>2. CASE buckets[t].lag < Minute
  <2>1. buckets'[t] = [buckets[t] EXCEPT !.lag = @ + 1]
    BY <1>2 DEF Elapse
  <2>2. QED
    BY <1>1, <1>2, <2>1 DEF Bucket
<1>3. CASE ~(buckets[t].lag < Minute)
  <2>1. buckets'[t] = Full
    BY <1>3 DEF Elapse
  <2>2. QED
    BY <1>1, <1>3, <2>1, MinuteAssumption DEF Full
<1>4. QED
  BY <1>2, <1>3

\* A tick adds at most one tick's refill.
LEMMA CreditAfterTick ==
  ASSUME TypeOK, NEW t \in Tenants, NEW l \in Nat, Elapse
  PROVE  Credit(t, l)' <= Credit(t, l) + l
<1> DEFINE c == buckets[t].credit
           g == buckets[t].lag
           h == buckets'[t].lag
<1>1. c \in Nat /\ g \in Nat /\ Longest \in Nat /\ l * Minute \in Nat /\ Minute \in Nat
  BY TickDoes, MinuteAssumption
<1>2. CASE g < Minute
  <2>1. h = g + 1 /\ buckets'[t].credit = c
    BY <1>1, <1>2, TickDoes
  <2>2. (g + 1) * l = g * l + l /\ g * l \in Nat
    BY <1>1, OneMore
  <2>3. Refilled(t, l) = c + g * l /\ Refilled(t, l)' = c + (g + 1) * l
    BY <2>1 DEF Refilled
  <2> HIDE DEF c, g, h
  <2>4. QED
    BY <1>1, <2>2, <2>3 DEF Credit
<1>3. CASE ~(g < Minute)
  <2>1. h = Longest /\ buckets'[t].credit = 0
    BY <1>1, <1>3, TickDoes
  <2>2. Minute * l <= g * l /\ g * l \in Nat /\ Minute * l = l * Minute
    BY <1>1, <1>3, TimesMonotone, OneMore
  <2>3. Refilled(t, l) = c + g * l
    BY DEF Refilled
  <2>4. Refilled(t, l)' \in Nat
    BY <1>1, <2>1 DEF Refilled
  <2> HIDE DEF c, g, h
  <2>5. Credit(t, l) = l * Minute
    BY <1>1, <2>2, <2>3 DEF Credit
  <2>6. Credit(t, l)' <= l * Minute
    BY <1>1, <2>4 DEF Credit
  <2>7. Credit(t, l)' \in Nat
    BY <1>1, <2>4 DEF Credit
  <2>8. QED
    BY <1>1, <2>5, <2>6, <2>7
<1>4. QED
  BY <1>2, <1>3

-----------------------------------------------------------------------------
LEMMA InvInit == BInit => Inv /\ Account
<1> SUFFICES ASSUME BInit PROVE Inv /\ Account
  OBVIOUS
<1>1. Inv
  BY MinuteAssumption, BudgetAssumption DEF BInit, Init, Full, Inv, TypeOK, Bucket, Longest
<1>2. ASSUME NEW t \in Tenants
      PROVE  granted[t] * Minute + Credit(t, limit[t])
               <= limit[t] * Minute + limit[t] * elapsed[t]
  <2>1. limit[t] \in Nat
    BY <1>1, BudgetAssumption DEF Inv
  <2>2. Credit(t, limit[t]) \in Nat /\ limit[t] * Minute \in Nat
        /\ Credit(t, limit[t]) <= limit[t] * Minute
    BY <1>1, <2>1, CreditBound DEF Inv
  <2>3. granted[t] = 0 /\ elapsed[t] = 0
    BY DEF BInit
  <2>4. granted[t] * Minute = 0 /\ limit[t] * elapsed[t] = 0
    BY <2>1, <2>3, MinuteAssumption
  <2>5. QED
    BY <2>2, <2>4
<1>3. QED
  BY <1>1, <1>2 DEF Account

LEMMA InvStep ==
  ASSUME Inv, [BNext]_bvars
  PROVE  Inv'
<1> USE DEF Inv
<1>1. ASSUME NEW t \in Tenants, Grant(t) PROVE Inv'
  <2>1. limit[t] \in Nat
    BY BudgetAssumption
  <2>2. /\ Credit(t, limit[t]) - Minute \in Nat
        /\ \E short \in BOOLEAN : Put(t, Credit(t, limit[t]) - Minute, short)
    BY <1>1, <2>1, AllowTakes DEF Grant
  <2>3. 0 \in 0 .. Longest
    BY MinuteAssumption DEF Longest
  <2>4. TypeOK'
    BY <2>2, <2>3 DEF Put, TypeOK, Bucket
  <2>5. QED
    BY <1>1, <2>4 DEF Grant
<1>2. ASSUME NEW t \in Tenants, Deny(t) PROVE Inv'
  <2>1. limit[t] \in Nat
    BY BudgetAssumption
  <2>2. /\ Credit(t, limit[t]) \in Nat
        /\ \E short \in BOOLEAN : Put(t, Credit(t, limit[t]), short)
    BY <1>2, <2>1, CreditBound, RefuseKeeps DEF Deny
  <2>3. 0 \in 0 .. Longest
    BY MinuteAssumption DEF Longest
  <2>4. TypeOK'
    BY <2>2, <2>3 DEF Put, TypeOK, Bucket
  <2>5. QED
    BY <1>2, <2>4 DEF Deny
<1>3. ASSUME NEW t \in Tenants, ChangeLimit(t) PROVE Inv'
  BY <1>3 DEF ChangeLimit, TypeOK
<1>4. CASE BTick
  <2>1. TypeOK'
    <3>1. Full \in Bucket
      BY MinuteAssumption DEF Full, Bucket, Longest
    <3>2. ASSUME NEW b \in Bucket, b.lag < Minute
          PROVE  [b EXCEPT !.lag = @ + 1] \in Bucket
      BY <3>2, MinuteAssumption DEF Bucket, Longest
    <3>3. QED
      BY <1>4, <3>1, <3>2 DEF BTick, Elapse, TypeOK
  <2>2. QED
    BY <1>4, <2>1 DEF BTick
<1>5. CASE UNCHANGED bvars
  BY <1>5 DEF bvars, TypeOK
<1>6. QED
  BY <1>1, <1>2, <1>3, <1>4, <1>5 DEF BNext

LEMMA AccountStep ==
  ASSUME Inv, Account, [BNext]_bvars
  PROVE  Account'
<1> SUFFICES ASSUME NEW t \in Tenants
             PROVE  (granted[t] * Minute + Credit(t, limit[t])
                       <= limit[t] * Minute + limit[t] * elapsed[t])'
  BY DEF Account
<1> DEFINE l == limit[t]
           k == granted[t]
           e == elapsed[t]
<1>1. /\ l \in Nat /\ k \in Nat /\ e \in Nat /\ Minute \in Nat \ {0}
      /\ l' \in Nat
  BY BudgetAssumption, MinuteAssumption, InvStep DEF Inv
<1>2. /\ Credit(t, l) \in Nat /\ l * Minute \in Nat /\ Credit(t, l) <= l * Minute
      /\ k * Minute \in Nat /\ l * e \in Nat
  BY <1>1, CreditBound DEF Inv
<1>3. k * Minute + Credit(t, l) <= l * Minute + l * e
  BY DEF Account
<1>4. ASSUME UNCHANGED <<buckets[t], limit[t], granted[t], elapsed[t]>>
      PROVE  (k * Minute + Credit(t, l) <= l * Minute + l * e)'
  BY <1>3, <1>4 DEF Credit, Refilled
<1>5. ASSUME NEW u \in Tenants, Grant(u)
      PROVE  (k * Minute + Credit(t, l) <= l * Minute + l * e)'
  <2>1. CASE u = t
    <3>1. l' = l /\ e' = e /\ k' = k + 1
      BY <1>5, <2>1 DEF Grant, Inv
    <3>2. /\ Credit(t, l) - Minute \in Nat
          /\ \E short \in BOOLEAN : Put(t, Credit(t, l) - Minute, short)
      BY <1>1, <1>5, <2>1, AllowTakes DEF Grant, Inv
    <3>3. /\ buckets'[t].credit = Credit(t, l) - Minute /\ buckets'[t].lag = 0
          /\ Credit(t, l) - Minute <= l * Minute
      BY <1>1, <1>2, <3>2 DEF Put, Inv, TypeOK
    <3>4. Credit(t, l)' = Credit(t, l) - Minute
      BY <1>1, <3>1, <3>2, <3>3, CreditAfterCall DEF Credit, Refilled
    <3>5. (k + 1) * Minute = k * Minute + Minute
      BY <1>1, OneMore
    <3>6. QED
      BY <1>1, <1>2, <1>3, <3>1, <3>4, <3>5
  <2>2. CASE u # t
    BY <1>4, <1>5, <2>2 DEF Grant, Allow, Put, Inv, TypeOK
  <2>3. QED
    BY <2>1, <2>2
<1>6. ASSUME NEW u \in Tenants, Deny(u)
      PROVE  (k * Minute + Credit(t, l) <= l * Minute + l * e)'
  <2>1. CASE u = t
    <3>1. l' = l /\ e' = e /\ k' = k
      BY <1>6 DEF Deny
    <3>2. buckets'[t].credit = Credit(t, l) /\ buckets'[t].lag = 0
      BY <1>6, <2>1 DEF Deny, Refuse, Put, Inv, TypeOK
    <3>3. Credit(t, l)' = Credit(t, l)
      BY <1>1, <1>2, <3>1, <3>2, CreditAfterCall DEF Credit, Refilled
    <3>4. QED
      BY <1>3, <3>1, <3>3
  <2>2. CASE u # t
    BY <1>4, <1>6, <2>2 DEF Deny, Refuse, Put, Inv, TypeOK
  <2>3. QED
    BY <2>1, <2>2
<1>7. ASSUME NEW u \in Tenants, ChangeLimit(u)
      PROVE  (k * Minute + Credit(t, l) <= l * Minute + l * e)'
  <2>1. CASE u = t
    <3>1. k' = 0 /\ e' = 0
      BY <1>7, <2>1 DEF ChangeLimit, Inv
    <3>2. (Credit(t, l) \in Nat /\ l * Minute \in Nat /\ Credit(t, l) <= l * Minute)'
      BY <1>1, InvStep, CreditBoundNext DEF Inv, Credit, Refilled
    <3>3. k' * Minute = 0 /\ l' * e' = 0
      BY <1>1, <3>1
    <3>4. QED
      BY <3>2, <3>3
  <2>2. CASE u # t
    BY <1>4, <1>7, <2>2 DEF ChangeLimit, Inv, TypeOK
  <2>3. QED
    BY <2>1, <2>2
<1>8. ASSUME BTick
      PROVE  (k * Minute + Credit(t, l) <= l * Minute + l * e)'
  <2>1. l' = l /\ k' = k /\ e' = e + 1
    BY <1>8 DEF BTick
  <2>2. Credit(t, l)' <= Credit(t, l) + l
    BY <1>1, <1>8, <2>1, CreditAfterTick DEF BTick, Inv, Credit, Refilled
  <2>3. l * (e + 1) = l * e + l
    BY <1>1, OneMore
  <2>4. Credit(t, l)' \in Nat
    BY <1>1, <2>1, InvStep, CreditBoundNext DEF Inv, Credit, Refilled
  <2>5. QED
    BY <1>1, <1>2, <1>3, <2>1, <2>2, <2>3, <2>4
<1>9. CASE UNCHANGED bvars
  BY <1>4, <1>9 DEF bvars
<1>10. QED
  BY <1>5, <1>6, <1>7, <1>8, <1>9 DEF BNext

-----------------------------------------------------------------------------
\* Buckets keep their type: a token is never taken that is not there.
THEOREM TypeCorrect == BSpec => []TypeOK
<1>1. BInit => Inv
  BY InvInit
<1>2. Inv /\ [BNext]_bvars => Inv'
  BY InvStep
<1>3. Inv => TypeOK
  BY DEF Inv
<1>4. QED
  BY <1>1, <1>2, <1>3, PTL DEF BSpec

\* In any stretch of time under one limit a tenant gets through at most that
\* limit's bucketful and refill (TokenBucketRateLimiter.allow).
THEOREM BudgetKept == BSpec => []WithinBudget
<1>1. BInit => Inv /\ Account
  BY InvInit
<1>2. Inv /\ Account /\ [BNext]_bvars => Inv' /\ Account'
  BY InvStep, AccountStep
<1>3. Inv /\ Account => WithinBudget
  <2> SUFFICES ASSUME Inv, Account, NEW t \in Tenants
               PROVE  granted[t] * Minute <= limit[t] * Minute + limit[t] * elapsed[t]
    BY DEF WithinBudget
  <2>1. limit[t] \in Nat /\ granted[t] \in Nat /\ elapsed[t] \in Nat
    BY BudgetAssumption DEF Inv
  <2>2. Credit(t, limit[t]) \in Nat
    BY <2>1, CreditBound DEF Inv
  <2>3. granted[t] * Minute \in Nat /\ limit[t] * Minute \in Nat
        /\ limit[t] * elapsed[t] \in Nat
    BY <2>1, MinuteAssumption
  <2>4. QED
    BY <2>2, <2>3 DEF Account
<1>4. QED
  BY <1>1, <1>2, <1>3, PTL DEF BSpec

-----------------------------------------------------------------------------
(***************************************************************************)
(* With throttling.                                                         *)
(***************************************************************************)
TypeInv ==
  /\ Inv
  /\ rpm_limit \in [Tenants -> RpmLimits]
  /\ state \in [Tenants -> States]
  /\ waiting \in [Tenants -> 0 .. Longest]

LimitInv == \A t \in Tenants : limit[t] = EffectiveLimit(rpm_limit[t], state[t])

\* The bucket comes to at least the refill of the time waited, before it is
\* clipped: EarnedIsServed alone says nothing of a wait not long enough yet.
Earned == \A t \in Tenants : waiting[t] * limit[t] <= Refilled(t, limit[t])

-----------------------------------------------------------------------------
\* A throttled tenant's limit is never cut to nothing.
LEMMA ThrottledLimit ==
  ASSUME NEW l \in Nat
  PROVE  EffectiveLimit(l, "THROTTLED") \in Nat \ {0}
BY DEF EffectiveLimit

\* A step of the limiter under throttling is a step of RateBudget.
LEMMA BudgetSimulated == [TNext]_tvars => [BNext]_bvars
BY DEF TNext, TGrant, TDeny, ChangeState, TTick, tvars, BNext

-----------------------------------------------------------------------------
\* What a bucket comes to is a natural number.
LEMMA RefilledNat ==
  ASSUME TypeOK, NEW t \in Tenants, NEW l \in Nat
  PROVE  Refilled(t, l) \in Nat
<1>1. buckets[t].credit \in Nat /\ buckets[t].lag \in Nat
  BY MinuteAssumption DEF TypeOK, Bucket, Longest
<1>2. QED
  BY <1>1 DEF Refilled

\* A vain ask clips nothing: only a full bucket is clipped, and a full one of
\* any size lets the request through.
LEMMA RefuseUnclipped ==
  ASSUME TypeOK, NEW t \in Tenants, NEW l \in Nat, l # 0,
         NEW short \in Rounding(t, l), ~Suffices(t, l, short)
  PROVE  Credit(t, l) = Refilled(t, l)
<1>1. Refilled(t, l) \in Nat /\ l * Minute \in Nat
  BY RefilledNat, MinuteAssumption
<1>2. Minute <= l * Minute
  <2>1. PICK k \in Nat : l = k + 1
    <3>1. l - 1 \in Nat /\ l = (l - 1) + 1
      OBVIOUS
    <3>2. QED
      BY <3>1
  <2>2. (k + 1) * Minute = k * Minute + Minute /\ k * Minute \in Nat
    BY <2>1, OneMore, MinuteAssumption
  <2>3. QED
    BY <2>1, <2>2, MinuteAssumption
<1>3. SUFFICES ASSUME Refilled(t, l) > l * Minute PROVE FALSE
  BY <1>1 DEF Credit
<1>4. Credit(t, l) = l * Minute /\ short = FALSE
  BY <1>1, <1>3 DEF Credit, Rounding
<1>5. QED
  BY <1>1, <1>2, <1>4, MinuteAssumption DEF Suffices

-----------------------------------------------------------------------------
LEMMA TypeInvInit == TInit => TypeInv /\ LimitInv /\ Earned
<1> SUFFICES ASSUME TInit PROVE TypeInv /\ LimitInv /\ Earned
  OBVIOUS
<1>1. Inv
  BY InvInit DEF TInit
<1>2. TypeInv
  BY <1>1, MinuteAssumption DEF TInit, TypeInv, Longest
<1>3. LimitInv
  BY DEF TInit, LimitInv
<1>4. ASSUME NEW t \in Tenants PROVE waiting[t] * limit[t] <= Refilled(t, limit[t])
  <2>1. waiting[t] = 0 /\ limit[t] \in Nat
    BY <1>1, BudgetAssumption DEF TInit, Inv
  <2>2. Refilled(t, limit[t]) \in Nat
    BY <1>1, <2>1, RefilledNat DEF Inv
  <2>3. QED
    BY <2>1, <2>2
<1>5. QED
  BY <1>2, <1>3, <1>4 DEF Earned

LEMMA TypeInvStep ==
  ASSUME TypeInv, LimitInv, [TNext]_tvars
  PROVE  TypeInv' /\ LimitInv'
<1>1. Inv'
  BY InvStep, BudgetSimulated DEF TypeInv
<1> USE DEF TypeInv, LimitInv
<1>2. ASSUME NEW t \in Tenants, TGrant(t) PROVE TypeInv' /\ LimitInv'
  BY <1>1, <1>2, MinuteAssumption DEF TGrant, Grant, Longest
<1>3. ASSUME NEW t \in Tenants, TDeny(t) PROVE TypeInv' /\ LimitInv'
  BY <1>1, <1>3 DEF TDeny, Deny
<1>4. ASSUME NEW t \in Tenants, ChangeState(t) PROVE TypeInv' /\ LimitInv'
  <2>1. PICK s \in States : state' = [state EXCEPT ![t] = s]
    BY <1>4 DEF ChangeState
  <2>2. state' \in [Tenants -> States] /\ \A u \in Tenants \ {t} : state'[u] = state[u]
    BY <2>1
  <2>3. waiting' \in [Tenants -> 0 .. Longest] /\ rpm_limit' = rpm_limit
    BY <1>4, MinuteAssumption DEF ChangeState, Longest
  <2>4. limit'[t] = EffectiveLimit(rpm_limit[t], state'[t])
    BY <1>4 DEF ChangeState, bvars
  <2>5. \A u \in Tenants \ {t} : limit'[u] = limit[u]
    BY <1>4 DEF ChangeState, bvars, ChangeLimit, Inv
  <2>6. QED
    BY <1>1, <2>2, <2>3, <2>4, <2>5
<1>5. CASE TTick
  BY <1>1, <1>5, MinuteAssumption DEF TTick, BTick, Longest
<1>6. CASE UNCHANGED tvars
  BY <1>1, <1>6 DEF tvars, bvars
<1>7. QED
  BY <1>2, <1>3, <1>4, <1>5, <1>6 DEF TNext

LEMMA EarnedStep ==
  ASSUME TypeInv, TypeInv', Earned, [TNext]_tvars
  PROVE  Earned'
<1> SUFFICES ASSUME NEW t \in Tenants
             PROVE  (waiting[t] * limit[t] <= Refilled(t, limit[t]))'
  BY DEF Earned
<1> DEFINE l == limit[t]
           w == waiting[t]
<1>1. /\ l \in Nat /\ l' \in Nat /\ w \in 0 .. Longest /\ w' \in 0 .. Longest
      /\ Longest \in Nat /\ Minute \in Nat \ {0}
  <2>1. Longest \in Nat /\ Minute \in Nat \ {0}
    BY MinuteAssumption DEF Longest
  <2>2. l \in Nat /\ l' \in Nat
    BY BudgetAssumption DEF TypeInv, Inv
  <2>3. w \in 0 .. Longest /\ w' \in 0 .. Longest
    BY DEF TypeInv
  <2>4. QED
    BY <2>1, <2>2, <2>3
<1>2. /\ Refilled(t, l) \in Nat /\ w * l \in Nat
      /\ w * l <= Refilled(t, l)
  BY <1>1, RefilledNat DEF TypeInv, Inv, Earned
<1>3. buckets'[t].credit \in Nat /\ buckets'[t].lag \in Nat
  BY <1>1 DEF TypeInv, Inv, TypeOK, Bucket
<1>4. ASSUME w' = 0 PROVE (w * l <= Refilled(t, l))'
  <2>1. Refilled(t, l)' \in Nat
    BY <1>1, <1>3 DEF Refilled
  <2>2. QED
    BY <1>1, <1>4, <2>1
<1>5. ASSUME UNCHANGED <<buckets[t], limit[t], waiting[t]>>
      PROVE  (w * l <= Refilled(t, l))'
  BY <1>2, <1>5 DEF Refilled
<1>6. ASSUME NEW u \in Tenants, TGrant(u) PROVE (w * l <= Refilled(t, l))'
  <2>1. CASE u = t
    BY <1>4, <1>6, <2>1 DEF TGrant, TypeInv
  <2>2. CASE u # t
    BY <1>5, <1>6, <2>2 DEF TGrant, Grant, Allow, Put, TypeInv, Inv, TypeOK
  <2>3. QED
    BY <2>1, <2>2
<1>7. ASSUME NEW u \in Tenants, TDeny(u) PROVE (w * l <= Refilled(t, l))'
  <2>1. CASE u = t
    <3>1. l' = l /\ w' = w
      BY <1>7 DEF TDeny, Deny
    <3>2. PICK short \in Rounding(t, l) :
            ~Suffices(t, l, short) /\ Put(t, Credit(t, l), short)
      BY <1>7, <2>1 DEF TDeny, Deny, Refuse
    <3>3. buckets'[t].credit = Credit(t, l) /\ buckets'[t].lag = 0
      BY <3>2 DEF Put, TypeInv, Inv, TypeOK
    <3>4. Refilled(t, l)' = Credit(t, l)
      BY <1>1, <1>3, <3>1, <3>3 DEF Refilled
    <3>5. CASE l = 0
      BY <1>1, <1>3, <3>1, <3>3, <3>4, <3>5
    <3>6. CASE l # 0
      <4>1. Credit(t, l) = Refilled(t, l)
        BY <1>1, <3>2, <3>6, RefuseUnclipped DEF TypeInv, Inv
      <4>2. QED
        BY <1>2, <3>1, <3>4, <4>1
    <3>7. QED
      BY <3>5, <3>6
  <2>2. CASE u # t
    BY <1>5, <1>7, <2>2 DEF TDeny, Deny, Refuse, Put, TypeInv, Inv, TypeOK
  <2>3. QED
    BY <2>1, <2>2
<1>8. ASSUME NEW u \in Tenants, ChangeState(u) PROVE (w * l <= Refilled(t, l))'
  <2>1. CASE UNCHANGED <<bvars, waiting>>
    BY <1>5, <2>1 DEF bvars
  <2>2. CASE ChangeLimit(u) /\ waiting' = [waiting EXCEPT ![u] = 0]
    <3>1. CASE u = t
      BY <1>4, <2>2, <3>1 DEF TypeInv
    <3>2. CASE u # t
      BY <1>5, <2>2, <3>2 DEF ChangeLimit, TypeInv, Inv
    <3>3. QED
      BY <3>1, <3>2
  <2>3. QED
    BY <1>8, <2>1, <2>2 DEF ChangeState
<1>9. CASE TTick
  <2> DEFINE c == buckets[t].credit
             g == buckets[t].lag
             h == buckets'[t].lag
  <2>1. l' = l /\ w' = IF w < Longest THEN w + 1 ELSE Longest
    BY <1>9 DEF TTick, BTick
  <2>2. /\ c \in Nat /\ g \in Nat
        /\ \/ h = g + 1 /\ buckets'[t].credit = c
           \/ h = Longest /\ buckets'[t].credit = 0
    BY <1>9, TickDoes DEF TTick, BTick, TypeInv, Inv
  <2>3. Refilled(t, l) = c + g * l /\ Refilled(t, l)' = buckets'[t].credit + h * l
    BY <2>1 DEF Refilled
  <2> HIDE DEF c, g, h
  <2>4. w' * l <= Longest * l /\ Longest * l \in Nat /\ w' * l \in Nat
    <3>1. w' \in Nat /\ w' <= Longest
      BY <1>1
    <3>2. w' * l <= Longest * l
      BY <1>1, <3>1, TimesMonotone
    <3>3. QED
      BY <1>1, <3>1, <3>2
  <2>5. w' * l <= w * l + l
    <3>1. (w + 1) * l = w * l + l
      BY <1>1, OneMore
    <3>2. w' <= w + 1
      BY <1>1, <2>1
    <3>3. QED
      BY <1>1, <3>1, <3>2, TimesMonotone
  <2>6. w' * l <= Refilled(t, l)'
    <3>1. CASE h = g + 1 /\ buckets'[t].credit = c
      <4>1. (g + 1) * l = g * l + l /\ g * l \in Nat
        BY <1>1, <2>2, OneMore
      <4>2. QED
        BY <1>1, <1>2, <2>2, <2>3, <2>4, <2>5, <3>1, <4>1
    <3>2. CASE h = Longest /\ buckets'[t].credit = 0
      BY <2>3, <2>4, <3>2
    <3>3. QED
      BY <2>2, <3>1, <3>2
  <2>7. QED
    BY <2>1, <2>6
<1>10. CASE UNCHANGED tvars
  BY <1>5, <1>10 DEF tvars, bvars
<1>11. QED
  BY <1>6, <1>7, <1>8, <1>9, <1>10 DEF TNext

\* More than a token of refill lets the next request through: what is clipped is
\* exact and what is not is more than a token.
LEMMA RefillServes ==
  ASSUME TypeInv, Earned, NEW t \in Tenants, waiting[t] * limit[t] > Minute
  PROVE  Served(t)
<1> DEFINE l == limit[t]
<1>1. /\ l \in Nat /\ waiting[t] \in Nat /\ Minute \in Nat \ {0}
      /\ Refilled(t, l) \in Nat /\ l * Minute \in Nat
  <2>1. l \in Nat /\ Minute \in Nat \ {0}
    BY BudgetAssumption, MinuteAssumption DEF TypeInv, Inv
  <2>2. waiting[t] \in 0 .. Longest /\ \A n \in 0 .. Longest : n \in Nat
    BY DEF TypeInv
  <2>3. QED
    BY <2>1, <2>2, RefilledNat DEF TypeInv, Inv
<1>2. Refilled(t, l) > Minute
  <2>1. waiting[t] * l \in Nat /\ waiting[t] * l <= Refilled(t, l)
    BY <1>1 DEF Earned
  <2>2. QED
    BY <1>1, <2>1
<1>3. l # 0
  BY <1>1
<1>4. SUFFICES ASSUME NEW short \in Rounding(t, l), ~Suffices(t, l, short)
               PROVE  FALSE
  BY DEF Served
<1>5. Credit(t, l) = Refilled(t, l)
  BY <1>1, <1>3, <1>4, RefuseUnclipped DEF TypeInv, Inv
<1>6. QED
  BY <1>1, <1>2, <1>4, <1>5 DEF Suffices

-----------------------------------------------------------------------------
LEMMA ThrottlingInductive ==
  /\ TInit => TypeInv /\ LimitInv /\ Earned
  /\ TypeInv /\ LimitInv /\ Earned /\ [TNext]_tvars => (TypeInv /\ LimitInv /\ Earned)'
BY TypeInvInit, TypeInvStep, EarnedStep

\* A wait that refills more than a token is not in vain, whatever the tenant
\* spent and asked for before and however the floats were rounded
\* (TokenBucketRateLimiter.allow).
THEOREM EarnedServed == TSpec => []EarnedIsServed
<1>1. TypeInv /\ LimitInv /\ Earned => EarnedIsServed
  BY RefillServes DEF EarnedIsServed
<1>2. QED
  BY <1>1, ThrottlingInductive, PTL DEF TSpec

\* However small its rpm_limit, a throttled tenant that has waited more than a
\* minute is let through (pipeline.enforce_rate_limit).
THEOREM ThrottledServed == TSpec => []ThrottledNotBlocked
<1>1. TypeInv /\ LimitInv /\ Earned => ThrottledNotBlocked
  <2> SUFFICES ASSUME TypeInv, LimitInv, Earned, NEW t \in Tenants,
                      state[t] = "THROTTLED", waiting[t] > Minute
               PROVE  Served(t)
    BY DEF ThrottledNotBlocked
  <2>1. limit[t] \in Nat \ {0}
    <3>1. rpm_limit[t] \in Nat
      BY ThrottlingAssumption DEF TypeInv
    <3>2. QED
      BY <3>1, ThrottledLimit DEF LimitInv
  <2>2. waiting[t] \in Nat /\ Minute \in Nat
    BY MinuteAssumption DEF TypeInv, Longest
  <2>3. waiting[t] * limit[t] > Minute
    <3>1. 1 * waiting[t] <= limit[t] * waiting[t]
      BY <2>1, <2>2, TimesMonotone
    <3>2. limit[t] * waiting[t] = waiting[t] * limit[t] /\ waiting[t] * limit[t] \in Nat
      BY <2>1, <2>2, OneMore
    <3>3. QED
      BY <2>1, <2>2, <3>1, <3>2
  <2>4. QED
    BY <2>3, RefillServes
<1>2. QED
  BY <1>1, ThrottlingInductive, PTL DEF TSpec

\* The budget of a stretch of time is kept under throttling as well.
THEOREM BudgetKeptThrottling == TSpec => []WithinBudget
<1>1. TInit => BInit
  BY DEF TInit
<1>2. TSpec => BSpec
  BY <1>1, BudgetSimulated, PTL DEF TSpec, BSpec
<1>3. QED
  BY <1>2, BudgetKept, PTL
=============================================================================
