------------------------------ MODULE JwksProofs ------------------------------
(***************************************************************************)
(* JwksVerifier for every set of key ids and keys, TTL and delay of the     *)
(* provider's answers.                                                      *)
(***************************************************************************)
EXTENDS JwksVerifier, TLAPS

\* How long ago the keys that are held somewhere can have been withdrawn: the
\* published not at all, those in an answer while it was under way, those in
\* the cache for their age more.
HeldKeysRecent ==
  \A kid \in Kids, key \in Keys :
    /\ published.keys[kid] = key => gone[kid][key] = 0
    /\ pc = "answered" /\ fetched.keys[kid] = key => gone[kid][key] <= waited
    /\ keys_by_kid[kid] = key => gone[kid][key] <= MaxFetch + age

\* A key id that is published throughout the call is in the provider's answer.
SteadyKidPublished ==
  steady => /\ published.keys[token.kid] # NoKey
            /\ pc = "answered" => fetched.keys[token.kid] # NoKey

\* There is an outcome only once a call is done, and nothing is on the way then.
OutcomeWhenDone == outcome # "none" => pc = "done"

Inv ==
  /\ TypeOK
  /\ HeldKeysRecent /\ WithdrawnKeyBounded
  /\ SteadyKidPublished /\ PublishedKidKnown
  /\ OutcomeWhenDone

-----------------------------------------------------------------------------
LEMMA NoAnswerType == Empty \in KeyMap /\ NoAnswer \in Jwks
<1>1. Empty \in KeyMap
  BY DEF Empty, KeyMap
<1>2. QED
  BY <1>1 DEF NoAnswer, Jwks

LEMMA InvInit == Init => Inv
<1> SUFFICES ASSUME Init PROVE Inv
  OBVIOUS
<1> USE VerifierAssumption DEF Init
<1>1. TypeOK
  <2>1. published \in Jwks
    BY DEF Jwks
  <2>2. gone \in [Kids -> [Keys -> 0 .. Horizon]]
    BY DEF Horizon
  <2>3. again \in BOOLEAN /\ steady \in BOOLEAN
    OBVIOUS
  <2>4. /\ keys_by_kid \in KeyMap /\ age \in 0 .. TTL /\ waited \in 0 .. MaxFetch
        /\ fetched \in Jwks
    BY NoAnswerType
  <2>5. pc \in {"idle", "asked", "answered", "done"} /\ outcome \in Outcome
    BY DEF Outcome
  <2>6. QED
    BY <2>1, <2>2, <2>3, <2>4, <2>5 DEF TypeOK
<1>2. HeldKeysRecent
  BY DEF HeldKeysRecent, Empty
<1>3. WithdrawnKeyBounded /\ SteadyKidPublished /\ PublishedKidKnown /\ OutcomeWhenDone
  BY DEF WithdrawnKeyBounded, SteadyKidPublished, PublishedKidKnown, OutcomeWhenDone
<1>4. QED
  BY <1>1, <1>2, <1>3 DEF Inv

\* What a call leaves behind when it ends.
LEMMA ReturnType ==
  ASSUME NEW result \in Outcome, Return(result)
  PROVE  /\ pc' = "done" /\ outcome' \in Outcome /\ fetched' \in Jwks
         /\ waited' \in 0 .. MaxFetch /\ again' \in BOOLEAN
<1>1. again' \in BOOLEAN
  BY DEF Return
<1>2. /\ pc' = "done" /\ outcome' \in Outcome /\ fetched' \in Jwks
      /\ waited' \in 0 .. MaxFetch
  BY NoAnswerType, VerifierAssumption DEF Return
<1>3. QED
  BY <1>1, <1>2

LEMMA DecodeType ==
  ASSUME NEW key, NEW signer
  PROVE  Decode(key, signer) \subseteq Outcome
BY DEF Decode, Outcome

LEMMA TypeStep ==
  ASSUME TypeOK, [Next]_vars
  PROVE  TypeOK'
<1> USE VerifierAssumption DEF TypeOK, verifier, call
<1>1. ASSUME NEW t \in Token, Verify(t) PROVE TypeOK'
  <2>1. CASE NeedRefresh /\ Ask /\ again' = FALSE
    BY <1>1, <2>1 DEF Verify, Ask
  <2>2. CASE Ask /\ again' = TRUE
    BY <1>1, <2>2 DEF Verify, Ask
  <2>3. ASSUME NEW result \in Decode(keys_by_kid[t.kid], t.key), Return(result)
        PROVE  TypeOK'
    <3>1. result \in Outcome
      BY <2>3, DecodeType
    <3>2. QED
      BY <1>1, <2>3, <3>1, ReturnType DEF Verify
  <2>4. QED
    BY <1>1, <2>1, <2>2, <2>3 DEF Verify
<1>2. CASE Answer
  BY <1>2 DEF Answer
<1>3. CASE Unavailable
  BY <1>3, ReturnType DEF Unavailable, Outcome
<1>4. CASE Raise
  BY <1>4, ReturnType DEF Raise, Outcome
<1>5. ASSUME Install
      PROVE  /\ keys_by_kid' \in KeyMap /\ age' \in 0 .. TTL
             /\ UNCHANGED <<token, published, gone, steady>>
  BY <1>5 DEF Install, Jwks
<1>6. CASE Found
  <2>1. PICK result \in Decode(fetched.keys[token.kid], token.key) : Return(result)
    BY <1>6 DEF Found
  <2>2. result \in Outcome
    BY <2>1, DecodeType
  <2>3. QED
    BY <1>5, <1>6, <2>1, <2>2, ReturnType DEF Found
<1>7. CASE NotFound
  <2>1. CASE Return("unknown")
    BY <1>5, <1>7, <2>1, ReturnType DEF NotFound, Outcome
  <2>2. CASE Ask /\ again' = TRUE
    BY <1>5, <1>7, <2>2 DEF NotFound, Ask
  <2>3. QED
    BY <1>7, <2>1, <2>2 DEF NotFound
<1>8. CASE Leave
  BY <1>8 DEF Leave, Outcome
<1>9. CASE Rotate
  <2>1. published' \in Jwks
    <3>1. PICK kid \in Kids, key \in Keys \cup {NoKey}, anonymous \in BOOLEAN :
            published' = [keys |-> [published.keys EXCEPT ![kid] = key],
                          anonymous |-> anonymous]
      BY <1>9 DEF Rotate
    <3>2. [published.keys EXCEPT ![kid] = key] \in KeyMap
      BY DEF Jwks, KeyMap
    <3>3. QED
      BY <3>1, <3>2 DEF Jwks
  <2>2. gone' \in [Kids -> [Keys -> 0 .. Horizon]]
    BY <1>9 DEF Rotate, Horizon
  <2>3. steady' \in BOOLEAN
    BY <1>9 DEF Rotate
  <2>4. QED
    BY <1>9, <2>1, <2>2, <2>3 DEF Rotate
<1>10. CASE Tick
  <2>1. gone' \in [Kids -> [Keys -> 0 .. Horizon]]
    BY <1>10 DEF Tick, Horizon
  <2>2. age' \in 0 .. TTL /\ waited' \in 0 .. MaxFetch
    BY <1>10 DEF Tick
  <2>3. QED
    BY <1>10, <2>1, <2>2 DEF Tick
<1>11. CASE UNCHANGED vars
  BY <1>11 DEF vars
<1>12. QED
  BY <1>1, <1>2, <1>3, <1>4, <1>6, <1>7, <1>8, <1>9, <1>10, <1>11 DEF Next

-----------------------------------------------------------------------------
LEMMA RecentStep ==
  ASSUME TypeOK, HeldKeysRecent, [Next]_vars
  PROVE  HeldKeysRecent'
<1> SUFFICES ASSUME NEW kid \in Kids, NEW key \in Keys
             PROVE  /\ published'.keys[kid] = key => gone'[kid][key] = 0
                    /\ pc' = "answered" /\ fetched'.keys[kid] = key
                         => gone'[kid][key] <= waited'
                    /\ keys_by_kid'[kid] = key => gone'[kid][key] <= MaxFetch + age'
  BY DEF HeldKeysRecent
<1> USE VerifierAssumption DEF verifier, call
<1>1. /\ gone[kid][key] \in 0 .. Horizon /\ age \in 0 .. TTL
      /\ waited \in 0 .. MaxFetch
      /\ published.keys[kid] = key => gone[kid][key] = 0
      /\ pc = "answered" /\ fetched.keys[kid] = key => gone[kid][key] <= waited
      /\ keys_by_kid[kid] = key => gone[kid][key] <= MaxFetch + age
  BY DEF HeldKeysRecent, TypeOK
<1>2. ASSUME NEW t \in Token, Verify(t)
      PROVE  pc' # "answered" /\ UNCHANGED <<published, gone, keys_by_kid, age>>
  BY <1>2 DEF Verify, Ask, Return
<1>3. CASE Answer
  BY <1>1, <1>3 DEF Answer
<1>4. CASE Unavailable \/ Raise
  BY <1>1, <1>4 DEF Unavailable, Raise, Return
<1>5. CASE Found \/ NotFound
  <2>1. /\ pc = "answered" /\ pc' # "answered" /\ keys_by_kid' = fetched.keys
        /\ age' = 0 /\ UNCHANGED <<published, gone>>
    BY <1>5 DEF Found, NotFound, Install, Return, Ask
  <2>2. QED
    BY <1>1, <2>1
<1>6. CASE Leave
  BY <1>1, <1>6 DEF Leave
<1>7. CASE Rotate
  <2>1. /\ UNCHANGED <<keys_by_kid, age, pc, fetched, waited>>
        /\ gone'[kid][key] = IF published'.keys[kid] = key THEN 0 ELSE gone[kid][key]
    BY <1>7 DEF Rotate
  <2>2. QED
    BY <1>1, <2>1
<1>8. CASE Tick
  <2>1. /\ UNCHANGED <<keys_by_kid, pc, fetched, published>>
        /\ gone'[kid][key] = IF published.keys[kid] = key THEN 0
                             ELSE IF gone[kid][key] < Horizon THEN gone[kid][key] + 1
                             ELSE Horizon
        /\ age' = IF age < TTL THEN age + 1 ELSE TTL
        /\ waited' = IF pc = "answered" THEN waited + 1 ELSE waited
    BY <1>8 DEF Tick
  <2>2. QED
    BY <1>1, <2>1 DEF Horizon
<1>9. CASE UNCHANGED vars
  BY <1>1, <1>9 DEF vars
<1>10. QED
  BY <1>1, <1>2, <1>3, <1>4, <1>5, <1>6, <1>7, <1>8, <1>9 DEF Next

\* A call ends in the step that gives it an outcome.
LEMMA DoneStep ==
  ASSUME TypeOK, OutcomeWhenDone, [Next]_vars
  PROVE  OutcomeWhenDone'
<1> USE DEF OutcomeWhenDone, call
<1>1. ASSUME NEW t \in Token, Verify(t) PROVE OutcomeWhenDone'
  BY <1>1 DEF Verify, Ask, Return
<1>2. CASE Found \/ NotFound
  BY <1>2 DEF Found, NotFound, Install, Ask, Return
<1>3. CASE Unavailable \/ Raise
  BY <1>3 DEF Unavailable, Raise, Return
<1>4. CASE Answer
  BY <1>4 DEF Answer
<1>5. CASE Leave
  BY <1>5 DEF Leave
<1>6. CASE Rotate \/ Tick \/ UNCHANGED vars
  BY <1>6 DEF Rotate, Tick, vars
<1>7. QED
  BY <1>1, <1>2, <1>3, <1>4, <1>5, <1>6 DEF Next

\* Where a token is accepted its key is one of those held.
LEMMA AcceptedStep ==
  ASSUME TypeOK, HeldKeysRecent, OutcomeWhenDone, WithdrawnKeyBounded, [Next]_vars
  PROVE  WithdrawnKeyBounded'
<1> SUFFICES ASSUME outcome' = "accepted"
             PROVE  gone'[token'.kid][token'.key] < Horizon
  BY DEF WithdrawnKeyBounded
<1> USE VerifierAssumption
<1>1. ASSUME NEW t \in Token
      PROVE  /\ t.kid \in Kids /\ t.key \in Keys
             /\ gone[t.kid][t.key] \in Nat /\ t.key # NoKey
             /\ TTL \in Nat \ {0} /\ MaxFetch \in Nat /\ age \in Nat
             /\ waited \in 0 .. MaxFetch /\ Horizon = TTL + MaxFetch
  BY <1>1 DEF Token, TypeOK, Horizon
<1>2. ASSUME NEW t \in Token, Verify(t)
      PROVE  gone'[token'.kid][token'.key] < Horizon
  <2>1. token' = t /\ gone' = gone /\ outcome = "none"
    BY <1>2 DEF Verify, OutcomeWhenDone
  <2>2. keys_by_kid[t.kid] = t.key /\ ~NeedRefresh
    BY <1>2, <2>1 DEF Verify, Ask, Return, Decode
  <2>3. gone[t.kid][t.key] <= MaxFetch + age
    BY <1>1, <2>2 DEF HeldKeysRecent
  <2>4. ~(age >= TTL)
    BY <2>2 DEF NeedRefresh
  <2>5. QED
    BY <1>1, <2>1, <2>3, <2>4
<1>3. CASE Found
  <2>1. /\ pc = "answered" /\ fetched.keys[token.kid] = token.key
        /\ token' = token /\ gone' = gone /\ token \in Token
    BY <1>3 DEF Found, Install, Return, Decode, TypeOK
  <2>2. gone[token.kid][token.key] <= waited
    BY <1>1, <2>1 DEF HeldKeysRecent
  <2>3. QED
    BY <1>1, <2>1, <2>2
<1>4. ASSUME outcome = "accepted"
      PROVE  Leave \/ UNCHANGED vars \/ Found \/ \E t \in Token : Verify(t)
  BY <1>4 DEF Next, OutcomeWhenDone, Answer, Unavailable, Raise, NotFound, Install,
              Rotate, Tick
<1>5. ASSUME outcome # "accepted"
      PROVE  Found \/ \E t \in Token : Verify(t)
  BY <1>5 DEF Next, Answer, Unavailable, Raise, NotFound, Leave, Rotate, Tick, Ask,
              Return, vars, call
<1>6. ~Leave
  BY DEF Leave
<1>7. CASE UNCHANGED vars
  BY <1>7 DEF vars, call, WithdrawnKeyBounded
<1>8. QED
  BY <1>2, <1>3, <1>4, <1>5, <1>6, <1>7

\* A kid is called unknown only on an answer that came during the call, and an
\* answer that lacks it is proof that it was not published all along.
LEMMA KnownStep ==
  ASSUME TypeOK, OutcomeWhenDone, SteadyKidPublished, PublishedKidKnown, [Next]_vars
  PROVE  SteadyKidPublished' /\ PublishedKidKnown'
<1> USE DEF SteadyKidPublished, PublishedKidKnown, verifier, call
<1>1. ASSUME NEW t \in Token, Verify(t)
      PROVE  SteadyKidPublished' /\ PublishedKidKnown'
  BY <1>1 DEF Verify, Ask, Return, Decode, OutcomeWhenDone
<1>2. CASE Answer
  BY <1>2 DEF Answer
<1>3. CASE Unavailable \/ Raise
  BY <1>3 DEF Unavailable, Raise, Return
<1>4. CASE Found
  BY <1>4 DEF Found, Install, Return, Decode
<1>5. CASE NotFound
  BY <1>5 DEF NotFound, Install, Return, Ask
<1>6. CASE Leave
  BY <1>6 DEF Leave
<1>7. CASE Rotate
  BY <1>7 DEF Rotate
<1>8. CASE Tick
  BY <1>8 DEF Tick
<1>9. CASE UNCHANGED vars
  BY <1>9 DEF vars
<1>10. QED
  BY <1>1, <1>2, <1>3, <1>4, <1>5, <1>6, <1>7, <1>8, <1>9 DEF Next

LEMMA InvStep ==
  ASSUME Inv, [Next]_vars
  PROVE  Inv'
BY TypeStep, RecentStep, DoneStep, AcceptedStep, KnownStep DEF Inv

-----------------------------------------------------------------------------
\* The verifier keeps its types through refreshes, outages and rotations.
THEOREM TypeCorrect == Spec => []TypeOK
<1>1. Inv => TypeOK
  BY DEF Inv
<1>2. QED
  BY <1>1, InvInit, InvStep, PTL DEF Spec

\* A withdrawn key is accepted for less than the TTL and the time an answer was
\* under way (JwksVerifier.verify, _refresh_if_stale).
THEOREM WithdrawalBounded == Spec => []WithdrawnKeyBounded
<1>1. Inv => WithdrawnKeyBounded
  BY DEF Inv
<1>2. QED
  BY <1>1, InvInit, InvStep, PTL DEF Spec

\* A key id that was published all along is never called unknown
\* (JwksVerifier.verify, its refresh for an unknown kid).
THEOREM RotationFollowed == Spec => []PublishedKidKnown
<1>1. Inv => PublishedKidKnown
  BY DEF Inv
<1>2. QED
  BY <1>1, InvInit, InvStep, PTL DEF Spec
-----------------------------------------------------------------------------
\* The provider is asked only when the token's key is missing or old, and
\* until the answer is installed it stays so.
AskedForReason ==
  pc \in {"asked", "answered"} => keys_by_kid[token.kid] = NoKey \/ age = TTL

AskInv == AskedForReason /\ OutageHarmless

LEMMA ReturnAsks ==
  ASSUME NEW result, Return(result), result # "unavailable"
  PROVE  AskInv'
BY DEF Return, AskInv, AskedForReason, OutageHarmless

LEMMA AskStep ==
  ASSUME TypeOK, OutcomeWhenDone, AskInv, [Next]_vars
  PROVE  AskInv'
<1> USE DEF AskInv, AskedForReason, OutageHarmless, verifier, call
<1>1. ASSUME NEW t \in Token, Verify(t) PROVE AskInv'
  <2>1. outcome # "unavailable"
    BY <1>1 DEF Verify, OutcomeWhenDone
  <2>2. CASE NeedRefresh /\ Ask
    <3>1. keys_by_kid[t.kid] = NoKey \/ age = TTL
      BY <2>2, VerifierAssumption DEF NeedRefresh, Empty, TypeOK, Token
    <3>2. QED
      BY <1>1, <2>1, <2>2, <3>1 DEF Verify, Ask
  <2>3. CASE keys_by_kid[t.kid] = NoKey /\ Ask
    BY <1>1, <2>1, <2>3 DEF Verify, Ask
  <2>4. ASSUME NEW result \in Decode(keys_by_kid[t.kid], t.key), Return(result)
        PROVE  AskInv'
    BY <2>4, ReturnAsks DEF Decode
  <2>5. QED
    BY <1>1, <2>2, <2>3, <2>4 DEF Verify
<1>2. CASE Answer
  BY <1>2 DEF Answer
<1>3. CASE Unavailable
  BY <1>3 DEF Unavailable, Return
<1>4. CASE Raise
  BY <1>4, ReturnAsks DEF Raise
<1>5. CASE Found
  BY <1>5, ReturnAsks DEF Found, Decode
<1>6. CASE NotFound
  <2>1. keys_by_kid'[token'.kid] = NoKey
    BY <1>6 DEF NotFound, Install
  <2>2. QED
    BY <2>1
<1>7. CASE Leave
  BY <1>7 DEF Leave
<1>8. CASE Rotate
  BY <1>8 DEF Rotate
<1>9. CASE Tick
  BY <1>9, VerifierAssumption DEF Tick, TypeOK
<1>10. CASE UNCHANGED vars
  BY <1>10 DEF vars
<1>11. QED
  BY <1>1, <1>2, <1>3, <1>4, <1>5, <1>6, <1>7, <1>8, <1>9, <1>10 DEF Next

\* OutageHarmless for every set of keys, TTL and delay: a provider that does
\* not answer costs only the tokens whose key is not cached or not fresh
\* (jwt_verifier.py:76-99).
THEOREM OutageCostsOnlyMisses == Spec => []OutageHarmless
<1>1. Init => AskInv
  BY DEF Init, AskInv, AskedForReason, OutageHarmless
<1>2. Inv /\ AskInv /\ [Next]_vars => AskInv'
  BY AskStep DEF Inv
<1>3. AskInv => OutageHarmless
  BY DEF AskInv
<1>4. QED
  BY <1>1, <1>2, <1>3, InvInit, InvStep, PTL DEF Spec
=============================================================================
