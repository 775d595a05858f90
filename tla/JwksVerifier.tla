----------------------------- MODULE JwksVerifier -----------------------------
(***************************************************************************)
(* JwksVerifier of auth/jwt_verifier.py: the identity provider's published   *)
(* keys, cached for a time, and the verification of a token against them.   *)
(*                                                                         *)
(* verify is synchronous and is called on the event loop, so one call runs  *)
(* at a time.  Within it the provider may be asked, once because the keys   *)
(* are old and once more because the token's is not among them.  The clock  *)
(* and the provider go on meanwhile, so a call is split where it waits.     *)
(***************************************************************************)
EXTENDS Naturals

CONSTANTS
  Kids, Keys,  \* key ids, and the keys that may go by them
  NoKey,       \* stands for the key of an id that is not published
  TTL,         \* cache_ttl_s, in clock ticks
  MaxFetch     \* ticks at most from the provider's answer to its receipt

ASSUME VerifierAssumption ==
  /\ NoKey \notin Keys
  /\ TTL \in Nat \ {0}
  /\ MaxFetch \in Nat

(***************************************************************************)
(* age is monotonic() - _fetched_at up to TTL.  Of a call, token is what    *)
(* it verifies: the key id it names and the key that signed it.  pc is idle, *)
(* asked (the provider has the request), answered (its answer, fetched, is  *)
(* on the way, for waited ticks now) or done.  again says that it is the    *)
(* second request of the call.                                              *)
(*                                                                         *)
(* gone and steady are history.  gone[kid][key] counts the ticks since key   *)
(* was last published as kid, up to Horizon; steady says that the token's    *)
(* kid was published throughout the call.                                   *)
(***************************************************************************)
VARIABLES
  keys_by_kid, age,                               \* the verifier
  pc, token, fetched, waited, again, outcome,     \* the call
  published,                                      \* the provider
  gone, steady

verifier == <<keys_by_kid, age>>
call == <<pc, token, fetched, waited, again, outcome>>
vars == <<verifier, call, published, gone, steady>>

Horizon == TTL + MaxFetch

KeyMap == [Kids -> Keys \cup {NoKey}]

\* anonymous: among the entries is one that has no "kid".
Jwks == [keys : KeyMap, anonymous : BOOLEAN]

Token == [kid : Kids, key : Keys]

Outcome == {"none", "accepted", "invalid", "unknown", "unavailable", "raised"}

Empty == [kid \in Kids |-> NoKey]

NoAnswer == [keys |-> Empty, anonymous |-> FALSE]

Init ==
  /\ keys_by_kid = Empty /\ age = TTL
  /\ pc = "idle" /\ token \in Token /\ again = FALSE /\ outcome = "none"
  /\ fetched = NoAnswer /\ waited = 0
  /\ published \in [keys : KeyMap, anonymous : {FALSE}]
  /\ gone = [kid \in Kids |-> [key \in Keys |->
               IF published.keys[kid] = key THEN 0 ELSE Horizon]]
  /\ steady = FALSE

-----------------------------------------------------------------------------
\* Slip: once there are keys they are kept.
NeedRefreshOnce == keys_by_kid = Empty

\* Slip: the keys are thought old a tick too early.
NeedRefreshEarly == keys_by_kid = Empty \/ age + 1 >= TTL

NeedRefresh == keys_by_kid = Empty \/ age >= TTL

\* The call ends.
Return(result) ==
  /\ pc' = "done"
  /\ outcome' = result
  /\ fetched' = NoAnswer
  /\ waited' = 0
  /\ again' = FALSE

\* What becomes of a token signed by signer when it is checked against key: one
\* whose signature fits may be expired or name another issuer or audience.
Decode(key, signer) == IF key = signer THEN {"accepted", "invalid"} ELSE {"invalid"}

Ask ==
  /\ pc' = "asked"
  /\ UNCHANGED <<fetched, waited, outcome>>

\* Slip: a kid that is not among fresh keys is refused without asking.
VerifyFromCache(t) ==
  /\ pc = "idle"
  /\ token' = t
  /\ steady' = (published.keys[t.kid] # NoKey)
  /\ \/ NeedRefresh /\ Ask /\ again' = FALSE
     \/ ~NeedRefresh /\ keys_by_kid[t.kid] = NoKey /\ Return("unknown")
     \/ /\ ~NeedRefresh
        /\ keys_by_kid[t.kid] # NoKey
        /\ \E result \in Decode(keys_by_kid[t.kid], t.key) : Return(result)
  /\ UNCHANGED <<verifier, published, gone>>

\* verify(t), up to its first wait or its end.
Verify(t) ==
  /\ pc = "idle"
  /\ token' = t
  /\ steady' = (published.keys[t.kid] # NoKey)
  /\ \/ NeedRefresh /\ Ask /\ again' = FALSE
     \/ ~NeedRefresh /\ keys_by_kid[t.kid] = NoKey /\ Ask /\ again' = TRUE
     \/ /\ ~NeedRefresh
        /\ keys_by_kid[t.kid] # NoKey
        /\ \E result \in Decode(keys_by_kid[t.kid], t.key) : Return(result)
  /\ UNCHANGED <<verifier, published, gone>>

\* The provider reads its keys; its answer takes its time.
Answer ==
  /\ pc = "asked"
  /\ pc' = "answered"
  /\ fetched' = published
  /\ waited' = 0
  /\ UNCHANGED <<verifier, token, again, outcome, published, gone, steady>>

\* No connection, a timeout, or something that is not JSON.
Unavailable ==
  /\ pc \in {"asked", "answered"}
  /\ Return("unavailable")
  /\ UNCHANGED <<verifier, token, published, gone, steady>>

\* k["kid"] of an entry without one: KeyError, before anything is assigned.
Raise ==
  /\ pc = "answered"
  /\ fetched.anonymous
  /\ Return("raised")
  /\ UNCHANGED <<verifier, token, published, gone, steady>>

\* Slip: the document is taken for its "keys".
InstallDocument ==
  /\ pc = "answered"
  /\ ~fetched.anonymous
  /\ keys_by_kid' = fetched
  /\ age' = 0
  /\ UNCHANGED <<token, published, gone, steady>>

\* The keys are replaced and _fetched_at is set; then the token's is looked up.
Install ==
  /\ pc = "answered"
  /\ ~fetched.anonymous
  /\ keys_by_kid' = fetched.keys
  /\ age' = 0
  /\ UNCHANGED <<token, published, gone, steady>>

Found ==
  /\ Install
  /\ fetched.keys[token.kid] # NoKey
  /\ \E result \in Decode(fetched.keys[token.kid], token.key) : Return(result)

NotFound ==
  /\ Install
  /\ fetched.keys[token.kid] = NoKey
  /\ IF again THEN Return("unknown") ELSE Ask /\ again' = TRUE

\* The answer of the call has gone out.
Leave ==
  /\ pc = "done"
  /\ pc' = "idle" /\ outcome' = "none" /\ steady' = FALSE
  /\ UNCHANGED <<verifier, token, fetched, waited, again, published, gone>>

-----------------------------------------------------------------------------
\* The provider publishes, replaces or withdraws a key.
Rotate ==
  /\ pc # "done"
  /\ \E kid \in Kids, key \in Keys \cup {NoKey}, anonymous \in BOOLEAN :
       published' = [keys |-> [published.keys EXCEPT ![kid] = key],
                     anonymous |-> anonymous]
  /\ gone' = [kid \in Kids |-> [key \in Keys |->
                IF published'.keys[kid] = key THEN 0 ELSE gone[kid][key]]]
  /\ steady' = (steady /\ published'.keys[token.kid] # NoKey)
  /\ UNCHANGED <<verifier, call>>

Tick ==
  /\ pc # "done"
  /\ pc = "answered" => waited < MaxFetch
  /\ age' = IF age < TTL THEN age + 1 ELSE TTL
  /\ waited' = IF pc = "answered" THEN waited + 1 ELSE waited
  /\ gone' = [kid \in Kids |-> [key \in Keys |->
                IF published.keys[kid] = key THEN 0
                ELSE IF gone[kid][key] < Horizon THEN gone[kid][key] + 1
                ELSE Horizon]]
  /\ UNCHANGED <<keys_by_kid, pc, token, fetched, again, outcome, published, steady>>

Next ==
  \/ \E t \in Token : Verify(t)
  \/ Answer \/ Unavailable \/ Raise \/ Found \/ NotFound \/ Leave
  \/ Rotate
  \/ Tick

Spec == Init /\ [][Next]_vars

-----------------------------------------------------------------------------
\* The verifier, the call in progress, the provider and the history keep their
\* kinds.
TypeOK ==
  /\ keys_by_kid \in KeyMap /\ age \in 0 .. TTL
  /\ pc \in {"idle", "asked", "answered", "done"}
  /\ token \in Token /\ fetched \in Jwks /\ waited \in 0 .. MaxFetch
  /\ again \in BOOLEAN /\ outcome \in Outcome
  /\ published \in Jwks
  /\ gone \in [Kids -> [Keys -> 0 .. Horizon]] /\ steady \in BOOLEAN

\* A token signed by a key that the provider has withdrawn, or replaced under
\* the same id, is accepted for less than the TTL and the time an answer was
\* under way, whatever refreshes and outages come between.
WithdrawnKeyBounded ==
  outcome = "accepted" => gone[token.kid][token.key] < Horizon

\* No token is refused for an unknown key id that the provider published all
\* along, however old or fresh the cached keys are: "kid may have rotated
\* since our last fetch" (jwt_verifier.py:93-97).
PublishedKidKnown == outcome = "unknown" => ~steady

\* An outage of the provider refuses no token whose key is cached and fresh.
OutageHarmless ==
  outcome = "unavailable" => keys_by_kid[token.kid] = NoKey \/ age = TTL

\* "Both raise AuthError (never a bare exception) on any failure"
\* (jwt_verifier.py:15).
NeverBareException == outcome # "raised"
=============================================================================
