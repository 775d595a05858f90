------------------------- MODULE CircuitBreakerProofs -------------------------
(***************************************************************************)
(* The class CircuitBreaker keeps its type and its coherence under every    *)
(* client, for every set of models, threshold and timeout that satisfy      *)
(* BreakerAssumption.                                                       *)
(***************************************************************************)
EXTENDS CircuitBreaker, TLAPS

\* Counting up to a bound stays within the bound.
LEMMA UpToType ==
  ASSUME NEW bound \in Nat, NEW n \in 0 .. bound
  PROVE  UpTo(bound, n) \in 0 .. bound
BY DEF UpTo

\* Each method leaves every breaker coherent: the facts about one step, which
\* the modules that use the class cite too.
LEMMA StepKeepsCoherence ==
  ASSUME BreakerAssumption, TypeOK, StateMatchesCount, [Next]_vars
  PROVE  TypeOK' /\ StateMatchesCount'
<1> USE DEF BreakerAssumption, TypeOK, StateMatchesCount, Coherent, ModelBreaker,
            BreakerState
<1>1. ASSUME NEW m \in Models, Allow(m)
      PROVE  TypeOK' /\ StateMatchesCount'
  <2>1. CASE breakers[m].state = "OPEN"
    <3>1. /\ breakers[m].age >= ResetTimeout
          /\ breakers' = [breakers EXCEPT ![m].state = "HALF_OPEN"]
      BY <1>1, <2>1 DEF Allow, MayCall
    <3>2. breakers' \in [Models -> ModelBreaker]
      BY <3>1
    <3>3. QED
      BY <2>1, <3>1, <3>2
  <2>2. CASE breakers[m].state # "OPEN"
    BY <1>1, <2>2 DEF Allow
  <2>3. QED
    BY <2>1, <2>2
<1>2. ASSUME NEW m \in Models, RecordSuccess(m)
      PROVE  TypeOK' /\ StateMatchesCount'
  BY <1>2 DEF RecordSuccess
<1>3. ASSUME NEW m \in Models, RecordFailure(m)
      PROVE  TypeOK' /\ StateMatchesCount'
  BY <1>3 DEF RecordFailure, Trips, UpTo
<1>4. CASE Elapse
  BY <1>4 DEF Elapse, UpTo
<1>5. ASSUME NEW m \in Models, Refuse(m)
      PROVE  TypeOK' /\ StateMatchesCount'
  BY <1>5 DEF Refuse
<1>6. CASE UNCHANGED vars
  BY <1>6 DEF vars
<1>7. QED
  BY <1>1, <1>2, <1>3, <1>4, <1>5, <1>6 DEF Next

\* Every breaker keeps its type under any sequence of calls of its methods.
THEOREM TypeCorrect ==
  ASSUME BreakerAssumption
  PROVE  Spec => []TypeOK
<1>1. Init => TypeOK /\ StateMatchesCount
  BY DEF BreakerAssumption, Init, TypeOK, StateMatchesCount, Coherent,
         ModelBreaker, BreakerState
<1>2. TypeOK /\ StateMatchesCount /\ [Next]_vars => TypeOK' /\ StateMatchesCount'
  BY StepKeepsCoherence
<1>3. QED
  BY <1>1, <1>2, PTL DEF Spec

\* A breaker's state and its count of consecutive failures never disagree,
\* in whatever order allow, record_success and record_failure are called.
THEOREM StateAlwaysMatchesCount ==
  ASSUME BreakerAssumption
  PROVE  Spec => []StateMatchesCount
<1>1. Init => TypeOK /\ StateMatchesCount
  BY DEF BreakerAssumption, Init, TypeOK, StateMatchesCount, Coherent,
         ModelBreaker, BreakerState
<1>2. TypeOK /\ StateMatchesCount /\ [Next]_vars => TypeOK' /\ StateMatchesCount'
  BY StepKeepsCoherence
<1>3. QED
  BY <1>1, <1>2, PTL DEF Spec

=============================================================================
