------------------------------- MODULE Guardrails -------------------------------
(***************************************************************************)
(* The guardrail decision of guardrails/fail_closed.py over the check of    *)
(* guardrails/basic_guardrail.py, or of another client behind the same      *)
(* protocol, which may fail to complete it.                                 *)
(*                                                                         *)
(* A text is the set of what the patterns and the denylist find in it.      *)
(***************************************************************************)
Pii == {"ssn", "card", "email"}

Denylisted == {"phrase"}

\* _check: the first find blocks.
Check(text) == IF text \cap (Pii \cup Denylisted) # {} THEN "BLOCK" ELSE "ALLOW"

\* The id of a guardrail policy matters by the words found in it, so an id is
\* the set of those words.
ClassifySafety(guardrail_policy) ==
  IF "strict" \in guardrail_policy THEN "STRICT"
  ELSE IF "low" \in guardrail_policy THEN "LOW_RISK"
  ELSE "STANDARD"

\* What check_input or check_output may come to on a text; ERROR is
\* GuardrailCheckError.
CheckResults(text) == {Check(text), "ERROR"}

MayBypass(guardrail_policy, allow_bypass_on_error) ==
  ClassifySafety(guardrail_policy) = "LOW_RISK" /\ allow_bypass_on_error

\* Slip: every tenant that opted in is let through on an error.
RunCheckAnyClass(result, guardrail_policy, allow_bypass_on_error) ==
  IF result # "ERROR" THEN result
  ELSE IF allow_bypass_on_error THEN "ALLOW" ELSE "UNAVAILABLE"

\* run_guardrail_check, with GuardrailUnavailableError as UNAVAILABLE.
RunCheck(result, guardrail_policy, allow_bypass_on_error) ==
  IF result # "ERROR" THEN result
  ELSE IF MayBypass(guardrail_policy, allow_bypass_on_error) THEN "ALLOW"
  ELSE "UNAVAILABLE"
=============================================================================
