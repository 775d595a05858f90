------------------------------ MODULE ChatService ------------------------------
(***************************************************************************)
(* What the tenants of /v1/chat can rely on, whatever cache, guardrails,     *)
(* routes and retries stand behind it: nobody is let in while its tenant is  *)
(* blocked, and who is answered is answered for what it asked, by a model    *)
(* called for it or from memory.  Memory holds only what somebody was        *)
(* answered, and may lose it at any time.                                   *)
(***************************************************************************)
CONSTANTS Requests, Tenants

VARIABLES
  blocked,    \* the tenants that are blocked
  stage,      \* stage[r]: "outside", "inside" or "gone"
  ask,        \* ask[r]: who asks what, once r is inside
  calling,    \* the requests that a model has been called for
  answer,     \* answer[r]: what r's answer was made for: an ask and a model
  memory      \* the asks and models whose answers are remembered

vars == <<blocked, stage, ask, calling, answer, memory>>

Init ==
  /\ blocked \subseteq Tenants
  /\ stage = [r \in Requests |-> "outside"]
  /\ calling = {}
  /\ memory = {}

Block ==
  /\ blocked' \subseteq Tenants
  /\ UNCHANGED <<stage, ask, calling, answer, memory>>

Admit(r) ==
  /\ stage[r] = "outside"
  /\ stage' = [stage EXCEPT ![r] = "inside"]
  /\ ask' = [ask EXCEPT ![r] = ask'[r]]
  /\ ask'[r].tenant_id \notin blocked
  /\ UNCHANGED <<blocked, calling, answer, memory>>

Call(r) ==
  /\ stage[r] = "inside"
  /\ calling' = calling \cup {r}
  /\ UNCHANGED <<blocked, stage, ask, answer>>
  /\ memory' \subseteq memory

Leave(r) ==
  /\ stage[r] # "gone"
  /\ stage' = [stage EXCEPT ![r] = "gone"]
  /\ calling' = calling \ {r}
  /\ UNCHANGED <<blocked, ask>>

Refuse(r) ==
  /\ Leave(r)
  /\ memory' \subseteq memory
  /\ UNCHANGED answer

Reply(r) ==
  /\ stage[r] = "inside"
  /\ Leave(r)
  /\ answer' = [answer EXCEPT ![r] = answer'[r]]
  /\ answer'[r].ask = ask[r]
  /\ \/ r \in calling /\ memory' \subseteq memory \cup {answer'[r]}
     \/ answer'[r] \in memory /\ memory' \subseteq memory

Forget ==
  /\ memory' \subseteq memory
  /\ UNCHANGED <<blocked, stage, ask, calling, answer>>

Next ==
  \/ \E r \in Requests : Admit(r) \/ Call(r) \/ Refuse(r) \/ Reply(r)
  \/ Block
  \/ Forget

Spec == Init /\ [][Next]_vars
=============================================================================
