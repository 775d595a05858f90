------------------------------ MODULE DebugCapture ------------------------------
(***************************************************************************)
(* DebugCaptureStore of telemetry/debug_capture.py: one record for each      *)
(* request id, which is the client's X-Request-Id if it sent one.  A record  *)
(* goes when it is read after its TTL, and only then.                        *)
(***************************************************************************)
EXTENDS Naturals

CONSTANTS
  RequestIds,
  Pii,          \* what the redaction patterns find in a text (see Guardrails)
  TTL,          \* debug_capture_ttl_s, in clock ticks
  NoRecord

(***************************************************************************)
(* records[id] is the DebugRecord of id, with age = clock() - captured_at    *)
(* counted up to TTL.                                                       *)
(***************************************************************************)
VARIABLE records

Init == records = [id \in RequestIds |-> NoRecord]

\* A text is the set of what is found in it.
Redact(text) == text \ Pii

\* Slip: what the model said is kept as it is.
CaptureRawOutput(id, tenant_id, input_text, output_text) ==
  records' = [records EXCEPT ![id] =
    [tenant_id |-> tenant_id, redacted_input |-> Redact(input_text),
     redacted_output |-> output_text, age |-> 0]]

Held(id) == records[id] # NoRecord

\* Slip: the record that the id has is completed instead of replaced.
CaptureMerged(id, tenant_id, input_text, output_text) ==
  records' = [records EXCEPT ![id] =
    IF Held(id)
    THEN [@ EXCEPT !.redacted_output = Redact(output_text), !.age = 0]
    ELSE [tenant_id |-> tenant_id, redacted_input |-> Redact(input_text),
          redacted_output |-> Redact(output_text), age |-> 0]]

Capture(id, tenant_id, input_text, output_text) ==
  records' = [records EXCEPT ![id] =
    [tenant_id |-> tenant_id, redacted_input |-> Redact(input_text),
     redacted_output |-> Redact(output_text), age |-> 0]]

\* get(id)
Get(id) ==
  records' = [records EXCEPT ![id] =
                IF Held(id) /\ records[id].age = TTL THEN NoRecord ELSE records[id]]

Elapse ==
  records' = [id \in RequestIds |->
                IF Held(id) /\ records[id].age < TTL
                THEN [records[id] EXCEPT !.age = @ + 1] ELSE records[id]]
=============================================================================
