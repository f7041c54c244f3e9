----------------------------- MODULE ReflexRules -----------------------------
(***************************************************************************)
(* The typed contracts of the reflex: reflex/shapes.py and the validation  *)
(* and schema probe of LocalSchemaBackend in reflex/backends.py.  Pure     *)
(* operators.  Probabilities are tenths; "none" stands for a value that is *)
(* missing or of another type.                                             *)
(***************************************************************************)
EXTENDS Naturals, Integers

Intents == {"schedule", "faq", "pricing", "complaint", "disclosure-trigger", "off-script"}
Languages == {"en", "es"}
Keys == {"intent", "tool_needed_probability", "language"}

(* LocalSchemaBackend._validate with BackendDecision.__post_init__.        *)
ValidProposal(said) ==
  /\ said.keys = Keys
  /\ said.intent \in Intents
  /\ said.probability \in 0..10
  /\ said.language \in Languages

(* _request: one choice with a message of text, and no tool call.          *)
ValidEnvelope(response) ==
  /\ response.status = 200 /\ ~response.oversized
  /\ response.choices = 1 /\ ~response.tools

(* classify refuses before it starts a thread.                             *)
ValidTranscript(text) == text = "plain"

(* _probe_schema_enforcement: only the constrained sentinel passes.        *)
ProbePassed(answer) == answer = "sentinel"

(* GateDecision: the two shapes a decision may have.                       *)
OkDecision(said) ==
  [status |-> "ok", intent |-> said.intent, language |-> said.language,
   probability |-> said.probability, reason |-> "none"]

Fallback(reason) ==
  [status |-> "fallback", intent |-> "none", language |-> "none",
   probability |-> -1, reason |-> reason]

WellShaped(d) ==
  IF d.status = "ok"
  THEN /\ d.intent \in Intents /\ d.language \in Languages
       /\ d.probability \in 0..10 /\ d.reason = "none"
  ELSE /\ d.status = "fallback" /\ d.reason # "none"
       /\ d.intent = "none" /\ d.language = "none" /\ d.probability = -1
==============================================================================
