--------------------------- MODULE GenerationRules ---------------------------
(***************************************************************************)
(* The remote_worker.v0 contract from both ends: RemoteWorkerGeneration-   *)
(* Adapter of fleet.py, handle_work_request of workers/bonsai_worker.py    *)
(* and the one-model backend of workers/openai_compat_backend.py.  Pure    *)
(* operators.  A string is "blank" or a name; texts are model values.      *)
(***************************************************************************)
EXTENDS Naturals, FiniteSets

SecretFragments == {"api_key", "authorization", "credential", "password", "secret", "token"}
ContextFields == {"state", "previous_state", "intent_history", "tool_results",
                  "conversation_history"}

(* _without_secret_material drops every key that names a credential; the   *)
(* system prompt travels only when the generation config carries one.      *)
Cleaned(context, config) ==
  (context \ (SecretFragments \cup {"system_prompt"})) \cup (config \cap {"system_prompt"})

(* The envelope a client bound to one worker and slot sends.  A config     *)
(* whose system prompt is too long raises before anything is sent.         *)
Envelope(client, id, text, context, config) ==
  [version |-> "remote_worker.v0", request_id |-> id, worker_id |-> client.worker,
   slot |-> client.slot, task |-> "generate", text |-> text,
   context |-> Cleaned(context, config), deadline |-> client.timeout]

(* handle_work_request: the worker serves one identity, one slot, one task.*)
ValidWork(work, worker) ==
  /\ work.version = "remote_worker.v0"
  /\ work.worker_id = worker.id /\ work.slot = worker.slot
  /\ work.task = "generate" /\ work.text # "blank"

(* OpenAICompatInferenceBackend.generate: only the known context fields    *)
(* and the system prompt reach the model.                                  *)
Prompted(work) == work.context \cap (ContextFields \cup {"system_prompt"})

WorkReply(work, worker, text) ==
  [status |-> "ok", request_id |-> work.request_id, worker_id |-> worker.id,
   slot |-> worker.slot, text |-> text]

WorkError == [status |-> "error", request_id |-> "", worker_id |-> "", slot |-> "", text |-> "blank"]

(* The client takes text only from the worker and slot it named, for the   *)
(* request it named or for one that is not named (""); all else raises.    *)
ClientTakes(data, client, id) ==
  /\ data.status = "ok"
  /\ data.worker_id = client.worker /\ data.slot = client.slot
  /\ data.request_id \in {id, ""}
  /\ data.text # "blank"

(* fleet_from_config: which adapters a configuration builds; a remote      *)
(* worker without an identity is an error.                                 *)
FleetOf(cfg) ==
  [classifier |-> cfg.intent = "kernel" /\ cfg.intent_endpoint,
   generator  |-> IF ~cfg.generation_endpoint THEN "none"
                  ELSE IF cfg.generation = "kernel" THEN "kernel"
                  ELSE IF cfg.generation # "remote_worker" THEN "none"
                  ELSE IF cfg.worker_id = "blank" THEN "error" ELSE "remote"]
==============================================================================
