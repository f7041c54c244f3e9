----------------------------- MODULE IntentRules -----------------------------
(***************************************************************************)
(* What the L0 intent worker refuses and accepts: workers/intent_worker.py *)
(* and workers/calibration.py, with its client KernelIntentClassifier of   *)
(* fleet.py.  Pure operators.                                              *)
(*                                                                         *)
(* A text is "plain", "blank" or "secret" (it matches the credential       *)
(* pattern); an intent id is "secret", "malformed" or an identifier; sizes *)
(* are "fits" or "big".  Probabilities are tenths.  A model's next-token   *)
(* distribution is a mass in tenths for each label (several tokens of one  *)
(* label are already summed, as _logsumexp does), so temperature 1/k       *)
(* raises masses to the power k.                                           *)
(***************************************************************************)
EXTENDS Naturals, Sequences, SequencesExt, FiniteSetsExt

MaxIntents == 64
MaxLabels  == 26

Unknown == [intent |-> "unknown", confidence |-> 0]

(* _validate: one refusal of the text or of any option refuses the request.*)
ValidAsk(ask) ==
  /\ ask.text = "plain"
  /\ Len(ask.intents) \in 1..MaxIntents
  /\ IsInjective(ask.intents)
  /\ ToSet(ask.intents) \cap {"secret", "malformed"} = {}

(* The prompt bound, and in calibrated mode one label per option.          *)
Fits(ask, calibrated) ==
  ask.size = "fits" /\ (calibrated => Len(ask.intents) <= MaxLabels)

(* _post: 200, within the byte bound, one choice, no tool call.            *)
Delivered(response) ==
  /\ response.status = 200 /\ ~response.oversized
  /\ response.choices = 1 /\ ~response.tools

-----------------------------------------------------------------------------

(* classify: exactly two keys, a legal intent other than "unknown", a      *)
(* confidence that is a number within the gate ("none" is not a number).   *)
Accept(ask, said, min) ==
  IF /\ said.keys = {"intent", "confidence"}
     /\ said.intent \in ToSet(ask.intents) \ {"unknown"}
     /\ said.confidence \in min..10
  THEN [intent |-> said.intent, confidence |-> said.confidence]
  ELSE Unknown

(* label_logprobs: the options the model ranked; an option missing from    *)
(* the top-k list is absent, never guessed.                                *)
Ranked(ask, mass) == {o \in ToSet(ask.intents) : o \in DOMAIN mass /\ mass[o] > 0}

(* option_probabilities: fail closed when the model's mass on the options  *)
(* is below the artifact's bound; otherwise each option's share of the     *)
(* total after scaling, here as numerator and denominator.                 *)
Share(ask, mass, k, o) ==
  [of |-> mass[o]^k, total |-> MapThenSumSet(LAMBDA x : mass[x]^k, Ranked(ask, mass))]

EnoughMass(ask, mass, artifact) ==
  /\ Ranked(ask, mass) # {}
  /\ MapThenSumSet(LAMBDA x : mass[x], Ranked(ask, mass)) >= artifact.min_label_mass

(* _classify_calibrated: the likeliest option (the first of equals), if it *)
(* is not "unknown" and its share reaches the gate.                        *)
Likeliest(ask, mass) ==
  LET best == {i \in DOMAIN ask.intents :
                 /\ ask.intents[i] \in Ranked(ask, mass)
                 /\ \A o \in Ranked(ask, mass) : mass[o] <= mass[ask.intents[i]]}
  IN  ask.intents[Min(best)]

AcceptCalibrated(ask, mass, artifact, min) ==
  IF ~EnoughMass(ask, mass, artifact) THEN Unknown
  ELSE LET o == Likeliest(ask, mass)
           p == Share(ask, mass, artifact.k, o)
       IN  IF o # "unknown" /\ p.of * 10 >= min * p.total
           THEN [intent |-> o, confidence |-> (p.of * 10) \div p.total]
           ELSE Unknown

(* CalibrationArtifact and IntentWorker.__init__: a worker exists only     *)
(* with an artifact in bounds that was fitted for its own model.  k is the *)
(* inverse of a temperature in [0.05, 20].                                 *)
ValidArtifact(a) ==
  /\ a.k \in 1..20 /\ a.min_label_mass \in 0..10
  /\ a.fitted_n \in Nat /\ a.eval_n \in Nat

ValidWorker(w) ==
  /\ w.timeout \in 1..30 /\ w.min_confidence \in 0..10
  /\ w.artifact # <<>> => ValidArtifact(w.artifact[1]) /\ w.artifact[1].model = w.model

-----------------------------------------------------------------------------
(* do_POST: exactly one length, in bounds, and strict JSON, or the answer  *)
(* is still 200 with "unknown".                                            *)
Framed(ask) == ask.framed

(* KernelIntentClassifier: an answer without a non-empty string intent is  *)
(* "unknown", and so is one below the client's own gate; the legal list is *)
(* not looked at again.                                                    *)
ClientReads(result, min) ==
  IF result.confidence < min THEN "unknown" ELSE result.intent
==============================================================================
