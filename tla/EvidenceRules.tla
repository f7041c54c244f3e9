---------------------------- MODULE EvidenceRules ----------------------------
(* The rules of reflex/admission.py and reflex/acquisition.py: how a legacy   *)
(* training row becomes a candidate, how a provenance review and an           *)
(* assertion select the real turns, how a model's answers on them are         *)
(* graded, and what state an acquisition is in.                               *)
EXTENDS Naturals, FiniteSets, Functions, SequencesExt

CONSTANTS
  MinReal,       \* real turns an admission needs (30 in the code)
  MinPositive,   \* turns that need a tool it needs (59 in the code)
  MaxP95,        \* the p95 budget, in ms (150 in the code)
  None           \* a field or file that is absent

ASSUME EvidenceAssumption ==
  /\ MinReal \in Nat \ {0} /\ MinPositive \in Nat /\ MinReal <= MinPositive
  /\ MaxP95 \in Nat

(* The intents of LEGACY_REFLEX_MAP, with the tool label they map to.         *)
LegacyReflexMap ==
  [ i \in {"book_appointment", "check_availability", "reschedule", "general_inquiry",
           "pricing", "complaints", "unknown"} |->
      i \in {"book_appointment", "check_availability", "reschedule", "general_inquiry"} ]

(* The material of a source digest: two rows that differ only in confidence,  *)
(* language or agent have the same one.                                       *)
Digest(row) == [ call |-> row.call, text |-> row.text, intent |-> row.intent ]

(* stage_legacy_training_row.  A text is a model value, "long" one of more    *)
(* than 3072 bytes, None a missing one or a row that is no object.            *)
Excluded(row) == None \in {row.text, row.intent} \/ row.source \notin {"bland_replay", "bland_live"}

Status(row) ==
  IF Excluded(row) THEN "excluded"
  ELSE IF row.source = "bland_replay" /\ row.call = None THEN "needs_provenance"
  ELSE IF row.intent \notin DOMAIN LegacyReflexMap THEN "needs_intent_review"
  ELSE IF row.source = "bland_live" \/ row.confidence # "ground_truth" THEN "needs_label_review"
  ELSE IF row.language = None THEN "needs_language"
  ELSE "ready_replay"

(* The unique ready rows of a staged input, each its digest: the first of the *)
(* rows with one digest stands for all of them.                               *)
UniqueReady(rows) == { Digest(r) : r \in { x \in Range(rows) : Status(x) = "ready_replay" } }

ToolNeeded(d) == LegacyReflexMap[d.intent]
Positives(ds) == { d \in ds : ToolNeeded(d) }
Sufficient(final) == Cardinality(final) >= MinReal /\ Cardinality(Positives(final)) >= MinPositive

(* build_legacy_provenance_review: the prior word for each ready row,         *)
(* "unreviewed" for a new one, refused when the prior names a row that is     *)
(* not there any more.                                                        *)
ReviewAccepted(rows, prior) == DOMAIN prior \subseteq UniqueReady(rows)
ReviewOf(rows, prior) ==
  [ d \in UniqueReady(rows) |-> IF d \in DOMAIN prior THEN prior[d] ELSE "unreviewed" ]

(* finalize_legacy_replay_rows, called with the assertion or the review.      *)
FinalRows(rows, review, asserted) ==
  IF asserted THEN UniqueReady(rows) ELSE { d \in UniqueReady(rows) : review[d] = "real" }

SummaryOf(rows, review, asserted) ==
  LET ready == UniqueReady(rows)
      final == FinalRows(rows, review, asserted)
  IN [ whole |-> TRUE, valid |-> TRUE, ready |-> Cardinality(ready), positive |-> Cardinality(Positives(ready)),
       unreviewed |-> IF asserted THEN 0 ELSE Cardinality({ d \in ready : review[d] = "unreviewed" }),
       sufficient |-> Sufficient(final) ]

(* The summary of an input that the importer rejects: it has no counts.       *)
Invalid ==
  [ whole |-> TRUE, valid |-> FALSE, ready |-> 0, positive |-> 0, unreviewed |-> 0, sufficient |-> FALSE ]
(* What is left of a summary whose write was cut short: it cannot be parsed.  *)
TornSummary == [ Invalid EXCEPT !.whole = FALSE ]

(* load_corpus: an empty corpus and a transcript of more than 3072 bytes are  *)
(* refused, and with them the whole corpus.                                   *)
Loadable(corpus) == corpus # {} /\ \A d \in corpus : d.text # "long"

(* _nearest_rank for p percent: the value at that rank of the sorted values   *)
(* is the least one that so many of them do not exceed.                       *)
NearestRank(values, p) ==
  LET rank == (p * Len(values) + 99) \div 100
      NotAbove(v) == { i \in DOMAIN values : values[i] <= v }
  IN Min({ v \in Range(values) : Cardinality(NotAbove(v)) >= IF rank = 0 THEN 1 ELSE rank })

(* evaluate_rows: measured gives for each real turn [ok, tool, ms], the       *)
(* gate's decision.  A fallback is not a false negative, it blocks by itself. *)
ModelAdmission(measured) ==
  LET turns == DOMAIN measured
      fallbacks == { d \in turns : ~measured[d].ok }
      falseNegatives == { d \in Positives(turns) : measured[d].ok /\ ~measured[d].tool }
      latencies == [ i \in 1..Cardinality(turns) |-> measured[SetToSeq(turns)[i]].ms ]
  IN IF /\ Sufficient(turns)
        /\ fallbacks = {} /\ falseNegatives = {}
        /\ NearestRank(latencies, 95) <= MaxP95
     THEN "PASS_REFLEX_MODEL_ADMISSION" ELSE "BLOCKED"

(* adjudicate_physical.                                                       *)
Adjudication(witness, alive, voiceOk, admission, admissionOk) ==
  IF ~(witness.verdict = "PASS" /\ witness.complete /\ witness.acoustic
         /\ alive /\ voiceOk /\ admissionOk)
  THEN "TEST_INVALID"
  ELSE IF admission # "PASS_REFLEX_MODEL_ADMISSION" THEN "BLOCKED"
  ELSE "PASS_REFLEX_PHYSICAL_ADMISSION"

(* classify_acquisition, of a summary that has counts.                        *)
AcquisitionState(summary, preflight, execute, physical) ==
  IF summary.ready < MinReal \/ summary.positive < MinPositive THEN "BLOCKED_INSUFFICIENT_REAL_LABELS"
  ELSE IF ~summary.sufficient
       THEN IF summary.unreviewed > 0 THEN "BLOCKED_PROVENANCE_CLASSIFICATION"
            ELSE "BLOCKED_INSUFFICIENT_REAL_LABELS"
  ELSE IF preflight # "READY_FOR_PHYSICAL_ADMISSION" THEN "BLOCKED_RUNTIME_PREREQUISITES"
  ELSE IF ~execute THEN "READY_FOR_PHYSICAL_ADMISSION"
  ELSE IF physical = "PASS_REFLEX_PHYSICAL_ADMISSION" THEN "PASS_REFLEX_PHYSICAL_ADMISSION"
  ELSE "BLOCKED_PHYSICAL_ADMISSION"
===============================================================================
