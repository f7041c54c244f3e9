----------------------------- MODULE JevBackend -----------------------------
(***************************************************************************)
(* JevReflexBackend.decide (reflex/jev_backend.py): one SystemOne call,    *)
(* decoded against the question contract, that closes every verdict unless *)
(* the whole batch is valid and its observation was written to the audit.  *)
(*                                                                         *)
(* Numbers are counted in hundredths; a value that is not a finite number  *)
(* (a boolean, a string, NaN) is an integer out of every range.  A value   *)
(* that may be None is a sequence: <<>> is None and <<v>> is v.            *)
(***************************************************************************)
EXTENDS Integers, Sequences, FiniteSets, Functions, Folds

None == <<>>

QuestionKinds == {"choice", "score", "noul"}

Keys(questions) == {questions[i].key : i \in DOMAIN questions}

HasDuplicates(seq) == ~IsInjective(seq)

-----------------------------------------------------------------------------
(* Encoding *)

EncodableQuestion(q) ==
    /\ q.kind \in QuestionKinds
    /\ q.kind = "choice" => q.options # <<>> /\ ~HasDuplicates(q.options)
    /\ q.kind = "score"  => q.levels \in 2..10
    /\ q.kind = "noul"   => q.threshold = None \/ q.threshold[1] \in 0..100

(* _encode_questions raises on none, on a key used twice and on a body     *)
(* that SystemOne would refuse.                                            *)
Encodable(questions) ==
    /\ questions # <<>>
    /\ Cardinality(Keys(questions)) = Len(questions)
    /\ \A i \in DOMAIN questions : EncodableQuestion(questions[i])

-----------------------------------------------------------------------------
(* Decoding *)

(* probabilities are optional; given, they are one number per option or    *)
(* level, in 0..1, that sum to one within a thousandth.                    *)
ValidProbabilities(answer, expected) ==
    answer.probabilities # None =>
      LET p == answer.probabilities[1]
      IN  /\ DOMAIN p = expected
          /\ \A k \in expected : p[k] \in 0..100
          /\ FoldFunction(+, 0, p) = 100

ValidConfidence(answer) == answer.confidence \in 0..100

InContract(q, answer) ==
    /\ answer.type = q.kind
    /\ CASE q.kind = "choice" ->
              /\ \E i \in DOMAIN q.options : <<q.options[i]>> = answer.value
              /\ ValidConfidence(answer)
              /\ ValidProbabilities(answer, Range(q.options))
         [] q.kind = "score" ->
              /\ answer.value # None
              /\ answer.value[1] \in 0..(100 * (q.levels - 1))
              /\ ValidConfidence(answer)
              /\ ValidProbabilities(answer, 0..(q.levels - 1))
         [] q.kind = "noul" ->
              answer.value # None /\ answer.value[1] \in 0..100

(* One answer per question and each of them in the contract: a batch that  *)
(* is partly valid is not valid.                                           *)
ValidBatch(questions, answers) ==
    /\ DOMAIN answers = Keys(questions)
    /\ \A i \in DOMAIN questions : InContract(questions[i], answers[questions[i].key])

AcceptedModel(model, allowAlias, body) ==
    /\ body.model # None
    /\ allowAlias \/ body.model = <<model>>

(* A token count or cost out of range only loses the usage record.         *)
Usage(body) ==
    IF body.usage # None /\ \A i \in DOMAIN body.usage[1] : body.usage[1][i] >= 0
    THEN body.usage ELSE None

-----------------------------------------------------------------------------
(* decide *)

(* request_systemone: whatever goes wrong on the way to a JSON object      *)
(* raises, and there is no body.                                           *)
TransportErrors ==
    {"redirect", "http", "unreachable", "timeout", "invalid_json", "not_mapping"}

Received(outcome) == IF outcome.error \in TransportErrors THEN None ELSE <<outcome.body>>

Closed(questions) == [k \in Keys(questions) |-> [value |-> None, ok |-> FALSE]]

Decoded(answers) == [k \in DOMAIN answers |-> [value |-> answers[k].value, ok |-> TRUE]]

(* The observation decide() hands to the observer. *)
Observation(model, allowAlias, tooLarge, state, questions, outcome) ==
    LET body     == Received(outcome)
        sent     == ~tooLarge /\ Encodable(questions)
        modelOk  == sent /\ body # None /\ AcceptedModel(model, allowAlias, body[1])
        ok       == modelOk /\ ValidBatch(questions, body[1].answers)
    IN  [ request_hash    |-> IF sent THEN <<[model |-> model, state |-> state,
                                               questions |-> questions]>> ELSE None,
          requested_model |-> model,
          model           |-> IF modelOk THEN body[1].model[1] ELSE model,
          usage           |-> IF modelOk THEN Usage(body[1]) ELSE None,
          ok              |-> ok,
          verdicts        |-> IF ok THEN Decoded(body[1].answers) ELSE Closed(questions) ]

(* What decide() returns: verdicts whose observation was not written are   *)
(* closed.                                                                 *)
Verdicts(questions, observation, persisted) ==
    IF persisted THEN observation.verdicts ELSE Closed(questions)

=============================================================================
