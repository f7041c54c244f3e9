-------------------------- MODULE OutcomeAttestation --------------------------
(***************************************************************************)
(* outcome.py and outcome_jev.py: OutcomeGate.verify over JevOutcome-      *)
(* Verifier (or any other verifier), while the owner of the workflow       *)
(* result, a mutable mapping, goes on writing to it.                       *)
(*                                                                         *)
(* A hash is the value it is a hash of.  `result' is the content of the    *)
(* mapping; a content that has no deterministic JSON makes the first       *)
(* encoding of it raise.  A finding is [id, status].  Uncertainties are    *)
(* hundredths, as in JevBackend, whose decide() the Jev verifier runs in   *)
(* a thread between its two looks at the result.                           *)
(***************************************************************************)
EXTENDS Integers, Sequences, SequencesExt

Jev == INSTANCE JevBackend

CONSTANTS
  Checks,          \* calls of OutcomeGate.verify
  Contract,        \* the frozen contract: [requirements |-> sequence of ids, objective]
  Results,         \* contents of the workflow result
  Serializable,       \* those with deterministic JSON semantics
  JevReplies,      \* what the Jev transport may return
  OtherFindings,   \* findings another verifier may return, as sequences
  Threshold,       \* uncertainty_threshold
  MaxResultWrites  \* bound: writes of the owner

(* TaskContract.__post_init__ *)
ValidContract(contract) ==
  /\ contract.objective # "blank"
  /\ contract.requirements # <<>>
  /\ "blank" \notin ToSet(contract.requirements)
  /\ IsInjective(contract.requirements)

ASSUME OutcomeAssumption ==
  /\ ValidContract(Contract)
  /\ Contract.requirements \in Seq(ToSet(Contract.requirements))
  /\ Serializable \subseteq Results
  /\ Threshold \in 0..100

VARIABLES
  result,    \* content of the workflow result
  written,   \* bound counter
  step,      \* check -> "idle", "asked", "judged", "attested", "raised"
  verifier,  \* check -> "jev" or "other"
  encoded,   \* check -> the content the verifier was shown: <<>> or <<content>>
  verdicts,  \* check -> what decide() returned: <<>> or <<verdicts>>
  attested   \* check -> the attestation the gate returned: <<>> or <<attestation>>

outcomeVars == <<result, written, step, verifier, encoded, verdicts, attested>>

OutcomeInit ==
  /\ result \in Results /\ written = 0
  /\ step = [c \in Checks |-> "idle"]
  /\ verifier \in [Checks -> {"jev", "other"}]
  /\ encoded = [c \in Checks |-> <<>>]
  /\ verdicts = [c \in Checks |-> <<>>]
  /\ attested = [c \in Checks |-> <<>>]

-----------------------------------------------------------------------------
(* _questions: an uncertainty and a status for each requirement.           *)
Questions(contract) ==
  [i \in 1..(2 * Len(contract.requirements)) |->
    LET r == contract.requirements[(i + 1) \div 2] IN
    IF i % 2 = 1 THEN [kind |-> "noul", key |-> <<r, "uncertainty">>, threshold |-> <<>>]
                 ELSE [kind |-> "choice", key |-> <<r, "status">>,
                       options |-> <<"satisfied", "unsatisfied">>]]

(* _finding_for: a verdict that is closed, or not certain enough, is       *)
(* insufficient evidence.                                                  *)
StatusOf(uncertainty, status) ==
  IF ~uncertainty.ok \/ ~status.ok THEN "insufficient_evidence"
  ELSE IF uncertainty.value[1] >= Threshold THEN "insufficient_evidence"
  ELSE status.value[1]

Findings(contract, vs) ==
  [i \in DOMAIN contract.requirements |->
    LET r == contract.requirements[i] IN
    [id |-> r, status |-> StatusOf(vs[<<r, "uncertainty">>], vs[<<r, "status">>])]]

(* OutcomeAttestation.status: the worst that any finding says.             *)
Status(findings) ==
  LET statuses == {findings[i].status : i \in DOMAIN findings} IN
  IF statuses = {"satisfied"} THEN "satisfied"
  ELSE IF "unsatisfied" \in statuses THEN "unsatisfied"
  ELSE IF "insufficient_evidence" \in statuses THEN "insufficient_evidence"
  ELSE IF "ambiguous" \in statuses THEN "ambiguous"
  ELSE "partially_satisfied"

(* validate_attestation: bound to this contract and to the result as it is *)
(* now, one finding for each requirement and none for another.             *)
Accepts(attestation) ==
  LET ids == [i \in DOMAIN attestation.findings |-> attestation.findings[i].id] IN
  /\ attestation.contract = Contract
  /\ attestation.result = result
  /\ IsInjective(ids)
  /\ ToSet(ids) = ToSet(Contract.requirements)

-----------------------------------------------------------------------------
Reach(c, s) == step' = [step EXCEPT ![c] = s]

(* verify() up to its await: the result is encoded for the verifier.       *)
Submit(c) ==
  /\ step[c] = "idle"
  /\ IF result \in Serializable THEN Reach(c, "asked") /\ encoded' = [encoded EXCEPT ![c] = <<result>>]
                             ELSE Reach(c, "raised") /\ UNCHANGED encoded
  /\ UNCHANGED <<result, written, verifier, verdicts, attested>>

(* The thread of asyncio.to_thread runs decide().                          *)
Decide(c) ==
  /\ step[c] = "asked" /\ verifier[c] = "jev"
  /\ \E reply \in JevReplies, persisted \in BOOLEAN :
       LET q == Questions(Contract)
           observed == Jev!Observation("jev", FALSE, FALSE, encoded[c][1], q, reply)
       IN  verdicts' = [verdicts EXCEPT ![c] = <<Jev!Verdicts(q, observed, persisted)>>]
  /\ Reach(c, "judged")
  /\ UNCHANGED <<result, written, verifier, encoded, attested>>

(* The gate checks what its verifier returned.                             *)
Conclude(c, attestation) ==
  /\ IF result \in Serializable /\ Accepts(attestation)
     THEN Reach(c, "attested") /\ attested' = [attested EXCEPT ![c] = <<attestation>>]
     ELSE Reach(c, "raised") /\ UNCHANGED attested
  /\ UNCHANGED <<result, written, verifier, encoded, verdicts>>

(* After the await the Jev verifier hashes the result a second time.       *)
Attest(c) ==
  /\ step[c] = "judged"
  /\ Conclude(c, [contract |-> Contract, result |-> result,
                  findings |-> Findings(Contract, verdicts[c][1])])

(* Another verifier returns what it likes about the content it was shown.  *)
AnotherAttests(c) ==
  /\ step[c] = "asked" /\ verifier[c] = "other"
  /\ \E findings \in OtherFindings, contract \in {Contract, [Contract EXCEPT !.objective = "old"]} :
       Conclude(c, [contract |-> contract, result |-> encoded[c][1], findings |-> findings])

(* The owner writes to its mapping, also while a verifier is awaited.      *)
OwnerWrites ==
  /\ written < MaxResultWrites
  /\ written' = written + 1
  /\ result' \in Results \ {result}
  /\ UNCHANGED <<step, verifier, encoded, verdicts, attested>>

VerifyOutcome(c) == Submit(c) \/ Decide(c) \/ Attest(c) \/ AnotherAttests(c)

OutcomeNext == OwnerWrites \/ \E c \in Checks : VerifyOutcome(c)

OutcomeSpec == OutcomeInit /\ [][OutcomeNext]_outcomeVars

-----------------------------------------------------------------------------
(* "A verifier cannot simply return an overall passed flag and bypass      *)
(* requirement coverage": an attestation whose derived status is satisfied *)
(* has judged every requirement of the frozen contract satisfied, and, for *)
(* Jev, by two open verdicts with an uncertainty below the threshold.      *)
SatisfiedMeansAll ==
  \A c \in Checks : step[c] = "attested" /\ Status(attested[c][1].findings) = "satisfied" =>
    /\ attested[c][1].contract = Contract
    /\ \A r \in ToSet(Contract.requirements) :
         /\ \E f \in ToSet(attested[c][1].findings) : f.id = r /\ f.status = "satisfied"
         /\ verifier[c] = "jev" =>
              LET vs == verdicts[c][1] IN
              /\ vs[<<r, "uncertainty">>].ok /\ vs[<<r, "status">>].ok
              /\ vs[<<r, "uncertainty">>].value[1] < Threshold
              /\ vs[<<r, "status">>].value = <<"satisfied">>

(* outcome.py:127, "Verifier output bound to one task contract and one     *)
(* result/evidence bundle": the result an attestation names is the one its *)
(* verifier judged.  JevOutcomeVerifier breaks it: it hashes after its     *)
(* await what it encoded before.                                           *)
AttestsWhatWasJudged ==
  \A c \in Checks : step[c] = "attested" => attested[c][1].result = encoded[c][1]
===============================================================================
