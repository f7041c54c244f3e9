------------------------ MODULE MCOutcomeAttestation ------------------------
(* Constants for model-checking OutcomeAttestation. *)
EXTENDS OutcomeAttestation

MCContract == [objective |-> "move the meeting", requirements |-> <<"meeting", "notice">>]

(* An answer of the Jev service: uncertainty and status of each requirement.*)
Judged(u, s, v, t) ==
  [ error |-> "", body |-> [ model |-> <<"jev">>, usage |-> <<>>, answers |->
      [ k \in {"meeting", "notice"} \X {"uncertainty", "status"} |->
          IF k[2] = "uncertainty"
          THEN [type |-> "noul", value |-> <<IF k[1] = "meeting" THEN u ELSE v>>]
          ELSE [type |-> "choice", value |-> <<IF k[1] = "meeting" THEN s ELSE t>>,
                confidence |-> 90, probabilities |-> <<>>] ] ] ]

MCJevReplies ==
  { Judged(10, "satisfied", 20, "satisfied"), Judged(10, "satisfied", 50, "satisfied"),
    Judged(10, "satisfied", 20, "unsatisfied"), Judged(10, "satisfied", 20, "maybe"),
    [error |-> "timeout"] }

Found(id, status) == [id |-> id, status |-> status]

MCOtherFindings ==
  { <<Found("meeting", "satisfied"), Found("notice", "satisfied")>>,
    <<Found("meeting", "satisfied")>>,
    <<Found("meeting", "satisfied"), Found("meeting", "satisfied")>>,
    <<Found("meeting", "ambiguous"), Found("notice", "partially_satisfied")>>,
    <<Found("meeting", "satisfied"), Found("other", "satisfied")>> }
=============================================================================
