-------------------------- MODULE MCLiveAcceptance --------------------------
(* Constants for model-checking LiveAcceptance. *)
EXTENDS LiveAcceptance, TLC

Questions == << [kind |-> "choice", key |-> "route", options |-> <<"a", "b">>],
                [kind |-> "noul",   key |-> "urgent", threshold |-> <<60>>],
                [kind |-> "score",  key |-> "tone", levels |-> 3] >>

Template(runs, questions) ==
    [providers |-> Providers, runs_per_provider |-> runs, state |-> "state",
     tooLarge |-> FALSE, questions |-> questions]

(* A valid one, one with nothing to run, and one that asks with a choice   *)
(* twice, which a specimen may and a request may not.                      *)
MCTemplates ==
    { Template(1, Questions), Template(0, Questions),
      Template(1, << [kind |-> "choice", key |-> "route", options |-> <<"a", "a">>] >>) }

MCModels == [c1 |-> {"jev-1", "jev-latest"}, c2 |-> {"jev-1"}, c3 |-> {}]
MCNames == <<"jev-1", "jev-latest">>

Reply(model, route, urgent, tone) ==
    [ error |-> "", body |-> [ model |-> <<model>>, usage |-> None,
      answers |-> [
        route  |-> [type |-> "choice", value |-> <<route>>, confidence |-> 90,
                    probabilities |-> <<[a |-> 90, b |-> 10]>>],
        urgent |-> [type |-> "noul", value |-> <<urgent>>],
        tone   |-> [type |-> "score", value |-> <<tone>>, confidence |-> 40,
                    probabilities |-> None]] ] ]

(* The second provider may agree after projection, answer on the other     *)
(* side of the threshold and a level below, or resolve another model.       *)
MCOutcomes ==
    [ n \in ProviderNames |->
        IF n = "typesafe"
          THEN {Reply("jev-1", "a", 60, 150), Reply("jev-1", "c", 60, 150)}
          ELSE {[error |-> "timeout"], Reply("jev-1", "a", 80, 200), Reply("jev-1", "a", 59, 149),
                            Reply("jev-2", "a", 60, 150)} ]

MCTeams == {{"f1", "f2", "r1"}, {"f2", "r1", "r2"}}

MCRequested == [f1 |-> None, f2 |-> <<"jev-1">>]
=============================================================================
