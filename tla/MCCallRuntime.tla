--------------------------- MODULE MCCallRuntime ---------------------------
(***************************************************************************)
(* Instances of CallRuntime.  The state graph is the one of                *)
(* examples/real_estate_agent.yaml, with its max_turns scaled down and one *)
(* tool per cancellation authority; "generation" is the target of a        *)
(* transition but, as in that file, not one of its states.  Two intents    *)
(* are added for paths no example takes: "callback" needs a tool whose     *)
(* operation id the call does not carry, "weather" names an unknown tool.  *)
(***************************************************************************)
EXTENDS CallRuntime, TLC

MCStates == {"initial", "qualification", "objection_handling", "tool_call",
             "handoff", "exit"}
MCStateNames == MCStates \cup {"generation"}

MCIntents == {"schedule_appointment", "property_inquiry", "price_question",
              "human_request", "objection", "not_interested", "callback", "weather"}
\* Enough for the interleavings of two turns.
MCFewIntents == {"schedule_appointment", "property_inquiry", "human_request"}

Row(i, objection, other) ==
    CASE i \in {"schedule_appointment", "property_inquiry"} -> "tool_call"
      [] i = "human_request"  -> "handoff"
      [] i = "not_interested" -> "exit"
      [] i = "price_question" -> IF objection = "objection_handling" THEN "generation" ELSE other
      [] i = "objection"      -> objection
      [] i = "callback"       -> "tool_call"
      [] i = "weather"        -> other

MCTarget ==
    [s \in MCStates |-> [i \in Intents |->
        CASE s = "initial"       -> Row(i, "qualification", "qualification")
          [] s = "qualification" -> Row(i, "objection_handling", "qualification")
          [] s = "objection_handling" ->
                IF i \in {"schedule_appointment", "not_interested", "callback"}
                THEN Row(i, "qualification", "qualification") ELSE "qualification"
          [] OTHER -> "none"]]

MCMaxTurns == [s \in MCStates |-> CASE s = "qualification" -> 2
                                    [] s = "objection_handling" -> 3
                                    [] OTHER -> 0]
MCEscalateTo == [s \in MCStates |-> "handoff"]

MCTools == {"check_availability", "property_lookup", "book_callback"}
MCToolNames == MCTools \cup {"forecast"}
MCIntentTool == [i \in Intents |-> CASE i = "schedule_appointment" -> "check_availability"
                                     [] i = "property_inquiry" -> "property_lookup"
                                     [] i = "callback" -> "book_callback"
                                     [] i = "weather" -> "forecast"
                                     [] OTHER -> "none"]
MCTrigger == [i \in Intents |-> CASE i = "human_request" -> "handoff"
                                  [] i = "not_interested" -> "graceful_exit"
                                  [] OTHER -> "none"]
MCAuthority == [k \in MCTools |-> IF k = "check_availability" THEN "executor" ELSE "runtime"]

\* Both executors; and one or none of them, where a dry run matters.
MCBothExecutors == {[tool |-> TRUE, handoff |-> TRUE, dry |-> FALSE]}
MCModes == MCBothExecutors \cup [tool : {FALSE}, handoff : BOOLEAN, dry : BOOLEAN]

TurnSymmetry == Permutations(Turns)
=============================================================================
