-------------------------- MODULE MCInferenceLanes --------------------------
(* Constants for model-checking InferenceLanes. *)
EXTENDS InferenceLanes, MCOutcomeAttestation

AskOf(text, intents, size) ==
  [framed |-> TRUE, text |-> text, intents |-> intents, size |-> size]

WorkOf(id, context) ==
  Envelope([worker |-> "w1", slot |-> "l1_worker", timeout |-> 5], id, "plain", context, {})

IntentAsks ==
  { AskOf("plain", <<"a", "b">>, "fits"), AskOf("plain", <<"a", "a">>, "fits"),
    AskOf("plain", <<"a", "unknown">>, "fits"), AskOf("plain", <<"a">>, "big") }

MCAsks ==
  [ intent     |-> IntentAsks,
    calibrated |-> IntentAsks,
    reflex   |-> {"plain", "blank"},
    generate |-> { WorkOf("q1", {"state"}), [WorkOf("q2", {}) EXCEPT !.slot = "other"] },
    retrieve |-> { [keys |-> {"query", "language"}, text |-> q[1], size |-> "fits", language |-> q[2]] :
                     q \in {<<"question", "en">>, <<"terms", "en">>, <<"question", "fr">>} } ]

Says(keys, intent, confidence) ==
  [status |-> 200, oversized |-> FALSE, choices |-> 1, tools |-> FALSE,
   keys |-> keys, intent |-> intent, confidence |-> confidence]

Proposes(intent, probability) ==
  [status |-> 200, oversized |-> FALSE, choices |-> 1, tools |-> FALSE,
   keys |-> Keys, intent |-> intent, probability |-> probability, language |-> "es"]

(* The model's next token, as a mass for each option it ranked. *)
Ranks(a, b, unknown) ==
  [status |-> 200, oversized |-> FALSE, choices |-> 1, tools |-> FALSE,
   mass |-> [a |-> a, b |-> b, unknown |-> unknown]]

MCReplies ==
  [ intent   |-> { Says({"intent", "confidence"}, "b", 9), Says({"intent", "confidence"}, "b", 4),
                   Says({"intent", "confidence"}, "c", 9), Says({"intent"}, "b", 9),
                   [Says({"intent", "confidence"}, "b", 9) EXCEPT !.tools = TRUE] },
    calibrated |-> { Ranks(1, 7, 0), Ranks(1, 2, 0), Ranks(3, 3, 4), Ranks(4, 4, 0) },
    reflex   |-> { Proposes("faq", 7), Proposes("chat", 7), Proposes("faq", 11) },
    generate |-> {"t1", "t2", "blank"},
    retrieve |-> { <<90, 88, 0>>, <<50, 10, 99>>, <<70, 90, 75>> } ]

MCIntentConfig ==
  [model |-> "m", timeout |-> 1, min_confidence |-> 6, gate |-> 0,
   artifact |-> <<[model |-> "m", k |-> 2, min_label_mass |-> 5, fitted_n |-> 40, eval_n |-> 40]>>]
MCWorkClient == [worker |-> "w1", slot |-> "l1_worker"]
MCWorkServer == [id |-> "w1", slot |-> "l1_worker"]

Document(id, language) == [id |-> id, language |-> language, text |-> "plain", cites |-> {"s1"}]

Documents == << Document(2, "en"), Document(1, "en"), Document(3, "es") >>

MCRetriever == [documents |-> Documents, top_k |-> 2, min_score |-> 60, min_margin |-> 3]

CorpusOf(documents) ==
  [documents |-> documents, sources |-> {"s1", "s2"},
   queries |-> << [id |-> "q1", language |-> "en", text |-> "plain", expected |-> 1] >>]

FirstCorpusIs == CorpusOf(Documents)

(* The same documents, one of them with another source, and an id twice.   *)
MCCorpora ==
  { FirstCorpusIs, CorpusOf([Documents EXCEPT ![2].cites = {"s2"}]),
    CorpusOf(<<Documents[2], Documents[2]>>) }

MCFirstIndexes == { Built(FirstCorpusIs, Admitted) }

MCFleetConfig ==
  [intent |-> "kernel", intent_endpoint |-> TRUE, generation |-> "remote_worker",
   generation_endpoint |-> TRUE, worker_id |-> "w1"]

=============================================================================
