-------------------------- MODULE MCEvidencePipeline --------------------------
(* Two small instances of EvidencePipeline.  evidence follows the command to  *)
(* the end of its physical run: one real turn, that needs a tool, stands for  *)
(* the 30 and 59 of the code, and the voice witnesses are those that          *)
(* VoiceWitness concludes from three runs of two sessions.  evidence_review   *)
(* asks for more turns than there are, so that no command goes past the       *)
(* importer, and takes more data, more commands and more of the operator.     *)
EXTENDS EvidencePipeline

CONSTANTS S1, S2

MCSessions == {S1, S2}

Row(call, text, intent, source, confidence, language) ==
  [ call |-> call, text |-> text, intent |-> intent, source |-> source,
    confidence |-> confidence, language |-> language ]
Replay(call, text, intent) == Row(call, text, intent, "bland_replay", "ground_truth", "en")

Book == Replay("c1", "book", "book_appointment")
Slots == Replay("c2", "slots", "check_availability")
Price == Replay("c3", "price", "pricing")
LongOne == Replay("c4", "long", "reschedule")

(* Rows that must not become ready, one for each way out of the staging.      *)
Rest == << Row("c1", "book", "book_appointment", "bland_replay", "low", "en"),
           Row("c5", "move", "reschedule", "bland_live", "ground_truth", "en"),
           Row("c6", "agent", "transfer_agent", "bland_replay", "ground_truth", "en"),
           Row("c7", "hours", "general_inquiry", "bland_replay", "ground_truth", None),
           Row(None, "book", "book_appointment", "bland_replay", "ground_truth", "en"),
           Row("c8", None, "pricing", "bland_replay", "ground_truth", "en") >>

MCSources == { <<Book, Slots, Price, Book>> \o Rest, <<Slots, LongOne>>, <<Book>> \o Rest }

(* The data of the physical run: one that suffices, one that cannot be loaded. *)
PhysicalSources == { <<Book, Price>>, <<LongOne>> }

MCDecisions == { [ ok |-> TRUE, tool |-> TRUE, ms |-> 80 ], [ ok |-> TRUE, tool |-> TRUE, ms |-> 200 ],
                 [ ok |-> TRUE, tool |-> FALSE, ms |-> 80 ], [ ok |-> FALSE, tool |-> FALSE, ms |-> 150 ] }

(* What two sessions may have heard of each other, and how they streamed.     *)
Heard(own1, other1, own2, other2) ==
  [ s \in MCSessions |-> IF s = S1 THEN [ t \in MCSessions |-> IF t = S1 THEN own1 ELSE other1 ]
                                 ELSE [ t \in MCSessions |-> IF t = S2 THEN own2 ELSE other2 ] ]
Stream(chunks, raised, first, silence) ==
  [ chunks |-> chunks, raised |-> raised, first |-> first, silence |-> silence ]
Good == Stream(3, FALSE, 100, 0)
Cut == Stream(1, FALSE, 100, 50)
MCHeard == { Heard(90, 20, 95, 30), Heard(20, 90, 30, 95), Heard(90, 20, 40, 30), Heard(70, 60, 60, 90),
             Heard(90, 20, 50, 62) }
MCTaken == { <<Good, Cut>>, <<Stream(3, TRUE, 100, 0), Cut>>, <<Good, Stream(2, FALSE, 100, 50)>>,
             <<Stream(3, FALSE, 400, 0), Cut>>, <<Good, Stream(1, FALSE, 100, 200)>> }
Run(heard, taken) ==
  [ heard |-> heard, taken |-> [ s \in MCSessions |-> [ whole |-> taken[1], cut |-> taken[2] ] ] ]

(* Two runs that went well, and a third one.                                  *)
MCVoiceRuns == { << Run(Heard(90, 20, 95, 30), <<Good, Cut>>), Run(Heard(90, 20, 95, 30), <<Good, Cut>>), r >> :
              r \in { Run(h, t) : h \in MCHeard, t \in MCTaken } }
===============================================================================
