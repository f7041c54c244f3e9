--------------------------- MODULE EvidencePipeline ---------------------------
(* One operator, one output directory: the acquisition command                *)
(* (examples/run_reflex_evidence_acquisition.py) runs the importer, the       *)
(* preflight and, when asked to, the physical admission with its model server *)
(* and voice witness, each a child process that leaves files for the next.    *)
(* At any step, and in the middle of a write, the child may die or the whole  *)
(* command be killed; what a killed runner had started lives on beside the    *)
(* next command.  Between two commands the operator edits the review, the     *)
(* training data or the host.                                                 *)
EXTENDS EvidenceRules, VoiceWitness

CONSTANTS
  Sources,       \* the training data there may be: sequences of rows
  VoiceRuns,     \* what a voice process may have measured: sequences of runs
  Decisions,     \* what the gate may decide on a turn: [ok, tool, ms]
  MaxRuns, MaxChanges   \* bounds: commands, and what the operator changes between them

(* Training data is a sequence of rows, a delay is a natural number of ms, a  *)
(* similarity a percentage, and no file is never mistaken for a report.       *)
ASSUME PipelineAssumption ==
  /\ MaxRuns \in Nat
  /\ \A data \in Sources : data \in Seq(Range(data))
  /\ \A decision \in Decisions : decision.ms \in Nat
  /\ \A taken \in VoiceRuns : \A i \in DOMAIN taken, s, t \in Sessions : taken[i].heard[s][t] \in 0..100
  /\ \A taken \in VoiceRuns : taken \in Seq(Range(taken))
  /\ None \notin {"torn", "READY_FOR_PHYSICAL_ADMISSION", "PASS_REFLEX_PHYSICAL_ADMISSION"}

VARIABLES
  rows,          \* the training data
  host,          \* the model, its weight, the packages and the port are as they must be
  said, lost,    \* the operator's last word on each row; the rows whose word a torn write lost
  review, corpus, summary, preflight, physical, state,  \* the files that outlive a run
  ready, admission, voice,                              \* the files of a physical run
  server, speaker,     \* of each command the model server and the voice process
  dead,                \* the commands whose runner was killed when it had processes
  pc, asserted, execute, pending,   \* the command: its step, flags, review to write
  outcome,       \* [alive, voiceOk, admissionOk] of the physical runner
  proof,         \* what was so in this run: [loaded, clean, own, alone, cut]
  runs, changes

sources == <<rows, host, said, lost>>
files == <<review, corpus, summary, preflight, physical, state>>
witness == <<ready, admission, voice>>
processes == <<server, speaker, dead>>
command == <<asserted, execute, pending>>
counts == <<runs, changes>>
vars == <<sources, files, witness, processes, pc, command, outcome, proof, counts>>

AllDigests == UNION { UniqueReady(s) : s \in Sources }
Classes == {"real", "demo", "unreviewed"}
Commands == 1..MaxRuns

(* _load_provenance_review: a missing or empty file is an empty review, a     *)
(* line that is no valid entry makes the whole file an error.                 *)
EmptyReview == [ ok |-> TRUE, of |-> <<>> ]

(* The stages of the importer and of the runner, and those of the runner in   *)
(* which it may have processes.                                               *)
Importer == {"import", "open_review", "write_review", "write_corpus", "write_summary"}
Served == {"await_server", "await_voice", "benchmark", "await_end", "adjudicate", "cleanup"}

(* What a command forgets when it ends.                                       *)
AtRest == pc \in {"idle", "killed"}
NoOutcome == [ alive |-> FALSE, voiceOk |-> FALSE, admissionOk |-> FALSE ]
NoProof == [ loaded |-> FALSE, clean |-> FALSE, own |-> FALSE, alone |-> FALSE, cut |-> FALSE ]
Forget ==
  /\ asserted' = FALSE /\ execute' = FALSE /\ pending' = <<>>
  /\ outcome' = NoOutcome /\ proof' = NoProof
-------------------------------------------------------------------------------
(* main, lines 60 to 83: a new command forgets the summary of the last one.   *)
Begin(a, e) ==
  /\ AtRest /\ runs < MaxRuns
  /\ runs' = runs + 1 /\ asserted' = a /\ execute' = e
  /\ summary' = None /\ pc' = "import"
  /\ UNCHANGED <<sources, review, corpus, preflight, physical, state, witness, processes, pending,
                 outcome, proof, changes>>

Rejected == \/ ~review.ok
            \/ asserted /\ "demo" \in Range(review.of)
            \/ ~ReviewAccepted(rows, review.of)

(* The importer reads the data and the review.  What it rejects, and data it  *)
(* cannot read, leave a summary that says so and every other file as it was.  *)
ImportReads ==
  /\ pc = "import"
  /\ \/ summary' = Invalid /\ pc' = "imported" /\ UNCHANGED pending
     \/ /\ ~Rejected
        /\ pending' = ReviewOf(rows, review.of) /\ pc' = "open_review" /\ UNCHANGED summary
  /\ UNCHANGED <<sources, review, corpus, preflight, physical, state, witness, processes, asserted,
                 execute, outcome, proof, counts>>

(* _write_jsonl of the review: the file is emptied, then written.             *)
OpenReview ==
  /\ pc = "open_review"
  /\ review' = EmptyReview /\ pc' = "write_review"
  /\ UNCHANGED <<sources, corpus, summary, preflight, physical, state, witness, processes, command,
                 outcome, proof, counts>>

BugWriteReview ==
  /\ pc = "write_review" /\ pc' = "write_corpus"
  /\ review' = [ ok |-> TRUE, of |-> [ d \in { c \in DOMAIN pending : pending[c] # "demo" } |-> pending[d] ] ]
  /\ UNCHANGED <<sources, corpus, summary, preflight, physical, state, witness, processes, command,
                 outcome, proof, counts>>
WriteReview ==
  /\ pc = "write_review"
  /\ review' = [ ok |-> TRUE, of |-> pending ] /\ pc' = "write_corpus"
  /\ UNCHANGED <<sources, corpus, summary, preflight, physical, state, witness, processes, command,
                 outcome, proof, counts>>

WriteCorpus ==
  /\ pc = "write_corpus"
  /\ corpus' = FinalRows(rows, pending, asserted) /\ pc' = "write_summary"
  /\ UNCHANGED <<sources, review, summary, preflight, physical, state, witness, processes, command,
                 outcome, proof, counts>>

WriteSummary ==
  /\ pc = "write_summary"
  /\ summary' = SummaryOf(rows, pending, asserted) /\ pc' = "imported" /\ pending' = <<>>
  /\ UNCHANGED <<sources, review, corpus, preflight, physical, state, witness, processes, asserted,
                 execute, outcome, proof, counts>>

(* No file is written under another name first.  A writer that ends within a  *)
(* write leaves the lines it came to, and perhaps a part of the next one: of  *)
(* the review, the only copy of what the operator said, of the corpus (which  *)
(* is written anew before anyone reads it), or of the summary, its own or one *)
(* that calls the input invalid.                                              *)
CutReview ==
  IF pc = "write_review"
  THEN \E k \in 0..Len(rows), whole \in BOOLEAN :
         LET kept == { d \in DOMAIN pending : d \in UniqueReady(SubSeq(rows, 1, k)) }
         IN /\ review' = [ ok |-> whole, of |-> Restrict(pending, kept) ]
            /\ lost' = lost \cup { d \in AllDigests : said[d] # "unreviewed" /\ d \notin kept }
  ELSE UNCHANGED <<review, lost>>
CutCorpus ==
  IF pc = "write_corpus"
  THEN \E k \in 0..Len(rows) :
         corpus' = { d \in FinalRows(rows, pending, asserted) : d \in UniqueReady(SubSeq(rows, 1, k)) }
  ELSE UNCHANGED corpus
CutSummary == UNCHANGED summary \/ (pc \in {"import", "write_summary"} /\ summary' = TornSummary)

ImporterDies ==
  /\ pc \in Importer /\ pc' = "imported" /\ pending' = <<>>
  /\ CutReview /\ CutCorpus /\ CutSummary
  /\ proof' = [ proof EXCEPT !.cut = summary' # None ]
  /\ UNCHANGED <<rows, host, said, preflight, physical, state, witness, processes, asserted, execute, outcome,
                 counts>>

(* Lines 138 to 161: the command writes its state and ends.                   *)
Classify(verdict) ==
  /\ state' = [ verdict |-> verdict, run |-> runs ] /\ pc' = "idle" /\ Forget
  /\ UNCHANGED <<sources, review, corpus, summary, preflight, physical, witness, processes, counts>>

Conclude == Classify(AcquisitionState(summary, preflight, execute, physical))

(* Lines 84 to 98, 114 and 135.  A report that its child left torn cannot be  *)
(* parsed, a summary without counts is an AcquisitionStateError: either ends  *)
(* the command with the old state file in place.                              *)
Unreadable ==
  \/ pc = "imported" /\ summary # None /\ ~summary.valid
  \/ pc = "preflighted" /\ preflight = "torn"
  \/ pc = "physicaled" /\ physical = "torn"
Raises ==
  /\ Unreadable /\ pc' = "idle" /\ Forget
  /\ UNCHANGED <<sources, files, witness, processes, counts>>

BugNoSummary ==
  /\ pc = "imported" /\ summary = None /\ pc' = "idle" /\ Forget
  /\ UNCHANGED <<sources, files, witness, processes, counts>>
NoSummary == pc = "imported" /\ summary = None /\ Classify("TEST_INVALID")
TooFew == pc = "imported" /\ summary # None /\ summary.valid /\ ~summary.sufficient /\ Conclude
Shaped ==
  /\ pc = "imported" /\ summary # None /\ summary.sufficient
  /\ preflight' = None /\ pc' = "preflight"
  /\ UNCHANGED <<sources, review, corpus, summary, physical, state, witness, processes, command,
                 outcome, proof, counts>>

(* The preflight child, which may also end without a word, or within one.     *)
Prerequisites == host /\ Loadable(corpus) /\ Sufficient(corpus)
PortFree == \A n \in Commands : server[n] # "up"
Preflight ==
  /\ pc = "preflight" /\ pc' = "preflighted"
  /\ preflight' = IF Prerequisites /\ PortFree THEN "READY_FOR_PHYSICAL_ADMISSION"
                  ELSE "BLOCKED_RUNTIME_PREREQUISITES"
  /\ UNCHANGED <<sources, review, corpus, summary, physical, state, witness, processes, command,
                 outcome, proof, counts>>

CutPreflight == UNCHANGED preflight \/ (pc = "preflight" /\ preflight' = "torn")
PreflightDies ==
  /\ pc = "preflight" /\ pc' = "preflighted" /\ CutPreflight
  /\ proof' = [ proof EXCEPT !.cut = preflight' # None ]
  /\ UNCHANGED <<sources, review, corpus, summary, physical, state, witness, processes, command,
                 outcome, counts>>

Executes == execute /\ preflight = "READY_FOR_PHYSICAL_ADMISSION"
StopsShort == pc = "preflighted" /\ ~Unreadable /\ ~Executes /\ Conclude
GoesOn ==
  /\ pc = "preflighted" /\ Executes
  /\ physical' = None /\ pc' = "physical"
  /\ UNCHANGED <<sources, review, corpus, summary, preflight, state, witness, processes, command,
                 outcome, proof, counts>>
-------------------------------------------------------------------------------
(* run_reflex_physical_admission.py.  What ends the runner with an exception, *)
(* or before its processes start: it reports that and comes to its finally.   *)
(* A file that a child left torn is an exception too.                         *)
TornWitness == [ complete |-> FALSE, acoustic |-> FALSE, verdict |-> "torn" ]
TornEvidence == admission = "torn" \/ voice = TornWitness
RunnerFails ==
  /\ pc \in {"physical", "await_server", "await_voice"} \/ (pc = "adjudicate" /\ TornEvidence)
  /\ physical' = "TEST_INVALID" /\ pc' = "cleanup"
  /\ UNCHANGED <<sources, review, corpus, summary, preflight, state, witness, processes, command, outcome,
                 proof, counts>>

(* Line 384, on every way out but one.                                        *)
BugCleanup ==
  /\ pc = "cleanup" /\ pc' = "physicaled"
  /\ speaker' = [ speaker EXCEPT ![runs] = "off" ]
  /\ UNCHANGED <<sources, files, witness, server, dead, command, outcome, proof, counts>>
Cleanup ==
  /\ pc = "cleanup" /\ pc' = "physicaled"
  /\ server' = [ server EXCEPT ![runs] = "off" ] /\ speaker' = [ speaker EXCEPT ![runs] = "off" ]
  /\ UNCHANGED <<sources, files, witness, dead, command, outcome, proof, counts>>

(* The one: a runner that is killed skips its finally and leaves what it had  *)
(* started, and its own report torn when it was writing one.                  *)
CutPhysical ==
  \/ UNCHANGED physical
  \/ pc \in {"physical", "await_server", "await_voice", "adjudicate"} /\ physical' = "torn"
Orphans == dead' = IF pc \in Served THEN dead \cup {runs} ELSE dead
RunnerDies ==
  /\ pc \in {"physical"} \cup Served /\ pc' = "physicaled"
  /\ CutPhysical /\ Orphans /\ outcome' = NoOutcome
  /\ proof' = [ proof EXCEPT !.cut = physical' = "torn" ]
  /\ UNCHANGED <<sources, review, corpus, summary, preflight, state, witness, server, speaker, command, counts>>

(* Lines 170 to 256.  alone: no voice of a killed runner is still at work.    *)
StartServer ==
  /\ pc = "physical" /\ Prerequisites /\ PortFree
  /\ ready' = FALSE /\ admission' = None /\ voice' = None
  /\ server' = [ server EXCEPT ![runs] = "starting" ] /\ pc' = "await_server"
  /\ proof' = [ proof EXCEPT !.alone = \A n \in Commands : speaker[n] \notin {"loading", "speaking"} ]
  /\ UNCHANGED <<sources, files, speaker, dead, command, outcome, counts>>

(* _wait_tcp: its own server has not ended, and some server accepts.          *)
StartVoice ==
  /\ pc = "await_server" /\ server[runs] # "off" /\ ~PortFree
  /\ speaker' = [ speaker EXCEPT ![runs] = "loading" ] /\ pc' = "await_voice"
  /\ UNCHANGED <<sources, files, witness, server, dead, command, outcome, proof, counts>>

StartBenchmark ==
  /\ pc = "await_voice" /\ ready
  /\ pc' = "benchmark" /\ proof' = [ proof EXCEPT !.loaded = speaker[runs] = "speaking" ]
  /\ UNCHANGED <<sources, files, witness, processes, command, outcome, counts>>

(* The turns of a benchmark that went well, in the words of the policy: every *)
(* turn decided, no needed tool missed, 95 of 100 turns within the budget.    *)
Clean(measured) ==
  /\ \A d \in DOMAIN measured : measured[d].ok /\ (ToolNeeded(d) => measured[d].tool)
  /\ 100 * Cardinality({ d \in DOMAIN measured : measured[d].ms <= MaxP95 })
       >= 95 * Cardinality(DOMAIN measured)

(* The admission child grades every turn of the corpus, finds the schema      *)
(* unenforced, or dies, perhaps after its report.  A server that has gone     *)
(* answers nothing; one that answers may be that of a killed runner.          *)
Benchmarked(report, ok, clean) ==
  /\ admission' = report /\ pc' = "await_end"
  /\ outcome' = [ alive |-> speaker[runs] \in {"loading", "speaking"}, voiceOk |-> FALSE, admissionOk |-> ok ]
  /\ proof' = [ proof EXCEPT !.loaded = @ /\ speaker[runs] = "speaking", !.clean = clean ]
  /\ UNCHANGED <<sources, files, ready, voice, processes, command, counts>>

Grade ==
  /\ pc = "benchmark" /\ ~PortFree
  /\ \E measured \in [corpus -> Decisions] :
       LET verdict == ModelAdmission(measured)
       IN \E ok \in {FALSE, verdict = "PASS_REFLEX_MODEL_ADMISSION"} : Benchmarked(verdict, ok, Clean(measured))

GradeFails ==
  /\ pc = "benchmark"
  /\ \E report \in {"BLOCKED", "torn", admission} : Benchmarked(report, FALSE, FALSE)

(* The runner waits for the voice to end, and terminates it after 300 s,      *)
(* perhaps while it writes.                                                   *)
VoiceEnded(ok) ==
  /\ pc = "await_end" /\ pc' = "adjudicate"
  /\ speaker' = [ speaker EXCEPT ![runs] = "off" ] /\ outcome' = [ outcome EXCEPT !.voiceOk = ok ]
  /\ UNCHANGED <<sources, files, ready, admission, server, dead, command, proof, counts>>
VoiceReaped ==
  VoiceEnded(speaker[runs] = "done") /\ speaker[runs] \in {"done", "off"} /\ UNCHANGED voice
VoiceTimeout ==
  VoiceEnded(FALSE) /\ speaker[runs] \in {"loading", "speaking"} /\ voice' \in {voice, TornWitness}

Adjudicate ==
  /\ pc = "adjudicate" /\ ~TornEvidence
  /\ physical' = IF voice = None THEN "TEST_INVALID"
                 ELSE Adjudication(voice, outcome.alive, outcome.voiceOk, admission, outcome.admissionOk)
  /\ pc' = "cleanup" /\ outcome' = NoOutcome
  /\ UNCHANGED <<sources, review, corpus, summary, preflight, state, witness, processes, command, proof,
                 counts>>

Finish == pc = "physicaled" /\ ~Unreadable /\ Conclude
-------------------------------------------------------------------------------
(* The servers and voice processes, of this command and of killed runners:    *)
(* they share the port and the files, and may hang.  OwnLines: in no run was  *)
(* a session heard to say more of another's line than of its own, by more     *)
(* than the margin, nor so little of its own that nothing can be told.        *)
OwnLines(taken) ==
  \A i \in DOMAIN taken, s \in Sessions : \A t \in Sessions \ {s} :
    /\ taken[i].heard[s][t] <= taken[i].heard[s][s] + CrosstalkMargin
    /\ taken[i].heard[s][s] >= OwnMatchFloor - CrosstalkMargin

ServerUp(n) ==
  /\ server[n] = "starting" /\ PortFree /\ server' = [ server EXCEPT ![n] = "up" ]
  /\ UNCHANGED <<sources, files, witness, speaker, dead, pc, command, outcome, proof, counts>>
ServerDies(n) ==
  /\ server[n] # "off" /\ server' = [ server EXCEPT ![n] = "off" ]
  /\ UNCHANGED <<sources, files, witness, speaker, dead, pc, command, outcome, proof, counts>>
VoiceReady(n) ==
  /\ speaker[n] = "loading" /\ speaker' = [ speaker EXCEPT ![n] = "speaking" ] /\ ready' = TRUE
  /\ UNCHANGED <<sources, files, admission, voice, server, dead, pc, command, outcome, proof, counts>>
VoiceFinishes(n) ==
  /\ speaker[n] = "speaking" /\ speaker' = [ speaker EXCEPT ![n] = "done" ]
  /\ \E taken \in VoiceRuns :
       /\ voice' = WitnessOf(taken)
       /\ proof' = IF n = runs /\ pc \in Served THEN [ proof EXCEPT !.own = OwnLines(taken) ] ELSE proof
  /\ UNCHANGED <<sources, files, ready, admission, server, dead, pc, command, outcome, counts>>
VoiceDies(n) ==
  /\ speaker[n] \in {"loading", "speaking"} /\ speaker' = [ speaker EXCEPT ![n] = "off" ]
  /\ ready' \in {ready, TRUE} /\ voice' \in {voice, TornWitness}
  /\ UNCHANGED <<sources, files, admission, server, dead, pc, command, outcome, proof, counts>>

(* The command and the child it waits for are killed, wherever they are, in   *)
(* the middle of a write too: what the runner had started lives on.  The      *)
(* state file is read by no program, and a kill within its write left out.    *)
Kill ==
  /\ ~AtRest /\ pc' = "killed" /\ Forget
  /\ CutReview /\ CutCorpus /\ CutSummary /\ CutPreflight /\ CutPhysical /\ Orphans
  /\ UNCHANGED <<rows, host, said, state, witness, server, speaker, counts>>

(* What the operator does to the review file, away from the importer: he says *)
(* what a row is, takes a row out, breaks a line or repairs it.               *)
Edit(content) ==
  /\ AtRest /\ runs < MaxRuns /\ changes < MaxChanges /\ changes' = changes + 1
  /\ review' = content
  /\ UNCHANGED <<rows, host, corpus, summary, preflight, physical, state, witness, processes, pc, command,
                 outcome, proof, runs>>
Says(d, class) == said' = [ said EXCEPT ![d] = class ] /\ lost' = lost \ {d}
ClassifyRow(d, class) == d \in DOMAIN review.of /\ Edit([ review EXCEPT !.of[d] = class ]) /\ Says(d, class)
DropRow(d) ==
  /\ d \in DOMAIN review.of /\ Edit([ review EXCEPT !.of = Restrict(@, DOMAIN @ \ {d}) ])
  /\ Says(d, "unreviewed")
SpoilReview == review.ok /\ Edit([ review EXCEPT !.ok = FALSE ]) /\ UNCHANGED <<said, lost>>
RepairReview == ~review.ok /\ Edit([ review EXCEPT !.ok = TRUE ]) /\ UNCHANGED <<said, lost>>

(* The data is harvested anew, or the host changes.                           *)
Move ==
  /\ AtRest /\ runs < MaxRuns /\ changes < MaxChanges /\ changes' = changes + 1
  /\ \/ rows' \in Sources /\ UNCHANGED host
     \/ host' = ~host /\ UNCHANGED rows
  /\ UNCHANGED <<said, lost, files, witness, processes, pc, command, outcome, proof, runs>>
-------------------------------------------------------------------------------
Init ==
  /\ rows \in Sources /\ host \in BOOLEAN
  /\ said = [ d \in AllDigests |-> "unreviewed" ] /\ lost = {}
  /\ review = EmptyReview /\ corpus = None /\ summary = None
  /\ preflight = None /\ physical = None /\ state = [ verdict |-> None, run |-> 0 ]
  /\ ready = FALSE /\ admission = None /\ voice = None
  /\ server = [ n \in Commands |-> "off" ] /\ speaker = [ n \in Commands |-> "off" ] /\ dead = {}
  /\ pc = "idle" /\ asserted = FALSE /\ execute = FALSE /\ pending = <<>>
  /\ outcome = NoOutcome /\ proof = NoProof /\ runs = 0 /\ changes = 0

Importing == \/ ImportReads \/ OpenReview \/ WriteReview \/ WriteCorpus \/ WriteSummary \/ ImporterDies
Runner == \/ RunnerDies \/ RunnerFails \/ StartServer \/ StartVoice \/ StartBenchmark
          \/ Grade \/ GradeFails \/ VoiceReaped \/ VoiceTimeout \/ Adjudicate \/ Cleanup
Program == \/ Importing \/ NoSummary \/ Raises \/ TooFew \/ Shaped \/ Preflight \/ PreflightDies
           \/ StopsShort \/ GoesOn \/ Runner \/ Finish
Children ==
  \E n \in Commands : ServerUp(n) \/ ServerDies(n) \/ VoiceReady(n) \/ VoiceFinishes(n) \/ VoiceDies(n)
Operator ==
  \/ \E a, e \in BOOLEAN : Begin(a, e)
  \/ \E d \in AllDigests : DropRow(d) \/ \E class \in Classes : ClassifyRow(d, class)
  \/ SpoilReview \/ RepairReview \/ Move
Next == Program \/ Children \/ Operator \/ Kill

(* Every wait of the program has a deadline, so the program goes on; the      *)
(* servers and voice processes may hang, the operator may stop.               *)
Spec == Init /\ [][Next]_vars /\ WF_vars(Program)
-------------------------------------------------------------------------------
Verdicts == {"TEST_INVALID", "BLOCKED", "BLOCKED_INSUFFICIENT_REAL_LABELS",
             "BLOCKED_PROVENANCE_CLASSIFICATION", "BLOCKED_RUNTIME_PREREQUISITES",
             "READY_FOR_PHYSICAL_ADMISSION", "BLOCKED_PHYSICAL_ADMISSION", "PASS_REFLEX_PHYSICAL_ADMISSION"}

(* The files have the shapes the code gives them, and the review file says of *)
(* each row exactly what the operator said of it, but where a torn rewrite    *)
(* lost that.                                                                 *)
TypeOK ==
  /\ rows \in Sources /\ said \in [AllDigests -> Classes] /\ lost \subseteq AllDigests
  /\ \A d \in AllDigests \ lost : said[d] # "unreviewed" =>
       pc = "write_review" \/ (d \in DOMAIN review.of /\ review.of[d] = said[d])
  /\ corpus = None \/ corpus \subseteq AllDigests
  /\ preflight \in {None, "torn", "READY_FOR_PHYSICAL_ADMISSION", "BLOCKED_RUNTIME_PREREQUISITES"}
  /\ physical \in {None, "torn", "TEST_INVALID", "BLOCKED", "PASS_REFLEX_PHYSICAL_ADMISSION"}
  /\ state.verdict \in Verdicts \cup {None} /\ state.run \in 0..runs
  /\ server \in [Commands -> {"off", "starting", "up"}]
  /\ speaker \in [Commands -> {"off", "loading", "speaking", "done"}]

(* Whatever was torn, dropped, edited or asserted before: a row enters the    *)
(* corpus only when the operator's last word on it is "real", or when this    *)
(* command asserts that all are real and no word says "demo".  One that does  *)
(* enters only if a rewrite that was cut short has lost that word.            *)
OnlyRealTurns ==
  [][ corpus' # corpus =>
        \A d \in corpus' : said[d] = "real" \/ (asserted /\ (said[d] # "demo" \/ d \in lost)) ]_vars

(* The importer rewrites the file that holds the operator's decisions: unless *)
(* it is cut short it loses none and changes none, also when the data was     *)
(* harvested anew.                                                            *)
ReviewKept ==
  [][ pc = "write_review" /\ pc' = "write_corpus" =>
        \A d \in AllDigests \ lost : said[d] # "unreviewed" =>
          d \in DOMAIN review'.of /\ review'.of[d] = said[d] ]_vars

(* A state that lets the operator proceed rests on this run: enough turns of  *)
(* the corpus that this run wrote, on the host as it is now.                  *)
GoesAheadOnFacts ==
  [][ state' # state /\ state'.verdict \in {"READY_FOR_PHYSICAL_ADMISSION", "PASS_REFLEX_PHYSICAL_ADMISSION"} =>
        /\ Prerequisites
        /\ corpus = FinalRows(rows, review.of, asserted) ]_vars

(* A pass means that the voice was speaking from the first turn of the        *)
(* benchmark to the last: no file of an earlier run stands in for it, unless  *)
(* the voice of a killed runner was still at work when this one began.        *)
PassUnderLoad ==
  [][ state' # state /\ state'.verdict = "PASS_REFLEX_PHYSICAL_ADMISSION" => proof.loaded \/ ~proof.alone ]_vars
(* It means that every turn was answered, none missed a tool, and 95 of 100   *)
(* were in time,                                                              *)
PassIsClean ==
  [][ state' # state /\ state'.verdict = "PASS_REFLEX_PHYSICAL_ADMISSION" => proof.clean ]_vars
(* and that the witness heard each session speak its own line in every run    *)
(* (with the same proviso): what could not be told is never taken for clean.  *)
PassIsHeard ==
  [][ state' # state /\ state'.verdict = "PASS_REFLEX_PHYSICAL_ADMISSION" => proof.own \/ ~proof.alone ]_vars

(* A command that ends by itself leaves a state of its own.  The old one      *)
(* stays in place only when the importer declared its input invalid, or when  *)
(* a child of this command ended within the write of its report; the report   *)
(* of an earlier command is never what it stumbles on.                        *)
StateOfThisRun ==
  [][ pc # "idle" /\ pc' = "idle" =>
        \/ state'.run = runs
        \/ summary # None /\ summary.whole /\ ~summary.valid
        \/ proof.cut /\ ((summary # None /\ ~summary.whole) \/ "torn" \in {preflight, physical}) ]_vars

(* However a physical run fails, it leaves no server and no voice process,    *)
(* from the first command on: what is left is of runners that were killed.    *)
Running(n) == server[n] # "off" \/ speaker[n] \in {"loading", "speaking"}
NothingLeftRunning ==
  \A n \in Commands : Running(n) => n \in dead \/ (n = runs /\ pc \in Served)

(* Every command ends, with children that hang or die at any moment.          *)
RunEnds == ~AtRest ~> AtRest

(* The corpus and the review behind it are the operator's.                    *)
CorpusKept == OnlyRealTurns /\ ReviewKept

(* A verdict that lets the operator go on was earned by this run.             *)
VerdictEarned == GoesAheadOnFacts /\ PassUnderLoad /\ PassIsClean /\ PassIsHeard

(* A runner that can leaves no child behind.                                  *)
RunInv == TypeOK /\ NothingLeftRunning

(* Every command ends, and with a state of its own.                           *)
RunConcludes == RunEnds /\ StateOfThisRun
===============================================================================
