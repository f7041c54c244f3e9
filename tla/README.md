# VoxMaestro in TLA+

A verification development for VoxMaestro, the voice-call orchestration runtime under
`src/src/voxmaestro`. Paths below are relative to that directory unless they start with `docs/`,
`evidence/`, `examples/` or `tests/`.

## 1. The system

VoxMaestro runs phone and browser conversations. A *call* is a `ConversationContext` moved through a
configured state machine by *turns*: each caller utterance is classified, may fire one external *tool*,
may hand the call to a person (several *deliveries*), and is answered through text-to-speech. All of it
runs on one asyncio event loop per process, with threads for speech synthesis, model inference and shadow
evaluation. Around the call sit model workers behind a transport-agnostic contract, gates that decide
whether a model's answer may be used, and command-line evidence programs whose files have to be
trustworthy.

### 1.1 Inventory

| Component | State it keeps | Operations | What is hard | What makes it correct |
|---|---|---|---|---|
| Per-call runtime (`runtime.py`) | phase, conversation state, tool results, `_inflight` tasks | `process_turn`, `close`, tool bridge, handoff | every await is an interleaving point: close, other turns, late executors | no executor entered after the end, no fallback beside live work, one handoff, truthful receipts, turns end |
| State machine (`conductor.py`) | current/previous state, turn counter | `evaluate_transition`, `apply_transition`, `add_turn` | guardrail boundary, transient `tool_call` state | guardrail never overrun, transient state left |
| Legacy conductor and Pipecat (`conductor.py`, `integrations/pipecat.py`) | one conductor with one set of callbacks; per processor a context and an output queue | `start_call`, `process_frame`, `ToolBridge`, `HandoffProtocol` | callbacks replaced while calls run; frames compared with a stale state | callbacks reach no earlier call, every change of state is announced |
| Web adapter (`integrations/web_session.py`) | session registry, per-session lock, event queue, audio | `iter_events(start/message/end)` | end and restart with the same id between awaits, orphan queue readers, barge-in | no event or audio of a replaced session, turns of a call serialised |
| Speech (`tts/worker.py`, `writer.py`, `session.py`, `pocket.py`) | per-stream cancel events, live turn, backend cancel flags | `speak`, `barge_in`, `flush`, `synthesize`, `cancel` | producer threads against the loop; cancel flags keyed by turn id | no audio of a turn that is not live, speech whole unless cut |
| Gateway (`integrations/gateway.py`) and ASR (`asr.py`, `asr_whisper.py`) | connection's session id, ASR streams, endpointing buffers | websocket messages, `accept`, `flush`, `close` | open and close pairing on every path, counters that describe a buffer | no voiced frame lost, one connection per stream, an id is freed |
| Stream adapter (`integrations/runtime_stream.py`) | current session, one event queue | `start_call`, `iter_frames` | a turn task and a reader task per iteration over one queue; orphans | frames complete and in order, losses only to orphans |
| Reflex gate (`reflex/gate.py`, `shapes.py`, `backends.py`) | inference permit, schema probe | `classify` | deadline racing the backend, cancelled callers | a decision is usable only when the model answered in time and in form; the permit comes back |
| Jev backend (`reflex/jev_backend.py`) | audit file | `decide` | a reply that is nearly right | fail closed; audited before it counts |
| Shadow dispatch (`reflex/jev_live.py`) | bounded queue, worker thread | `dispatch`, `join`, `close` | close against dispatch, full queue | nothing accepted is lost silently |
| Live acceptance (`reflex/jev_live.py`, `examples/run_jev_live_001.py`) | specimen, hash, catalogs, audits, seal on disk | `freeze`, `run` | concurrent commands over one directory, kills between two files, drifting commit and catalog | one specimen, at most one verdict, honest about its evidence |
| Intent worker (`workers/intent_worker.py`, `calibration.py`) | inference permit | server and client | a timed-out inference keeps the permit | one inference at a time, `unknown` unless earned |
| Retrieval (`retrieval.py`, `workers/retrieval_worker.py`) | corpus and index files, inference slot | start with or without rebuild, `retrieve` | rebuilds side by side, crashes, a model tag that moves | vectors belong to the corpus and to the admitted model |
| Fleet contract and generation worker (`fleet.py`, `workers/*`) | none | `remote_worker.v0` envelopes | deadlines without a permit | only the allowed context leaves, no blank answers |
| Outcome attestation (`outcome.py`, `outcome_jev.py`) | none between calls | `OutcomeGate.verify`, `JevOutcomeVerifier.verify` | mutable result during an await | `SATISFIED` only when every criterion is; bound to what was judged |
| Evidence acquisition (`reflex/acquisition.py`, `examples/run_reflex_evidence_acquisition.py`) | review, corpus, summary, state files | one command with importer and preflight children | writes cut short, dying children, files of earlier runs | the corpus is what the operator said, a verdict is of this run |
| Physical admission (`reflex/admission.py`, `examples/run_reflex_physical_admission.py`) | ready file, admission and voice reports | runner with a model server and a voice process | processes that hang or die or outlive a killed runner, torn reports, load that must be real | PASS only under load, clean, and heard |
| TTS qualification and measurement (`tts/qualification.py`, `measurement.py`, `crosstalk.py`) | none (pure) | verdicts over measurements | boundary values | the verdict follows the thresholds |
| Examples (`examples/`) | none of their own | scripts | | (those that sequence evidence belong to the evidence components) |

### 1.2 How the parts interact

A websocket connection (`gateway`) feeds audio to an ASR stream and turns final transcripts into
messages for the web adapter. The web adapter keeps one `CallSession` per browser session, runs its
turns under a per-session lock, forwards the fillers and audio that the runtime's callbacks put on the
session's queue, and drives one `SessionAudio`. The runtime awaits the intent classifier, the tool
executor and the handoff executor, supplied from outside; `CallSession.close` is synchronous and may run
whenever a turn is suspended. All sessions share one speech backend, whose blocking generators run in one
thread per stream. Classifier, reflex gate, retrieval and generation reach their model through a worker: a
client with a deadline, an HTTP handler, and an inference in a thread that outlives both. The stream
adapter and the Pipecat adapter are two other ways into a runtime and into the legacy conductor. Outcome
attestation and live acceptance both ask the Jev backend. The evidence programs share nothing with a call
in memory: they work on files, and on processes that they start.

## 2. Modules

| Module | What it is |
|---|---|
| `CallRuntime` | one call: turns, tool bridge, handoff, close, and the state machine they drive |
| `SpeechStack` | `SessionAudio`, `TTSWorker`, the gate, and the Pocket backend's generator, one producer thread per stream |
| `WebSession` | the browser adapter for one external id: start, message and end iterations, the lock, the event queue, and abstractions of the turn and of speech |
| `ShadowQueue` | `QueueShadowDispatcher`: dispatching threads, closing threads, one worker |
| `JevBackend` | `decide()` as operators: encoding checks, response decoding, fail-closed verdicts, audit |
| `AcceptanceRecord` | the abstract promise of the live acceptance: freeze once, seal once, honestly |
| `LiveAcceptance` | its implementation: `freeze` and `run` commands as processes over one disk |
| `IntentRules`, `ReflexRules`, `GenerationRules`, `RetrievalRules` | what each lane's client, server and decoder do with one request, as operators |
| `RetrievalIndex` | starts of retrieval workers over shared corpus and index files |
| `OutcomeAttestation` | the outcome gate over the Jev verifier and over any other, and the owner of the result |
| `InferenceLanes` | clients, handlers, inferences and permits of all lanes; composes the five modules above |
| `EvidenceRules`, `VoiceWitness` | staging, review, selection, grading and adjudication; crosstalk, measurement and policy, as operators |
| `EvidencePipeline` | the acquisition command, its children, the physical runner, and the operator between commands |
| `AudioGateway`, `StreamAdapter`, `LegacyConductor` | the three other ways in |
| `FrontEnds` | composes those three |
| `MC...` | constants for TLC |
| `CallRuntimeProofs`, `SpeechStackProofs`, `WebSessionProofs`, `ShadowQueueProofs`, `LiveAcceptanceProofs`, `InferenceLanesProofs`, `EvidencePipelineProofs`, `FrontEndsProofs` | theorems (section 5) |

`WebSession` composes calls and speech by abstraction: its `TurnFills`, `TurnEnds`, `TurnRaises` stand for
a turn of `CallRuntime` (which supplies what `WebSession` assumes, that a turn ends), and its `talk`
values stand for a stream of `SpeechStack` with one chunk (which supplies that speech ends).
`WebSession` supplies in turn what `CallRuntime` calls `Serial`: `OneTurnAtATime`.

`InferenceLanes` EXTENDS `RetrievalIndex`, `OutcomeAttestation` and the rules. The lanes share no state, so
a behaviour has one of them, chosen at the start; they share the request's life cycle, which is written
once. `FrontEnds` does the same for three adapters. `OutcomeAttestation` and `LiveAcceptance` use the same
`JevBackend`. `LiveAcceptance` implements `AcceptanceRecord` under the mapping `Record`: `frozen` is the
complete specimen on disk, `verdict` the complete seal.

## 3. How state and actions correspond to the code

The same reading applies everywhere: *an action is the code between two points where something else
may run*. On the event loop these points are awaits and yields; in a thread, the accesses to something
another thread touches; in a command, every file access and every wait for a child. Local variables that
live across such a point are part of the state.

**CallRuntime.** `phase`, `conv` and `toolResults` are the fields of `ConversationContext`; `inflight` is
`RuntimeToolBridge._inflight`. `pc[t]` is the await at which the coroutine of turn `t` is suspended
(`classify`, `filler`, `tool`, `metric`, `bridge`, `deliver`, `transfer`), `idle` before the
turn and `done` or `raised` after it; `task[t]` is the executor's own task, which outlives the turn's wait
when the executor may not be cancelled. `BeginTurn` is everything before the first await, `Classified`
everything from the answer to the next await, through `EvaluateTransition`, `ApplyTransition` and the choice
of tool, handoff or answer. `CollectTool` and `ToolTimeout` are the two ways out of `wait_for`; `AfterTool`
is the code that follows both. `DeliveryReturns` is one round of the delivery loop. `Close` is
`CallSession.close` and may happen in any state. `mode` is how the runtime was constructed: with which
executors, and whether for a dry run. Guards, intents and tools are constants; utterances are
represented by the intent they are classified to. `ended` is an observation: whether the call was closed
or has finished a handoff.

**SpeechStack.** A request is one call of `speak()`. `speech[r]` is where that coroutine is,
`thread[r]` where its producer thread is, `event[r]` its `threading.Event`, `queue[r]` its queue;
`flags` is the backend's `_cancel`, keyed by turn id only, as in the code. `Generate` is one round of the
generator, including the chunk held back to be marked last; `CheckEvent` and `QueueChunk` are two steps
because a cancel may fall between them. `cut` is an observation: requests that something interrupted.

**WebSession.** `at[c]` is the await or yield at which iteration `c` of `iter_events` is suspended;
`mine[c]` the `_WebSession` object it holds, named by the start that made it, so that a session that
replaced another under the same id is a different one. `line` is the lock of each session with its
waiters in order. `getting` and `hand` are the `queue_task` of the iteration (waiting, or done with its
item), which may outlive the iteration. `out[c]` is what the client has been sent. `tts` says whether the
deployment has a speech backend; without one, greeting and answer are text and nothing is bound or cut.
`Refused` is an event that is malformed or has no session: it is answered and changes nothing.

**ShadowQueue.** `queue` and `unfinished` are the fields of `queue.Queue`; `caller`, `closer` and `worker`
say where each thread is. `SeeDrained`, `CheckErrors`, `SetClosed`, `PutSentinel` are the four accesses of
`close()`. `drained[k]` is an observation: what had been accepted when closer `k` saw the queue empty.

**LiveAcceptance.** `disk[f]` is `absent`, `partial` or `complete`: the exclusive creation of a file and
its write are two steps (`Create`, `Write`), because a kill or a failed write may fall between them. `pc[p]`
is the next step of a command, `mem[p]` its locals. `Prepare`, `Dispatch`, `Answer`, `CloseDispatcher` are
a provider's dispatcher in a run: `provider` and `left` are the shadow worker that may still be writing when
`close()` gives up. `Change` moves the catalog or the checkout; `Kill` ends a command and its threads (a
process and its worker die together). `faults` bounds kills, failed writes and drift.

**InferenceLanes.** A request has three sides that run by themselves: `client` (waits with a deadline),
`job` (the HTTP handler) and `run` (the inference in a thread, which nothing can stop). `busy` is the
permit: `IntentWorker._busy`, taken by the handler and given back by the thread; `LocalSchemaBackend._busy`,
taken and given back by the thread; the retrieval worker's slot, held by the handler; the generation worker
has none. `GiveUp`, `GateTimeout` and `CallerCancelled` are the deadlines and cancellation. `out` is what
the inference left and `reply` what the handler sent, so that an answer can be held against the inference it
should come from. The content of requests and replies is a record of the facts that the rules tell apart.

**RetrievalIndex.** A file is an inode with content, and a path names an inode: `OpenTemporary`,
`WriteTemporary` and `Replace` are the three steps of a rebuild, so two rebuilds may share the temporary
file. `vec` and `served` carry the corpus and the model they were computed from.

**OutcomeAttestation.** A hash is the value it is the hash of. `Submit` encodes the result, `Decide` is the
await, `Attest` reads the hash again; `OwnerWrites` changes the result between any two of them.

**EvidencePipeline.** `pc` is the step of the one command (`EvidenceRules` says what each file then
contains). No file is written under another name first, so whoever dies or is killed within a write leaves it
torn: `CutReview`, `CutCorpus`, `CutSummary`, `CutPreflight`, `CutPhysical` say what is then in the file, and
`Unreadable` where the command stumbles on it. `server[n]` and `speaker[n]` are the processes of command `n`'s
runner, which come up, hang, finish or die by themselves, and share one port and one set of files with those
of other commands. `Cleanup` is the runner's `finally`: every way out leads through it but `RunnerDies` and
`Kill`, which leave the processes running; `dead` remembers the commands of such runners. `said`, `lost` and
`proof` are observations: the operator's last word on each row, the rows whose word a torn rewrite lost, and
what was in fact so in this physical run (`loaded`: the voice spoke throughout; `clean`: the turns; `own`: what
was heard; `alone`: no killed runner's voice was still at work when it began; `cut`: a child of this command
ended within the write of its report). `Edit`, `ClassifyRow`, `SpoilReview`, `RepairReview`, `DropRow` and
`Move` are the operator and the host.

**AudioGateway.** `handler[c]` is the await of a connection's handler, `voice[c]` the session its audio goes
to. `stream[s]` is the ASR stream: a buffer of voiced and silent frames, the two counters endpointing decides
on, the utterance number. `owed`, `turns` and `left` are observations.

**StreamAdapter.** `iter[i]` is where an iteration of `iter_frames` is, `turn[i]` and `reader[i]` its two
tasks, `queue` the processor's queue. `disturbed[i]` is an observation: another iteration, an orphan or a
start met it.

**LegacyConductor.** `wired` is the processor whose callbacks the shared conductor has; `now`, `previous` and
`phase` are the context of each call. A turn is suspended in the classifier or in a tool.

## 4. The runs

| Run | What it asks | Instance | States |
|---|---|---|---|
| `call_serial` | what holds when an adapter runs one turn at a time | 4 turns, the whole example graph, a close anywhere | 198,000 |
| `call_concurrent` | what the library promises without such an adapter, that nothing is invented without executors, and that turns and handoffs end | 2 turns at once, callbacks that raise, an executor that may never answer; both executors, or only one for handoffs or none, with and without `dry_run` | 90,000 |
| `speech` | one session's greeting and answer, against all that can cut them | 2 requests of 2 chunks, a model that may raise | 91,000 |
| `web_restart` | nothing of an old session reaches the client of a new one | 2 starts, 2 messages, an end; turns that raise, speech that fails, dropped connections, with and without speech | 607,000 |
| `web_dialogue` | one turn at a time, each with its own events, all served | 2 messages, a filler each, no faults, with and without speech | 163,000 |
| `shadow_queue` | nothing accepted is lost or hidden; every close ends | 3 requests, 2 closers, queue of 2 | 156,000 |
| `live_acceptance` | the experiment implements its record; commands end | 2 freezes and a run, or a freeze and 2 runs; 3 specimens, 3 catalogs, one fault | 242,000 |
| `inference_lanes` | permits, answers, the index, outcomes | 2 requests over each model lane; 2 starts of a retrieval worker with a crash, an edit and 2 moves of the tag; 2 verifications | 226,000 |
| `evidence` | what READY and PASS rest on, what still runs afterwards, whose state a command leaves | 2 commands with an operator change, 2 data sets | 468,000 |
| `evidence_review` | what enters the corpus, what a rewrite of the review keeps | 3 commands with 2 operator changes, 3 data sets | 692,000 |
| `front_ends` | whose speech, frames and callbacks reach whom | 2 connections over 2 ids, 2 iterations over 2 calls, 2 processors | 592,000 |
| `outcome_violation` | an attestation is bound to what was judged: refuted | 1 verification, an owner who writes | 76 |

### 4.1 What they show

A property of a run is often a conjunction of named parts, each with its own comment in the module:

| Property | Parts |
|---|---|
| `ConversationInv` | `ToolStateIsTransient`, `GuardrailRespected` |
| `EverythingEnds` | `TurnsEnd`, `HandoffEndsCall` |
| `SpeechInv`, `CutIsFinal` | `TypeOK`, `SessionBooks`, `WholeUnlessCut`; `NoAudioAfterCancel`, `CancelStopsProducer` |
| `RestartInv`, `EndIsFinal` | `TypeOK`, `AnswersInOrder`; `NoOutputAfterEnd`, `NoTurnForClosedSession` |
| `DialogueInv` | `OneTurnAtATime`, `OwnEventsOnly`, `FillersBeforeAnswer` |
| `QueueInv`, `DrainEnds` | `TypeOK`, `Books`, `WorkerOutlivesErrors`; `AcceptedIsProcessed`, `CloseEnds` |
| `EvidenceInv` | `TypeOK`, `AnswersAreAudited`, `SealCoversEvidence`, `ExitCodeTruthful` |
| `AnswersEarned` | `TypeOK`, `AnswerIsEarned`, `LegalOutcome`, `SatisfiedMeansAll` |
| `IndexSound` | `ServesItsCorpus`, `AdmittedVectors`, `WholeIndex` |
| `BestMatches` | `RankedByAdmitted`, `MatchesAreBest` |
| `RunInv`, `CorpusKept` | `TypeOK`, `NothingLeftRunning`; `OnlyRealTurns`, `ReviewKept` |
| `VerdictEarned` | `GoesAheadOnFacts`, `PassUnderLoad`, `PassIsClean`, `PassIsHeard` |
| `RunConcludes` | `RunEnds`, `StateOfThisRun` |
| `GatewayInv` | `GatewayTypeOK`, `StreamBooks`, `OneFeeder`, `NoIdLocked` |
| `AdapterInv` | `StreamTypeOK`, `FramesComplete`, `StateTold`, `LostOnlyToOrphans` |
| `ProcessorInv` | `LegacyTypeOK`, `NoEarlierCallHears`, `PhaseAtRest` |

*Calls.* However a close, a timeout, a late answer and a second turn interleave, no turn falls back to a
person while its own executor may still act (`NoFallbackBesideLiveExecutor`), work that outlives its wait
is retained until it ends (`LateWorkRetained`), receipts say "delivered" only for a delivery that
returned (`ReceiptsTruthful`), and the tool path never reopens a call (`ToolPathNeverReopens`). With turns
one at a time there is one handoff per call, no executor is entered after the end, the transient
`tool_call` state and `max_turns` are respected.

*Speech.* No chunk passes after a cancel, however many the thread had queued; a cancelled producer queues
at most the chunk it had committed to; uncut speech is whole and in order; `speak()` returns.

*Web.* A message waiting for the lock of a session that is ended or replaced meanwhile begins no turn, and
nothing of the old session is yielded; answers come in the order of their turn numbers; fillers come before
their answer although every turn reads one queue.

*Shadow queue.* A close that saw the queue drained has seen every request accepted before processed, and
goes on only when none of them failed.

*Live acceptance.* Whatever commands run side by side and wherever one is killed, the hash on disk is of the
specimen on disk, no complete file is written again, a valid answer is in the audit, a seal covers exactly
what is there, an exit code of 0 means a sealed PASS, and at most one run has it. `HonestBundle` is an
independent statement of the documented reconciliation rules over the raw values; `RecordSpec` says that the
status that is sealed is the one it gives.

*Lanes.* A deadline may fall anywhere: the permit is out exactly while the inference of its holder is in
flight, every client is answered, and an answer other than the neutral one is of the request's own inference,
which ended before its handler stopped waiting. What is retrieved is held against a reference definition of
"the best passages". A worker never serves the vectors of one corpus with the passages of another, whatever
other starts, edits and a crash did between its reads; the index file is whole unless two rebuilds shared the
temporary file; vectors of another model are served only when the tag went away and came back between the
two looks at it.

*Evidence.* A row enters the corpus only on the operator's last word, or on his assertion that all rows are real
if he did not call it a demo; a rewrite of the review that comes to its end keeps every word, and one that is cut
short can lose some, so that a demo may then enter by an assertion (section 7). READY and PASS rest on this run's corpus
and host, PASS besides on a clean benchmark, on a voice that spoke from the first turn of the benchmark to the last, and
on a witness that heard each session's own line; the last two are given up if the voice of a killed runner was still at
work when the run began. However a physical run fails, its `finally` stops what it started; a runner that is
*killed* leaves its server and its voice running, and only such a runner does. Every command ends, and with a state of its
own unless the input was invalid or one of its children ended within the write of a report.

*Front ends.* Every voiced frame is decoded once, given up once as noise, or still buffered; no stream is
closed with speech in it; two running connections never feed one stream; an id stays locked only by a
connection that dropped or moved on. An iteration of the stream adapter that no other one met yields its
turn's frames completely and in order. Callbacks of a legacy call never reach a processor that started earlier.

### 4.2 Bounds, and why they are enough

- `MCMaxTurns` scales the example's `max_turns` down to 2 and 3, so that the guardrail is reached within
  four turns. Four turns are needed to reach it after a detour that resets the counter; two concurrent
  turns already give every pair of awaits an interleaving, with three intents (a tool of each cancellation
  authority and a handoff). Two deliveries give one that succeeds beside one that fails.
- `Chunks = 2` is the least count with a chunk that is not the last; a second chunk behind a cancel is
  what `NoAudioAfterCancel` needs.
- `MaxFillers = 1` per turn in `web_dialogue`; 0 in `web_restart`, where fillers would only add items
  to a queue whose ownership is already decided by audio and teardowns.
- A queue of 2 for 3 requests is full, and the sentinel competes with requests for its last place.
- `MaxFaults = 1` in `live_acceptance`: one kill, failed write or drift anywhere among three commands, so that
  two of them always meet what the third left. `HashMatchesSpecimen` and `CreateOnly` are proved for any number.
- Two requests are one that holds a permit and one that wants it; two starts are one that rebuilds beside one
  that reads; `MaxMoves = 2` lets a tag leave and come back.
- `MinReal = 1` and `MinPositive = 1` stand in `evidence` for the code's 30 and 59, and one of its two data sets
  suffices, the other has a turn that cannot be loaded. Two commands with a change between them give a stale file of each kind and a killed
  runner's processes beside the next run. In `evidence_review`, `MinPositive = 3` is more than any data set has, so that no
  command gets past the importer: what is left is three rewrites of the review with two edits between them, the least
  with a word that is lost, said again, and read. The two runs split one module because the states of a physical
  run and those of the edits multiply. Proofs hold for any of these numbers.
- `Silence = 2` and `MinSpeech = 2` frames, six messages: an utterance, noise too short to be one, and the rest of
  another. Two iterations over two calls are the least with an orphan of another call.

The `CHECK_DEADLOCK FALSE` of every configuration is there because calls, speeches, sessions,
dispatchers and commands do stop.

### 4.3 Fairness

The event loop runs what is ready, so each suspended coroutine has weak fairness on its own steps. A
thread goes on. What the code cannot force has none: a tool executor may never answer (the turn ends by
its timeout); `Close`, `Message` and the other inputs need not occur; producers may raise but need not.
Deliveries, the classifier and the callbacks are supplied from outside and are awaited without a deadline:
`TurnsEnd` and `HandoffEndsCall` assume that they return or raise. In `WebSession` a turn and a speech
end by the properties `TurnsEnd` and `SpeakEnds` of the modules they abstract. The one-second limit of
the join and the deadlines of `close()` are actions that may be taken whenever the awaited thing has not
happened.

In `LiveAcceptance` every command goes on and a close gives up on an answer that does not come; kills and
drift have no fairness. In `InferenceLanes` threads are scheduled, reads from a model have a deadline, and
`NobodyWaits` needs no answer in time. In `EvidencePipeline` only the program is fair, as every wait of it
has a deadline: the server and the voice process may hang for ever, the operator may stop. In `FrontEnds`
handlers, turns, readers and consumers go on, and connections send when they like. There and in
`EvidencePipeline` one weak fairness of all the program's steps is enough, because its bounds leave it
finitely many.

`DialogueInv` and `MessagesEnd` are checked without faults. A connection that drops its iteration releases
the lock while the turn goes on; a turn that raises leaves its queue reader behind; speech that fails leaves
its audio on the queue (section 7).

## 5. What is proved

Every safety invariant and every action property that a passing run checks is also a theorem, and so is the
refinement of `AcceptanceRecord`. TLAPS checks them for all values of the constants under the named
assumptions, which TLC evaluates in the runs: `ConfigAssumption` and `ModeAssumption` (the call),
`SpeechAssumption`, `WebAssumption`, `QueueAssumption`, `LiveAssumption`, `LaneAssumption`,
`IndexAssumption`, `FileAssumption` and `OutcomeAssumption` (the lanes), `PipelineAssumption`,
`EvidenceAssumption` and `WitnessAssumption` (the evidence), `GatewayAssumption`, `StreamAssumption` and
`LegacyAssumption` (the front ends). A theorem that needs more says so in its statement.

| Theorem | Assumes besides | States |
|---|---|---|
| `TypeCorrect` | | `[]TypeOK` of a call |
| `TaskDiscipline` | | `[]TaskInv` |
| `NoFallbackBesideLiveExecutorHolds`, `LateWorkRetainedHolds` | | the run's properties, for any number of concurrent turns |
| `ToolPathNeverReopensHolds` | | the action property |
| `ReceiptsTruthfulHolds`, `NothingInventedHolds` | | the run's properties, with any executors that may raise, hang or be absent |
| `SerialDiscipline` | `Serial`, `~CallbacksFail` | `[]SerialInv` |
| `OneHandoffPerCallHolds`, `NoToolEntryAfterEndHolds` | `Serial`, `~CallbacksFail` | the run's properties |
| `ConversationSettles` | the same, `OrderlyConfig` | `[]ConversationInv`, any graph of states and any limits |
| `SpeechBooksHold`, `CutsAreFinal` | | `[]SessionBooks`; `CutIsFinal`: any sessions, requests and chunks |
| `SpeechIsWhole` | `OneTurnOneRequest` | `[]SpeechInv` |
| `AnswersInOrderHolds`, `RestartHolds` | | `[]AnswersInOrder`, `[]RestartInv`: any starts, messages, ends, faults |
| `EndsAreFinal` | | `EndIsFinal`, likewise |
| `OneTurnAtATimeHolds` | `~MayDisconnect` | `[]OneTurnAtATime` |
| `DialogueHolds` | `Faultless` | `[]DialogueInv`, any number of messages and fillers |
| `QueueBooks`, `QueueInvHolds` | | `[](TypeOK /\ Books)` and `[]QueueInv` of the dispatcher |
| `DrainedIsDoneHolds` | | `[]DrainedIsDone` |
| `CreatedOnce` | | `CreateOnly`, any number of commands and faults |
| `HashIsOfSpecimen`, `EvidenceBearsOut` | | `[]HashMatchesSpecimen`, `[]EvidenceInv`, likewise |
| `ImplementsRecord` | | `RecordSpec`: every behaviour of the commands is one of `AcceptanceRecord` |
| `PermitBooksHold`, `AnswersEarnedHold` | | the run's properties, any number of requests, any replies |
| `IndexSoundHolds` | | `[]IndexSound`, any number of starts, crashes, edits and moves |
| `BestMatchesHolds` | | `[]BestMatches`, any corpus, scores and settings |
| `PipelineCorrect` | | `[]PipelineInv` |
| `RunnerCleansUp`, `CorpusIsTheOperators` | | `[]RunInv`; `CorpusKept`: any commands, corpora and operator, any writes cut short |
| `VerdictIsEarned`, `StateIsOfThisRun` | | `VerdictEarned`, and the safety part of `RunConcludes` |
| `GatewayKeepsItsBooks`, `EndLosesNothingHolds` | | `[]GatewayInv`, `EndLosesNothing`: any connections, ids and thresholds |
| `ConsumersAreServed` | | `[]AdapterInv`, any iterations and calls |
| `CallsKeepTheirFrames`, `EveryChangeAnnounced` | | `[]ProcessorInv`, `ChangeAnnounced`, any processors |

The additional hypotheses hold of the constants of the runs that check the same property, and are needed:

- `Serial` is what an adapter with a per-session lock gives (`OneTurnAtATime` of `WebSession`), and
  `call_concurrent` runs without it. `OrderlyConfig` is what the shipped graphs have in common: a transition
  to `tool_call`, or back to `previous`, comes with a tool, and an escalation leaves its state.
- `OneTurnOneRequest` says that no two requests share a turn id. The backend's cancel flags are keyed by that
  id alone, and without it uncut speech can lose its end (item 3 of section 7).
- `~MayDisconnect`: an iteration that is dropped releases the lock while its turn goes on.
- `Faultless` is `~MayDisconnect`, no turn that raises and no speech that fails. Each of these leaves a
  reader or audio behind that belongs to the next message (section 7).

### 5.1 The arguments

*The call.* `NoFallbackBesideLiveExecutor` is not inductive: it says nothing of a turn whose executor
still runs but which has not reached its handoff, so the step that begins the fallback may break it. `TaskInv`
adds for every `pc` value which task states are possible, and that only an *uncertain* result lets a turn
go on beside running work; a fallback needs any other failure. With one turn at a time, `SerialInv` adds
that an ended call is at `EXITED` or inside its one handoff: this is what keeps `BeginTurn`'s single
check sufficient, and it fails as soon as turns overlap or `on_transfer` raises. Receipts need `SinkInv`: a turn
before its dispatch has none, and an effect in the world is that of a receipt with its number. `TurnInv`
carries the conversation: a turn starts settled (not in `tool_call`, below the limit), and while its tool runs it
still remembers a state other than `tool_call` to go back to.

*Speech.* `StackInv` holds whatever ids are shared: a stream whose event is set is no longer that of the live
turn, so the gate refuses what its thread had queued. Whole speech needs `UncutInv`: what was passed on, what
is queued, what the thread holds and what the generator has still to make are, put together, the chunks in order.

*The web session.* Five invariants build on each other. `OrderInv`: the line of a session's lock is in the order
of its turn numbers, its head alone is past the lock, and who is past it has every earlier message over. `WorkInv`: the
fillers on a session's queue are no more than its messages could put, which is what `TypeOK` needs. `TurnsInv`: an
iteration that has left its turn's wait has a turn that ended, so the next holder finds none running. `SpokenInv`:
who may be speaking, and that a turn number is given once. `FloorInv` and `ShownInv` carry `DialogueInv`: the
registered session either has one iteration *with the floor*, whose reader, queue, voices and output together hold
exactly what its turn has put, in order (`Told`), or is settled, with nothing queued and nobody speaking. A message
that gets the lock finds a settled session, and leaves one.

*The dispatcher.* `DrainedIsDone` says nothing of the queue; that an unfinished count of zero means that
everything accepted has been processed needs `Books`: the count is the length of the queue plus what is in
hand, and a request that was accepted is queued once, in hand, or processed, and only one of these.
`TypeOK` needs `Books` in turn: without it the count could go below zero. `WorkerOutlivesErrors` needs that
the worker stops only on a sentinel, which only a closer puts (`StopIsAsked`).

*The experiment.* That a complete file is never written again needs that a file being written has one writer
and is partial (`DiskInv`), which exclusive creation gives. That the hash is of the specimen needs that only a
freeze writes either, and `HashInv`: a freeze that stands between its two files finds its own specimen on
disk, so the hash it then writes is of that one, even if another freeze has failed on it meanwhile. `ExperimentInv`
follows a run: the command that is past the creation of the evidence directory is the only one
(`DirectoryInv`), so what it read back is what its own dispatchers wrote, and the bundle it seals is the one on disk.
With it each step is a step of `AcceptanceRecord` or a stutter: the write that completes the specimen is `Freeze`,
the one that completes the seal is `Seal`, and the status sealed is the one `HonestBundle` gives.

*The lanes.* `PermitBooks` relates the permit and one request; the step in which a handler takes the permit
needs that its request has no inference yet, which `PermitInv` adds from where the handler is. `RequestInv`
says of one request what its inference left (`LeftBy`), what the handler may have made of that (`Earned`) and what
the client may have made of the handler's answer (`Returned`); an answer stays earned because what was served is
final. `QueryInv` and `IndexInv` count the moves of the model tag since the first look at it: vectors of another
model with an unmoved tag would need it to be gone and back at once. `FilesInv` says that an index file that
is not torn was renamed whole. That the matches are best is a fact about ranking: a document's place is the
number of those before it plus one, which is a bijection because the order is total; what reaches the bound is then
a prefix, and the two first places tell whether the best is clear. The case that the code decides by a default
shows in the statement: a corpus with one passage in a language has a second score of -1.

*The evidence.* `PipelineInv` says at each point of the one command which of its files and children are this
run's. `NothingLeftRunning` is an invariant because a runner's own processes may run only at the steps whose every exit
is the `finally` or a death that puts the command in `dead`. `ChildrenInv` is what a verdict needs: it says what the ready file, the
voice report and `proof` have to do with this run's voice, but only under `proof.alone`, as a voice that is not of this
run may write the same files. `TornInv` says that a torn report which the command can still read goes back to
a child of this command (`proof.cut`): each report is removed before the child that writes it starts. What the
review says of a row is the operator's word unless it is in `lost`, which only a rewrite cut short can add to.
What is said of lists of any length (that a percentile is reached, that a report
made of several keeps every row) is proved with `LeastBy` and `Inductive`: a set of naturals with 0 and every successor
is all of them. The library's induction theorems cannot be used, as they take an operator.

*The front ends.* That no stream is closed with speech in it is a fact about the step before: a stream that is
about to be closed was flushed, and nothing was fed to it since. `EndedEmpty` says so, and needs `OneFeeder`:
only the connection that ends a stream could have fed it. For the stream adapter, `AloneInv` is a
conservation law: of an iteration that no other has met, what was yielded, what its reader holds and what is queued
are its turn's frames in order. For the legacy conductor, the callbacks are those of the newest processor
(`NewestWired`), so what reaches a call comes from it or from a later one.

Some operators are written as what they return (`RankDocuments`, `NearestRank`, `Put`, `Questions`, `Leave`)
where the code loops or sorts: a recursive definition could not be proved about. TLC evaluates these definitions in
the runs.

## 6. What is only model-checked, and what is not modelled

Liveness (`EverythingEnds`, `SpeakEnds`, `MessagesEnd`, `DrainEnds`, `CommandsEnd`, `NobodyWaits`,
`RunConcludes`'s `RunEnds`, `ComesToRest`) is out of the prover's reach and stays with TLC. So does what the
theorems of section 5 leave out of their hypotheses: `ConversationInv` where turns run side by side or `on_transfer`
may raise is not claimed by any run either. The rules modules (`IntentRules`, `ReflexRules`, `GenerationRules`,
`JevBackend`, `EvidenceRules`, `VoiceWitness`) are exercised by TLC through the runs that use them.

Left out of the modules there are:

- `CallRuntime`: cancelling `process_turn` from outside (no adapter does); an executor that swallows its own
  cancellation (at a timeout `asyncio.wait_for` waits for the executor it cancelled, which could delay the turn or still
  answer; in the model a cancelled executor ends at once); `verify_outcome`, which changes no
  state of the call; texts and metrics; `SchemaLoader`, which loads and validates before a call exists.
- `SpeechStack`: loading the model, opening a session, sample rates and formats.
- `WebSession`: the assistant's line in the history, which no decision reads. Asking for a free lock and
  getting it are two steps in the model, one in the code: the model has more behaviours.
- `LiveAcceptance`: a commit between the two `git` calls that inspect the checkout (one step here); latency figures and the wording of reports; a kill is of the command with its threads.
- `InferenceLanes`: fitting a temperature and the calibration error (floating point); HTTP and JSON framing;
  the syntax of endpoints. Cosine similarity is an input: a score for each document.
- `EvidencePipeline`: hashing, redaction, the digest of the decision contract; a change of the model's weight
  between preflight and admission is not noticed by the code, nor asked of it. A kill is of the command with
  the child it waits for: a command that is killed alone, whose child goes on by itself, is left out, and so is the admission
  child of a killed runner. `_terminate` is taken to succeed. A kill within the write of the state file
  leaves that file torn, which no program reads.
- `VoiceWitness`: the realtime factor, resampling, the language table.
- `AudioGateway`: JSON and base64 framing, sample rates. What the decoder hears is external: words, none, or an
  exception that ends the connection's handler.
- `LegacyConductor`: a second `start_call` on one processor, barge-in and silence (which keep no state).

Not modelled at all: the examples that only assemble components, and the deterministic backends that only
tests use.

## 7. Where code and statements disagree

`outcome_violation` is a run that TLC refutes: `outcome_jev.py:80` reads the hash of a mutable result after
the verifier was awaited, and `outcome.py:190` hashes it again, so a result that its owner changes meanwhile is
attested with findings about its earlier content; `outcome.py:127` and `docs/outcome-attestation-v0.md:27`
say that an attestation is bound to the bytes it judged.

Five more disagreements are stated by definitions under "What the repository says and the code does not
keep". They are in no run; adding the property to the named configuration shows the behaviour.

1. `ClosureIsMonotonic` (`call_concurrent`): a handoff's phase writes (`runtime.py:275`, `316`) undo a close that
   lands while it is awaited; `integrations/web_session.py:127` says that closure is monotonic.
2. `NoDeliveryRetried` (`call_concurrent`, with `Serial = TRUE` too): after an `on_transfer` that raised, the next turn delivers again
   (`runtime.py:329`); its comment at 300 says "No automatic retries".
3. `NoInheritedCancel` (`speech`, with the `TwoSession...` constants of `MCSpeechStack`): the end of a session
   whose greeting had finished leaves a cancel flag under a turn id that the next session's greeting uses
   (`tts/worker.py:57`, against its comment at 112).
4. `NoStaleAudio` (`web_dialogue`): audio accepted before a barge-in is sent after it
   (`integrations/web_session.py:354`, against `docs/wt-voice-tts-001.md:13`).
5. `AnswerIsSpoken` (`web_dialogue`): a turn that ends while its filler is spoken cancels a newer message's turn,
   whose answer stays silent (`integrations/web_session.py:264`, against 44).

Observed while modelling, with no statement of the repository to hold them against.

Calls and speech:

- a close during the bridge filler of a fallback handoff does not stop its deliveries (`runtime.py:281-285`);
- `on_filler` raising inside the tool bridge leaves the call in `tool_call` (`runtime.py:120`);
- `tool_results` keeps an earlier success after a later failure of the same tool (`runtime.py:170`);
- in the example's graph a caller who only objects never reaches the escalation announced at
  `examples/real_estate_agent.yaml:105`, because `*` at line 103 leads out of the state and back;
- a turn that raises leaves its queue reader, which swallows the next turn's first filler
  (`integrations/web_session.py:262`); speech that fails leaves its audio on the session's queue, and the next
  message shows it (`346`); a connection that drops releases the session's lock while its turn goes on (`163`).

Front ends:

- a `start` opens the ASR stream before the adapter can reject it, a second `start` leaves the first stream and
  its id, a connection that drops releases nothing (`integrations/gateway.py:45`, `72`);
- a connection's handler is serial, so a voice barge-in is not read while an answer is being sent, and the
  decoder blocks the event loop; utterance ids restart at `u1`; the default microphone rate of 24000 is refused
  by the decoder's 16000;
- turns of one call have no lock in the stream adapter; an abandoned iteration's turn goes on and its frames
  go to the next iteration, and a reader left behind takes frames (`integrations/runtime_stream.py:101`);
- Pipecat sends a filler and a handoff frame twice, repeats a state-change frame on each turn that leaves the
  state as it is after a change, goes on with a call that exited, and a tool call that is cancelled leaves the
  phase pending (`integrations/pipecat.py:129`).

Evidence:

- a request dispatched between `close()`'s last check and its sentinel is accepted and never processed, and a
  second `close()` after one that failed returns as if the worker had stopped (`reflex/jev_live.py:99`, `122`);
- the importer rewrites the operator's review with a plain write (`examples/import_legacy_reflex_corpus.py:225`): a
  death inside it loses decisions, and a row that was called a demo may then enter by `--assert-replays-are-real-calls`;
- the summary, the preflight report and the physical report are plain writes too (`228` there,
  `examples/run_reflex_physical_admission.py:54`): a child that dies inside one leaves a file that exists and cannot be
  parsed, so the command raises (`examples/run_reflex_evidence_acquisition.py:84`, `94`, `115`, `136`) and the state
  of the earlier command stays;
- the runner stops its processes in a `finally` (`examples/run_reflex_physical_admission.py:384`), which a SIGKILL or a
  SIGTERM with its default action skips: the server then holds the port, which blocks the next preflight, and once it has
  gone a voice that is still at work may create the next run's ready file and report;
- a summary that says `TEST_INVALID` makes the classification raise, and the state of the earlier command stays;
- one corpus row above 3072 bytes refuses the whole corpus;
- a crosstalk transcript that is below its own session's floor may still pass.

## 8. Plan

The modules of the first plan are written and their safety properties proved. What is left:

1. The compositions that are now argued in words (section 2): that a turn of `WebSession` is an abstraction of one of
   `CallRuntime`, and its `talk` one of a stream of `SpeechStack`, each as a refinement like `RecordSpec`.
2. Lemmas on the decision rules for all inputs: a decision of `ReflexRules` and a verdict of `JevBackend` fail
   closed, a PASS of `VoiceWitness` has every witness above its floor.
3. Weaker hypotheses where a smaller one would do: which part of `DialogueInv` survives a turn that raises.

Liveness stays with TLC.
