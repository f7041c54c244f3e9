--------------------------- MODULE InferenceLanes ---------------------------
(***************************************************************************)
(* The model lanes a deployment may have, each a client with a deadline,   *)
(* a handler and an inference that may outlive both:                       *)
(*                                                                         *)
(*   intent    KernelIntentClassifier -> IntentWorkerServer -> IntentWorker*)
(*   calibrated  the same with IntentWorker(calibration=...)               *)
(*   reflex    ReflexGate -> LocalSchemaBackend                            *)
(*   generate  RemoteWorkerGenerationAdapter -> BonsaiWorkerServer         *)
(*             -> OpenAICompatInferenceBackend                             *)
(*   retrieve  a caller -> RetrievalWorkerServer -> RetrievalWorker        *)
(*   starts    the starts of retrieval workers, which RetrievalIndex models*)
(*   outcome   the gate over a verifier, which OutcomeAttestation models   *)
(*                                                                         *)
(* A request has three program counters: its client, its handler (`job')   *)
(* and its inference (`run').  Deadlines may pass at any moment.  Lanes    *)
(* share nothing, so a behaviour has one of them.  `busy' is that lane's   *)
(* one permit: _busy of IntentWorker (taken by the handler, given back by  *)
(* the thread), _busy of LocalSchemaBackend (taken and given back by the   *)
(* thread), _inference_slot of RetrievalWorker (taken and given back by    *)
(* the handler).  The generate lane has none.                              *)
(***************************************************************************)
EXTENDS RetrievalIndex, OutcomeAttestation, IntentRules, ReflexRules, GenerationRules

CONSTANTS
  Requests,
  NoOne,
  Lanes,         \* the lanes a deployment may have
  Asks,          \* lane -> what a client may ask
  Replies,       \* lane -> what its model may answer
  IntentConfig,  \* of the worker: min_confidence, artifact; of the client: gate
  WorkClient,    \* worker and slot the generation adapter is bound to
  WorkServer,    \* id and slot of the worker behind the endpoint
  Retriever,     \* documents and settings of the serving RetrievalWorker
  FleetConfig    \* the fleet section of the runtime's configuration

ASSUME LaneAssumption ==
  /\ NoOne \notin Requests
  /\ Lanes \subseteq {"intent", "calibrated", "reflex", "generate", "retrieve", "starts", "outcome"}
  /\ ValidWorker(IntentConfig) /\ ValidRetriever(Retriever)
  /\ \A l \in Lanes \cap {"intent", "calibrated"} :
       \A a \in Asks[l] : a.intents \in Seq(ToSet(a.intents))
  /\ "calibrated" \in Lanes =>
       \A v \in Replies["calibrated"] : \A o \in DOMAIN v.mass : v.mass[o] \in 0..10
  /\ "retrieve" \in Lanes =>
       LET listed == ToSet(Retriever.documents) IN
       /\ Retriever.documents \in Seq(listed)
       /\ \A d, e \in listed : d.id \in Nat /\ (d.id = e.id => d = e)
       /\ \A v \in Replies["retrieve"] : \A d \in listed : v[d.id] \in -100..100

VARIABLES
  lane,     \* the deployed lane
  client,   \* request -> "idle", "waiting", "done"
  ask,      \* request -> what it asks
  job,      \* request -> "none", "arrived", "joining", "replied", "cancelled"
  run,      \* request -> its inference
  out,      \* request -> what the inference left: <<>> or <<result>>
  reply,    \* request -> what the handler answered: <<>> or <<answer>>
  ans,      \* request -> what the client returned: <<>> or a tagged tuple
  busy,     \* the request that holds the permit, or NoOne
  verified, \* LocalSchemaBackend._schema_verified
  begun     \* request -> moves of the tag at the first look at the digest

clientVars == <<client, ask, ans>>
jobVars == <<job, reply>>
runVars == <<run, out, begun>>
laneVars == <<lane, clientVars, jobVars, runVars, busy, verified>>
partVars == <<indexVars, outcomeVars>>
vars == <<partVars, laneVars>>

IntentLane == lane \in {"intent", "calibrated"}

InFlight == {"running", "produced", "verify", "embed", "reverify"}

Init ==
  /\ IndexInit /\ OutcomeInit
  /\ lane \in Lanes
  /\ lane \in {"intent", "calibrated"} => FleetOf(FleetConfig).classifier
  /\ lane = "generate" => FleetOf(FleetConfig).generator = "remote"
  /\ lane # "outcome" => verifier = [c \in Checks |-> "jev"] /\ result \in Serializable
  /\ lane # "starts" => rebuild = [b \in Boots |-> FALSE]
  /\ client = [r \in Requests |-> "idle"]
  /\ ask = [r \in Requests |-> <<>>]
  /\ job = [r \in Requests |-> "none"]
  /\ run = [r \in Requests |-> "none"]
  /\ out = [r \in Requests |-> <<>>]
  /\ reply = [r \in Requests |-> <<>>]
  /\ ans = [r \in Requests |-> <<>>]
  /\ busy = NoOne
  /\ verified = FALSE
  /\ begun = [r \in Requests |-> 0]

-----------------------------------------------------------------------------
(* A client sends its request.                                             *)
Ask(r) ==
  /\ client[r] = "idle" /\ lane \notin {"starts", "outcome"}
  /\ \E a \in Asks[lane] : ask' = [ask EXCEPT ![r] = <<a>>]
  /\ client' = [client EXCEPT ![r] = "waiting"]
  /\ job' = [job EXCEPT ![r] = "arrived"]
  /\ UNCHANGED <<partVars, lane, ans, reply, runVars, busy, verified>>

Reply(r, answer) ==
  /\ job' = [job EXCEPT ![r] = "replied"]
  /\ reply' = [reply EXCEPT ![r] = <<answer>>]

(* The handler starts an inference and waits for it.                       *)
Start(r, at) ==
  /\ job' = [job EXCEPT ![r] = "joining"]
  /\ run' = [run EXCEPT ![r] = at]
  /\ UNCHANGED reply

(* do_POST, classify and _bounded up to thread.start(): a bad request and  *)
(* a busy worker are answered "unknown" at once.                           *)
IntentArrives(r) ==
  /\ IntentLane /\ job[r] = "arrived"
  /\ IF /\ Framed(ask[r][1]) /\ ValidAsk(ask[r][1])
        /\ Fits(ask[r][1], lane = "calibrated")
        /\ busy = NoOne
     THEN busy' = r /\ Start(r, "running")
     ELSE Reply(r, Unknown) /\ UNCHANGED <<busy, run>>
  /\ UNCHANGED <<partVars, lane, clientVars, out, begun, verified>>

(* The task of the gate runs backend.classify up to asyncio.to_thread.     *)
ReflexArrives(r) ==
  /\ lane = "reflex" /\ job[r] = "arrived"
  /\ IF verified /\ ValidTranscript(ask[r][1])
     THEN Start(r, "queued")
     ELSE Reply(r, <<>>) /\ UNCHANGED run
  /\ UNCHANGED <<partVars, lane, clientVars, out, begun, busy, verified>>

(* handle_work_request up to thread.start(): no permit is asked for.       *)
WorkArrives(r) ==
  /\ lane = "generate" /\ job[r] = "arrived"
  /\ IF ValidWork(ask[r][1], WorkServer)
     THEN Start(r, "running")
     ELSE Reply(r, WorkError) /\ UNCHANGED run
  /\ UNCHANGED <<partVars, lane, clientVars, out, begun, busy, verified>>

(* _response: no matches make it a "no_match".                             *)
Response(outcome, matches) ==
  [outcome |-> IF outcome = "ok" /\ matches = <<>> THEN "no_match" ELSE outcome,
   matches |-> matches]

(* retrieve up to client.embed: a query of subject terms only matches      *)
(* nothing and asks for no slot; an occupied slot is an error at once.     *)
RetrieveArrives(r) ==
  /\ lane = "retrieve" /\ job[r] = "arrived"
  /\ LET q == ask[r][1] IN
       IF ~ValidQuery(q) THEN Reply(r, Response("refused", <<>>)) /\ UNCHANGED <<busy, run>>
       ELSE IF q.text = "terms" THEN Reply(r, Response("ok", <<>>)) /\ UNCHANGED <<busy, run>>
       ELSE IF busy # NoOne THEN Reply(r, Response("busy", <<>>)) /\ UNCHANGED <<busy, run>>
       ELSE busy' = r /\ Start(r, "verify")
  /\ UNCHANGED <<partVars, lane, clientVars, out, begun, verified>>

-----------------------------------------------------------------------------
(* The reflex thread takes the permit itself, or raises.                   *)
ReflexAcquires(r) ==
  /\ run[r] = "queued"
  /\ IF busy = NoOne THEN busy' = r /\ run' = [run EXCEPT ![r] = "running"]
                     ELSE run' = [run EXCEPT ![r] = "ended"] /\ UNCHANGED busy
  /\ UNCHANGED <<partVars, lane, clientVars, jobVars, out, begun, verified>>

(* What an inference leaves: the answer, and the context the model saw.    *)
Left(r, v) ==
  [by |-> r, said |-> v, model |-> tag, moved |-> FALSE,
   prompt |-> IF lane = "generate" THEN Prompted(ask[r][1]) ELSE {}]

(* The model answers, or the request to it fails.  The generate lane's     *)
(* thread has no permit to give back.                                      *)
BugInfer(r) ==
  /\ run[r] = "running"
  /\ \E v \in Replies[lane] :
       out' = [q \in Requests |-> IF run[q] \in {"running", "ended"}
                                  THEN <<Left(r, v)>> ELSE out[q]]
  /\ run' = [run EXCEPT ![r] = IF lane = "generate" THEN "ended" ELSE "produced"]
  /\ UNCHANGED <<partVars, lane, clientVars, jobVars, begun, busy, verified>>

Infer(r) ==
  /\ run[r] = "running"
  /\ \/ UNCHANGED out
     \/ \E v \in Replies[lane] : out' = [out EXCEPT ![r] = <<Left(r, v)>>]
  /\ run' = [run EXCEPT ![r] = IF lane = "generate" THEN "ended" ELSE "produced"]
  /\ UNCHANGED <<partVars, lane, clientVars, jobVars, begun, busy, verified>>

(* The finally of the thread (of the handler, in the retrieve lane).       *)
Release(r) ==
  /\ run[r] = "produced"
  /\ run' = [run EXCEPT ![r] = "ended"]
  /\ busy' = NoOne
  /\ UNCHANGED <<partVars, lane, clientVars, jobVars, out, begun, verified>>

(* embed() of the query: the digest, the vectors, the digest again.        *)
VerifyQuery(r) ==
  /\ run[r] = "verify"
  /\ begun' = [begun EXCEPT ![r] = moves]
  /\ run' = [run EXCEPT ![r] = IF tag = Admitted THEN "embed" ELSE "produced"]
  /\ UNCHANGED <<partVars, lane, clientVars, jobVars, out, busy, verified>>

EmbedQuery(r) ==
  /\ run[r] = "embed"
  /\ \/ /\ run' = [run EXCEPT ![r] = "reverify"]
        /\ \E v \in Replies[lane] :
             out' = [out EXCEPT ![r] = <<Left(r, v)>>]
     \/ run' = [run EXCEPT ![r] = "produced"] /\ UNCHANGED out
  /\ UNCHANGED <<partVars, lane, clientVars, jobVars, begun, busy, verified>>

ReverifyQuery(r) ==
  /\ run[r] = "reverify"
  /\ run' = [run EXCEPT ![r] = "produced"]
  /\ out' = [out EXCEPT ![r] = IF tag # Admitted THEN <<>>
               ELSE <<[out[r][1] EXCEPT !.moved = moves >= begun[r] + 2]>>]
  /\ UNCHANGED <<partVars, lane, clientVars, jobVars, begun, busy, verified>>

(* verify_schema_enforcement, which takes no permit.                       *)
VerifySchema ==
  /\ lane = "reflex" /\ ~verified
  /\ \E answer \in {"sentinel", "free text"} : verified' = ProbePassed(answer)
  /\ UNCHANGED <<partVars, lane, clientVars, jobVars, runVars, busy>>

-----------------------------------------------------------------------------
(* thread.join(timeout_s), is_alive and the rules over the result: a       *)
(* thread that has not ended by then counts for nothing.                   *)
Classified(r) ==
  LET said == out[r][1].said IN
  IF run[r] # "ended" \/ out[r] = <<>> THEN Unknown
  ELSE IF ~Delivered(said) THEN Unknown
  ELSE IF lane = "intent"
       THEN Accept(ask[r][1], said, IntentConfig.min_confidence)
       ELSE AcceptCalibrated(ask[r][1], said.mass, IntentConfig.artifact[1],
                             IntentConfig.min_confidence)

BugIntentReplies(r) ==
  /\ IntentLane /\ job[r] = "joining"
  /\ Reply(r, Classified(r))
  /\ busy' = NoOne
  /\ UNCHANGED <<partVars, lane, clientVars, runVars, verified>>

IntentReplies(r) ==
  /\ IntentLane /\ job[r] = "joining"
  /\ Reply(r, Classified(r))
  /\ UNCHANGED <<partVars, lane, clientVars, runVars, busy, verified>>

(* The backend coroutine returns a validated proposal, or raises.          *)
ReflexReplies(r) ==
  /\ lane = "reflex" /\ job[r] = "joining" /\ run[r] = "ended"
  /\ Reply(r, IF out[r] # <<>> /\ ValidEnvelope(out[r][1].said) /\ ValidProposal(out[r][1].said)
              THEN <<out[r][1].said>> ELSE <<>>)
  /\ UNCHANGED <<partVars, lane, clientVars, runVars, busy, verified>>

(* join(deadline): alive, failed or blank is an error, never an answer.    *)
Worked(r) ==
  IF run[r] # "ended" \/ out[r] = <<>> THEN WorkError
  ELSE IF out[r][1].said = "blank" THEN WorkError
  ELSE WorkReply(ask[r][1], WorkServer, out[r][1].said)

BugWorkReplies(r) ==
  /\ lane = "generate" /\ job[r] = "joining" /\ run[r] = "ended"
  /\ Reply(r, Worked(r))
  /\ UNCHANGED <<partVars, lane, clientVars, runVars, busy, verified>>

WorkReplies(r) ==
  /\ lane = "generate" /\ job[r] = "joining"
  /\ Reply(r, Worked(r))
  /\ UNCHANGED <<partVars, lane, clientVars, runVars, busy, verified>>

(* The rest of retrieve: the ranking decides between matches and none.     *)
RetrieveReplies(r) ==
  /\ lane = "retrieve" /\ job[r] = "joining" /\ run[r] = "ended"
  /\ Reply(r, IF out[r] = <<>> THEN Response("backend", <<>>)
              ELSE Response("ok", Matches(Retriever.documents, out[r][1].said,
                                          ask[r][1].language, Retriever)))
  /\ UNCHANGED <<partVars, lane, clientVars, runVars, busy, verified>>

-----------------------------------------------------------------------------
(* What each client makes of the answer, and of its absence.               *)
Read(r) ==
  LET a == reply[r][1] IN
  CASE IntentLane        -> <<"intent", ClientReads(a, IntentConfig.gate)>>
    [] lane = "reflex"   -> <<"gate", IF a = <<>> THEN Fallback("backend_error")
                                                  ELSE OkDecision(a[1])>>
    [] lane = "generate" -> IF ClientTakes(a, WorkClient, ask[r][1].request_id)
                            THEN <<"text", a.text>> ELSE <<"raised", "">>
    [] lane = "retrieve" -> <<"http", HttpStatus(a.outcome), a.matches>>

Missing ==
  CASE IntentLane        -> <<"intent", "unknown">>
    [] lane = "reflex"   -> <<"gate", Fallback("timeout")>>
    [] lane = "generate" -> <<"raised", "">>
    [] lane = "retrieve" -> <<"http", 0, <<>>>>

Return(r, value) ==
  /\ client' = [client EXCEPT ![r] = "done"]
  /\ ans' = [ans EXCEPT ![r] = value]

Receive(r) ==
  /\ client[r] = "waiting" /\ job[r] = "replied"
  /\ Return(r, Read(r))
  /\ UNCHANGED <<partVars, lane, ask, jobVars, runVars, busy, verified>>

(* An HTTP client gives up; nothing tells the server.                      *)
GiveUp(r) ==
  /\ lane # "reflex" /\ client[r] = "waiting"
  /\ Return(r, Missing)
  /\ UNCHANGED <<partVars, lane, ask, jobVars, runVars, busy, verified>>

(* The gate's deadline cancels the task.  A thread that is still queued    *)
(* never starts; one that runs goes on with the permit.                    *)
GateTimeout(r) ==
  /\ lane = "reflex" /\ client[r] = "waiting" /\ job[r] # "replied"
  /\ Return(r, Missing)
  /\ job' = [job EXCEPT ![r] = "cancelled"]
  /\ run' = [run EXCEPT ![r] = IF run[r] = "queued" THEN "ended" ELSE run[r]]
  /\ UNCHANGED <<partVars, lane, ask, reply, out, begun, busy, verified>>

(* The gate's caller is cancelled: CancelledError passes the gate's        *)
(* except and the task goes on alone.                                      *)
CallerCancelled(r) ==
  /\ lane = "reflex" /\ client[r] = "waiting"
  /\ Return(r, <<"cancelled", "">>)
  /\ UNCHANGED <<partVars, lane, ask, jobVars, runVars, busy, verified>>

Handle(r) ==
  \/ IntentArrives(r) \/ ReflexArrives(r) \/ WorkArrives(r) \/ RetrieveArrives(r)
  \/ IntentReplies(r) \/ ReflexReplies(r) \/ WorkReplies(r) \/ RetrieveReplies(r)
  \/ Receive(r)

Think(r) ==
  \/ ReflexAcquires(r) \/ Infer(r) \/ Release(r)
  \/ VerifyQuery(r) \/ EmbedQuery(r) \/ ReverifyQuery(r)

LanesNext ==
  \/ \E r \in Requests : \/ Ask(r) \/ Handle(r) \/ Think(r)
                         \/ GiveUp(r) \/ GateTimeout(r) \/ CallerCancelled(r)
  \/ VerifySchema

Next ==
  \/ LanesNext
  \/ lane = "starts" /\ IndexNext /\ UNCHANGED <<outcomeVars, laneVars>>
  \/ lane = "retrieve" /\ MoveTag /\ UNCHANGED <<outcomeVars, laneVars>>
  \/ lane = "outcome" /\ OutcomeNext /\ UNCHANGED <<indexVars, laneVars>>

Spec == Init /\ [][Next]_vars

(* Threads are scheduled.  Every read of a model is bounded in bytes and   *)
(* each of its socket operations in time, so an inference ends - except in *)
(* the generate lane, whose backend reads without a byte bound.            *)
FairSpec ==
  /\ Spec
  /\ WF_vars(\E r \in Requests : Handle(r))
  /\ WF_vars(lane # "generate" /\ \E r \in Requests : Think(r))
  /\ WF_vars(lane = "starts" /\ (\E b \in Boots : Boot(b)) /\ UNCHANGED <<outcomeVars, laneVars>>)
  /\ WF_vars(lane = "outcome" /\ (\E c \in Checks : VerifyOutcome(c)) /\ UNCHANGED <<indexVars, laneVars>>)

-----------------------------------------------------------------------------
TypeOK ==
  /\ lane \in Lanes
  /\ client \in [Requests -> {"idle", "waiting", "done"}]
  /\ job \in [Requests -> {"none", "arrived", "joining", "replied", "cancelled"}]
  /\ run \in [Requests -> InFlight \cup {"none", "queued", "ended"}]
  /\ busy \in Requests \cup {NoOne}
  /\ verified \in BOOLEAN
  /\ begun \in [Requests -> 0..MaxMoves]
  /\ pc \in [Boots -> {"start", "inventory", "verify", "embed", "reverify", "open", "write",
                       "replace", "load", "serving", "failed"}]

(* "A timed-out inference keeps its concurrency permit until its socket    *)
(* finishes": where there is a permit, its holder is the one request whose *)
(* inference is in flight, whatever happened to its client and handler, so *)
(* it is given back exactly once and never by another.                     *)
PermitBooks ==
  lane # "generate" => \A r \in Requests : (busy = r) = (run[r] \in InFlight)

(* Nothing but this request's own inference, ended before the handler or   *)
(* the gate stopped waiting, makes an answer other than the neutral one.   *)
Substantive(a) ==
  CASE a[1] = "intent" -> a[2] # "unknown"
    [] a[1] = "gate"   -> a[2].status = "ok"
    [] a[1] = "http"   -> a[2] = 200
    [] OTHER           -> a[1] = "text"

AnswerIsEarned ==
  \A r \in Requests : client[r] = "done" =>
    (Substantive(ans[r]) =>
       /\ job[r] = "replied" /\ run[r] = "ended"
       /\ out[r] # <<>> /\ out[r][1].by = r
       /\ lane = "generate" => ans[r][2] = out[r][1].said /\ ans[r][2] # "blank")

(* End to end the runtime sees a legal intent or "unknown", though its     *)
(* client never compares the answer with the list it sent; a decision of   *)
(* the gate is shaped as GateDecision demands; and the generation model    *)
(* saw no field of the context but the five, and no credential.            *)
LegalOutcome ==
  \A r \in Requests :
    /\ client[r] = "done" /\ IntentLane => ans[r][2] \in ToSet(ask[r][1].intents) \cup {"unknown"}
    /\ client[r] = "done" /\ ans[r][1] = "gate" =>
         WellShaped(ans[r][2]) /\ (ans[r][2].status = "ok" => verified)
    /\ out[r] # <<>> => out[r][1].prompt \subseteq ContextFields \cup {"system_prompt"}

(* What is retrieved is what the corpus has best: passages in the language *)
(* of the query that reach the bound, none of them worse than one left     *)
(* out, and nothing at all when the two best are too close to call; a      *)
(* second that is missing counts as the lowest score.                      *)
MatchesAreBest ==
  \A r \in Requests :
    (lane = "retrieve" /\ client[r] = "done" /\ out[r] # <<>> /\ ans[r][2] \in {200, 404}) =>
      LET score == out[r][1].said
          mine == {d \in ToSet(Retriever.documents) : d.language = ask[r][1].language}
          good == {d \in mine : score[d.id] >= Retriever.min_score}
          found == ToSet(ans[r][3])
          Close(d, e) == d # e /\ score[e.id] > score[d.id] - Retriever.min_margin
          clear == \E d \in good : /\ score[d.id] - Retriever.min_margin >= -100
                                   /\ \A e \in mine : score[e.id] <= score[d.id] /\ ~Close(d, e)
      IN  IF clear THEN /\ found \subseteq good
                        /\ Cardinality(found) = Min({Retriever.top_k, Cardinality(good)})
                        /\ \A d \in found, e \in mine \ found : score[d.id] >= score[e.id]
                   ELSE found = {}

(* A match is ranked with a query vector of the admitted model, unless the *)
(* tag left and came back between the two looks at its digest.             *)
RankedByAdmitted ==
  \A r \in Requests : (lane = "retrieve" /\ client[r] = "done" /\ ans[r][2] \in {200, 404})
    => out[r] = <<>> \/ out[r][1].model = Admitted \/ out[r][1].moved

(* Every answer of a lane, and every verdict on an outcome, was earned.     *)
AnswersEarned == TypeOK /\ AnswerIsEarned /\ LegalOutcome /\ SatisfiedMeansAll

(* What is retrieved was ranked by the admitted model, and is the best.    *)
BestMatches == RankedByAdmitted /\ MatchesAreBest

(* Nobody waits for ever: every request is answered, every start of a      *)
(* worker ends and every verification returns or raises; and the permit    *)
(* comes back, also when its client and handler are gone.                  *)
Settled ==
  /\ busy = NoOne
  /\ \A r \in Requests : client[r] # "waiting"
  /\ lane = "starts" => \A b \in Boots : pc[b] \in {"serving", "failed"}
  /\ lane = "outcome" => \A c \in Checks : step[c] \in {"attested", "raised"}

NobodyWaits == <>[]Settled
=============================================================================
