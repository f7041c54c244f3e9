--------------------------- MODULE LiveAcceptance ---------------------------
(***************************************************************************)
(* The frozen acceptance experiment (reflex/jev_live.py, the command line  *)
(* of examples/run_jev_live_001.py): processes that freeze a specimen, and *)
(* processes that run it against both providers and seal the evidence.     *)
(*                                                                         *)
(* They share a disk.  Every file is created exclusively and then written, *)
(* in two steps, and a process may be killed between any two steps.  The   *)
(* account's model catalog and the checkout may change at any time.  The   *)
(* shadow dispatcher's own steps are the subject of ShadowQueue: here it   *)
(* is a count of requests and a worker that answers them in order.         *)
(***************************************************************************)
EXTENDS JevBackend

CONSTANTS
    Freezers, Runners,  \* processes: `freeze` and `run` commands
    Teams,              \* bound: sets of processes that work at once
    Templates,          \* contents the specimen template may have
    Catalogs, Models,   \* catalogs, and Models[c]: the names a catalog lists
    JevNames,           \* the names that start with "jev-", in order
    Requested,          \* Requested[f]: --model of a freeze, None or <<name>>
    Commits,            \* what HEAD may be; Dirty is a checkout with changes
    Dirty,
    Outcomes,           \* Outcomes[n]: what a call to provider n may come to
    MaxRuns,            \* runs_per_provider is at most 50 in the code
    MaxFaults           \* bound on faults: kills, writes and calls that fail,
                        \* changes of the catalog and of the checkout

ASSUME LiveAssumption ==
    /\ Freezers \cap Runners = {}
    /\ MaxRuns \in Nat /\ MaxFaults \in Nat
    /\ Dirty \notin Commits

Processes == Freezers \cup Runners
Providers == <<"typesafe", "vercel-typesafe">>
ProviderNames == {"typesafe", "vercel-typesafe"}

(* The files of the evidence directory, and the two of freeze_specimen.    *)
Bundle == ProviderNames \cup {"frozen-specimen", "model-catalog-pre",
            "provider-results", "model-catalog-post", "reconciliation"}
Files  == Bundle \cup {"seal", "specimen", "specimen.sha256"}

VARIABLES
    template,         \* the specimen template
    catalog, commit,  \* the account's models, the checkout
    faults,     \* faults so far
    outDir,     \* the evidence directory exists
    disk,       \* per file: "absent", "partial" or "complete"
    content,    \* per file: what was written
    pc,         \* where each process is
    mem,        \* the local variables of each process
    provider,   \* per runner: the provider its shadow worker asks
    left        \* per runner: requests the worker has yet to answer

world == <<catalog, commit>>
files == <<outDir, disk, content>>
worker == <<provider, left>>
vars  == <<template, world, faults, files, pc, mem, worker>>

Locals == [specimen |-> None, copy |-> None, pre |-> None, post |-> None,
           results |-> [n \in ProviderNames |-> <<>>],
           report |-> None, seal |-> None]

Init ==
    /\ template \in Templates
    /\ catalog \in Catalogs
    /\ commit \in Commits \cup {Dirty}
    /\ faults = 0
    /\ outDir = FALSE
    /\ disk = [f \in Files |-> "absent"]
    /\ content = [f \in Files |-> None]
    /\ \E team \in Teams :
          pc = [p \in Processes |-> IF p \notin team THEN <<"killed">>
                                    ELSE IF p \in Freezers THEN <<"checkout">> ELSE <<"load">>]
    /\ mem = [p \in Processes |-> Locals]
    /\ provider = [r \in Runners |-> Providers[1]]
    /\ left = [r \in Runners |-> 0]

-----------------------------------------------------------------------------
(* Specimens *)

(* _parse_questions: what a specimen must say of its questions; not quite  *)
(* what the backend can encode.                                            *)
ValidQuestion(q) ==
    /\ q.kind \in QuestionKinds
    /\ q.kind = "choice" => q.options # <<>>
    /\ q.kind = "score"  => q.levels \in 2..10
    /\ q.kind = "noul"   => q.threshold # None /\ q.threshold[1] \in 0..100

ValidQuestions(questions) ==
    /\ questions # <<>>
    /\ Cardinality(Keys(questions)) = Len(questions)
    /\ \A i \in DOMAIN questions : ValidQuestion(questions[i])

ValidName(model) == model \in Range(JevNames)

(* load_frozen_specimen. *)
ValidSpecimen(s) ==
    /\ ValidName(s.model)
    /\ s.model_catalog_sha256 = s.model_catalog
    /\ s.model \in Models[s.model_catalog]
    /\ s.template.providers = Providers
    /\ s.template.runs_per_provider \in 1..MaxRuns
    /\ s.source_commit \in Commits
    /\ ValidQuestions(s.template.questions)

(* select_catalog_model: the name asked for, the alias, or the last name.  *)
SelectedModel(c, requested) ==
    LET named == {i \in DOMAIN JevNames : JevNames[i] \in Models[c]}
    IN  IF requested # None
          THEN IF ValidName(requested[1]) /\ requested[1] \in Models[c] THEN requested ELSE None
        ELSE IF "jev-latest" \in Models[c] THEN <<"jev-latest">>
        ELSE IF named = {} THEN None
        ELSE <<JevNames[CHOOSE i \in named : \A j \in named : j <= i]>>

-----------------------------------------------------------------------------
(* Steps every process takes *)

Fault == faults < MaxFaults /\ faults' = faults + 1
NoFault == UNCHANGED faults

Goto(p, stage) == pc' = [pc EXCEPT ![p] = stage]
Fail(p)        == Goto(p, <<"failed">>)
Set(p, name, value) == mem' = [mem EXCEPT ![p][name] = value]

(* What follows the write of a file. *)
After(file) ==
    IF file = "specimen" THEN <<"create", "specimen.sha256">>
    ELSE IF file = "specimen.sha256" THEN <<"reload">>
    ELSE IF file = "frozen-specimen" THEN <<"create", "model-catalog-pre">>
    ELSE IF file = "model-catalog-pre" THEN <<"dispatch", "typesafe">>
    ELSE IF file = "provider-results" THEN <<"rediscover">>
    ELSE IF file = "model-catalog-post" THEN <<"reconcile">>
    ELSE IF file = "reconciliation" THEN <<"seal">>
    ELSE <<"done">>

Payload(p, file) ==
    IF file \in {"specimen", "specimen.sha256"} THEN mem[p].specimen
    ELSE IF file = "frozen-specimen" THEN mem[p].copy
    ELSE IF file = "model-catalog-pre" THEN mem[p].pre
    ELSE IF file = "model-catalog-post" THEN mem[p].post
    ELSE IF file = "provider-results" THEN mem[p].results
    ELSE IF file = "reconciliation" THEN mem[p].report
    ELSE mem[p].seal

(* O_CREAT | O_EXCL: the file is there, and empty, or another process has  *)
(* it already and this one raises.                                         *)
BugCreatesNothing(file) == FALSE \* open for writing, without O_EXCL
CreatesNothing(file) == disk[file] # "absent"

Create(p, file) ==
    /\ pc[p] = <<"create", file>>
    /\ IF CreatesNothing(file)
         THEN Fail(p) /\ UNCHANGED disk
         ELSE Goto(p, <<"write", file>>) /\ disk' = [disk EXCEPT ![file] = "partial"]
    /\ UNCHANGED <<world, faults, outDir, content, mem, worker>>

(* A write that raises takes the file away again. *)
Write(p, file) ==
    /\ pc[p] = <<"write", file>>
    /\ \/ /\ disk' = [disk EXCEPT ![file] = "complete"]
          /\ content' = [content EXCEPT ![file] = Payload(p, file)]
          /\ Goto(p, After(file))
          /\ NoFault
       \/ /\ disk' = [disk EXCEPT ![file] = "absent"]
          /\ Fail(p) /\ Fault
          /\ UNCHANGED content
    /\ UNCHANGED <<world, outDir, mem, worker>>

Ended(p) == pc[p][1] \in {"done", "failed", "killed"}

(* A kill leaves what is on disk, and takes the shadow worker along. *)
Kill(p) ==
    /\ ~Ended(p)
    /\ Goto(p, <<"killed">>) /\ Fault
    /\ left' = [r \in Runners |-> IF r = p THEN 0 ELSE left[r]]
    /\ UNCHANGED <<world, files, mem, provider>>

-----------------------------------------------------------------------------
(* freeze *)

CurrentCommit(p) ==
    /\ pc[p] = <<"checkout">>
    /\ IF commit = Dirty THEN Fail(p) ELSE Goto(p, <<"select", commit>>)
    /\ UNCHANGED <<world, faults, files, mem, worker>>

Select(p) ==
    /\ pc[p][1] = "select"
    /\ LET model == SelectedModel(catalog, Requested[p])
       IN    \/ /\ model # None /\ NoFault
                /\ Set(p, "specimen", <<[template |-> template, model |-> model[1],
                         model_catalog |-> catalog, model_catalog_sha256 |-> catalog,
                         source_commit |-> pc[p][2], frozen_by |-> p]>>)
                /\ Goto(p, <<"check">>)
             \/ model = None /\ Fail(p) /\ UNCHANGED mem /\ NoFault
             \/ Fail(p) /\ UNCHANGED mem /\ Fault
    /\ UNCHANGED <<world, files, worker>>

Unfrozen == disk["specimen"] = "absent" /\ disk["specimen.sha256"] = "absent"

CheckUnfrozen(p) ==
    /\ pc[p] = <<"check">>
    /\ IF Unfrozen THEN Goto(p, <<"create", "specimen">>) ELSE Fail(p)
    /\ UNCHANGED <<world, faults, files, mem, worker>>

Loadable == disk["specimen"] = "complete" /\ ValidSpecimen(content["specimen"][1])

Reload(p) ==
    /\ pc[p] = <<"reload">>
    /\ IF Loadable THEN Goto(p, <<"done">>) ELSE Fail(p)
    /\ UNCHANGED <<world, faults, files, mem, worker>>

Freeze(p) == CurrentCommit(p) \/ Select(p) \/ CheckUnfrozen(p) \/ Reload(p)

-----------------------------------------------------------------------------
(* run: up to the providers *)

(* A missing key fails the run as a specimen that cannot be loaded does. *)
Load(p) ==
    /\ pc[p] = <<"load">>
    /\ \/ Loadable /\ Set(p, "specimen", content["specimen"]) /\ Goto(p, <<"fresh">>) /\ NoFault
       \/ ~Loadable /\ Fail(p) /\ UNCHANGED mem /\ NoFault
       \/ Fail(p) /\ UNCHANGED mem /\ Fault
    /\ UNCHANGED <<world, files, worker>>

Specimen(p) == mem[p].specimen[1]
RunsOf(p)   == Specimen(p).template.runs_per_provider

CheckFresh(p) ==
    /\ pc[p] = <<"fresh">>
    /\ IF outDir THEN Fail(p) ELSE Goto(p, <<"discover">>)
    /\ UNCHANGED <<world, faults, files, mem, worker>>

SameCatalog(p) == catalog = Specimen(p).model_catalog

(* Discovery may fail: an HTTP error, a reply without one usable model. *)
Discover(p) ==
    /\ pc[p] = <<"discover">>
    /\ \/ /\ SameCatalog(p)
          /\ Set(p, "pre", <<catalog>>)
          /\ Goto(p, <<"mkdir">>) /\ NoFault
       \/ ~SameCatalog(p) /\ Fail(p) /\ UNCHANGED mem /\ NoFault
       \/ Fail(p) /\ UNCHANGED mem /\ Fault
    /\ UNCHANGED <<world, files, worker>>

Mkdir(p) ==
    /\ pc[p] = <<"mkdir">>
    /\ IF outDir THEN Fail(p) ELSE Goto(p, <<"commit">>)
    /\ outDir' = TRUE
    /\ UNCHANGED <<world, faults, disk, content, mem, worker>>

(* The commit is compared after the directory is made: a run refused here  *)
(* leaves it behind, empty.                                                *)
CheckCommit(p) ==
    /\ pc[p] = <<"commit">>
    /\ IF commit = Specimen(p).source_commit THEN Goto(p, <<"copy">>) ELSE Fail(p)
    /\ UNCHANGED <<world, faults, files, mem, worker>>

(* The specimen file is read a second time for the copy. *)
Copy(p) ==
    /\ pc[p] = <<"copy">>
    /\ IF disk["specimen"] = "complete"
         THEN Set(p, "copy", content["specimen"]) /\ Goto(p, <<"create", "frozen-specimen">>)
         ELSE Fail(p) /\ UNCHANGED mem
    /\ UNCHANGED <<world, faults, files, worker>>

Prepare(p) ==
    Load(p) \/ CheckFresh(p) \/ Discover(p) \/ Mkdir(p) \/ CheckCommit(p) \/ Copy(p)

-----------------------------------------------------------------------------
(* run: the providers *)

Dispatch(p) ==
    /\ \E n \in ProviderNames :
          /\ pc[p] = <<"dispatch", n>>
          /\ provider' = [provider EXCEPT ![p] = n]
    /\ left' = [left EXCEPT ![p] = RunsOf(p)]
    /\ Goto(p, <<"close">>)
    /\ UNCHANGED <<world, faults, files, mem>>

AllowsAlias(s) == s.model = "jev-latest"

Observed(s, outcome) ==
    Observation(s.model, AllowsAlias(s), s.template.tooLarge, s.template.state,
                s.template.questions, outcome)

(* make_jsonl_observer: one more line in the audit file of the provider. *)
Audit(n, observation) ==
    /\ content' = [content EXCEPT ![n] = Append(@, observation)]
    /\ disk' = [disk EXCEPT ![n] = "complete"]

(* The shadow worker answers one request: decide() calls the provider and  *)
(* appends its observation to the audit file, or fails to.                 *)
Answer(p) ==
    /\ left[p] > 0
    /\ left' = [left EXCEPT ![p] = @ - 1]
    /\ \E outcome \in Outcomes[provider[p]], persisted \in BOOLEAN :
         LET observation == Observed(Specimen(p), outcome)
             verdicts    == Verdicts(Specimen(p).template.questions, observation, persisted)
         IN  /\ IF persisted
                  THEN Audit(provider[p], observation) /\ NoFault
                  ELSE UNCHANGED <<content, disk>> /\ Fault
             /\ mem' = [mem EXCEPT ![p].results[provider[p]] = Append(@, verdicts)]
    /\ UNCHANGED <<world, outDir, pc, provider>>

(* dispatcher.close waits for the worker, up to its timeout.  A run it     *)
(* gives up on leaves the worker, a daemon, to what is left.               *)
AllAudited(p) == Len(content[provider[p]]) = RunsOf(p)

MayClose(p) == left[p] = 0 /\ AllAudited(p)

BugGivesUp(p) == left[p] = 0 /\ ~AllAudited(p) \* no timeout
GivesUp(p) == ~MayClose(p)

CloseDispatcher(p) ==
    /\ pc[p] = <<"close">>
    /\ \/ /\ MayClose(p)
          /\ Goto(p, IF provider[p] = Providers[1] THEN <<"dispatch", Providers[2]>>
                                                        ELSE <<"create", "provider-results">>)
       \/ GivesUp(p) /\ Fail(p)
    /\ UNCHANGED <<world, faults, files, mem, worker>>

Rediscover(p) ==
    /\ pc[p] = <<"rediscover">>
    /\ \/ /\ Models[catalog] # {}
          /\ Set(p, "post", <<catalog>>)
          /\ Goto(p, <<"create", "model-catalog-post">>) /\ NoFault
       \/ Models[catalog] = {} /\ Fail(p) /\ UNCHANGED mem /\ NoFault
       \/ Fail(p) /\ UNCHANGED mem /\ Fault
    /\ UNCHANGED <<world, files, worker>>

-----------------------------------------------------------------------------
(* run: the reconciliation and the seal *)

(* _project_decision: the bounded decision a raw value stands for. *)
Projected(q, value) ==
    CASE value = None        -> None
      [] q.kind = "choice"   -> value
      [] q.kind = "noul"     -> <<value[1] >= q.threshold[1]>>
      [] q.kind = "score"    ->
           LET level == (value[1] + 50) \div 100
           IN  <<IF level > q.levels - 1 THEN q.levels - 1 ELSE level>>

Agrees(q, a, b) == Projected(q, a) = Projected(q, b) /\ Projected(q, a) # None

(* reconcile_provider_reports, from the observations of each provider and  *)
(* the verdicts its worker returned.                                       *)
BugReconciled(s, observations, results, catalogStable) == \* the agreement alone
    IF \A i \in 1..s.template.runs_per_provider, j \in DOMAIN s.template.questions :
         LET q == s.template.questions[j]
         IN  Agrees(q, results[Providers[1]][i][q.key].value, results[Providers[2]][i][q.key].value)
    THEN "PASS" ELSE "FAIL_PROVIDER"
Reconciled(s, observations, results, catalogStable) ==
    LET a == observations[Providers[1]]
        b == observations[Providers[2]]
        runs == 1..s.template.runs_per_provider
        questions == s.template.questions
        allValid == \A i \in runs : a[i].ok /\ b[i].ok
        sameRequest == \A i \in runs : a[i].request_hash = b[i].request_hash /\ a[i].request_hash # None
        observed == Range(a) \cup Range(b)
        oneModel == /\ \A o \in observed : o.requested_model = s.model
                    /\ Cardinality({o.model : o \in observed}) = 1
        agreement == \A i \in runs, j \in DOMAIN questions :
                       Agrees(questions[j], results[Providers[1]][i][questions[j].key].value,
                                            results[Providers[2]][i][questions[j].key].value)
    IN  IF ~allValid THEN "FAIL_PROVIDER"
        ELSE IF ~sameRequest THEN "FAIL_REQUEST_DRIFT"
        ELSE IF ~oneModel THEN "FAIL_MODEL_DRIFT"
        ELSE IF ~catalogStable THEN "FAIL_MODEL_CATALOG_DRIFT"
        ELSE IF ~agreement THEN "REVIEW_DISAGREEMENT"
        ELSE "PASS"

(* The observations are those read back from the audit files. *)
Reconcile(p) ==
    /\ pc[p] = <<"reconcile">>
    /\ Set(p, "report", <<[specimen |-> Specimen(p), authority_promoted |-> FALSE,
            status |-> Reconciled(Specimen(p), [n \in ProviderNames |-> content[n]],
                                  mem[p].results,
                                  mem[p].post = <<Specimen(p).model_catalog>>)]>>)
    /\ Goto(p, <<"create", "reconciliation">>)
    /\ UNCHANGED <<world, faults, files, worker>>

(* seal_evidence hashes whatever files the directory has: the seal stands  *)
(* for their contents.                                                     *)
BugSealed(p) == \* the audit files, not being JSON, are left out
    [status |-> mem[p].report[1].status,
     files  |-> [f \in {f \in Bundle \ ProviderNames : disk[f] # "absent"} |-> content[f]]]
Sealed(p) ==
    [status |-> mem[p].report[1].status,
     files  |-> [f \in {f \in Bundle : disk[f] # "absent"} |-> content[f]]]

Seal(p) ==
    /\ pc[p] = <<"seal">>
    /\ Set(p, "seal", <<Sealed(p)>>)
    /\ Goto(p, <<"create", "seal">>)
    /\ UNCHANGED <<world, faults, files, worker>>

Run(p) ==
    \/ Prepare(p) \/ Dispatch(p) \/ CloseDispatcher(p)
    \/ Rediscover(p) \/ Reconcile(p) \/ Seal(p)

-----------------------------------------------------------------------------
(* The account and the checkout change under the processes. *)

Change ==
    /\ Fault
    /\ \/ catalog' \in Catalogs \ {catalog} /\ UNCHANGED commit
       \/ commit' \in (Commits \cup {Dirty}) \ {commit} /\ UNCHANGED catalog
    /\ UNCHANGED <<files, pc, mem, worker>>

WriteFile(p) == \E file \in Files \ ProviderNames : Create(p, file) \/ Write(p, file)

Step(p) == WriteFile(p) \/ (IF p \in Freezers THEN Freeze(p) ELSE Run(p))

Next ==
    /\ \/ \E p \in Processes : Step(p) \/ Kill(p)
       \/ \E r \in Runners : Answer(r)
       \/ Change
    /\ UNCHANGED template

Spec == Init /\ [][Next]_vars

(* While a process is alive some process goes on.  Nothing is asked of the *)
(* shadow worker: a provider may never answer, and close() then gives up.  *)
FairSpec == Spec /\ WF_vars(\E p \in Processes : Step(p) /\ UNCHANGED template)

-----------------------------------------------------------------------------
(* Properties *)

(* The types of what the processes share: a file has contents once it is   *)
(* complete, audits apart, and the evidence is under the directory.        *)
TypeOK ==
    /\ catalog \in Catalogs /\ commit \in Commits \cup {Dirty}
    /\ outDir \in BOOLEAN
    /\ disk \in [Files -> {"absent", "partial", "complete"}]
    /\ \A f \in Files : content[f] = None <=> disk[f] # "complete"
    /\ ~outDir => \A f \in Bundle \cup {"seal"} : disk[f] = "absent"
    /\ left \in [Runners -> 0..MaxRuns]

(* The hash file that a freeze leaves is the hash of the specimen that is  *)
(* there, whichever of two freezes was first and wherever one failed or    *)
(* was killed.                                                             *)
HashMatchesSpecimen ==
    disk["specimen.sha256"] = "complete" =>
        disk["specimen"] = "complete" /\ content["specimen.sha256"] = content["specimen"]

(* A file, once complete, is never written again, by whatever process and  *)
(* after whatever failure; the audit files alone grow.                     *)
Kept(f) == disk[f] = "complete" => disk'[f] = "complete" /\ content'[f] = content[f]

CreateOnly == [][\A f \in Files \ ProviderNames : Kept(f)]_vars

(* An answer that reached the results as valid is in the audit file: an    *)
(* answer whose observation was not written is worth nothing.              *)
AnswersAreAudited ==
    \A p \in Runners, n \in ProviderNames :
        \A i \in DOMAIN mem[p].results[n] :
            LET verdicts == mem[p].results[n][i]
            IN  (\E k \in DOMAIN verdicts : verdicts[k].ok) =>
                    \E j \in DOMAIN content[n] :
                        content[n][j].ok /\ content[n][j].verdicts = verdicts

(* What is sealed is all of the evidence, and stays what is on disk: no    *)
(* process, and no shadow worker of a run that gave up, writes there later.*)
SealCoversEvidence ==
    disk["seal"] = "complete" =>
        /\ content["seal"][1].files = [f \in Bundle |-> content[f]]
        /\ \A f \in Bundle : disk[f] = "complete"

(* examples/run_jev_live_001.py: the exit code of an ended `run`. *)
ExitCode(p) ==
    IF pc[p] = <<"failed">> THEN 3
    ELSE CASE mem[p].report[1].status = "PASS"              -> 0
           [] mem[p].report[1].status = "REVIEW_DISAGREEMENT" -> 2
           [] OTHER                                         -> 1

(* A run exits with 0 only over a sealed PASS, at most one run does, and   *)
(* a run that fails by an error leaves no seal of its own.                 *)
ExitCodeTruthful ==
    \A p \in Runners :
        /\ pc[p] = <<"done">> => disk["seal"] = "complete"
        /\ pc[p] = <<"done">> /\ ExitCode(p) = 0 => content["seal"][1].status = "PASS"
        /\ \A q \in Runners \ {p} : pc[p] = <<"done">> => pc[q] # <<"done">>

(* What is on disk bears out what the run said, in its results, its seal   *)
(* and its exit code.                                                      *)
EvidenceInv == TypeOK /\ AnswersAreAudited /\ SealCoversEvidence /\ ExitCodeTruthful

(* docs/jev-live-001.md, "Reconciliation", said of raw values: the side of *)
(* the threshold, the nearest level of the rubric.                         *)
Nearest(q, x) ==
    {l \in 0..(q.levels - 1) : \A k \in 0..(q.levels - 1) :
        (100 * l - x) * (100 * l - x) <= (100 * k - x) * (100 * k - x)}

MayAgree(q, x, y) ==
    CASE q.kind = "choice" -> x = y
      [] q.kind = "noul"   -> (x >= q.threshold[1]) = (y >= q.threshold[1])
      [] q.kind = "score"  -> Nearest(q, x) \cap Nearest(q, y) # {}

(* The bundle is the evidence of this specimen, and its status is the one  *)
(* the documentation gives to that evidence.                               *)
HonestBundle(s, v) ==
    LET Valid == \A n \in ProviderNames : \A i \in DOMAIN v.files[n] : v.files[n][i].ok
        Seen  == UNION {Range(v.files[n]) : n \in ProviderNames}
        Bound == /\ Cardinality({o.model : o \in Seen}) = 1
                 /\ Cardinality({o.request_hash : o \in Seen}) = 1
                 /\ v.files["model-catalog-post"] = v.files["model-catalog-pre"]
        Raw(n, i, q) == v.files[n][i].verdicts[q.key].value[1]
        Pairs == (1..s.template.runs_per_provider) \X DOMAIN s.template.questions
    IN  /\ DOMAIN v.files = Bundle
        /\ v.files["frozen-specimen"] = <<s>>
        /\ v.files["model-catalog-pre"] = <<s.model_catalog>>
        /\ v.files["reconciliation"][1].specimen = s
        /\ v.files["reconciliation"][1].status = v.status
        /\ \A n \in ProviderNames : Len(v.files[n]) = s.template.runs_per_provider
        /\ v.status = "FAIL_PROVIDER" <=> ~Valid
        /\ Valid => (Bound <=> v.status \in {"PASS", "REVIEW_DISAGREEMENT"})
        /\ v.status = "PASS" =>
             \A pair \in Pairs :
               LET q == s.template.questions[pair[2]]
               IN  MayAgree(q, Raw(Providers[1], pair[1], q), Raw(Providers[2], pair[1], q))
        /\ v.status = "REVIEW_DISAGREEMENT" =>
             \E pair \in Pairs :
               LET q == s.template.questions[pair[2]]
               IN  Raw(Providers[1], pair[1], q) # Raw(Providers[2], pair[1], q)

(* The experiment implements its record: one specimen, frozen once; one    *)
(* verdict, sealed once, about it, with the status its evidence has.       *)
Record == INSTANCE AcceptanceRecord WITH
    Honest  <- HonestBundle,
    frozen  <- IF disk["specimen"] = "complete" THEN content["specimen"] ELSE None,
    verdict <- IF disk["seal"] = "complete" THEN content["seal"] ELSE None

RecordSpec == Record!Spec

(* Every command ends, whatever the providers do: close() gives up on an   *)
(* answer that does not come.                                              *)
CommandsEnd == <>(\A p \in Processes : Ended(p))

=============================================================================
